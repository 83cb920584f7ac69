----------------------------- MODULE MCHalHints ------------------------------
(* Boards of every pattern; groups of one and of two kernels; a split into    *)
(* two and into three tasks; GPUs of one, two, three and two times three      *)
(* sub-slices.                                                                *)
EXTENDS HalHints

Space(pattern, w, h, associated) ==
    [pattern |-> pattern, w |-> w, h |-> h, associated |-> associated]

MCKernelInfo ==
    [wave |-> Space("WAVEFRONT", 4, 3, TRUE),
     wave26 |-> Space("WAVEFRONT26", 5, 3, TRUE),
     wave26z |-> Space("WAVEFRONT26Z", 4, 4, TRUE),
     rows |-> Space("HORIZONTAL", 3, 4, TRUE),
     columns |-> Space("VERTICAL", 3, 2, FALSE),
     free |-> Space("NONE", 5, 2, FALSE)]

Job(kernels, breaks, tasks) == [kernels |-> kernels, breaks |-> breaks, tasks |-> tasks]

MCJobs == {Job(<<"wave", "wave26">>, {1}, 1),
           Job(<<"wave26z", "free">>, {1}, 1),
           Job(<<"free", "rows", "columns">>, {2}, 1),
           Job(<<"columns", "wave", "rows">>, {}, 1),
           Job(<<"wave", "rows">>, {1}, 2),
           Job(<<"columns", "wave26z">>, {}, 3)}

MCGpus == {"HSW_GT1", "HSW_GT2", "SKL_GT2", "BDW_GT3"}
=============================================================================
