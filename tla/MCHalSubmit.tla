----------------------------- MODULE MCHalSubmit -----------------------------
EXTENDS HalSubmit

Surface2D(format, w, h) == [kind |-> "2D", format |-> format, width |-> w, height |-> h]

\* An NV12 surface, four of one plane, and a buffer of user memory.
MCSurfaceInfo ==
    [nv12 |-> Surface2D("NV12", 8, 4),
     luma |-> Surface2D("L8", 8, 4),
     yuy2 |-> Surface2D("YUY2", 4, 3),
     argb |-> Surface2D("A8R8G8B8", 4, 4),
     mono |-> Surface2D("L8", 16, 4),
     bufferUP |-> [kind |-> "buffer", format |-> "none", width |-> 64, height |-> 1]]

MCBuffers == {"bbThreads", "bbMixed", "bbMost"}

MCResources ==
    DOMAIN MCSurfaceInfo \cup {"GSH", "Ts"} \cup MCBuffers

Common(s) == [surfaces |-> <<s>>, perThread |-> FALSE]
PerThread(ss) == [surfaces |-> ss, perThread |-> TRUE]

Plain0 ==
    [args |-> <<>>, indirect |-> <<>>, globals |-> <<>>, curbe |-> FALSE, own |-> FALSE,
     coordinates |-> FALSE, pattern |-> "NONE", info |-> <<>>, vectors |-> <<>>,
     threads |-> 2]

Job(kernels) ==
    [kernels |-> kernels, group |-> FALSE, sync |-> [k \in DOMAIN kernels |-> TRUE],
     vectors |-> <<>>, pattern |-> "NONE"]

Left == <<-1, 0>>
Up == <<0, -1>>
Diagonal == <<-1, -1>>

\* threads: media objects with an argument per thread.  mixed: CURBE and per-thread
\* arguments.  walk: two kernels with their own dependencies, an indirect surface in
\* the way of two planes.  group: a thread group with a global surface.  most and big
\* ask for an allocation too many, for the command buffer, and a surface state; the
\* commands of long have no room.
MCJobs ==
    [threads |->
        [Job(<<[Plain0 EXCEPT !.args = <<Common("luma"),
                                         PerThread(<<"nv12", "bufferUP">>)>>]>>)
            EXCEPT !.pattern = "WAVEFRONT"],
     mixed |->
        Job(<<[Plain0 EXCEPT !.curbe = TRUE,
                  !.args = <<PerThread(<<"yuy2", "null">>),
                             PerThread(<<"luma", "nv12">>), Common("yuy2")>>]>>),
     walk |->
        Job(<<[Plain0 EXCEPT !.curbe = TRUE, !.own = TRUE, !.pattern = "VERTICAL",
                  !.indirect = <<[surface |-> "luma", index |-> 9]>>,
                  !.info = <<Left, Diagonal>>, !.args = <<Common("nv12")>>],
              [Plain0 EXCEPT !.curbe = TRUE, !.own = TRUE, !.info = <<Left>>,
                  !.vectors = <<Up, Left>>, !.args = <<Common("null"), Common("nv12")>>]>>),
     group |->
        [Job(<<[Plain0 EXCEPT !.curbe = TRUE, !.args = <<Common("luma")>>,
                   !.indirect = <<[surface |-> "yuy2", index |-> 40]>>],
               [Plain0 EXCEPT !.curbe = TRUE, !.globals = <<"null", "bufferUP">>,
                   !.args = <<Common("nv12")>>]>>)
            EXCEPT !.group = TRUE],
     most |-> Job(<<[Plain0 EXCEPT !.threads = 1,
                        !.args = <<Common("luma"), Common("yuy2"), Common("argb"),
                                   Common("mono")>>]>>),
     big |-> Job(<<[Plain0 EXCEPT !.curbe = TRUE,
                       !.args = <<Common("nv12"), Common("yuy2")>>],
                   [Plain0 EXCEPT !.curbe = TRUE,
                       !.args = <<Common("luma"), Common("nv12")>>]>>),
     long |-> Job([k \in 1 .. 6 |-> Plain0])]

MCBatchBuffer ==
    [t \in DOMAIN MCJobs |->
        CASE t = "threads" -> "bbThreads" [] t = "mixed" -> "bbMixed"
          [] OTHER -> "bbMost"]

MCBufferUPs == <<"bufferUP">>

MCSymmetry == Permutations(CmdBos)

MCMachines ==
    {[gen |-> 75, sysRoutine |-> TRUE], [gen |-> 8, sysRoutine |-> FALSE],
     [gen |-> 9, sysRoutine |-> TRUE]}
==============================================================================
