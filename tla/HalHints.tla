------------------------------ MODULE HalHints ------------------------------
(***************************************************************************)
(* EnqueueWithHints: the kernels of a task are put into groups that share  *)
(* the GPU, each with sub-slices of its own, and their threads are mixed   *)
(* into one batch buffer, some steps of one group after some steps of the  *)
(* next (HalCm_FinishStatesForKernelMix).  A step of a kernel is a set of  *)
(* threads that can run in parallel.  A task may be split into several,    *)
(* which go on where the one before stopped: the HAL keeps the place in    *)
(* pState->HintIndexes, which belongs to no task.                          *)
(*                                                                         *)
(* With Careful the callers keep the rules that takes: one call at a time, *)
(* none fails between two tasks of a split, an AssociateThread that        *)
(* changes no mask is left out, and the levelling of the sub-slices leaves *)
(* one to every group (it may take a group's last one, which the code then *)
(* divides by).  The jobs of a model keep to more: jobs of the same        *)
(* kernels have the same hints, one of the kernels has a pattern, the      *)
(* steps of a WAVEFRONT26 make up its board (wide enough), no kernel but   *)
(* the first runs out of threads before the last task of a split.          *)
(***************************************************************************)
EXTENDS DispatchOrder

CONSTANTS
    KernelInfo,    \* kernel |-> its thread space: pattern, w, h, associated
    Jobs,          \* [kernels, breaks, tasks]: kernel i + 1 starts a group
                   \* for i in breaks; the job is split into tasks
    Callers,
    Gpus,          \* names in PlatformInfo
    ThreadsPerSubSlice,  \* EUs times threads per EU: scaled to small boards
    MaxCalls,      \* bound: calls of EnqueueWithHints and AssociateThread
    Careful        \* the callers keep the rules above

MaxKernels == 4    \* CM_MAX_TASKS_EU_SATURATION, the size of HintIndexes

ASSUME HalHintsAssumption ==
    /\ \A k \in DOMAIN KernelInfo : KernelInfo[k].w >= 1 /\ KernelInfo[k].h >= 1
    /\ \A j \in Jobs : /\ Len(j.kernels) \in 1 .. MaxKernels
                       /\ j.breaks \subseteq 1 .. Len(j.kernels) - 1
                       /\ j.tasks \in 1 .. 7
    /\ ThreadsPerSubSlice \in Nat /\ ThreadsPerSubSlice >= 1
    /\ MaxCalls \in Nat /\ Careful \in BOOLEAN

----------------------------------------------------------------------------
(***************************************************************************)
(* The thread spaces.                                                      *)
(***************************************************************************)
\* The vectors of a pattern, in the order of the bits of a mask.
VectorsOf(pattern) ==
    CASE pattern = "WAVEFRONT" -> <<<<-1, 0>>, <<-1, -1>>, <<0, -1>>>>
      [] pattern = "WAVEFRONT26" -> <<<<-1, 0>>, <<-1, -1>>, <<0, -1>>, <<1, -1>>>>
      [] pattern = "WAVEFRONT26Z" ->
           <<<<-1, 1>>, <<-1, 0>>, <<-1, -1>>, <<0, -1>>, <<1, -1>>>>
      [] pattern = "HORIZONTAL" -> <<<<0, -1>>>>
      [] pattern = "VERTICAL" -> <<<<-1, 0>>>>
      [] OTHER -> <<>>

Threads(k) == KernelInfo[k].w * KernelInfo[k].h

\* pThreadCoordinates of an associated thread space, in the order of its
\* board; the others go by rows.
BoardOrder(i) ==
    CASE ~ i.associated -> Raster(i.w, i.h)
      [] i.pattern = "WAVEFRONT" -> Wavefront45Sequence(i.w, i.h)
      [] i.pattern = "WAVEFRONT26" -> Wavefront26Sequence(i.w, i.h)
      [] i.pattern = "WAVEFRONT26Z" -> Wavefront26ZSequence(i.w, i.h).order
      [] i.pattern = "VERTICAL" -> VerticalSequence(i.w, i.h)
      [] OTHER -> HorizentalSequence(i.w, i.h)

\* With "some", AssociateThread gave every thread some of the vectors.
MaskBits(mask, c, n) ==
    IF mask = "all" THEN 1 .. n ELSE {v \in 1 .. n : (c[1] + v) % 2 = 0}

----------------------------------------------------------------------------
(***************************************************************************)
(* Steps of a kernel and groups of kernels.                                *)
(***************************************************************************)
MinOf(a, b) == IF a <= b THEN a ELSE b

Parallelism(i) ==
    CASE i.pattern = "NONE" -> i.w * i.h
      [] i.pattern = "WAVEFRONT" -> MinOf(i.w, i.h)
      [] i.pattern = "WAVEFRONT26" -> MinOf((i.w + 1) \div 2, i.h)
      [] i.pattern = "VERTICAL" -> i.h
      [] i.pattern = "HORIZONTAL" -> i.w
      [] i.pattern = "WAVEFRONT26Z" -> MinOf((i.w - 1) \div 2, i.h)

\* HalCm_GetParallelGraphInfo: how often a step of the widest size is repeated.
MaxRepeat(i) ==
    LET m == Parallelism(i) IN
      CASE i.pattern = "VERTICAL" -> i.w
        [] i.pattern = "HORIZONTAL" -> i.h
        [] i.pattern = "WAVEFRONT" -> (i.w * i.h - (m - 1) * m) \div m
        [] i.pattern = "WAVEFRONT26" -> (i.w * i.h - (m - 1) * m * 2) \div m

\* HalCm_SetDispatchPattern: the threads of each step.
Frequencies(i) ==
    LET m == Parallelism(i)
        Widest == [n \in 1 .. MaxRepeat(i) |-> m]
        Up(times) == [n \in 1 .. (m - 1) * times |-> Ceil(n, times)]
    IN CASE i.pattern = "NONE" -> <<>>
         [] i.pattern = "WAVEFRONT26Z" -> Wavefront26ZSequence(i.w, i.h).waves
         [] i.pattern \in {"HORIZONTAL", "VERTICAL"} -> Widest
         [] i.pattern = "WAVEFRONT" -> Up(1) \o Widest \o Reverse(Up(1))
         [] i.pattern = "WAVEFRONT26" -> Up(2) \o Widest \o Reverse(Up(2))

\* The rest of a division goes to the first step.
HalCm_SetNoDependKernelDispatchPattern(n, steps) ==
    [s \in 1 .. steps |-> (n \div steps) + IF s = 1 THEN n % steps ELSE 0]

Groups(job) == 1 .. Cardinality(job.breaks) + 1
GroupOf(job, k) == Cardinality({i \in job.breaks : i < k}) + 1
Members(job, g) == {k \in DOMAIN job.kernels : GroupOf(job, k) = g}
Info(job, k) == KernelInfo[job.kernels[k]]

\* A kernel without a pattern is spread over the steps of a round of its group.
FreeKernelAdded(job, minSteps, plan, k) ==
    LET g == GroupOf(job, k)
        steps == IF plan.rounds[g] = 0 THEN minSteps ELSE minSteps * plan.rounds[g]
    IN IF Info(job, k).pattern # "NONE" THEN plan
       ELSE [freq |-> [plan.freq EXCEPT ![k] =
                         HalCm_SetNoDependKernelDispatchPattern(
                           Threads(job.kernels[k]), steps)],
             rounds |-> [plan.rounds EXCEPT ![g] = IF @ = 0 THEN 1 ELSE 2 * @]]

\* HalCm_SetKernelGrpFreqDispatch: the steps of a group each time it is served.
DispatchPlan(job) ==
    LET StepsOf(g) == FoldSet(LAMBDA k, n : n + Len(Frequencies(Info(job, k))),
                              0, Members(job, g))
        stepped == {StepsOf(g) : g \in Groups(job)} \ {0}
        minSteps == CHOOSE n \in stepped : \A m \in stepped : n <= m
    IN FoldLeft(LAMBDA plan, k : FreeKernelAdded(job, minSteps, plan, k),
                [freq |-> [k \in DOMAIN job.kernels |-> Frequencies(Info(job, k))],
                 rounds |-> [g \in Groups(job) |-> Ceil(StepsOf(g), minSteps)]],
                [k \in DOMAIN job.kernels |-> k])

----------------------------------------------------------------------------
(***************************************************************************)
(* Sub-slices: <<number of slices, number of sub-slices>> of a GPU.  A     *)
(* request for a single slice makes a GT3 or GT4 a GT2.                    *)
(***************************************************************************)
PlatformInfo ==
    [HSW_GT1 |-> <<1, 1>>, HSW_GT2 |-> <<1, 2>>, HSW_GT3 |-> <<2, 4>>,
     BDW_GT1 |-> <<1, 2>>, BDW_GT2 |-> <<1, 3>>, BDW_GT3 |-> <<2, 6>>,
     CHV |-> <<1, 2>>, BXT_A |-> <<1, 3>>, BXT_C |-> <<1, 2>>,
     SKL_GT1 |-> <<1, 2>>, SKL_GT1_5 |-> <<1, 3>>, SKL_GT2 |-> <<1, 3>>,
     SKL_GT3 |-> <<2, 6>>, SKL_GT4 |-> <<3, 9>>]

\* Only this GPU is not divided.
SingleSubSlice(gpu) == gpu = "HSW_GT1"

\* Sub-slices count from 1 before Gen8.
AllSubSlices(gpu) ==
    LET slices == PlatformInfo[gpu][1]
        perSlice == PlatformInfo[gpu][2] \div slices
        first == IF gpu \in {"HSW_GT1", "HSW_GT2", "HSW_GT3"} THEN 1 ELSE 0
    IN [n \in 1 .. slices * perSlice |->
          <<(n - 1) \div perSlice, first + ((n - 1) % perSlice)>>]

Required(job, g, total) ==
    LET need == {LET n == Parallelism(Info(job, k)) \div ThreadsPerSubSlice + 1
                 IN IF n > total THEN total - 1 ELSE n : k \in Members(job, g)}
    IN CHOOSE n \in need : \A m \in need : m <= n

Levelled(job, total) ==
    LET n == Cardinality(Groups(job))
        sum == FoldSet(LAMBDA g, s : s + Required(job, g, total), 0, Groups(job))
        Share(d, turn) == (d \div n) + IF turn <= d % n THEN 1 ELSE 0
    IN [g \in Groups(job) |->
          IF sum <= total THEN Required(job, g, total) + Share(total - sum, g)
          ELSE Required(job, g, total) - Share(sum - total, n - g + 1)]

Destinations(job, gpu) ==
    LET all == AllSubSlices(gpu)
        size == Levelled(job, Len(all))
        Start(g) == FoldSet(LAMBDA f, s : s + size[f], 0, 1 .. g - 1)
    IN [g \in Groups(job) |-> SubSeq(all, Start(g) + 1, Start(g) + size[g])]

----------------------------------------------------------------------------
(***************************************************************************)
(* The scoreboard: one list of vectors for the task, the union of those of *)
(* its kernels.                                                            *)
(***************************************************************************)
TaskVectors(job) ==
    FoldLeft(LAMBDA all, v : IF Contains(all, v) THEN all ELSE Append(all, v), <<>>,
             FlattenSeq([k \in DOMAIN job.kernels |-> VectorsOf(Info(job, k).pattern)]))

\* pDependRemap: the place of a kernel's vector in the list of the task.
MutRemap(job, k, v) == v

Remap(job, k, v) ==
    CHOOSE n \in DOMAIN TaskVectors(job) :
      TaskVectors(job)[n] = VectorsOf(Info(job, k).pattern)[v]

\* The vectors of the task a thread of kernel k at c waits for.  The boards of
\* the kernels lie one below the other: a thread of the first row does not
\* look up, into the board before, nor one of the last row down.
ScoreboardMask(job, k, c, mask) ==
    LET own == {Remap(job, k, v) : v \in MaskBits(mask, c, Len(VectorsOf(Info(job, k).pattern)))}
        Dy(n) == TaskVectors(job)[n][2]
    IN {n \in own : /\ k > 1 /\ c[2] = 0 => Dy(n) >= 0
                    /\ k < Len(job.kernels) /\ c[2] = Info(job, k).h - 1 => Dy(n) <= 0}

StackHeight(job, k) == FoldSet(LAMBDA j, s : s + Info(job, j).h, 0, 1 .. k - 1)

----------------------------------------------------------------------------
VARIABLES
    gpu,
    masks, reset,  \* per kernel: its thread masks, and whether they changed
                   \* since its threads were associated (resetMask)
    at,            \* per caller: its call of EnqueueWithHints
    mix,           \* the loop of the task that is executed
    hint,          \* pState->HintIndexes: per kernel of a task the next
                   \* thread, and the step it belongs to
    buffers,       \* batch buffers by the kernel ids they are found by
    calls          \* bound

vars == <<gpu, masks, reset, at, mix, hint, buffers, calls>>

Zero == [k \in 1 .. MaxKernels |-> 0]
NoHint == [thread |-> Zero, step |-> Zero]
Idle == [status |-> "idle"]

Init ==
    /\ gpu \in Gpus
    /\ masks = [k \in DOMAIN KernelInfo |-> "all"]
    /\ reset = [k \in DOMAIN KernelInfo |-> FALSE]
    /\ at = [c \in Callers |-> Idle]
    /\ mix = Idle
    /\ hint = NoHint
    /\ buffers = <<>>
    /\ calls = 0

----------------------------------------------------------------------------
(***************************************************************************)
(* The loop of HalCm_FinishStatesForKernelMix, one thread a step; the task *)
(* holds the lock of the queue until it is over.  Its state: cur and       *)
(* group, what is dispatched now; turn counts the groups served; inStep    *)
(* and steps count what was dispatched since; first is the kernel of a     *)
(* group that is next (pRemapGrpToKrn); used counts the threads of a       *)
(* group; left is what the task has to dispatch.  What is computed before  *)
(* the loop: freq and rounds, to, and the coordinates of the kernels.      *)
(***************************************************************************)
Start(c, job, n) ==
    [status |-> "mixing", caller |-> c, left |-> n,
     plan |-> IF SingleSubSlice(gpu) THEN <<>> ELSE DispatchPlan(job),
     to |-> IF SingleSubSlice(gpu) THEN <<>> ELSE Destinations(job, gpu),
     order |-> [k \in DOMAIN job.kernels |-> BoardOrder(Info(job, k))],
     cur |-> 1, group |-> 1, turn |-> 0, inStep |-> 0, steps |-> 0,
     thread |-> hint.thread, step |-> hint.step, out |-> <<>>,
     finished |-> [g \in Groups(job) |-> 0], used |-> [g \in Groups(job) |-> 0],
     first |-> [g \in Groups(job) |-> CHOOSE k \in Members(job, g) :
                                        \A l \in Members(job, g) : k <= l]]

HasThreads(job, s, k) == s.thread[k] < Threads(job.kernels[k])
IsFinished(job, s, g) == s.finished[g] >= Cardinality(Members(job, g))

StepIsOver(job, s) ==
    LET freq == s.plan.freq[s.cur] IN
      \/ ~ HasThreads(job, s, s.cur)
      \/ s.step[s.cur] < Len(freq) /\ freq[s.step[s.cur] + 1] = s.inStep

MutStepEnded(job, s) ==
    LET g == GroupOf(job, s.cur)
        t == [s EXCEPT !.inStep = 0, !.steps = @ + 1, !.step[s.cur] = @ + 1]
    IN IF HasThreads(job, s, s.cur) THEN t ELSE [t EXCEPT !.finished[g] = @ + 1]

\* The next step; a kernel without threads is finished, and its group goes on
\* with its next kernel.
StepEnded(job, s) ==
    LET g == GroupOf(job, s.cur)
        ended == ~ HasThreads(job, s, s.cur)
        t == [s EXCEPT !.inStep = 0, !.steps = @ + 1, !.step[s.cur] = @ + 1]
        f == [t EXCEPT !.finished[g] = @ + 1]
    IN IF ~ ended THEN t
       ELSE IF IsFinished(job, f, g) THEN f ELSE [f EXCEPT !.first[s.group] = @ + 1]

\* The group after this one, or the first one after it with a kernel that has
\* threads left.
GroupServed(job, s) ==
    LET n == Cardinality(Groups(job))
        At(turn) == 1 + (turn % n)
        skipped == {d \in 1 .. n : HasThreads(job, s, s.first[At(s.turn + 1 + d)])}
        Serve(turn) == [s EXCEPT !.steps = 0, !.turn = turn, !.group = At(turn),
                                 !.cur = s.first[At(turn)]]
    IN IF ~ IsFinished(job, s, At(s.turn + 1)) THEN Serve(s.turn + 1)
       ELSE IF skipped = {} THEN [s EXCEPT !.status = "no kernel"]
       ELSE Serve(s.turn + 1 + (CHOOSE d \in skipped : \A e \in skipped : d <= e))

KernelChosen(job, s) ==
    IF SingleSubSlice(gpu)
    THEN IF HasThreads(job, s, s.cur) THEN s ELSE [s EXCEPT !.cur = @ + 1]
    ELSE IF ~ StepIsOver(job, s) THEN s
    ELSE LET t == StepEnded(job, s) IN
           IF s.plan.rounds[GroupOf(job, s.cur)] = t.steps
              \/ ~ HasThreads(job, s, s.cur)
           THEN GroupServed(job, t) ELSE t

\* Past the board the code reads what follows it; by rows is one outcome.
Coordinates(job, k, i) ==
    IF i < Threads(job.kernels[k]) THEN mix.order[k][i + 1]
    ELSE <<i % Info(job, k).w, i \div Info(job, k).w>>

ThreadMask(job, k, c) ==
    ScoreboardMask(job, k, c,
                   IF Info(job, k).associated THEN masks[job.kernels[k]] ELSE "all")

\* One media object.  step is for the properties.
Dispatched(job, s) ==
    LET k == s.cur
        g == GroupOf(job, k)
        c == Coordinates(job, k, s.thread[k])
        to == s.to[g]
    IN [s EXCEPT !.out = Append(@,
            [kernel |-> k, index |-> s.thread[k], step |-> s.step[k],
             at |-> Plus(c, <<0, StackHeight(job, k)>>),
             mask |-> ThreadMask(job, k, c),
             to |-> IF SingleSubSlice(gpu) THEN <<>>
                    ELSE to[1 + (s.used[g] % Len(to))]]),
          !.thread[k] = @ + 1, !.inStep = @ + 1, !.used[g] = @ + 1]

MixThread ==
    /\ mix.status = "mixing" /\ mix.left > 0
    /\ LET job == at[mix.caller].job IN
         \E s \in {KernelChosen(job, mix)} :
           mix' = IF s.status = "no kernel" THEN s
                  ELSE [Dispatched(job, s) EXCEPT !.left = @ - 1]
    /\ UNCHANGED <<gpu, masks, reset, at, hint, buffers, calls>>

AllThreads(job) ==
    FoldSet(LAMBDA k, s : s + Threads(job.kernels[k]), 0, DOMAIN job.kernels)

\* The last task takes the rest of the division.
TaskThreads(job, n) ==
    (AllThreads(job) \div job.tasks)
      + IF n = job.tasks THEN AllThreads(job) % job.tasks ELSE 0

\* A reused buffer keeps its media objects and gets new masks where they
\* changed.
Refilled(job, old, out) ==
    [i \in DOMAIN out |->
       IF reset[job.kernels[out[i].kernel]]
       THEN [old[i] EXCEPT !.mask = out[i].mask] ELSE old[i]]

----------------------------------------------------------------------------
(***************************************************************************)
(* The calls.                                                              *)
(***************************************************************************)
Busy(c) == at[c].status = "running"

EveryGroupServed(job) ==
    \A g \in Groups(job) : Levelled(job, PlatformInfo[gpu][2])[g] >= 1

EnqueueWithHints(c, job) ==
    /\ calls < MaxCalls /\ calls' = calls + 1
    /\ ~ Busy(c)
    /\ Careful => (\A d \in Callers : ~ Busy(d)) /\ EveryGroupServed(job)
    /\ at' = [at EXCEPT ![c] = [status |-> "running", job |-> job, done |-> 0, batch |-> <<>>]]
    /\ UNCHANGED <<gpu, masks, reset, mix, hint, buffers>>

\* The kernel ids with the tag of the task of a split (HalCm_AddKernelIDTag).
Key(job, n) == <<job.kernels, job.tasks, n>>

\* HalCm_ExecuteHintsTask of the caller's next task, up to the loop.
ExecuteHintsTask(c) ==
    /\ Busy(c) /\ mix = Idle
    /\ mix' = Start(c, at[c].job, TaskThreads(at[c].job, at[c].done + 1))
    /\ UNCHANGED <<gpu, masks, reset, at, hint, buffers, calls>>

\* After the loop.  A call that fails leaves the HintIndexes where they are,
\* and the buffer with its ids.
EndTask ==
    LET c == mix.caller
        job == at[c].job
        key == Key(job, at[c].done + 1)
        found == mix.status = "mixing"
        isLast == at[c].done + 1 = job.tasks
        leftOut == isLast /\ \E k \in DOMAIN job.kernels : HasThreads(job, mix, k)
    IN /\ mix.status = "no kernel" \/ (mix.status = "mixing" /\ mix.left = 0)
       /\ \E reuse \in {FALSE} \cup (IF found /\ key \in DOMAIN buffers THEN {TRUE} ELSE {}) :
            \E out \in {IF reuse THEN Refilled(job, buffers[key], mix.out) ELSE mix.out} :
              /\ buffers' = [x \in DOMAIN buffers \cup {key} |->
                                IF x = key THEN out ELSE buffers[x]]
              /\ at' = [at EXCEPT ![c].done = @ + 1, ![c].batch = @ \o out,
                                  ![c].status = CASE ~ found -> "no kernel"
                                                  [] found /\ leftOut -> "threads left out"
                                                  [] found /\ ~ leftOut /\ isLast -> "done"
                                                  [] OTHER -> "running"]
       /\ hint' = IF found /\ isLast /\ ~ leftOut THEN NoHint
                  ELSE [thread |-> mix.thread, step |-> mix.step]
       /\ mix' = Idle
       /\ UNCHANGED <<gpu, masks, reset, calls>>

\* A task that fails before its threads are mixed: no media state, no batch
\* buffer, too many threads (HalCm_ParseHintsTask).
RefuseTask(c) ==
    /\ Busy(c) /\ mix = Idle
    /\ Careful => at[c].done = 0
    /\ at' = [at EXCEPT ![c].status = "refused"]
    /\ UNCHANGED <<gpu, masks, reset, mix, hint, buffers, calls>>

\* AssociateThreadWithMask for all threads of a kernel.
AssociateThread(k, mask) ==
    /\ KernelInfo[k].associated
    /\ Careful => mask # masks[k] /\ \A c \in Callers : ~ Busy(c)
    /\ calls < MaxCalls /\ calls' = calls + 1
    /\ masks' = [masks EXCEPT ![k] = mask]
    /\ reset' = [reset EXCEPT ![k] = mask # masks[k]]
    /\ UNCHANGED <<gpu, at, mix, hint, buffers>>

Next ==
    \/ \E c \in Callers :
         \/ \E job \in Jobs : EnqueueWithHints(c, job)
         \/ ExecuteHintsTask(c)
         \/ RefuseTask(c)
    \/ MixThread
    \/ EndTask
    \/ \E k \in DOMAIN KernelInfo, mask \in {"all", "some"} : AssociateThread(k, mask)

Spec == Init /\ [][Next]_vars

----------------------------------------------------------------------------
(***************************************************************************)
(* Properties.                                                             *)
(***************************************************************************)
\* However the kernels are grouped, mixed and split, no task runs out of
\* kernels or leaves threads out, and the media objects of a call are each
\* thread of each kernel once, in the order of its board.
EachThreadOnce ==
    \A c \in Callers :
      /\ at[c].status \notin {"no kernel", "threads left out"}
      /\ at[c].status = "done" =>
           \A k \in DOMAIN at[c].job.kernels :
             LET own == SelectSeq(at[c].batch, LAMBDA o : o.kernel = k) IN
               /\ Len(own) = Threads(at[c].job.kernels[k])
               /\ \A i \in DOMAIN own : own[i].index = i - 1

\* Where a thread looks on the scoreboard of the task.
WaitsFor(job, o) == {Plus(o.at, TaskVectors(job)[n]) : n \in o.mask}

StackedBoard(job, k) == {Plus(c, <<0, StackHeight(job, k)>>) : c \in Board(Info(job, k).w, Info(job, k).h)}

\* The neighbours its own pattern and its mask give a thread.
OwnNeighbours(job, o) ==
    LET k == o.kernel
        vs == VectorsOf(Info(job, k).pattern)
        c == <<o.at[1], o.at[2] - StackHeight(job, k)>>
        mask == IF Info(job, k).associated THEN masks[job.kernels[k]] ELSE "all"
    IN {Plus(o.at, vs[v]) : v \in MaskBits(mask, c, Len(vs))} \cap StackedBoard(job, k)

\* A thread waits for the neighbours its own kernel gives it, with the masks
\* it has now, and for no thread of another kernel, although the kernels share
\* one list of vectors and one scoreboard, and buffers are reused.
WaitsForItsOwnNeighbours ==
    [][EndTask /\ mix.status = "mixing" =>
         LET c == mix.caller
             job == at[c].job
         IN \A i \in Len(at[c].batch) + 1 .. Len(at'[c].batch) :
              LET o == at'[c].batch[i] IN
                WaitsFor(job, o) \cap UNION {StackedBoard(job, k) : k \in DOMAIN job.kernels}
                  = OwnNeighbours(job, o)]_vars

\* The threads of a step of an associated kernel do not wait for each other: a
\* call that is not split keeps a group's sub-slices busy.
StepsAreIndependent ==
    ~ SingleSubSlice(gpu) =>
      \A c \in Callers : at[c].status = "done" /\ at[c].job.tasks = 1 =>
        \A o, p \in Range(at[c].batch) :
          o.kernel = p.kernel /\ o.step = p.step /\ Info(at[c].job, o.kernel).associated =>
            LET v == <<p.at[1] - o.at[1], p.at[2] - o.at[2]>>
            IN v \notin Range(VectorsOf(Info(at[c].job, o.kernel).pattern))

\* A call has each thread dispatched once, in a step with none it depends on.
EachThreadInItsStep == EachThreadOnce /\ StepsAreIndependent
=============================================================================
