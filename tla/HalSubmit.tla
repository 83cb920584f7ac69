------------------------------- MODULE HalSubmit -------------------------------
(***************************************************************************)
(* From a task's kernels to a command buffer the GPU executes: the         *)
(* HalCm_ExecuteTask, HalCm_ExecuteGroupTask and HalCm_SubmitCommands_g*   *)
(* of the HAL, over the OS interface, the surface state heap and the       *)
(* commands of the modules it extends.                                     *)
(*                                                                         *)
(* The queue calls the HAL for one task at a time; the GPU executes what   *)
(* was submitted while the HAL prepares the next task.  call is the call   *)
(* in progress and names the step it does next.                            *)
(***************************************************************************)
EXTENDS HwCommands

CONSTANTS
    Jobs,          \* a name -> the task: kernels, group space or not, syncs, ...
    BatchBuffer,   \* a name -> the resource its batch buffer has
    BufferUPs,     \* the buffers of user memory, in the order of their table
    Machines,      \* records of gen and sysRoutine: what the program may run on
    MaxTag         \* bound: sync tags

ASSUME SubmitAssumption ==
    /\ DOMAIN BatchBuffer = DOMAIN Jobs
    /\ \A t \in DOMAIN Jobs : BatchBuffer[t] \in Resources
    /\ Machines \subseteq [gen : Gens, sysRoutine : BOOLEAN]
    /\ MaxTag \in Nat

VARIABLES
    heap,        \* the surface state heap and its settings
    call,        \* the HAL's call in progress
    hw,          \* the machine
    scoreboard,  \* ScoreboardParams: dependency vectors, kept between tasks
    nextTag,     \* dwNextTag
    osData,      \* command bos that events hold until they see their task's end
    buffers      \* batch buffers: payloads of the kernels, complete or not

vars == <<os, running, heap, call, hw, scoreboard, nextTag, osData, buffers>>

Idling == [at |-> "idle"]

Init ==
    /\ OsInit
    /\ heap = InitHeap
    /\ call = Idling
    /\ hw \in Machines
    /\ scoreboard = <<>>
    /\ nextTag = 1
    /\ osData = {}
    /\ buffers = [t \in {} |-> 0]

Kernels(t) == Jobs[t].kernels

-----------------------------------------------------------------------------
(***************************************************************************)
(* HalCm_ParseTask.                                                        *)
(***************************************************************************)
\* Without a payload in the threads, and with no list of coordinates to follow, a
\* kernel's threads come from the walker; a task's do if all of its kernels' do.
InCurbe(kernel, a) == kernel.curbe /\ ~kernel.args[a].perThread

WalkerCapable(kernel) ==
    /\ \A a \in DOMAIN kernel.args : InCurbe(kernel, a)
    /\ ~kernel.coordinates
    /\ kernel.own => kernel.pattern \notin {"WAVEFRONT26Z", "WAVEFRONT26ZI"}

Walks(t) ==
    /\ ~Jobs[t].group
    /\ \A k \in DOMAIN Kernels(t) : WalkerCapable(Kernels(t)[k])

HasBatchBuffer(t) == ~Jobs[t].group /\ ~Walks(t)

ArgSurface(kernel, a, thread) ==
    kernel.args[a].surfaces[IF kernel.args[a].perThread THEN thread ELSE 1]

ArgSurfaces(kernel) ==
    UNION {ToSet(kernel.args[a].surfaces) : a \in DOMAIN kernel.args} \ {NullSurface}

IndirectSurfaces(kernel) ==
    {kernel.indirect[i].surface : i \in DOMAIN kernel.indirect}

\* CollectKernelSurface.
KernelSurfaces(kernel) ==
    (ArgSurfaces(kernel) \cup ToSet(kernel.globals) \cup IndirectSurfaces(kernel))
        \ {NullSurface}

\* What CalculateKernelSurfacesNum and the indirect surfaces ask of a table.
Needs(kernel) ==
    LET planes == MapThenSumSet(NumPlanes, KernelSurfaces(kernel))
    IN  Max({Len(kernel.indirect) + Max({1, planes})}
            \cup {kernel.indirect[i].index : i \in DOMAIN kernel.indirect})

SurfacePerBT(gen, t) ==
    LET need == Max({Needs(Kernels(t)[k]) : k \in DOMAIN Kernels(t)})
                    + GeneralStart(gen)
        globals == \E k \in DOMAIN Kernels(t) : Kernels(t)[k].globals # <<>>
    IN  IF (globals /\ gen # 9) \/ need > MaxSurfacesPerBT
        THEN MaxSurfacesPerBT ELSE need

HasDependencies(kernel) == kernel.info # <<>> \/ kernel.vectors # <<>>

Vectors(kernel) == IF kernel.vectors # <<>> THEN kernel.vectors ELSE kernel.info

\* The first kernel with dependencies gives its dependencyInfo; of a later one the
\* vectors that are not there yet are appended.
MutMerge(union, kernel) ==
    IF HasDependencies(kernel) THEN Vectors(kernel) ELSE union

Merge(union, kernel) ==
    IF ~HasDependencies(kernel) THEN union
    ELSE IF union = <<>> THEN kernel.info
    ELSE union \o SelectSeq(Vectors(kernel), LAMBDA v : v \notin ToSet(union))

PatternVectors ==
    [NONE |-> <<>>,
     VERTICAL |-> << <<-1, 0>> >>,
     HORIZONTAL |-> << <<0, -1>> >>,
     WAVEFRONT |-> << <<-1, 0>>, <<-1, -1>>, <<0, -1>> >>,
     WAVEFRONT26 |-> << <<-1, 0>>, <<-1, -1>>, <<0, -1>>, <<1, -1>> >>,
     WAVEFRONT26Z |->
        << <<-1, 1>>, <<-1, 0>>, <<-1, -1>>, <<0, -1>>, <<1, -1>> >>,
     WAVEFRONT26ZI |->
        << <<-1, 1>>, <<-2, 0>>, <<-1, 0>>, <<-1, -1>>, <<0, -1>>, <<1, -1>>,
           <<1, 0>> >>]

OfTask(job) == IF job.vectors # <<>> THEN job.vectors ELSE PatternVectors[job.pattern]

ScoreboardOf(job) ==
    LET union == FoldLeft(Merge, <<>>, job.kernels)
    IN  IF union = <<>> THEN OfTask(job) ELSE union

-----------------------------------------------------------------------------
(***************************************************************************)
(* The surfaces of a kernel in the order they are bound.                   *)
(***************************************************************************)
Surface(kind, s, where) == [kind |-> kind, s |-> s, where |-> where]

OfCurbe(kernel) ==
    LET inCurbe == SelectSeq([a \in DOMAIN kernel.args |-> a],
                             LAMBDA a : InCurbe(kernel, a))
    IN  [i \in DOMAIN inCurbe |->
            Surface("argument", ArgSurface(kernel, inCurbe[i], 1), <<inCurbe[i], 1>>)]

ThreadArgs(kernel) ==
    SelectSeq([a \in DOMAIN kernel.args |-> a], LAMBDA a : ~InCurbe(kernel, a))

\* A new batch buffer is written thread by thread ...
Generated(kernel) ==
    LET args == ThreadArgs(kernel)
    IN  FlattenSeq([n \in 1 .. kernel.threads |->
            [i \in DOMAIN args |->
                Surface("argument", ArgSurface(kernel, args[i], n), <<args[i], n>>)]])

\* ... and of one that is reused the surfaces are bound again, argument by
\* argument, whose indices are not written.
Rebound(kernel) ==
    LET args == ThreadArgs(kernel)
    IN  FlattenSeq([i \in DOMAIN args |->
            [n \in 1 .. kernel.threads |->
                Surface("argument", ArgSurface(kernel, args[i], n), NoSlot)]])

Order(t, kernel, reused) ==
    [i \in DOMAIN kernel.indirect |->
        Surface("indirect", kernel.indirect[i].surface, kernel.indirect[i].index)]
    \o OfCurbe(kernel)
    \o (IF ~HasBatchBuffer(t) THEN <<>>
        ELSE IF reused THEN Rebound(kernel) ELSE Generated(kernel))
    \o [i \in DOMAIN kernel.globals |-> Surface("global", kernel.globals[i], i - 1)]

\* The caller's rule for a batch buffer to be found again: the last task that wrote
\* it got as far as its end, and both orders use new surfaces alike.
FirstUse(work, i) == \A j \in 1 .. i - 1 : work[j].s # work[i].s

FirstUses(work) ==
    LET first == SelectSeq([i \in DOMAIN work |-> i], LAMBDA i : FirstUse(work, i))
    IN  [i \in DOMAIN first |-> work[first[i]].s]

MayReuse(t) ==
    /\ buffers[t].whole
    /\ \A k \in DOMAIN Kernels(t) :
        FirstUses(Generated(Kernels(t)[k])) = FirstUses(Rebound(Kernels(t)[k]))

-----------------------------------------------------------------------------
(***************************************************************************)
(* Setup.                                                                  *)
(***************************************************************************)
Fail == call' = Idling

Begin(t) ==
    /\ call.at = "idle"
    /\ nextTag <= MaxTag
    /\ t \in DOMAIN buffers => MayReuse(t)
    /\ os' = RegisterResource(ResetOsStates(os), GSH)
    /\ scoreboard' = IF Jobs[t].group THEN scoreboard ELSE ScoreboardOf(Jobs[t])
    /\ heap' = AssignSshInstance(Rescaled(heap, SurfacePerBT(hw.gen, t)))
    /\ IF Len(Kernels(t)) > heap'.tables
       THEN Fail /\ UNCHANGED buffers
       ELSE /\ call' = [at |-> "kernel", task |-> t, k |-> 0, work |-> <<>>,
                        reused |-> t \in DOMAIN buffers, bo |-> NoBo,
                        tables |-> <<>>, payloads |-> <<>>]
            /\ buffers' =
                IF ~HasBatchBuffer(t) \/ t \in DOMAIN buffers THEN buffers
                ELSE (t :> [payloads |-> <<>>, whole |-> FALSE]) @@ buffers
    /\ UNCHANGED <<running, hw, nextTag, osData>>

\* HalCm_SetupStatesForKernelInitial takes a table, and the surfaces follow.
StartKernel ==
    /\ call.at = "kernel"
    /\ call.work = <<>>
    /\ call.k < Len(Kernels(call.task))
    /\ LET t == call.task
           kernel == Kernels(t)[call.k + 1]
       IN  call' = [call EXCEPT
                !.k = @ + 1,
                !.work = Order(t, kernel, call.reused),
                !.tables = Append(@, [table |-> heap.nextTable,
                    taken |-> PreSetBindingIndex(hw.gen, kernel.indirect),
                    bound |-> [s \in {} |-> 0]]),
                !.payloads = Append(@,
                    IF call.reused THEN buffers[t].payloads[call.k + 1]
                    ELSE [slot \in {} |-> 0])]
    /\ heap' = AssignBindingTable(heap)
    /\ UNCHANGED <<os, running, hw, scoreboard, nextTag, osData, buffers>>

Current ==
    LET table == call.tables[call.k]
    IN  [h |-> heap, o |-> os, gen |-> hw.gen, payload |-> call.payloads[call.k],
         table |-> table.table, taken |-> table.taken, bound |-> table.bound]

SetUp(x, surface) ==
    CASE surface.kind = "argument" -> SetupArgument(x, surface.s, surface.where)
      [] surface.kind = "indirect" -> SetupWithBTIndex(x, surface.s, surface.where)
      [] OTHER -> SetupGlobal(x, surface.s, surface.where)

NeedsState(surface) ==
    LET bound == call.tables[call.k].bound
    IN  /\ surface.s # NullSurface
        /\ surface.s \in DOMAIN bound =>
              surface.kind = "indirect" /\ bound[surface.s] # surface.where

SetUpSurface ==
    /\ call.at = "kernel"
    /\ call.work # <<>>
    /\ LET surface == Head(call.work)
       IN  IF NeedsState(surface) /\ ~Registers(Current, surface.s)
           THEN /\ Fail
                /\ os' = IF MayRegister(os, surface.s)
                         THEN RegisterResource(os, surface.s) ELSE os
                /\ UNCHANGED heap
           ELSE \E x \in {SetUp(Current, surface)} :
                /\ os' = x.o
                /\ heap' = x.h
                /\ call' = [call EXCEPT
                        !.work = Tail(@),
                        !.payloads[call.k] = x.payload,
                        !.tables[call.k] =
                            [table |-> x.table, taken |-> x.taken, bound |-> x.bound]]
    /\ UNCHANGED <<running, hw, scoreboard, nextTag, osData, buffers>>

-----------------------------------------------------------------------------
(***************************************************************************)
(* The command buffer.                                                     *)
(***************************************************************************)
ToRegister(t) ==
    (IF HasBatchBuffer(t) THEN <<BatchBuffer[t]>> ELSE <<>>) \o <<TsResource>>

\* The buffer is registered, and copied to the caller.
WithBuffer(o) ==
    IF MayRegister(o, o.cb.bo)
    THEN /\ os' = RegisterResource(o, o.cb.bo)
         /\ call' = [at |-> "state", task |-> call.task, payloads |-> call.payloads,
                     tables |-> [k \in DOMAIN call.tables |-> call.tables[k].table],
                     cmd |-> o.cb, start |-> o.cb.room, out |-> <<>>]
    ELSE \* A buffer that was just fetched is returned with all of its room used.
         /\ os' = IF call.at = "wait"
                  THEN [o EXCEPT !.cb.used = CmdRoom, !.cb.room = 0] ELSE o
         /\ Fail

GetCommandBuffer ==
    /\ call.at = "kernel"
    /\ call.work = <<>>
    /\ call.k = Len(Kernels(call.task))
    /\ heap' = AssignRemainingTables(heap)
    /\ IF ~CanRegister(os, ToRegister(call.task)) THEN Fail /\ UNCHANGED os
       ELSE LET o == Registered(os, ToRegister(call.task))
            IN  IF ~o.flushed THEN WithBuffer(o)
                ELSE \/ \E b \in FreeBos :
                            /\ os' = CtxGetCommandBuffer(o, b)
                            /\ call' = [call EXCEPT !.at = "wait", !.bo = b]
                     \/ os' = o /\ Fail   \* drm_intel_bo_alloc fails
    /\ UNCHANGED <<running, hw, scoreboard, nextTag, osData, buffers>>

WaitForSlot ==
    /\ call.at = "wait"
    /\ WaitForAvailableCmdBo
    /\ WithBuffer(InsertCmdBufferToPool(os, call.bo))
    /\ UNCHANGED <<running, heap, hw, scoreboard, nextTag, osData, buffers>>

-----------------------------------------------------------------------------
(***************************************************************************)
(* HalCm_SubmitCommands_g75, _g8 and _g9.                                  *)
(***************************************************************************)
Dwords(cmds, n) == FoldLeft(LAMBDA sum, c : sum + c.layout.dwords, 0, SubSeq(cmds, 1, n))

\* Commands up to the first that finds no room, which has made its patches by then.
Tried(cmds) ==
    LET written == {i \in 1 .. Len(cmds) : HasRoom(call.cmd, Dwords(cmds, i))}
    IN  SubSeq([i \in DOMAIN cmds |->
                    [dw |-> call.cmd.used + Dwords(cmds, i - 1)] @@ cmds[i]],
               1, Min({Cardinality(written) + 1, Len(cmds)}))

Patches(placed) ==
    FlattenSeq([i \in DOMAIN placed |->
        [j \in DOMAIN placed[i].patches |->
            [res |-> placed[i].patches[j].res,
             delta |-> placed[i].patches[j].delta,
             at |-> InCommand(placed[i].dw + placed[i].patches[j].dw)]]])

\* The end of a task that fails takes back what it has written.
Restored(cmd) == [cmd EXCEPT !.used = @ - (call.start - cmd.room), !.room = call.start]

Emit(o, cmds, next) ==
    \E placed \in {Tried(cmds)} :
        LET cmd == AddCommands(call.cmd, Dwords(placed, Len(placed)))
        IN  IF cmd.room >= 0
            THEN /\ os' = Patched(o, Patches(placed))
                 /\ call' = [call EXCEPT !.at = next, !.cmd = cmd, !.out = @ \o placed]
            ELSE /\ os' = ReturnCommandBuffer(Patched(o, Patches(placed)), Restored(cmd))
                 /\ Fail

Debug ==
    IF ~hw.sysRoutine THEN <<>>
    ELSE DebugCtl(hw.gen) \o (IF hw.gen = 9 THEN StateSip(hw.gen) ELSE <<>>)

\* The tag is taken when the first command has been written.
EmitState ==
    /\ call.at = "state"
    /\ Emit(os,
            TimeStamp(hw.gen, 0) \o SyncTag(hw.gen, nextTag) \o L3CacheConfig(hw.gen)
                \o Debug \o PipelineSelect(hw.gen, Jobs[call.task].group)
                \o StateBaseAddr(hw.gen, call.cmd.bo),
            "surfaces")
    /\ nextTag' = IF HasRoom(call.cmd, TimeStamp(hw.gen, 0)[1].layout.dwords)
                  THEN nextTag + 1 ELSE nextTag
    /\ UNCHANGED <<running, heap, hw, scoreboard, osData, buffers>>

EmitSurfaces ==
    /\ call.at = "surfaces"
    /\ os' = CASE hw.gen = 75 -> SendSurfaces_g75(heap, os)
               [] hw.gen = 8 -> SendSurfaces_g8(heap, os)
               [] hw.gen = 9 -> SendSurfaces_g9(heap, os)
    /\ call' = [call EXCEPT !.at = "work"]
    /\ UNCHANGED <<running, heap, hw, scoreboard, nextTag, osData, buffers>>

\* A flush before a kernel that waits for the one before it.
Synced(t, k) == k > 1 /\ Jobs[t].sync[k - 1]

Barrier(condition) == IF condition THEN Flush(hw.gen) ELSE <<>>

StateFlush == IF hw.gen = 75 THEN <<>> ELSE MediaStateFlush

Work(t) ==
    LET waits == Len(scoreboard)
        ks == DOMAIN Kernels(t)
    IN  IF Walks(t)
        THEN FlattenSeq([k \in ks |->
                 Barrier(Synced(t, k) \/ (k > 1 /\ Kernels(t)[k].pattern # "NONE"))
                     \o MediaWalker(hw.gen, k, waits)]) \o StateFlush
        ELSE IF Jobs[t].group
        THEN FlattenSeq([k \in ks |->
                 Barrier(Synced(t, k)) \o GpGpuWalker(hw.gen, k)]) \o StateFlush
        ELSE BatchBufferStart(hw.gen, BatchBuffer[t])

EmitWork ==
    /\ call.at = "work"
    /\ LET t == call.task
       IN  /\ Emit(os,
                   (IF hw.sysRoutine /\ hw.gen # 9 THEN StateSip(hw.gen) ELSE <<>>)
                   \o VfeState(hw.gen, VfeStateParams(Jobs[t].group, scoreboard))
                   \o (IF \E k \in DOMAIN Kernels(t) : Kernels(t)[k].curbe
                       THEN CurbeLoad ELSE <<>>)
                   \o IDLoad \o Work(t) \o Flush(hw.gen),
                   "end")
           /\ buffers' =
                IF HasBatchBuffer(t) /\ call'.at = "end"
                THEN [buffers EXCEPT ![t] = [payloads |-> call.payloads, whole |-> TRUE]]
                ELSE buffers
    /\ UNCHANGED <<running, heap, hw, scoreboard, nextTag, osData>>

\* The buffers of user memory are patched into the next command, whose own patch
\* follows and holds; what they gain is their place in the allocation list.
UseBufferUPs(o) ==
    Patched(Registered(o, BufferUPs),
            [i \in DOMAIN BufferUPs |->
                [res |-> BufferUPs[i], delta |-> 0, at |-> InCommand(call.cmd.used + 2)]])

EmitEnd ==
    /\ call.at = "end"
    /\ LET end == TimeStamp(hw.gen, 8) \o BatchBufferEnd
       IN  IF hw.gen = 75 THEN Emit(os, end, "submit")
           ELSE IF CanRegister(os, BufferUPs) THEN Emit(UseBufferUPs(os), end, "submit")
           ELSE Fail /\ os' = ReturnCommandBuffer(os, Restored(call.cmd))
    /\ UNCHANGED <<running, heap, hw, scoreboard, nextTag, osData, buffers>>

Batch(o) ==
    [bo |-> o.cb.bo, task |-> call.task, cmds |-> call.out, relocs |-> Relocations(o),
     per |-> heap.per, entry |-> heap.entry,
     tables |-> call.tables, payloads |-> call.payloads]

\* The submission succeeds, or fails before its execution or in it.
Submit ==
    /\ call.at = "submit"
    /\ LET o == ReturnCommandBuffer(os, call.cmd)
       IN  \/ /\ os' = SubmissionFails(o)
              /\ UNCHANGED <<running, osData>>
           \/ /\ MayRelocate(o) /\ HasRoom(call.cmd, 1)
              /\ os' = ListsCleared(o)
              /\ UNCHANGED <<running, osData>>
           \/ /\ MayRelocate(o) /\ HasRoom(call.cmd, 1)
              /\ os' = OsResourceReference(ListsCleared(o), o.cb.bo)
              /\ running' = Append(running, Batch(o))
              /\ osData' = osData \cup {o.cb.bo}
    /\ call' = Idling
    /\ UNCHANGED <<heap, hw, scoreboard, nextTag, buffers>>

-----------------------------------------------------------------------------
(***************************************************************************)
(* The GPU finishes batches in their order; an event that sees its task's  *)
(* end drops the reference to the command bo.                              *)
(***************************************************************************)
\* Only a call that waits, and one that begins, can tell when a batch finishes.
GpuFinish ==
    /\ call.at \in {"idle", "wait"}
    /\ running # <<>>
    /\ running' = Tail(running)
    /\ UNCHANGED <<os, heap, call, hw, scoreboard, nextTag, osData, buffers>>

QueryTask ==
    /\ call.at = "idle"
    /\ \E b \in osData :
        /\ Idle(b)
        /\ os' = OsResourceUnreference(os, b)
        /\ osData' = osData \ {b}
    /\ UNCHANGED <<running, heap, call, hw, scoreboard, nextTag, buffers>>

Next ==
    \/ \E t \in DOMAIN Jobs : Begin(t)
    \/ StartKernel
    \/ SetUpSurface
    \/ GetCommandBuffer
    \/ WaitForSlot
    \/ EmitState
    \/ EmitSurfaces
    \/ EmitWork
    \/ EmitEnd
    \/ Submit
    \/ GpuFinish
    \/ QueryTask

Spec == Init /\ [][Next]_vars

-----------------------------------------------------------------------------
(***************************************************************************)
(* Correctness.                                                            *)
(***************************************************************************)
\* The tasks these properties speak of: at most the eight vectors the scoreboard
\* holds, the first kernel with vectors of its own also has a dependencyInfo (which
\* is what HalCm_ParseTask copies), and what has an index of its own, global or
\* indirect, is no argument.
Careful(job) ==
    /\ Len(ScoreboardOf(job)) <= 8
    /\ \A k \in DOMAIN job.kernels :
        LET kernel == job.kernels[k]
        IN  /\ kernel.vectors # <<>> =>
                 \E j \in 1 .. k - 1 : HasDependencies(job.kernels[j])
            /\ (ToSet(kernel.globals) \cup IndirectSurfaces(kernel))
                 \cap ArgSurfaces(kernel) = {}

ASSUME JobsAssumption == \A t \in DOMAIN Jobs : Careful(Jobs[t])

\* The slots of a kernel's payload: its CURBE has one for all threads.
PayloadSlots(kernel) ==
    {slot \in (DOMAIN kernel.args) \X (1 .. kernel.threads) :
        InCurbe(kernel, slot[1]) => slot[2] = 1}

PlaneDelta(s, i) ==
    IF SurfaceInfo[s].kind = "buffer" THEN 0 ELSE Planes[SurfaceInfo[s].format][i].delta

\* From an index of kernel k, through its table and a surface state, to memory.
ReadsPlane(batch, k, bti, s, i) ==
    LET e == batch.tables[k] * batch.per + bti + i - 1
        at == InState(batch.entry[e], SurfaceBase(hw.gen))
    IN  /\ bti + i - 1 < batch.per
        /\ e \in DOMAIN batch.entry
        /\ batch.relocs[at] = [bo |-> s, delta |-> PlaneDelta(s, i)]

Reads(batch, k, bti, s) ==
    IF s = NullSurface THEN bti = CM_NULL_SURFACE_BINDING_INDEX
    ELSE \A i \in 1 .. NumPlanes(s) : ReadsPlane(batch, k, bti, s, i)

\* In every batch the GPU executes, each argument of each thread leads to the memory
\* of the surface the caller gave, plane by plane, and so does each surface with an
\* index of its own; through new batch buffers and old ones (HalCm_Setup*Surface*,
\* pfnSendSurfaces).
EveryArgumentReadsItsSurface ==
    \A n \in DOMAIN running :
        \A k \in DOMAIN Kernels(running[n].task) :
            LET batch == running[n]
                kernel == Kernels(batch.task)[k]
            IN  /\ \A slot \in PayloadSlots(kernel) :
                      /\ slot \in DOMAIN batch.payloads[k]
                      /\ Reads(batch, k, batch.payloads[k][slot],
                               ArgSurface(kernel, slot[1], slot[2]))
                /\ \A i \in DOMAIN kernel.indirect :
                      Reads(batch, k, kernel.indirect[i].index,
                            kernel.indirect[i].surface)
                /\ \A i \in DOMAIN kernel.globals :
                      kernel.globals[i] # NullSurface =>
                         Reads(batch, k, GlobalStart(hw.gen) + i - 1, kernel.globals[i])

\* The addresses of a batch's commands, and where they ought to lead.
AddressFields(batch) ==
    UNION {{InCommand(batch.cmds[c].dw + a) : a \in batch.cmds[c].layout.addresses} :
              c \in DOMAIN batch.cmds}

\* The relocations of a batch are the address fields that its structures have, none
\* missing and none of an earlier task, and each leads to what its command names
\* (pfnSetPatchEntry, IntelGen_OsSubmitCommandBuffer).
CommandsNameTheirBuffers ==
    \A n \in DOMAIN running :
        LET batch == running[n]
        IN  /\ {at \in DOMAIN batch.relocs : at[1] = "command"} = AddressFields(batch)
            /\ \A c \in DOMAIN batch.cmds :
                 \A p \in ToSet(batch.cmds[c].patches) :
                    batch.relocs[InCommand(batch.cmds[c].dw + p.dw)]
                        = [bo |-> p.res, delta |-> p.delta]

\* Threads wait for what their kernel depends on: every vector of every kernel is in
\* the scoreboard of the VFE state, and every walker masks all of it in
\* (HalCm_ParseTask's union, MEDIA_VFE_STATE).
KernelsWaitForTheirVectors ==
    \A n \in DOMAIN running :
        LET batch == running[n]
            job == Jobs[batch.task]
            Is(c, op) == batch.cmds[c].op = op
        IN  ~job.group =>
              \A c \in DOMAIN batch.cmds :
                /\ Is(c, "MEDIA_VFE_STATE") =>
                     \A k \in DOMAIN job.kernels :
                        ToSet(Vectors(job.kernels[k]))
                           \subseteq ToSet(batch.cmds[c].arg.waits)
                /\ Is(c, "MEDIA_OBJECT_WALKER") =>
                     batch.cmds[c].arg.waits = Len(ScoreboardOf(job))

\* The ring bounds what the GPU has to do, and two batches never share a command
\* buffer, nor does the one in preparation (Ctx_WaitForAvailableCmdBo).
RingBoundsTheGpu ==
    /\ Len(running) <= MaxCmdBufs
    /\ \A i, j \in DOMAIN running : running[i].bo = running[j].bo => i = j
    /\ ~os.flushed => Idle(os.cb.bo)

\* A command bo is referenced by its slot of the ring, by the event of its task, and
\* while it waits for the slot: no reference is lost, none is left.
ReferencesOwned ==
    \A b \in CmdBos :
        os.refs[b] = Cardinality({s \in Slots : os.pool[s] = b})
                        + (IF b \in osData THEN 1 ELSE 0)
                        + (IF call.at = "wait" /\ call.bo = b THEN 1 ELSE 0)

=============================================================================
