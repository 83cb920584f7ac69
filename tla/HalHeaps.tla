------------------------------- MODULE HalHeaps -------------------------------
(***************************************************************************)
(* How the HAL builds a batch: HalCm_ExecuteTask and its group and hints   *)
(* forms (hal_cm.cpp), HalCm_SubmitCommands_g75 (hal_cm_g75.cpp) and the   *)
(* general state heap of hw_interface.c.                                   *)
(*                                                                         *)
(* A call takes a media state, for tasks without walker a batch buffer,    *)
(* loads the kernels in the instruction heap one by one, gives each an     *)
(* interface descriptor, and submits.  All of this memory is shared with   *)
(* the GPU.  It is given out again by sync tags: every submission takes    *)
(* the next tag, and the batch makes the GPU write a larger one at its     *)
(* beginning.                                                              *)
(***************************************************************************)
EXTENDS HalCmTask, KernelHeap

CONSTANTS
    Calls,     \* what a task may be: its kernels, whether it has a walker,
               \* BBdirtyStatus and reuseBBUpdateMask
    MayFail,   \* an allocation, a check or a submission may fail
    MaxCalls   \* bound: as many calls begin

ASSUME CallsAssumption ==
    /\ \A c \in Calls :
         /\ DOMAIN c = {"kernels", "walker", "dirty", "mask"}
         /\ c.kernels \in Seq(Kernels) /\ c.kernels # <<>>
         /\ {c.walker, c.dirty, c.mask} \subseteq BOOLEAN
    /\ Calls # {} /\ IsFiniteSet(Calls)
ASSUME MaxCallsAssumption == MaxCalls \in Nat /\ MayFail \in BOOLEAN

VARIABLES
    heap,       \* the instruction heap
    mem,        \* block of the heap -> kernel whose code it holds
    media,      \* media states: busy, sync tag, interface descriptors
    nextMedia,  \* iNextMediaState
    buffers,    \* pBatchBuffers
    nextTag,    \* dwNextTag
    gpuTag,     \* pSync[0], which the GPU writes
    syncTag,    \* dwSyncTag, as of the last refresh
    call,       \* the call in progress
    job,        \* task -> what its batch refers to
    fails       \* history: calls that failed

heapVars == <<heap, mem, media, nextMedia, buffers, nextTag, gpuTag, syncTag,
              call, job, fails>>
vars == <<halVars, heapVars>>

\* iMediaStateHeaps and iNumBatchBuffers.
States == 0 .. MaxTasks

\* iMediaIDs, as many as a task has kernels.
MediaIds == 0 .. Max({Len(c.kernels) : c \in Calls}) - 1

None == -1

NoCall == [pc |-> "idle"]

\* reused: uiRefCount is larger than 1.  ids and doubt are the commands in its
\* memory.
FreshBuffer == [size |-> 0, busy |-> FALSE, tag |-> 0, key |-> <<>>,
                reused |-> FALSE, latest |-> FALSE, locked |-> FALSE,
                ids |-> <<>>, doubt |-> {}]

Init ==
    /\ HalInit
    /\ heap = InitHeap
    /\ mem = [a \in 0 .. HeapSize - 1 |-> NoKernel]
    /\ media = [m \in States |-> [busy |-> FALSE, tag |-> 0,
                                  offset |-> [d \in MediaIds |-> None]]]
    /\ nextMedia = 0
    /\ buffers = [b \in States |-> FreshBuffer]
    /\ nextTag = 0 /\ gpuTag = 0 /\ syncTag = 0
    /\ call = NoCall
    /\ job = [t \in Tasks |-> NoCall]
    /\ fails = 0

-----------------------------------------------------------------------------
(***************************************************************************)
(* Failure of the call in progress at any of its steps: what the steps     *)
(* before have done stays done.                                            *)
(***************************************************************************)
CallFails ==
    /\ call' = NoCall
    /\ fails' = fails + 1

\* A buffer the call was writing keeps its key and is not whole; it is unlocked
\* at the end of the call if it is not a reused one.
BuffersAfterFailure ==
    IF call.buffer = None THEN buffers
    ELSE [buffers EXCEPT
            ![call.buffer].doubt = IF call.write THEN {"failed"} ELSE @,
            ![call.buffer].locked = @ /\ buffers[call.buffer].reused]

\* Errors of steps that change nothing else, such as surface states (errors
\* before the media state, such as parsing, change nothing at all).  The spin for
\* a media state also times out when the GPU has nothing more to write.
Fails ==
    /\ \/ MayFail /\ call.pc \in {"wait", "buffer", "lock", "kernel"}
       \/ call.pc = "wait" /\ ring = <<>>
    /\ CallFails
    /\ buffers' = BuffersAfterFailure
    /\ UNCHANGED <<halVars, heap, mem, media, nextMedia, nextTag, gpuTag,
                   syncTag, job>>

CallsMade == Cardinality(completed) + Len(ring) + fails

\* The slot of the call is marked as soon as it is chosen.
MutBegin(t) ==
    /\ call = NoCall
    /\ ~Owned(t) /\ t \notin completed
    /\ CallsMade < MaxCalls
    /\ FreeIds # {}
    /\ taskStatusTable' = [taskStatusTable EXCEPT ![HalCm_GetNewTaskId] = t]
    /\ \E c \in Calls :
         call' = [pc |-> "media", task |-> t, kernels |-> c.kernels,
                  walker |-> c.walker, dirty |-> c.dirty, mask |-> c.mask,
                  media |-> None,
                  ids |-> <<>>, allocation |-> [d \in MediaIds |-> NoEntry],
                  buffer |-> None, write |-> FALSE, doubt |-> {}]
    /\ UNCHANGED <<sync, ring, completed, heap, mem, media, nextMedia, buffers,
                   nextTag, gpuTag, syncTag, job, fails>>

\* The execute functions up to the parsing of the task, as far as they go well.
\* A call without free slot fails at once and changes nothing.
Begin(t) ==
    /\ call = NoCall
    /\ ~Owned(t) /\ t \notin completed
    /\ CallsMade < MaxCalls
    /\ FreeIds # {}
    /\ \E c \in Calls :
         call' = [pc |-> "media", task |-> t, kernels |-> c.kernels,
                  walker |-> c.walker, dirty |-> c.dirty, mask |-> c.mask,
                  media |-> None,
                  ids |-> <<>>, allocation |-> [d \in MediaIds |-> NoEntry],
                  buffer |-> None, write |-> FALSE, doubt |-> {}]
    /\ UNCHANGED <<halVars, heap, mem, media, nextMedia, buffers, nextTag,
                   gpuTag, syncTag, job, fails>>

-----------------------------------------------------------------------------
(***************************************************************************)
(* Sync tags and media states (hw_interface.c).                            *)
(***************************************************************************)
\* Busy until the GPU has written a larger tag.
StillBusy(s) == s.busy /\ gpuTag - s.tag <= 0

\* IntelGen_HwRefreshSync on the media states, or on the batch buffers.
Refreshed(f) == [i \in States |-> [f[i] EXCEPT !.busy = StillBusy(f[i])]]

IntelGen_HwRefreshSync ==
    /\ syncTag' = gpuTag - 1
    /\ buffers' = Refreshed(buffers)

\* The state is marked busy when it is given out, not when it is submitted.
MutTakeMediaState(states) ==
    /\ media' = [states EXCEPT ![nextMedia].tag = nextTag, ![nextMedia].busy = TRUE]
    /\ nextMedia' = (nextMedia + 1) % (MaxTasks + 1)
    /\ call' = [call EXCEPT !.media = nextMedia,
                            !.pc = IF call.walker THEN "kernel" ELSE "buffer"]

\* The state gets the tag of the batch to come; busy stays as it is.
TakeMediaState(states) ==
    /\ media' = [states EXCEPT ![nextMedia].tag = nextTag]
    /\ nextMedia' = (nextMedia + 1) % (MaxTasks + 1)
    /\ call' = [call EXCEPT !.media = nextMedia,
                            !.pc = IF call.walker THEN "kernel" ELSE "buffer"]

\* Takes the next state in turn, or begins to wait for it.
IntelGen_HwAssignMediaState ==
    /\ call.pc = "media"
    /\ IntelGen_HwRefreshSync
    /\ \/ ~StillBusy(media[nextMedia]) /\ TakeMediaState(Refreshed(media))
       \/ /\ StillBusy(media[nextMedia])
          /\ call' = [call EXCEPT !.pc = "wait"]
          /\ media' = Refreshed(media)
          /\ UNCHANGED nextMedia
    /\ UNCHANGED <<halVars, heap, mem, nextTag, gpuTag, job, fails>>

\* The spin on pSync[0] ends; its time-out is one of Fails.
WaitForMediaState ==
    /\ call.pc = "wait"
    /\ gpuTag - media[nextMedia].tag > 0
    /\ TakeMediaState(media)
    /\ UNCHANGED <<halVars, heap, mem, buffers, nextTag, gpuTag, syncTag, job, fails>>

-----------------------------------------------------------------------------
(***************************************************************************)
(* HalCm_GetBatchBuffer.                                                   *)
(***************************************************************************)
SameKernels == {b \in States : buffers[b].size # 0 /\ buffers[b].key = call.kernels}

\* In use with an older thread space: no longer the latest one of its key.
Outdated == {b \in SameKernels : buffers[b].busy /\ call.dirty}

Reusable == {b \in SameKernels \ Outdated : buffers[b].latest}

\* The loop stops at the buffer it takes, and has looked at those before.
Looked(b) == [c \in States |-> IF c \in Outdated /\ c < b
                                 THEN [buffers[c] EXCEPT !.latest = FALSE]
                                 ELSE buffers[c]]

ReuseBatchBuffer ==
    LET b == Min(Reusable) IN
    /\ call.pc = "buffer"
    /\ Reusable # {}
    /\ buffers' = [Looked(b) EXCEPT ![b].reused = TRUE, ![b].tag = 0]
    /\ call' = [call EXCEPT !.pc = IF call.mask THEN "lock" ELSE "kernel",
                            !.buffer = b, !.write = FALSE,
                            !.doubt = buffers[b].doubt]
    /\ UNCHANGED <<halVars, heap, mem, media, nextMedia, nextTag, gpuTag,
                   syncTag, job, fails>>

\* The size a task needs: all that matters is that it grows with the task.
BatchBufferSize == Len(call.kernels)

Unallocated == {b \in States : buffers[b].size = 0}
Idle == {b \in States : ~buffers[b].busy}
Fitting == {b \in Idle : buffers[b].size >= BatchBufferSize}

\* One without memory, or the first idle one that is large enough, or the
\* first idle one.
ChosenBuffer ==
    CASE Unallocated # {} -> Min(Unallocated)
      [] Unallocated = {} /\ Fitting # {} -> Min(Fitting)
      [] OTHER -> Min(Idle)

\* The ids behind those of a shorter task stay in uiKernelIds.
KeyAfter(old) ==
    call.kernels \o SubSeq(old, Len(call.kernels) + 1, Len(old))

\* Its memory is kept if it is large enough, or else given back to the driver,
\* which keeps it for the batches that use it.
TakeBatchBuffer ==
    LET b == ChosenBuffer
        keeps == b \in Fitting /\ Unallocated = {}
        old == buffers[b] IN
    /\ call.pc = "buffer"
    /\ Reusable = {}
    /\ Unallocated # {} \/ Idle # {}
    /\ \E size \in {BatchBufferSize} \cup (IF MayFail THEN {0} ELSE {}) :
         /\ keeps => size # 0
         /\ buffers' = [Looked(MaxTasks + 1) EXCEPT
              ![b] = [size |-> IF keeps THEN old.size ELSE size,
                      busy |-> FALSE, tag |-> 0, key |-> KeyAfter(old.key),
                      reused |-> FALSE, latest |-> TRUE,
                      locked |-> keeps /\ old.locked, ids |-> <<>>,
                      doubt |-> IF Len(old.key) > Len(call.kernels)
                                  THEN {"longer"} ELSE {}]]
         /\ job' = [t \in Tasks |->
              IF ~keeps /\ job[t] # NoCall /\ job[t].buffer = b
                THEN [job[t] EXCEPT !.buffer = None] ELSE job[t]]
         /\ IF size = 0
              THEN CallFails
              ELSE /\ call' = [call EXCEPT !.pc = "lock", !.buffer = b,
                                           !.write = TRUE]
                   /\ UNCHANGED fails
    /\ UNCHANGED <<halVars, heap, mem, media, nextMedia, nextTag, gpuTag, syncTag>>

\* The mapping waits in the driver for the batches that use the memory.  New
\* buffers are written, reused ones have their dependency masks updated.
IntelGen_HwLockBB ==
    /\ call.pc = "lock"
    /\ ~buffers[call.buffer].locked
    /\ \A t \in Tasks : job[t] # NoCall => job[t].buffer # call.buffer
    /\ buffers' = [buffers EXCEPT ![call.buffer].locked = TRUE]
    /\ call' = [call EXCEPT !.pc = "kernel"]
    /\ UNCHANGED <<halVars, heap, mem, media, nextMedia, nextTag, gpuTag,
                   syncTag, job, fails>>

\* "Batch Buffer is already locked."
AlreadyLocked ==
    /\ call.pc = "lock"
    /\ buffers[call.buffer].locked
    /\ CallFails
    /\ buffers' = BuffersAfterFailure
    /\ UNCHANGED <<halVars, heap, mem, media, nextMedia, nextTag, gpuTag,
                   syncTag, job>>

-----------------------------------------------------------------------------
(***************************************************************************)
(* HalCm_SetupStatesForKernelInitial and HalCm_FinishStatesForKernel: load *)
(* a kernel, give it an interface descriptor, write its commands.          *)
(***************************************************************************)
Kernel == call.kernels[Len(call.ids) + 1]

\* The descriptors of the call name entries by index; an entry that has moved
\* since is another kernel's, or none.
DoubtAfter(h) ==
    call.doubt \cup
        IF \E d \in MediaIds : LET i == call.allocation[d] IN
             i # NoEntry /\ (i >= h.n \/ h.alloc[i].kernel # heap.alloc[i].kernel)
          THEN {"moved"} ELSE {}

\* The id the kernel had before, unless another kernel of the call has it.
MediaId(h, i) ==
    LET kid == h.alloc[i].kid IN
    IF kid # NoEntry /\ call.allocation[kid] \in {NoEntry, i} THEN kid
    ELSE Min({d \in MediaIds : call.allocation[d] = NoEntry})

\* With the heap h the kernel is in entry i.
HalCm_AllocateMediaID(h, i) ==
    LET id == MediaId(h, i) IN
    /\ media' = [media EXCEPT ![call.media].offset[id] = h.alloc[i].offset]
    /\ heap' = [h EXCEPT !.alloc[i].kid = IF @ = NoEntry THEN id ELSE @]
    /\ call' = [call EXCEPT
                  !.ids = Append(@, id), !.allocation[id] = i,
                  !.doubt = DoubtAfter(h),
                  !.pc = IF Len(call.ids) + 1 = Len(call.kernels)
                           THEN "submit" ELSE "kernel"]
    /\ buffers' = IF call.write
                    THEN [buffers EXCEPT ![call.buffer].ids = Append(@, id)]
                    ELSE buffers

LoadedKernel ==
    LET i == Min(LoadedAt(heap, Kernel)) IN
    /\ call.pc = "kernel"
    /\ LoadedAt(heap, Kernel) # {}
    /\ HalCm_AllocateMediaID(HalCm_TouchKernel(heap, i, nextTag), i)
    /\ UNCHANGED <<halVars, mem, nextMedia, nextTag, gpuTag, syncTag, job, fails>>

HalCm_LoadKernel ==
    LET slot == CmSearchFreeSlotSize(heap, Kernel)
        h == CmAddCurrentKerenelToFreeSlot(heap, slot, Kernel, nextTag)
        from == h.alloc[slot].offset IN
    /\ call.pc = "kernel"
    /\ LoadedAt(heap, Kernel) = {}
    /\ slot # NoEntry
    /\ mem' = [a \in DOMAIN mem |->
                 IF a \in from .. from + Size[Kernel] - 1 THEN Kernel ELSE mem[a]]
    /\ HalCm_AllocateMediaID(h, slot)
    /\ UNCHANGED <<halVars, nextMedia, nextTag, gpuTag, syncTag, job, fails>>

NoRoom == /\ call.pc = "kernel"
          /\ LoadedAt(heap, Kernel) = {}
          /\ CmSearchFreeSlotSize(heap, Kernel) = NoEntry

\* Buffers whose commands name the descriptor the kernel had.
BuffersAfterEviction(k) ==
    [b \in States |->
       IF k \in {buffers[b].key[n] : n \in DOMAIN buffers[b].key}
         THEN [Refreshed(buffers)[b] EXCEPT !.doubt = @ \cup {"evicted"}]
         ELSE Refreshed(buffers)[b]]

\* One round of the loop: the oldest kernel goes, then the search is repeated.
EvictKernel ==
    LET i == Oldest(heap, Unloadable(heap, syncTag))
        h == CmDeleteOldestKernel(heap, i) IN
    /\ NoRoom
    /\ Unloadable(heap, syncTag) # {}
    /\ heap' = h
    /\ call' = [call EXCEPT !.doubt = DoubtAfter(h)]
    /\ syncTag' = gpuTag - 1
    /\ media' = Refreshed(media)
    /\ buffers' = BuffersAfterEviction(heap.alloc[i].kernel)
    /\ UNCHANGED <<halVars, mem, nextMedia, nextTag, gpuTag, job, fails>>

\* "Failed to delete any slot from GSH."
NothingToEvict ==
    /\ NoRoom
    /\ Unloadable(heap, syncTag) = {}
    /\ CallFails
    /\ buffers' = BuffersAfterFailure
    /\ UNCHANGED <<halVars, heap, mem, media, nextMedia, nextTag, gpuTag,
                   syncTag, job>>

-----------------------------------------------------------------------------
(***************************************************************************)
(* HalCm_SubmitCommands, and the end of the call.                          *)
(***************************************************************************)
\* A buffer that is not updated is not unlocked either.
LockedAfterUnlock ==
    LET b == buffers[call.buffer] IN b.locked /\ b.reused /\ ~call.mask

\* What a call in doubt has written stays in doubt when it is reused.
DoubtOfCommands == buffers[call.buffer].doubt \cup call.doubt

\* IncrementNextTag: each batch takes the next tag, and writes the one after.
TakeTag == nextTag' = nextTag + 1

Submit ==
    /\ call.pc = "submit"
    /\ HalCm_ExecuteTask(call.task)
    /\ TakeTag
    /\ media' = [media EXCEPT ![call.media].busy = TRUE]
    /\ buffers' = IF call.walker THEN buffers
                  ELSE [buffers EXCEPT ![call.buffer].busy = TRUE,
                                       ![call.buffer].tag = nextTag,
                                       ![call.buffer].doubt = DoubtOfCommands,
                                       ![call.buffer].locked = LockedAfterUnlock]
    /\ job' = [job EXCEPT ![call.task] =
                 [kernels |-> call.kernels, media |-> call.media,
                  buffer |-> call.buffer, tag |-> nextTag + 1,
                  ids |-> IF call.walker THEN call.ids
                          ELSE buffers[call.buffer].ids,
                  doubt |-> call.doubt]]
    /\ call' = NoCall
    /\ UNCHANGED <<heap, mem, nextMedia, gpuTag, syncTag, fails>>

\* A command does not fit or the driver refuses the batch; the tag may have
\* been taken, after the reset of the sync words, and the buffer unlocked.
SubmitFails ==
    /\ MayFail
    /\ call.pc = "submit"
    /\ HalCm_ExecuteTaskFails
    /\ CallFails
    /\ \/ UNCHANGED nextTag /\ buffers' = BuffersAfterFailure
       \/ /\ sync'[HalCm_GetNewTaskId] = "reset"
          /\ TakeTag
          /\ \/ buffers' = BuffersAfterFailure
             \/ /\ ~call.walker
                /\ buffers' = [BuffersAfterFailure EXCEPT
                                 ![call.buffer].locked = LockedAfterUnlock]
    /\ UNCHANGED <<heap, mem, media, nextMedia, gpuTag, syncTag, job>>

-----------------------------------------------------------------------------
(***************************************************************************)
(* The GPU: a batch writes its start word and its tag, then runs.          *)
(***************************************************************************)
GpuBegin ==
    /\ GpuStart
    /\ gpuTag' = job[Head(ring).task].tag
    /\ UNCHANGED <<heap, mem, media, nextMedia, buffers, nextTag, syncTag,
                   call, job, fails>>

GpuFinish ==
    /\ GpuEnd
    /\ job' = [job EXCEPT ![Head(ring).task] = NoCall]
    /\ UNCHANGED <<heap, mem, media, nextMedia, buffers, nextTag, gpuTag,
                   syncTag, call, fails>>

\* The lock of the queue is held around calls and around queries.
QueryTask(id) ==
    /\ call = NoCall
    /\ HalCm_QueryTask(id)
    /\ UNCHANGED heapVars

Next ==
    \/ \E t \in Tasks : Begin(t)
    \/ IntelGen_HwAssignMediaState \/ WaitForMediaState
    \/ ReuseBatchBuffer \/ TakeBatchBuffer \/ IntelGen_HwLockBB \/ AlreadyLocked
    \/ LoadedKernel \/ HalCm_LoadKernel \/ EvictKernel \/ NothingToEvict
    \/ Submit \/ SubmitFails \/ Fails
    \/ GpuBegin \/ GpuFinish
    \/ \E id \in TaskIds : QueryTask(id)

Spec == Init /\ [][Next]_vars
-----------------------------------------------------------------------------
(***************************************************************************)
(* Properties.                                                             *)
(***************************************************************************)
\* The batches built by these steps are those of the task table alone: a call
\* takes a slot and reaches the ring in one step of HalCmTask or not at all
\* (HalCm_ExecuteTask, hal_cm.cpp:4784-4963).
ImplementsHalCmTask == HalSpec

\* A kernel the table says is loaded is in the heap, whole: no later load has
\* written over it (HalCm_LoadKernel does not copy it a second time).
Intact(i) ==
    \A s \in 0 .. Size[heap.alloc[i].kernel] - 1 :
        mem[heap.alloc[i].offset + s] = heap.alloc[i].kernel
LoadedKernelsAreIntact == heap.phantom \/ \A i \in Used(heap) : Intact(i)

\* The kernels the GPU finds when it begins a batch: through the descriptors of
\* its media state to the instruction heap.
KernelAt(o) ==
    CHOOSE k \in Kernels \cup {NoKernel} :
        IF o # None /\ \E k2 \in Kernels : \A s \in 0 .. Size[k2] - 1 : o + s \in DOMAIN mem /\ mem[o + s] = k2
          THEN k \in Kernels /\ \A s \in 0 .. Size[k] - 1 : o + s \in DOMAIN mem /\ mem[o + s] = k
          ELSE k = NoKernel
Executes(j) ==
    [n \in DOMAIN j.ids |-> KernelAt(media[j.media].offset[j.ids[n]])]

\* A batch the GPU has not begun will run the kernels of its task: nothing it
\* reads is given to another call before its tag is written (media states,
\* batch buffers and kernels are handed out again by sync tags), unless the
\* code has lost track of what it refers to in one of four ways (doubt).
BatchRunsItsKernels ==
    \A n \in DOMAIN ring :
        LET j == job[ring[n].task] IN
        sync[ring[n].id] = "reset" /\ j.doubt = {} /\ ~heap.phantom
            => Executes(j) = j.kernels

\* The state AssignMediaState waits for is that of a batch which is submitted,
\* so that its tag will come (IntelGen_HwAssignMediaState, hw_interface.c:1479):
\* true until MaxTasks + 3 calls have failed.  A call that waited marks the
\* state with a tag to come and leaves it busy; if the states are then used up
\* by failures, nothing is submitted any more.
MediaStateWillBeFree ==
    fails <= MaxTasks + 2 /\ call.pc \in {"idle", "wait"} =>
        (StillBusy(media[nextMedia]) => media[nextMedia].tag < nextTag)

\* "Failed to delete any slot from GSH. It is impossible." (hal_cm.cpp:1455):
\* with nothing in flight, dwSyncTag up to date and no failure before, every
\* kernel in the heap belongs to a batch that has ended, and there is room for
\* the first kernel of a call.
FirstKernelFits ==
    /\ fails = 0 /\ ring = <<>> /\ syncTag = gpuTag - 1
    /\ call.pc = "kernel" /\ call.ids = <<>>
    => ~NoRoom \/ Unloadable(heap, syncTag) # {}
=============================================================================
