-------------------------------- MODULE CmQueue --------------------------------
(***************************************************************************)
(* The task queue of a CmDevice (cm_queue.cpp, cm_event.cpp,               *)
(* cm_task_internal.cpp) on top of the task table of the HAL and the GPU.  *)
(*                                                                         *)
(* The calls of this module that use the lists hold                        *)
(* m_CriticalSection_Queue; GetStatus and DestroyEvent take no lock, and   *)
(* the counts of the events are plain integers.  The module is about an    *)
(* application that makes one call at a time, these two included: its      *)
(* steps are then those of the one call in progress, one iteration of a    *)
(* loop at a time, and of the GPU between them.  CmThreads models several  *)
(* threads and the single reads and writes of the counts.                  *)
(*                                                                         *)
(* stack is the call stack of the call in progress, the innermost last:    *)
(* FlushTaskWithoutSync calls QueryFlushedTasks, which asks the event of   *)
(* the oldest flushed task for its status, and CmEvent_RT::GetStatus of a  *)
(* task that is not flushed calls FlushTaskWithoutSync again.              *)
(***************************************************************************)
EXTENDS HalCmTask

CONSTANTS
    Surfaces,     \* indices of the surface pool
    Uses,         \* task -> surfaces its kernels use (m_SurfaceArray)
    HalMayFail,   \* the HAL may refuse a task (no memory, a bad argument, ...)
    AllocMayFail, \* the allocation of an event may fail
    MayTimeout,   \* bo_wait and CleanQueue may give up before the GPU ends
    MaxDepth      \* frames of the call stack before it overflows

ASSUME UsesAssumption == Uses \in [Tasks -> SUBSET Surfaces]
ASSUME SwitchesAssumption ==
    {HalMayFail, AllocMayFail, MayTimeout} \subseteq BOOLEAN
ASSUME MaxDepthAssumption == MaxDepth \in Nat /\ MaxDepth >= 3

VARIABLES
    enqueuedTasks,  \* m_EnqueuedTasks, oldest first
    flushedTasks,   \* m_FlushedTasks, oldest first
    created,        \* history: tasks handed to Enqueue
    evStatus,       \* m_Status of the event of a task, "None" if it has none
    driverId,       \* m_TaskDriverId
    refCount,       \* m_RefCount
    evIndex,        \* m_Index, the slot of m_EventArray
    eventArray,     \* m_EventArray: a sequence of tasks (their events) and NULLs
    userRef,        \* tasks whose event the application holds
    surfState,      \* m_SurfaceState: queued tasks that use the surface
    stack,          \* frames of the call in progress, <<>> when there is none
    subject         \* task whose event the application waits for

queueVars == <<enqueuedTasks, flushedTasks, created, surfState>>
eventVars == <<driverId, refCount, evIndex, eventArray, userRef>>
vars == <<enqueuedTasks, flushedTasks, created, surfState, evStatus, driverId,
          refCount, evIndex, eventArray, userRef, stack, subject,
          taskStatusTable, sync, ring, completed>>

Statuses == {"None", "QUEUED", "FLUSHED", "STARTED", "FINISHED", "Deleted"}

(***************************************************************************)
(* Frames, named for the place the call returns to or stands at.           *)
(*   flush         head of the loop of FlushTaskWithoutSync()              *)
(*   flushFull     the same, after QueryFlushedTasks in the full queue     *)
(*   flushBlock, flushBlockFull      FlushTaskWithoutSync(TRUE)            *)
(*   query         head of the loop of QueryFlushedTasks                   *)
(*   queried       the same, with the status of the oldest task read       *)
(*   touchQuery    TouchFlushedTasks, about to query                       *)
(*   wait, waitBo  WaitForTaskFinished: flushing, then in bo_wait          *)
(*   clean, cleanPoll, destroy       CleanQueue and ~CmQueue_RT            *)
(*   closed        the queue is deleted                                    *)
(*   crashed       the call stack has overflowed                           *)
(***************************************************************************)
Frames == {"flush", "flushFull", "flushBlock", "flushBlockFull", "query",
           "queried", "touchQuery", "wait", "waitBo", "clean", "cleanPoll",
           "destroy", "closed", "crashed"}

TypeOK ==
    /\ HalTypeOK
    /\ enqueuedTasks \in Seq(Tasks)
    /\ flushedTasks \in Seq(Tasks)
    /\ created \in SUBSET Tasks
    /\ evStatus \in [Tasks -> Statuses]
    /\ driverId \in [Tasks -> TaskIds \cup {-1}]
    /\ refCount \in [Tasks -> Int]
    /\ evIndex \in [Tasks -> Nat]
    /\ eventArray \in Seq(Tasks \cup {NULL})
    /\ userRef \in SUBSET Tasks
    /\ surfState \in [Surfaces -> Int]
    /\ stack \in Seq(Frames)
    /\ subject \in Tasks \cup {NULL}

Init ==
    /\ HalInit
    /\ enqueuedTasks = <<>> /\ flushedTasks = <<>> /\ created = {}
    /\ evStatus = [t \in Tasks |-> "None"]
    /\ driverId = [t \in Tasks |-> -1]
    /\ refCount = [t \in Tasks |-> 0]
    /\ evIndex = [t \in Tasks |-> 0]
    /\ eventArray = <<>>
    /\ userRef = {}
    /\ surfState = [s \in Surfaces |-> 0]
    /\ stack = <<>>
    /\ subject = NULL

-----------------------------------------------------------------------------
(***************************************************************************)
(* The call stack.                                                         *)
(***************************************************************************)
Idle == stack = <<>>
At(f) == stack # <<>> /\ Last(stack) = f
Goto(f) == stack' = [stack EXCEPT ![Len(stack)] = f]
Return == stack' = Front(stack)

\* Call callee and go on at cont when it returns; a stack of MaxDepth frames
\* overflows.
Call(cont, callee) ==
    stack' = IF Len(stack) < MaxDepth
               THEN Append([stack EXCEPT ![Len(stack)] = cont], callee)
               ELSE <<"crashed">>

-----------------------------------------------------------------------------
(***************************************************************************)
(* Events.                                                                 *)
(***************************************************************************)
FreeSlots == {i \in 1 .. Len(eventArray) + 1 :
                 i <= Len(eventArray) => eventArray[i] = NULL}

GetFirstFreeIndex == Min(FreeSlots)

\* SetElement, which grows the array when the slot is past its end.
SetElement(i, t) ==
    eventArray' = IF i <= Len(eventArray)
                    THEN [eventArray EXCEPT ![i] = t]
                    ELSE Append(eventArray, t)

\* CmQueue_RT::CreateEvent, CmEvent_RT::Create and CmTaskInternal::SetTaskEvent:
\* one reference for the task and one for the application if it asked for it.
CreateEvent(t, visible) ==
    /\ evStatus' = [evStatus EXCEPT ![t] = "QUEUED"]
    /\ refCount' = [refCount EXCEPT ![t] = IF visible THEN 2 ELSE 1]
    /\ evIndex' = [evIndex EXCEPT ![t] = GetFirstFreeIndex]
    /\ SetElement(GetFirstFreeIndex, t)
    /\ userRef' = IF visible THEN userRef \cup {t} ELSE userRef
    /\ UNCHANGED driverId

\* The event keeps its slot of the array after it is deleted.
MutReleaseEvent(t) ==
    /\ refCount' = [refCount EXCEPT ![t] = @ - 1]
    /\ evStatus' = IF refCount[t] = 1
                     THEN [evStatus EXCEPT ![t] = "Deleted"] ELSE evStatus
    /\ UNCHANGED <<eventArray, driverId, evIndex>>

\* SafeRelease, which deletes the event with the last reference, and after it
\* the slot: in CmQueue_RT::DestroyEvent, and in ~CmTaskInternal during a pop.
\* One step, as no other call is in progress and the GPU touches neither.
ReleaseEvent(t) ==
    /\ refCount' = [refCount EXCEPT ![t] = @ - 1]
    /\ IF refCount[t] = 1
         THEN /\ evStatus' = [evStatus EXCEPT ![t] = "Deleted"]
              /\ eventArray' = [eventArray EXCEPT ![evIndex[t]] = NULL]
         ELSE UNCHANGED <<evStatus, eventArray>>
    /\ UNCHANGED <<driverId, evIndex>>

\* CmEvent_RT::Query: ask the HAL about a task it has accepted.
Query(t) ==
    IF evStatus[t] \in {"FLUSHED", "STARTED"}
      THEN /\ HalCm_QueryTask(driverId[t])
           /\ evStatus' = [evStatus EXCEPT ![t] =
                IF QueryStatus(driverId[t]) = "FINISHED" THEN "FINISHED"
                ELSE IF QueryStatus(driverId[t]) = "IN_PROGRESS" THEN "STARTED"
                ELSE @]
      ELSE UNCHANGED <<halVars, evStatus>>

-----------------------------------------------------------------------------
(***************************************************************************)
(* FlushTaskWithoutSync.                                                   *)
(***************************************************************************)
IsFull == Len(flushedTasks) >= MaxTasks

\* The flushed list is used as a stack: the newest task comes first.
MutPushFlushed(t) == flushedTasks' = <<t>> \o flushedTasks

PushFlushed(t) == flushedTasks' = Append(flushedTasks, t)

\* FlushGeneralTask, FlushGroupTask or FlushEnqueueWithHintsTask went well.
FlushSucceeds(t) ==
    /\ evStatus[t] = "QUEUED"
    /\ HalCm_ExecuteTask(t)
    /\ evStatus' = [evStatus EXCEPT ![t] = "FLUSHED"]
    /\ driverId' = [driverId EXCEPT ![t] = HalCm_GetNewTaskId]

\* The HAL runs the task but there is no event to give the slot to.
FlushWithoutEvent(t) ==
    /\ evStatus[t] = "None"
    /\ HalCm_ExecuteTask(t)
    /\ UNCHANGED <<evStatus, driverId>>

\* The HAL refuses the task, always if it has no free slot for it.
FlushFails(t) ==
    /\ HalMayFail \/ FreeIds = {}
    /\ HalCm_ExecuteTaskFails
    /\ UNCHANGED <<evStatus, driverId>>

\* The Pop of the loop body: it goes to the flushed list whatever happened.
FlushOne(loop) ==
    LET t == Head(enqueuedTasks) IN
    /\ enqueuedTasks' = Tail(enqueuedTasks)
    /\ PushFlushed(t)
    /\ FlushSucceeds(t) \/ FlushWithoutEvent(t) \/ FlushFails(t)
    /\ Goto(loop)
    /\ UNCHANGED <<created, surfState, refCount, evIndex, eventArray, userRef,
                   subject>>

\* Head of the loop of FlushTaskWithoutSync(), and of its blocking form.
FlushLoop(loop, full) ==
    /\ At(loop)
    /\ \/ /\ enqueuedTasks = <<>>
          /\ Return
          /\ UNCHANGED <<queueVars, eventVars, evStatus, halVars, subject>>
       \/ /\ enqueuedTasks # <<>> /\ IsFull
          /\ Call(full, "query")
          /\ UNCHANGED <<queueVars, eventVars, evStatus, halVars, subject>>
       \/ /\ enqueuedTasks # <<>> /\ ~IsFull
          /\ FlushOne(loop)

\* QueryFlushedTasks has made room: Pop, which asserts and gives NULL when a
\* nested flush has emptied the list in the meantime.
FlushRoom(loop, full) ==
    /\ At(full) /\ ~IsFull
    /\ IF enqueuedTasks # <<>>
         THEN FlushOne(loop)
         ELSE /\ Return
              /\ UNCHANGED <<queueVars, eventVars, evStatus, halVars, subject>>

\* It has not: the blocking form asks again, the other one gives up.
FlushStillFull(full) ==
    /\ At(full) /\ IsFull
    /\ IF full = "flushBlockFull" THEN Call(full, "query") ELSE Return
    /\ UNCHANGED <<queueVars, eventVars, evStatus, halVars, subject>>

FlushTaskWithoutSync ==
    \E b \in {<<"flush", "flushFull">>, <<"flushBlock", "flushBlockFull">>} :
        FlushLoop(b[1], b[2]) \/ FlushRoom(b[1], b[2]) \/ FlushStillFull(b[2])

-----------------------------------------------------------------------------
(***************************************************************************)
(* QueryFlushedTasks.                                                      *)
(***************************************************************************)

\* GetStatus flushes whatever the status of the event is, after asking the HAL.
MutQueryTop ==
    /\ At("query")
    /\ \/ /\ flushedTasks = <<>>
          /\ Return
          /\ UNCHANGED <<evStatus, halVars>>
       \/ /\ flushedTasks # <<>>
          /\ Query(Head(flushedTasks))
          /\ IF evStatus[Head(flushedTasks)] = "FINISHED"
               THEN Goto("queried") ELSE Call("queried", "flush")
    /\ UNCHANGED <<queueVars, eventVars, subject>>

\* CmTaskInternal::GetTaskStatus of the oldest flushed task: it fails without
\* an event, flushes if the event is still QUEUED, and queries otherwise.
QueryTop ==
    /\ At("query")
    /\ \/ /\ flushedTasks = <<>>
          /\ Return
          /\ UNCHANGED <<evStatus, halVars>>
       \/ /\ flushedTasks # <<>>
          /\ evStatus[Head(flushedTasks)] = "QUEUED"
          /\ Call("queried", "flush")
          /\ UNCHANGED <<evStatus, halVars>>
       \/ /\ flushedTasks # <<>>
          /\ evStatus[Head(flushedTasks)] # "QUEUED"
          /\ Query(Head(flushedTasks))
          /\ Goto("queried")
    /\ UNCHANGED <<queueVars, eventVars, subject>>

UpdateSurfaceStateOnPop(t) ==
    surfState' = [s \in Surfaces |->
                    IF s \in Uses[t] THEN surfState[s] - 1 ELSE surfState[s]]

\* A task that has only started is popped.
MutMayPop == evStatus[Head(flushedTasks)] \in {"STARTED", "FINISHED"}

MayPop == evStatus[Head(flushedTasks)] = "FINISHED"

\* PopTaskFromFlushedQueue, with ~CmTaskInternal dropping the event.
PopTaskFromFlushedQueue ==
    /\ At("queried")
    /\ MayPop
    /\ flushedTasks' = Tail(flushedTasks)
    /\ UpdateSurfaceStateOnPop(Head(flushedTasks))
    /\ ReleaseEvent(Head(flushedTasks))
    /\ Goto("query")
    /\ UNCHANGED <<enqueuedTasks, created, userRef, subject, halVars>>

\* The oldest task has not finished: break.
QueryBreak ==
    /\ At("queried")
    /\ ~MayPop
    /\ Return
    /\ UNCHANGED <<queueVars, eventVars, evStatus, halVars, subject>>

QueryFlushedTasks == QueryTop \/ PopTaskFromFlushedQueue \/ QueryBreak

-----------------------------------------------------------------------------
(***************************************************************************)
(* Calls of the application and of the surface manager.                    *)
(***************************************************************************)

UpdateSurfaceStateOnPush(t) ==
    surfState' = [s \in Surfaces |->
                    IF s \in Uses[t] THEN surfState[s] + 1 ELSE surfState[s]]

\* Enqueue, EnqueueWithGroup and each task of EnqueueWithHints.
Enqueue(t, visible) ==
    /\ Idle
    /\ t \notin created
    /\ created' = created \cup {t}
    /\ enqueuedTasks' = Append(enqueuedTasks, t)
    /\ CreateEvent(t, visible)
    /\ UpdateSurfaceStateOnPush(t)
    /\ stack' = <<"flush">>
    /\ UNCHANGED <<flushedTasks, subject, halVars>>

\* CreateEvent fails: Enqueue returns its error with the task left in the list.
EnqueueWithoutEvent(t) ==
    /\ Idle
    /\ AllocMayFail
    /\ t \notin created
    /\ created' = created \cup {t}
    /\ enqueuedTasks' = Append(enqueuedTasks, t)
    /\ UNCHANGED <<flushedTasks, surfState, eventVars, evStatus, stack, subject,
                   halVars>>

\* CmEvent_RT::GetStatus, also under GetExecutionTime and the other getters.
GetStatus(t) ==
    /\ Idle
    /\ t \in userRef
    /\ IF evStatus[t] = "QUEUED"
         THEN stack' = <<"flush">> /\ UNCHANGED <<evStatus, halVars>>
         ELSE Query(t) /\ UNCHANGED stack
    /\ UNCHANGED <<queueVars, eventVars, subject>>

\* The application's CmQueue_RT::DestroyEvent.
DestroyEvent(t) ==
    /\ Idle
    /\ t \in userRef
    /\ userRef' = userRef \ {t}
    /\ ReleaseEvent(t)
    /\ UNCHANGED <<queueVars, stack, subject, halVars>>

TouchFlushedTasks ==
    /\ Idle
    /\ \/ flushedTasks # <<>> /\ stack' = <<"query">>
       \/ /\ flushedTasks = <<>> /\ enqueuedTasks # <<>>
          /\ stack' = <<"touchQuery", "flush">>
    /\ UNCHANGED <<queueVars, eventVars, evStatus, subject, halVars>>

\* A task the HAL refused, or ran without an event, is on the flushed list.
Failed(t) == evStatus[t] \in {"QUEUED", "None"}
SomeFlushFailed ==
    \E k \in DOMAIN flushedTasks : Failed(flushedTasks[k])

\* The call returns early if the last task of its flush failed; the model lets
\* it do so when any has.
TouchQuery ==
    /\ At("touchQuery")
    /\ \/ Goto("query")
       \/ SomeFlushFailed /\ Return
    /\ UNCHANGED <<queueVars, eventVars, evStatus, subject, halVars>>

WaitForTaskFinished(t) ==
    /\ Idle
    /\ t \in userRef
    /\ stack' = <<"wait">>
    /\ subject' = t
    /\ UNCHANGED <<queueVars, eventVars, evStatus, halVars>>

\* while (m_Status == CM_STATUS_QUEUED) flush; then the first Query.
WaitFlush ==
    /\ At("wait")
    /\ IF evStatus[subject] = "QUEUED"
         THEN Call("wait", "flush") /\ UNCHANGED <<evStatus, halVars>>
         ELSE Query(subject) /\ Goto("waitBo")
    /\ UNCHANGED <<queueVars, eventVars, subject>>

WaitReturns ==
    /\ At("waitBo")
    /\ evStatus[subject] = "FINISHED"
    /\ Return
    /\ subject' = NULL
    /\ UNCHANGED <<queueVars, eventVars, evStatus, halVars>>

MutWaitBo ==
    /\ At("waitBo")
    /\ evStatus[subject] # "FINISHED"
    /\ subject \in completed
    /\ UNCHANGED vars

\* drm_intel_gem_bo_wait returns when the batch is done, then Query again.
WaitBo ==
    /\ At("waitBo")
    /\ evStatus[subject] # "FINISHED"
    /\ subject \in completed
    /\ Query(subject)
    /\ UNCHANGED <<queueVars, eventVars, stack, subject>>

\* It gives up: CM_EXCEED_MAX_TIMEOUT.
WaitTimeout ==
    /\ At("waitBo")
    /\ MayTimeout
    /\ evStatus[subject] # "FINISHED"
    /\ Return
    /\ subject' = NULL
    /\ UNCHANGED <<queueVars, eventVars, evStatus, halVars>>

-----------------------------------------------------------------------------
(***************************************************************************)
(* CmQueue_RT::Destroy: CleanQueue, then the destructor.                   *)
(***************************************************************************)
CleanQueue ==
    /\ Idle
    /\ stack' = IF enqueuedTasks # <<>> THEN <<"clean", "flushBlock">>
                                        ELSE <<"clean">>
    /\ UNCHANGED <<queueVars, eventVars, evStatus, subject, halVars>>

CleanLoop ==
    /\ At("clean")
    /\ IF flushedTasks = <<>> THEN Goto("destroy") ELSE Call("cleanPoll", "query")
    /\ UNCHANGED <<queueVars, eventVars, evStatus, subject, halVars>>

\* After each QueryFlushedTasks the clock is read.
CleanPoll ==
    /\ At("cleanPoll")
    /\ \/ Goto("clean")
       \/ MayTimeout /\ Goto("destroy")
    /\ UNCHANGED <<queueVars, eventVars, evStatus, subject, halVars>>

\* ~CmQueue_RT deletes every event, ~CLinkedList drops what the lists hold.
DestroyQueue ==
    /\ At("destroy")
    /\ evStatus' = [t \in Tasks |->
                      IF refCount[t] > 0 THEN "Deleted" ELSE evStatus[t]]
    /\ refCount' = [t \in Tasks |-> 0]
    /\ eventArray' = <<>>
    /\ userRef' = {}
    /\ enqueuedTasks' = <<>> /\ flushedTasks' = <<>>
    /\ Goto("closed")
    /\ UNCHANGED <<created, surfState, driverId, evIndex, subject, halVars>>

\* After the queue is deleted, or the stack has overflowed, nothing runs.
Ended ==
    /\ At("closed") \/ At("crashed")
    /\ UNCHANGED vars

-----------------------------------------------------------------------------
\* The steps of the call in progress.
CallStep ==
    \/ FlushTaskWithoutSync \/ QueryFlushedTasks
    \/ TouchQuery
    \/ WaitFlush \/ WaitReturns \/ WaitBo \/ WaitTimeout
    \/ CleanLoop \/ CleanPoll \/ DestroyQueue

GpuStep ==
    /\ Gpu
    /\ UNCHANGED <<queueVars, eventVars, evStatus, stack, subject>>

Application ==
    \/ \E t \in Tasks, visible \in BOOLEAN : Enqueue(t, visible)
    \/ \E t \in Tasks : EnqueueWithoutEvent(t)
    \/ \E t \in Tasks : GetStatus(t)
    \/ \E t \in Tasks : DestroyEvent(t)
    \/ \E t \in Tasks : WaitForTaskFinished(t)
    \/ TouchFlushedTasks
    \/ CleanQueue

Next == Application \/ CallStep \/ GpuStep \/ Ended

Spec == Init /\ [][Next]_vars

-----------------------------------------------------------------------------
(***************************************************************************)
(* Fairness.  The thread of the call in progress keeps running, and the    *)
(* GPU keeps running the batches of its ring; the application is not       *)
(* obliged to call anything.                                               *)
(***************************************************************************)
FairSpec == Spec /\ WF_vars(CallStep) /\ WF_vars(GpuStep)

-----------------------------------------------------------------------------
(***************************************************************************)
(* Safety.                                                                 *)
(***************************************************************************)
InFlushed(t) == Contains(flushedTasks, t)
InEnqueued(t) == Contains(enqueuedTasks, t)
Pending(t) == InFlushed(t) \/ InEnqueued(t)
Open == ~At("closed")

\* No task is on the two lists, or twice on one of them, and a task that was
\* handed to Enqueue stays on a list until its event has been seen FINISHED:
\* Flush moves tasks between the lists one Pop and one Push at a time, through
\* failures and nested flushes.
NoTaskLost ==
    /\ IsInjective(flushedTasks) /\ IsInjective(enqueuedTasks)
    /\ \A t \in Tasks : ~(InFlushed(t) /\ InEnqueued(t))
    /\ Open => \A t \in created : ~Pending(t) => evStatus[t] \in {"FINISHED", "Deleted"}

\* The slot an event would query is still the slot of its own task: a query
\* never reads, or frees, a slot that was given to another task.
EventOwnsItsSlot ==
    \A t \in Tasks : evStatus[t] \in {"FLUSHED", "STARTED"}
        => driverId[t] \in TaskIds /\ taskStatusTable[driverId[t]] = t

\* The flushed list is never longer than the status table, and while it has
\* room the table has a free slot: FlushTaskWithoutSync counts tasks, the HAL
\* counts slots, and HalCm_GetNewTaskId must never fail on a queue with room.
SlotForEveryFlush ==
    /\ Len(flushedTasks) <= MaxTasks
    /\ Open /\ Len(flushedTasks) < MaxTasks => FreeIds # {}

\* An event that says FINISHED belongs to a task the GPU has ended.
FinishedMeansRan ==
    \A t \in Tasks : evStatus[t] = "FINISHED" => t \in completed

\* m_RefCount counts the task that is pending and the application that holds
\* the event, at most one each, so that ~CmQueue_RT never releases an event
\* more than twice; the event lives at its slot of m_EventArray exactly while
\* somebody holds it (the CM_ASSERT of DestroyEvent).  This is for one call at a
\* time: no lock protects the count or the slot (SlotHoldsEvent of CmThreads).
EventReferences ==
    \A t \in Tasks :
        /\ refCount[t] = (IF Pending(t) /\ evStatus[t] # "None" THEN 1 ELSE 0)
                         + (IF t \in userRef THEN 1 ELSE 0)
        /\ refCount[t] > 0 <=> Contains(eventArray, t)
        /\ refCount[t] > 0 => /\ evIndex[t] \in DOMAIN eventArray
                              /\ eventArray[evIndex[t]] = t
                              /\ evStatus[t] # "Deleted"

\* Nobody sees the status of an event go back.
Rank(status) ==
    CASE status = "None" -> 0 [] status = "QUEUED" -> 1 [] status = "FLUSHED" -> 2
      [] status = "STARTED" -> 3 [] status = "FINISHED" -> 4 [] status = "Deleted" -> 5
StatusNeverRegresses ==
    [][\A t \in Tasks : Rank(evStatus'[t]) >= Rank(evStatus[t])]_vars

\* CQueue::Pop is never called on the empty list of enqueued tasks
\* (CM_ASSERT(0), cm_basic_queue.cpp:52): holds while the HAL accepts every task.
NoPopOfEmptyList ==
    (At("flushFull") \/ At("flushBlockFull")) /\ ~IsFull => enqueuedTasks # <<>>

-----------------------------------------------------------------------------
(***************************************************************************)
(* Liveness, when the HAL accepts every task and nothing times out.        *)
(***************************************************************************)

\* Every call returns: no call spins for ever on the queue lock it holds.
CallsReturn == ~Idle ~> (Idle \/ At("closed"))

\* A task that was enqueued and whose event is waited for is ended by the GPU
\* and the waiting call sees it.
WaitSeesTheEnd ==
    \A t \in Tasks : (subject = t) ~> (evStatus[t] = "FINISHED" /\ t \in completed)
=============================================================================
