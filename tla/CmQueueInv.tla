------------------------------ MODULE CmQueueInv ------------------------------
(***************************************************************************)
(* The inductive invariant of CmQueue, in the parts the proofs work with.  *)
(* The safety properties of CmQueue that are proved follow from it.        *)
(***************************************************************************)
EXTENDS CmQueue

HasEvent(t) == evStatus[t] # "None"

ListInv ==
    /\ IsInjective(flushedTasks) /\ IsInjective(enqueuedTasks)
    /\ \A t \in Tasks : ~(InFlushed(t) /\ InEnqueued(t))
    /\ \A t \in Tasks : Pending(t) => t \in created
    /\ Len(flushedTasks) <= MaxTasks

\* What the lists say of the status of an event.
StatusInv ==
    /\ \A t \in Tasks : t \notin created => ~HasEvent(t)
    /\ \A t \in Tasks : InEnqueued(t) => evStatus[t] \in {"None", "QUEUED"}
    /\ Open => \A t \in created : ~Pending(t) => evStatus[t] \in {"FINISHED", "Deleted"}
    /\ FinishedMeansRan

\* Who holds an event.  A task on a list is a holder, so that the application
\* cannot delete the event of a pending task.
RefInv ==
    \A t \in Tasks :
        /\ refCount[t] = (IF Pending(t) /\ HasEvent(t) THEN 1 ELSE 0)
                         + (IF t \in userRef THEN 1 ELSE 0)
        /\ t \in userRef => HasEvent(t)
        /\ evStatus[t] = "Deleted" => refCount[t] = 0

\* Every slot that is taken belongs to one flushed task: through its event, or
\* for ever if the task has none.
SlotInv ==
    /\ EventOwnsItsSlot
    /\ Open => \A i \in TaskIds, t \in Tasks : taskStatusTable[i] = t =>
         /\ InFlushed(t)
         /\ ~HasEvent(t) \/ (evStatus[t] \in {"FLUSHED", "STARTED"} /\ driverId[t] = i)
    /\ \A i, j \in TaskIds :
         taskStatusTable[i] = taskStatusTable[j] /\ taskStatusTable[i] # NULL => i = j

\* Frames that are only ever the outermost one of the call in progress.
RootFrames == {"touchQuery", "wait", "waitBo", "clean", "cleanPoll", "destroy",
               "closed", "crashed"}

\* QueryFlushedTasks holds a task that is still the oldest flushed one when it
\* looks at its status, even if GetStatus has run a nested flush: the nested
\* flush happens only behind a refused task, which no nested query pops.
FrameInv ==
    \A k \in 1 .. Len(stack) :
        /\ stack[k] \in RootFrames => k = 1
        /\ stack[k] \in {"wait", "waitBo"} => subject \in Tasks
        /\ stack[k] = "queried" =>
             /\ flushedTasks # <<>>
             /\ k < Len(stack) => evStatus[Head(flushedTasks)] = "QUEUED"

QueueInv == TypeOK /\ HalInv /\ ListInv /\ StatusInv /\ RefInv /\ SlotInv /\ FrameInv
-----------------------------------------------------------------------------
(***************************************************************************)
(* The array of events.                                                    *)
(***************************************************************************)
\* An event that is held is in the array, at its index and nowhere else.
ArrayInv ==
    /\ \A t \in Tasks : refCount[t] > 0 =>
         evIndex[t] \in DOMAIN eventArray /\ eventArray[evIndex[t]] = t
    /\ \A i \in DOMAIN eventArray : eventArray[i] # NULL =>
         refCount[eventArray[i]] > 0 /\ evIndex[eventArray[i]] = i

-----------------------------------------------------------------------------
(***************************************************************************)
(* The order of the tasks, when the HAL accepts every task and nothing     *)
(* fails or times out.                                                     *)
(***************************************************************************)
\* A refinement mapping that forgets which list a task is on and the status of
\* an event but FINISHED.
TaskOrder == INSTANCE CmTaskOrder WITH
    outstanding <- flushedTasks \o enqueuedTasks,
    executed <- completed,
    reported <- {t \in Tasks : evStatus[t] \in {"FINISHED", "Deleted"}}

\* Enqueued tasks run in order, each once, and are reported only after they ran
\* (Enqueue, FlushTaskWithoutSync and QueryFlushedTasks together).
ImplementsTaskOrder == TaskOrder!OrderSpec

\* What the lists say of the status, and of the GPU.
AcceptedInv ==
    /\ \A t \in Tasks :
         /\ InFlushed(t) => evStatus[t] \in {"FLUSHED", "STARTED", "FINISHED"}
         /\ InEnqueued(t) => evStatus[t] = "QUEUED"
         /\ evStatus[t] = "Deleted" => t \in completed
         /\ t \in completed => t \in created /\ ~InEnqueued(t)
         /\ t \in created /\ ~Pending(t) => evStatus[t] \in {"FINISHED", "Deleted"}

\* The ring is the end of the flushed list.
RingInv ==
    LET ended == Len(flushedTasks) - Len(ring) IN
    /\ 0 <= ended
    /\ \A n \in 1 .. Len(ring) : /\ ring[n].task = flushedTasks[ended + n]
                                 /\ ring[n].task \notin completed
    /\ \A n \in 1 .. ended : flushedTasks[n] \in completed

\* No flush is nested in a query, as no refused task makes GetStatus flush: the
\* list of enqueued tasks does not change while a flush asks for room, and is
\* empty when CleanQueue polls.
OrderlyInv ==
    \A k \in 1 .. Len(stack) :
      /\ stack[k] \in {"flush", "flushBlock", "query", "queried", "waitBo", "destroy",
                       "closed", "crashed"} => k = Len(stack)
      /\ stack[k] \in {"flushFull", "flushBlockFull"} =>
           /\ enqueuedTasks # <<>>
           /\ k < Len(stack) => stack[k + 1] \in {"query", "queried"}
      /\ stack[k] \in {"cleanPoll", "destroy"} => enqueuedTasks = <<>>
      /\ stack[k] = "clean" =>
           IF k = Len(stack) THEN enqueuedTasks = <<>>
           ELSE stack[k + 1] \in {"flushBlock", "flushBlockFull"}
      /\ stack[k] = "destroy" => flushedTasks = <<>>

OrderInv == AcceptedInv /\ RingInv /\ OrderlyInv
=============================================================================
