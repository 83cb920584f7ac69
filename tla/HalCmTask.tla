------------------------------- MODULE HalCmTask -------------------------------
(***************************************************************************)
(* The task table of the hardware abstraction layer (hal_cm.cpp, hal_cm.h, *)
(* hal_cm_g75.cpp) and the GPU that runs what it submits.                  *)
(*                                                                         *)
(* A submitted task owns a slot of pTaskStatusTable.  The command buffer   *)
(* of the task makes the GPU write two words at the sync location of the   *)
(* slot, one when it starts and one when it ends; HalCm_QueryTask reads    *)
(* the words and frees the slot of a task that has ended.  The words       *)
(* belong to the slot, not to the task: the next owner resets them.        *)
(***************************************************************************)
EXTENDS Integers, Sequences, FiniteSets, SequencesExt

CONSTANTS
    Tasks,      \* CmTaskInternal objects, each submitted at most once
    MaxTasks,   \* CmDeviceParam.iMaxTasks, the size of the status table
    NULL        \* CM_INVALID_INDEX in the status table, NULL in an array

ASSUME TasksAssumption == IsFiniteSet(Tasks) /\ NULL \notin Tasks
ASSUME MaxTasksAssumption == MaxTasks \in Nat \ {0}

VARIABLES
    taskStatusTable,  \* slot -> task it was given to, NULL when it is free
    sync,             \* slot -> what its two sync words say
    ring,             \* batches the GPU has still to end, oldest first
    completed         \* history: tasks whose batch the GPU has ended

halVars == <<taskStatusTable, sync, ring, completed>>

TaskIds == 0 .. MaxTasks - 1

\* "reset": both words invalid; "start": the first is written; "end": both.
SyncWords == {"reset", "start", "end"}

Batches == [task : Tasks, id : TaskIds]

HalTypeOK ==
    /\ taskStatusTable \in [TaskIds -> Tasks \cup {NULL}]
    /\ sync \in [TaskIds -> SyncWords]
    /\ ring \in Seq(Batches)
    /\ completed \in SUBSET Tasks

HalInit ==
    /\ taskStatusTable = [i \in TaskIds |-> NULL]
    /\ sync = [i \in TaskIds |-> "reset"]
    /\ ring = <<>>
    /\ completed = {}

-----------------------------------------------------------------------------
FreeIds == {i \in TaskIds : taskStatusTable[i] = NULL}

\* The slot after the last one in use, not looking for one that was freed.
MutNewTaskIdAfterLast ==
    IF FreeIds = TaskIds THEN 0 ELSE Max(TaskIds \ FreeIds) + 1

\* A table that forgot to look whether the slot is taken.
MutGetNewTaskId == 0

\* The first free slot; only asked for when there is one.
HalCm_GetNewTaskId == Min(FreeIds)

\* The sync words keep what the previous owner of the slot left in them.
MutSubmitCommands(t, id) ==
    /\ ring' = Append(ring, [task |-> t, id |-> id])
    /\ sync' = sync

\* The words of the slot are reset before the batch reaches the ring.
HalCm_SubmitCommands(t, id) ==
    /\ sync' = [sync EXCEPT ![id] = "reset"]
    /\ ring' = Append(ring, [task |-> t, id |-> id])

\* HalCm_ExecuteTask, _ExecuteGroupTask and _ExecuteHintsTask: choose a slot,
\* submit, then mark the slot.
HalCm_ExecuteTask(t) ==
    /\ FreeIds # {}
    /\ HalCm_SubmitCommands(t, HalCm_GetNewTaskId)
    /\ taskStatusTable' = [taskStatusTable EXCEPT ![HalCm_GetNewTaskId] = t]
    /\ UNCHANGED completed

\* The same calls on their error paths, which all come before the slot is
\* marked: the words of the slot may have been reset by then.
HalCm_ExecuteTaskFails ==
    /\ \/ sync' = sync
       \/ FreeIds # {} /\ sync' = [sync EXCEPT ![HalCm_GetNewTaskId] = "reset"]
    /\ UNCHANGED <<taskStatusTable, ring, completed>>

\* The start word alone is taken for the end of the task.
MutQueryStatus(id) ==
    IF id \notin TaskIds \/ id \in FreeIds THEN "ERROR"
    ELSE IF sync[id] = "reset" THEN "QUEUED" ELSE "FINISHED"

\* What HalCm_QueryTask answers for a slot: an error if the slot is free.
QueryStatus(id) ==
    IF id \notin TaskIds \/ id \in FreeIds THEN "ERROR"
    ELSE IF sync[id] = "reset" THEN "QUEUED"
    ELSE IF sync[id] = "start" THEN "IN_PROGRESS"
    ELSE "FINISHED"

\* The slot of an ended task is never given back.
MutTableAfterQuery(id) == taskStatusTable

\* The table after the query: the slot of a finished task is free again.
TableAfterQuery(id) ==
    IF QueryStatus(id) = "FINISHED"
      THEN [taskStatusTable EXCEPT ![id] = NULL]
      ELSE taskStatusTable

HalCm_QueryTask(id) ==
    /\ taskStatusTable' = TableAfterQuery(id)
    /\ UNCHANGED <<sync, ring, completed>>

-----------------------------------------------------------------------------
(***************************************************************************)
(* The GPU: batches run one at a time in the order of the ring and write   *)
(* the words of their slot.                                                *)
(***************************************************************************)
GpuStart ==
    /\ ring # <<>>
    /\ sync[Head(ring).id] = "reset"
    /\ sync' = [sync EXCEPT ![Head(ring).id] = "start"]
    /\ UNCHANGED <<taskStatusTable, ring, completed>>

GpuEnd ==
    /\ ring # <<>>
    /\ sync[Head(ring).id] = "start"
    /\ sync' = [sync EXCEPT ![Head(ring).id] = "end"]
    /\ ring' = Tail(ring)
    /\ completed' = completed \cup {Head(ring).task}
    /\ UNCHANGED taskStatusTable

Gpu == GpuStart \/ GpuEnd

-----------------------------------------------------------------------------
(***************************************************************************)
(* The layer on its own, under a client that submits each task once and    *)
(* queries any slot at any time.                                           *)
(***************************************************************************)
Owned(t) == \E i \in TaskIds : taskStatusTable[i] = t

HalNext ==
    \/ \E t \in Tasks :
         /\ ~Owned(t) /\ t \notin completed
         /\ HalCm_ExecuteTask(t)
    \/ HalCm_ExecuteTaskFails
    \/ \E id \in TaskIds : HalCm_QueryTask(id)
    \/ Gpu

HalSpec == HalInit /\ [][HalNext]_halVars

\* A slot whose words say "end" has an owner the GPU really ended: a query
\* never reports FINISHED for a task because of the words of the slot's
\* previous owner (HalCm_SubmitCommands resets them, hal_cm_g75.cpp:58-59).
FinishedIsTrue ==
    \A i \in TaskIds :
        taskStatusTable[i] # NULL /\ sync[i] = "end"
            => taskStatusTable[i] \in completed

\* The GPU never writes the sync words of a slot that has passed to another
\* task: every batch still in the ring is that of its slot's owner, and no
\* two batches share a slot.
RingOwnsItsSlots ==
    /\ \A k \in DOMAIN ring : taskStatusTable[ring[k].id] = ring[k].task
    /\ \A k, l \in DOMAIN ring : ring[k].id = ring[l].id => k = l

\* A slot in use by a batch of the ring never looks ended, so that no query
\* frees it; with it the two properties above are inductive.
RingNotEnded == \A k \in DOMAIN ring : sync[ring[k].id] # "end"

HalInv == HalTypeOK /\ FinishedIsTrue /\ RingOwnsItsSlots /\ RingNotEnded
=============================================================================
