---------------------------- MODULE HalCmTask_proofs ----------------------------
(***************************************************************************)
(* Proofs about the task table of the HAL, for every set of tasks and      *)
(* every size of the table.                                                *)
(***************************************************************************)
EXTENDS HalCmTask, TLAPS, SequenceTheorems, FiniteSetTheorems,
        WellFoundedInduction

\* A non-empty set of naturals has a least element.
LEMMA LeastExists ==
  ASSUME NEW S \in SUBSET Nat, S # {}
  PROVE  \E i \in S : \A j \in S : i <= j
<1> DEFINE R == OpToRel(<, Nat)
<1>1. IsWellFoundedOn(R, Nat)
  BY NatLessThanWellFounded
<1> HIDE DEF R
<1>2. PICK x \in S : \A y \in S : ~ (<<y, x>> \in R)
  BY <1>1, WFMin
<1>3. \A y \in S : ~ (y < x)
  <2> TAKE y \in S
  <2>1. <<y, x>> \notin R
    BY <1>2
  <2> QED BY <2>1 DEF R, OpToRel
<1> QED BY <1>3

\* HalCm_GetNewTaskId finds a free slot when there is one.
LEMMA NewTaskIdIsFree ==
  ASSUME FreeIds # {}
  PROVE  HalCm_GetNewTaskId \in FreeIds
<1>1. FreeIds \in SUBSET Nat
  BY MaxTasksAssumption DEF FreeIds, TaskIds
<1> QED BY <1>1, LeastExists DEF HalCm_GetNewTaskId, Min

-----------------------------------------------------------------------------
LEMMA HalInitInv == HalInit => HalInv
<1> SUFFICES ASSUME HalInit PROVE HalInv
  OBVIOUS
<1> QED
  BY DEF HalInit, HalInv, HalTypeOK, FinishedIsTrue, RingOwnsItsSlots,
         RingNotEnded, SyncWords

LEMMA RingMembers ==
  ASSUME HalTypeOK
  PROVE  \A k \in DOMAIN ring :
           ring[k] \in Batches /\ ring[k].id \in TaskIds /\ ring[k].task \in Tasks
<1> SUFFICES ASSUME NEW k \in DOMAIN ring
             PROVE  ring[k] \in Batches
  BY DEF Batches
<1> QED BY DEF HalTypeOK

\* The batches of the ring after a submission: the old ones, then the new one.
LEMMA RingAppend ==
  ASSUME HalTypeOK, NEW b \in Batches
  PROVE  /\ Append(ring, b) \in Seq(Batches)
         /\ DOMAIN Append(ring, b) = 1 .. Len(ring) + 1
         /\ DOMAIN ring = 1 .. Len(ring)
         /\ Len(ring) \in Nat
         /\ \A k \in DOMAIN ring :
              ring[k] \in Batches /\ Append(ring, b)[k] = ring[k]
         /\ Append(ring, b)[Len(ring) + 1] = b
  BY DEF HalTypeOK

LEMMA ExecuteKeepsHalInv ==
  ASSUME HalInv, NEW t \in Tasks, HalCm_ExecuteTask(t)
  PROVE  HalInv'
<1> DEFINE id == HalCm_GetNewTaskId
           b == [task |-> t, id |-> id]
<1>1. id \in FreeIds
  BY NewTaskIdIsFree DEF HalCm_ExecuteTask
<1>2. id \in TaskIds /\ taskStatusTable[id] = NULL
  BY <1>1 DEF FreeIds
<1>3. b \in Batches
  BY <1>2 DEF Batches
<1> HIDE DEF id
<1>4. /\ ring' = Append(ring, b)
      /\ sync' = [sync EXCEPT ![id] = "reset"]
      /\ taskStatusTable' = [taskStatusTable EXCEPT ![id] = t]
      /\ completed' = completed
  BY DEF HalCm_ExecuteTask, HalCm_SubmitCommands, id
<1>5. /\ DOMAIN ring' = 1 .. Len(ring) + 1
      /\ DOMAIN ring = 1 .. Len(ring) /\ Len(ring) \in Nat
      /\ \A k \in DOMAIN ring : ring'[k] = ring[k] /\ ring[k] \in Batches
      /\ ring'[Len(ring) + 1] = b
  BY <1>3, <1>4, RingAppend DEF HalInv
<1>6. HalTypeOK'
  BY <1>2, <1>3, <1>4, RingAppend DEF HalInv, HalTypeOK, SyncWords
<1>7. \A k \in DOMAIN ring : ring[k].id # id /\ ring[k].id \in TaskIds
  BY <1>2, <1>5, TasksAssumption DEF HalInv, RingOwnsItsSlots, Batches
<1>8. FinishedIsTrue'
  BY <1>2, <1>4 DEF HalInv, HalTypeOK, FinishedIsTrue
<1>9. RingOwnsItsSlots'
  BY <1>2, <1>4, <1>5, <1>7 DEF HalInv, HalTypeOK, RingOwnsItsSlots
<1>10. RingNotEnded'
  BY <1>2, <1>4, <1>5, <1>7 DEF HalInv, HalTypeOK, RingNotEnded
<1> QED BY <1>6, <1>8, <1>9, <1>10 DEF HalInv

\* A refused task leaves the layer as it was, but for the words of a slot that
\* nobody owns.
LEMMA ExecuteFailsKeepsHalInv ==
  ASSUME HalInv, HalCm_ExecuteTaskFails
  PROVE  HalInv'
<1>1. UNCHANGED <<taskStatusTable, ring, completed>>
  BY DEF HalCm_ExecuteTaskFails
<1>2. CASE sync' = sync
  BY <1>1, <1>2 DEF HalInv, HalTypeOK, FinishedIsTrue, RingOwnsItsSlots, RingNotEnded
<1>3. ASSUME NEW id \in FreeIds, sync' = [sync EXCEPT ![id] = "reset"]
      PROVE  HalInv'
  <2>1. id \in TaskIds /\ taskStatusTable[id] = NULL
    BY <1>3 DEF FreeIds
  <2>2. HalTypeOK' /\ FinishedIsTrue'
    BY <1>1, <1>3, <2>1 DEF HalInv, HalTypeOK, FinishedIsTrue, SyncWords
  <2>3. RingOwnsItsSlots'
    BY <1>1 DEF HalInv, RingOwnsItsSlots
  <2>4. RingNotEnded'
    BY <1>1, <1>3, <2>1, RingMembers DEF HalInv, HalTypeOK, RingNotEnded
  <2> QED BY <2>2, <2>3, <2>4 DEF HalInv
<1> QED BY <1>2, <1>3, NewTaskIdIsFree DEF HalCm_ExecuteTaskFails

\* What a query does to the table, and when.
LEMMA QueryFreesEnded ==
  ASSUME HalInv, NEW id, HalCm_QueryTask(id)
  PROVE  /\ UNCHANGED <<sync, ring, completed>>
         /\ \/ taskStatusTable' = taskStatusTable
            \/ /\ id \in TaskIds /\ taskStatusTable[id] # NULL
               /\ sync[id] = "end"
               /\ taskStatusTable' = [taskStatusTable EXCEPT ![id] = NULL]
<1>1. CASE QueryStatus(id) = "FINISHED"
  <2>1. id \in TaskIds /\ id \notin FreeIds
    BY <1>1 DEF QueryStatus
  <2>2. sync[id] = "end"
    BY <1>1, <2>1 DEF QueryStatus, HalInv, HalTypeOK, SyncWords
  <2> QED BY <1>1, <2>1, <2>2 DEF HalCm_QueryTask, TableAfterQuery, FreeIds
<1>2. CASE QueryStatus(id) # "FINISHED"
  BY <1>2 DEF HalCm_QueryTask, TableAfterQuery
<1> QED BY <1>1, <1>2

LEMMA QueryKeepsHalInv ==
  ASSUME HalInv, NEW id, HalCm_QueryTask(id)
  PROVE  HalInv'
<1>1. /\ UNCHANGED <<sync, ring, completed>>
      /\ \/ taskStatusTable' = taskStatusTable
         \/ /\ id \in TaskIds /\ taskStatusTable[id] # NULL
            /\ sync[id] = "end"
            /\ taskStatusTable' = [taskStatusTable EXCEPT ![id] = NULL]
  BY QueryFreesEnded
<1>2. HalTypeOK'
  BY <1>1 DEF HalInv, HalTypeOK
<1>3. FinishedIsTrue'
  BY <1>1 DEF HalInv, HalTypeOK, FinishedIsTrue
<1>4. RingOwnsItsSlots' /\ RingNotEnded'
  <2>1. \A k \in DOMAIN ring : sync[ring[k].id] # "end" /\ ring[k].id \in TaskIds
    BY RingMembers DEF HalInv, RingNotEnded
  <2>2. \A k \in DOMAIN ring : taskStatusTable'[ring[k].id] = taskStatusTable[ring[k].id]
    BY <1>1, <2>1 DEF HalInv, HalTypeOK
  <2> QED BY <1>1, <2>1, <2>2 DEF HalInv, RingOwnsItsSlots, RingNotEnded
<1> QED BY <1>2, <1>3, <1>4 DEF HalInv

LEMMA GpuKeepsHalInv ==
  ASSUME HalInv, Gpu
  PROVE  HalInv'
<1>1. ring # <<>>
  BY DEF Gpu, GpuStart, GpuEnd
<1>2. /\ Head(ring) \in Batches /\ Head(ring) = ring[1]
      /\ Tail(ring) \in Seq(Batches)
      /\ Len(ring) \in Nat \ {0} /\ DOMAIN ring = 1 .. Len(ring)
      /\ DOMAIN Tail(ring) = 1 .. Len(ring) - 1
      /\ \A k \in 1 .. Len(ring) - 1 : Tail(ring)[k] = ring[k + 1]
  BY <1>1 DEF HalInv, HalTypeOK
<1>3. Head(ring).id \in TaskIds /\ Head(ring).task \in Tasks
  BY <1>2 DEF Batches
<1>4. \A k \in DOMAIN ring : ring[k] \in Batches /\ ring[k].id \in TaskIds
  BY RingMembers DEF HalInv
<1>5. taskStatusTable[Head(ring).id] = Head(ring).task
  BY <1>2 DEF HalInv, RingOwnsItsSlots
<1>6. CASE GpuStart
  <2>1. /\ sync' = [sync EXCEPT ![Head(ring).id] = "start"]
        /\ UNCHANGED <<taskStatusTable, ring, completed>>
    BY <1>6 DEF GpuStart
  <2>2. HalTypeOK' /\ FinishedIsTrue'
    BY <1>3, <2>1 DEF HalInv, HalTypeOK, FinishedIsTrue, SyncWords
  <2>3. RingOwnsItsSlots' /\ RingNotEnded'
    BY <1>3, <1>4, <2>1 DEF HalInv, HalTypeOK, RingOwnsItsSlots, RingNotEnded
  <2> QED BY <2>2, <2>3 DEF HalInv
<1>7. CASE GpuEnd
  <2>1. /\ sync' = [sync EXCEPT ![Head(ring).id] = "end"]
        /\ ring' = Tail(ring)
        /\ completed' = completed \cup {Head(ring).task}
        /\ taskStatusTable' = taskStatusTable
    BY <1>7 DEF GpuEnd
  <2>2. HalTypeOK'
    BY <1>2, <1>3, <2>1 DEF HalInv, HalTypeOK, SyncWords
  <2>3. FinishedIsTrue'
    BY <1>3, <1>5, <2>1 DEF HalInv, HalTypeOK, FinishedIsTrue
  <2>4. RingOwnsItsSlots'
    BY <1>2, <2>1 DEF HalInv, RingOwnsItsSlots
  <2>5. \A k \in DOMAIN ring' : ring'[k].id # Head(ring).id
    BY <1>2, <2>1 DEF HalInv, RingOwnsItsSlots
  <2>6. RingNotEnded'
    BY <1>2, <1>3, <1>4, <2>1, <2>5 DEF HalInv, HalTypeOK, RingNotEnded
  <2> QED BY <2>2, <2>3, <2>4, <2>6 DEF HalInv
<1> QED BY <1>6, <1>7 DEF Gpu

-----------------------------------------------------------------------------
\* The layer keeps its invariant under any client that submits a task once.
THEOREM HalInvariant == HalSpec => []HalInv
<1>1. HalInv /\ [HalNext]_halVars => HalInv'
  <2> SUFFICES ASSUME HalInv, [HalNext]_halVars PROVE HalInv'
    OBVIOUS
  <2>1. CASE \E t \in Tasks : HalCm_ExecuteTask(t)
    BY <2>1, ExecuteKeepsHalInv
  <2>2. CASE \E id \in TaskIds : HalCm_QueryTask(id)
    BY <2>2, QueryKeepsHalInv
  <2>3. CASE Gpu
    BY <2>3, GpuKeepsHalInv
  <2>4. CASE UNCHANGED halVars
    BY <2>4 DEF halVars, HalInv, HalTypeOK, FinishedIsTrue, RingOwnsItsSlots,
                RingNotEnded
  <2>5. CASE HalCm_ExecuteTaskFails
    BY <2>5, ExecuteFailsKeepsHalInv
  <2> QED BY <2>1, <2>2, <2>3, <2>4, <2>5 DEF HalNext
<1> QED BY <1>1, HalInitInv, PTL DEF HalSpec

\* Type correctness.
THEOREM HalTypeCorrect == HalSpec => []HalTypeOK
<1>1. HalInv => HalTypeOK
  BY DEF HalInv
<1> QED BY <1>1, HalInvariant, PTL

\* A query never reports a task FINISHED that the GPU has not ended.
THEOREM HalFinishedIsTrue == HalSpec => []FinishedIsTrue
<1>1. HalInv => FinishedIsTrue
  BY DEF HalInv
<1> QED BY <1>1, HalInvariant, PTL

\* The GPU never writes the sync words of a slot that passed to another task.
THEOREM HalRingOwnsItsSlots == HalSpec => []RingOwnsItsSlots
<1>1. HalInv => RingOwnsItsSlots
  BY DEF HalInv
<1> QED BY <1>1, HalInvariant, PTL
=============================================================================
