----------------------------- MODULE CmQueue_proofs -----------------------------
(***************************************************************************)
(* Proofs about the task queue, for every set of tasks, every size of the  *)
(* status table, and with or without failures of the HAL, failures of      *)
(* allocation and timeouts.                                                *)
(***************************************************************************)
EXTENDS CmQueueInv, HalCmTask_proofs

-----------------------------------------------------------------------------
(***************************************************************************)
(* Sequences without repetition.                                           *)
(***************************************************************************)
LEMMA AppendContains ==
  ASSUME NEW S, NEW s \in Seq(S), NEW e \in S
  PROVE  /\ Append(s, e) \in Seq(S)
         /\ Append(s, e) # <<>>
         /\ Len(Append(s, e)) = Len(s) + 1
         /\ \A t : Contains(Append(s, e), t) <=> Contains(s, t) \/ t = e
         /\ IsInjective(s) /\ ~Contains(s, e) => IsInjective(Append(s, e))
         /\ s # <<>> => Head(Append(s, e)) = Head(s)
<1> DEFINE r == Append(s, e)
<1>1. /\ r \in Seq(S) /\ Len(r) = Len(s) + 1 /\ Len(s) \in Nat
      /\ DOMAIN r = 1 .. Len(s) + 1 /\ DOMAIN s = 1 .. Len(s)
      /\ \A k \in 1 .. Len(s) : r[k] = s[k]
      /\ r[Len(s) + 1] = e
  OBVIOUS
<1>2. s # <<>> => Head(r) = Head(s)
  OBVIOUS
<1>3. r # <<>>
  BY <1>1, EmptySeq
<1> HIDE DEF r
<1>4. \A t : Contains(r, t) <=> Contains(s, t) \/ t = e
  BY <1>1 DEF Contains
<1>5. ASSUME IsInjective(s), ~Contains(s, e) PROVE IsInjective(r)
  BY <1>1, <1>5 DEF Contains, IsInjective
<1> QED BY <1>1, <1>2, <1>3, <1>4, <1>5 DEF r

LEMMA TailContains ==
  ASSUME NEW S, NEW s \in Seq(S), s # <<>>
  PROVE  /\ Tail(s) \in Seq(S)
         /\ Head(s) \in S
         /\ Contains(s, Head(s))
         /\ Len(Tail(s)) = Len(s) - 1
         /\ Len(s) \in Nat
         /\ IsInjective(s) =>
              /\ IsInjective(Tail(s))
              /\ \A t : Contains(Tail(s), t) <=> Contains(s, t) /\ t # Head(s)
<1> DEFINE r == Tail(s)
           h == Head(s)
<1>1. /\ r \in Seq(S) /\ Len(r) = Len(s) - 1 /\ Len(s) \in Nat \ {0}
      /\ DOMAIN r = 1 .. Len(s) - 1 /\ DOMAIN s = 1 .. Len(s)
      /\ \A k \in 1 .. Len(s) - 1 : r[k] = s[k + 1]
      /\ h = s[1] /\ h \in S
  OBVIOUS
<1> HIDE DEF r, h
<1>2. Contains(s, h)
  BY <1>1 DEF Contains
<1>3. ASSUME IsInjective(s)
      PROVE  /\ IsInjective(r)
             /\ \A t : Contains(r, t) <=> Contains(s, t) /\ t # h
  <2>1. IsInjective(r)
    <3> SUFFICES ASSUME NEW a \in 1 .. Len(r), NEW b \in 1 .. Len(r), r[a] = r[b]
                 PROVE  a = b
      BY <1>1 DEF IsInjective
    <3>1. a + 1 \in 1 .. Len(s) /\ b + 1 \in 1 .. Len(s) /\ s[a + 1] = s[b + 1]
      BY <1>1
    <3>2. a + 1 = b + 1
      BY <1>1, <1>3, <3>1 DEF IsInjective
    <3> QED BY <3>2
  <2>2. ASSUME NEW t, Contains(r, t) PROVE Contains(s, t) /\ t # h
    BY <1>1, <1>3, <2>2 DEF Contains, IsInjective
  <2>3. ASSUME NEW t, Contains(s, t), t # h PROVE Contains(r, t)
    <3>1. PICK k \in 1 .. Len(s) : s[k] = t
      BY <2>3 DEF Contains
    <3>2. k # 1
      BY <1>1, <2>3, <3>1
    <3>3. k - 1 \in 1 .. Len(r) /\ r[k - 1] = t
      BY <1>1, <3>1, <3>2
    <3> QED BY <3>3 DEF Contains
  <2> QED BY <2>1, <2>2, <2>3
<1> QED BY <1>1, <1>2, <1>3 DEF r, h

LEMMA EmptyContains ==
  /\ \A t : ~Contains(<<>>, t)
  /\ IsInjective(<<>>)
BY DEF Contains, IsInjective

\* Overwriting an element, inside the sequence or not, keeps its type.
LEMMA ExceptInSeq ==
  ASSUME NEW S, NEW s \in Seq(S), NEW i, NEW e \in S
  PROVE  /\ [s EXCEPT ![i] = e] \in Seq(S)
         /\ Len([s EXCEPT ![i] = e]) = Len(s)
         /\ Len(s) \in Nat
         /\ DOMAIN s = 1 .. Len(s)
         /\ \A k \in 1 .. Len(s) : [s EXCEPT ![i] = e][k] = IF k = i THEN e ELSE s[k]
<1> DEFINE r == [s EXCEPT ![i] = e]
<1>1. s \in [1 .. Len(s) -> S] /\ Len(s) \in Nat /\ DOMAIN s = 1 .. Len(s)
  OBVIOUS
<1>2. r \in [1 .. Len(s) -> S]
  BY <1>1
<1>3. r \in Seq(S)
  BY <1>1, <1>2, SeqDef
<1>4. Len(r) = Len(s)
  BY <1>1, <1>2, <1>3
<1>5. \A k \in 1 .. Len(s) : r[k] = IF k = i THEN e ELSE s[k]
  BY <1>1
<1> QED BY <1>1, <1>3, <1>4, <1>5

-----------------------------------------------------------------------------
(***************************************************************************)
(* The call stack.                                                         *)
(***************************************************************************)
LEMMA GotoFrames ==
  ASSUME stack \in Seq(Frames), stack # <<>>, NEW f \in Frames, Goto(f)
  PROVE  /\ stack' \in Seq(Frames)
         /\ Len(stack') = Len(stack) /\ Len(stack) \in Nat \ {0}
         /\ \A k \in 1 .. Len(stack) :
              stack'[k] = IF k = Len(stack) THEN f ELSE stack[k]
<1>1. Len(stack) \in Nat \ {0}
  OBVIOUS
<1> QED BY <1>1, ExceptInSeq, SMT DEF Goto

LEMMA ReturnFrames ==
  ASSUME stack \in Seq(Frames), stack # <<>>, Return
  PROVE  /\ stack' \in Seq(Frames)
         /\ Len(stack') = Len(stack) - 1 /\ Len(stack) \in Nat \ {0}
         /\ \A k \in 1 .. Len(stack') : stack'[k] = stack[k]
<1>1. Len(stack) \in Nat \ {0} /\ stack \in [1 .. Len(stack) -> Frames]
  OBVIOUS
<1>2. stack' = SubSeq(stack, 1, Len(stack) - 1)
  BY DEF Return, Front
<1>3. \A i \in 1 .. Len(stack) - 1 : stack[i] \in Frames
  BY <1>1
<1> QED BY <1>1, <1>2, <1>3, SubSeqProperties

LEMMA CallFrames ==
  ASSUME stack \in Seq(Frames), stack # <<>>,
         NEW cont \in Frames, NEW callee \in Frames, Call(cont, callee)
  PROVE  /\ stack' \in Seq(Frames)
         /\ Len(stack) \in Nat \ {0}
         /\ \/ Len(stack') = 1 /\ stack'[1] = "crashed"
            \/ /\ Len(stack') = Len(stack) + 1
               /\ stack'[Len(stack) + 1] = callee
               /\ stack'[Len(stack)] = cont
               /\ \A k \in 1 .. Len(stack) - 1 : stack'[k] = stack[k]
<1> DEFINE r == [stack EXCEPT ![Len(stack)] = cont]
<1>1. Len(stack) \in Nat \ {0}
  OBVIOUS
<1>2. /\ r \in Seq(Frames) /\ Len(r) = Len(stack)
      /\ \A k \in 1 .. Len(stack) : r[k] = IF k = Len(stack) THEN cont ELSE stack[k]
  BY ExceptInSeq
<1> HIDE DEF r
<1>3. CASE Len(stack) < MaxDepth
  <2>1. stack' = Append(r, callee)
    BY <1>3 DEF Call, r
  <2> QED BY <1>1, <1>2, <2>1
<1>4. CASE ~(Len(stack) < MaxDepth)
  <2>1. stack' = <<"crashed">>
    BY <1>4 DEF Call
  <2> QED BY <1>1, <2>1 DEF Frames
<1> QED BY <1>3, <1>4

\* The frame a call stands at is on top of its stack, and the queue is open.
LEMMA AtTop ==
  ASSUME NEW f, At(f), f # "closed"
  PROVE  stack # <<>> /\ stack[Len(stack)] = f /\ Open
BY DEF At, Last, Open

\* A step that leaves a refused oldest task where it is.
HeadKept ==
  flushedTasks # <<>> =>
    /\ flushedTasks' # <<>>
    /\ evStatus[Head(flushedTasks)] = "QUEUED"
         => evStatus'[Head(flushedTasks')] = "QUEUED"

LEMMA GotoKeepsFrameInv ==
  ASSUME TypeOK, FrameInv, HeadKept, stack # <<>>,
         NEW f \in Frames, Goto(f),
         f \in RootFrames => Len(stack) = 1,
         f \in {"wait", "waitBo"} => subject \in Tasks,
         f = "queried" => flushedTasks # <<>>,
         subject' = subject
  PROVE  stack' \in Seq(Frames) /\ FrameInv'
<1>1. stack \in Seq(Frames)
  BY DEF TypeOK
<1>2. /\ stack' \in Seq(Frames)
      /\ Len(stack') = Len(stack) /\ Len(stack) \in Nat \ {0}
      /\ \A k \in 1 .. Len(stack) :
           stack'[k] = IF k = Len(stack) THEN f ELSE stack[k]
  BY <1>1, GotoFrames
<1> QED BY <1>2 DEF FrameInv, HeadKept

LEMMA ReturnKeepsFrameInv ==
  ASSUME TypeOK, FrameInv, HeadKept, stack # <<>>, Return,
         subject' = subject \/ Len(stack) = 1
  PROVE  stack' \in Seq(Frames) /\ FrameInv'
<1>1. stack \in Seq(Frames)
  BY DEF TypeOK
<1>2. /\ stack' \in Seq(Frames)
      /\ Len(stack') = Len(stack) - 1 /\ Len(stack) \in Nat \ {0}
      /\ \A k \in 1 .. Len(stack') : stack'[k] = stack[k]
  BY <1>1, ReturnFrames
<1> QED BY <1>2 DEF FrameInv, HeadKept

LEMMA CallKeepsFrameInv ==
  ASSUME TypeOK, FrameInv, HeadKept, stack # <<>>,
         NEW cont \in Frames, NEW callee \in Frames, Call(cont, callee),
         callee \notin RootFrames, callee # "queried",
         cont \in RootFrames => Len(stack) = 1,
         cont \in {"wait", "waitBo"} => subject \in Tasks,
         cont = "queried" => /\ flushedTasks # <<>>
                             /\ evStatus[Head(flushedTasks)] = "QUEUED",
         subject' = subject
  PROVE  stack' \in Seq(Frames) /\ FrameInv'
<1>1. stack \in Seq(Frames)
  BY DEF TypeOK
<1>2. /\ stack' \in Seq(Frames)
      /\ Len(stack) \in Nat \ {0}
      /\ \/ Len(stack') = 1 /\ stack'[1] = "crashed"
         \/ /\ Len(stack') = Len(stack) + 1
            /\ stack'[Len(stack) + 1] = callee
            /\ stack'[Len(stack)] = cont
            /\ \A k \in 1 .. Len(stack) - 1 : stack'[k] = stack[k]
  BY <1>1, CallFrames
<1>3. CASE Len(stack') = 1 /\ stack'[1] = "crashed"
  BY <1>2, <1>3 DEF FrameInv
<1>4. CASE /\ Len(stack') = Len(stack) + 1
           /\ stack'[Len(stack) + 1] = callee
           /\ stack'[Len(stack)] = cont
           /\ \A k \in 1 .. Len(stack) - 1 : stack'[k] = stack[k]
  <2> SUFFICES ASSUME NEW k \in 1 .. Len(stack')
               PROVE  /\ stack'[k] \in RootFrames => k = 1
                      /\ stack'[k] \in {"wait", "waitBo"} => subject' \in Tasks
                      /\ stack'[k] = "queried" =>
                           /\ flushedTasks' # <<>>
                           /\ k < Len(stack') => evStatus'[Head(flushedTasks')] = "QUEUED"
    BY <1>2 DEF FrameInv
  <2>1. CASE k = Len(stack) + 1
    BY <1>2, <1>4, <2>1 DEF RootFrames
  <2>2. CASE k = Len(stack)
    BY <1>2, <1>4, <2>2 DEF HeadKept
  <2>3. CASE k \in 1 .. Len(stack) - 1
    <3>1. stack'[k] = stack[k] /\ k \in 1 .. Len(stack) /\ k < Len(stack)
      BY <1>2, <1>4, <2>3
    <3> QED BY <3>1 DEF FrameInv, HeadKept
  <2> QED BY <1>2, <1>4, <2>1, <2>2, <2>3
<1> QED BY <1>2, <1>3, <1>4

-----------------------------------------------------------------------------
(***************************************************************************)
(* Steps that move the call along and change nothing else.                 *)
(***************************************************************************)
LEMMA QuietKeepsQueueInv ==
  ASSUME QueueInv, Open, UNCHANGED <<queueVars, eventVars, evStatus, halVars>>,
         stack' \in Seq(Frames), FrameInv', subject' \in Tasks \cup {NULL}
  PROVE  QueueInv'
<1> USE DEF QueueInv, queueVars, eventVars, halVars
<1>1. TypeOK'
  BY DEF TypeOK, HalTypeOK
<1>2. HalInv'
  BY DEF HalInv, HalTypeOK, FinishedIsTrue, RingOwnsItsSlots, RingNotEnded
<1>3. ListInv'
  BY DEF ListInv, Pending, InFlushed, InEnqueued
<1>4. StatusInv'
  BY DEF StatusInv, Pending, InFlushed, InEnqueued, HasEvent, FinishedMeansRan
<1>5. RefInv'
  BY DEF RefInv, Pending, InFlushed, InEnqueued, HasEvent
<1>6. SlotInv'
  BY DEF SlotInv, EventOwnsItsSlot, InFlushed, HasEvent
<1> QED BY <1>1, <1>2, <1>3, <1>4, <1>5, <1>6

LEMMA HeadKeptIfUnchanged ==
  ASSUME UNCHANGED <<flushedTasks, evStatus>>
  PROVE  HeadKept
BY DEF HeadKept

-----------------------------------------------------------------------------
(***************************************************************************)
(* Initial states.                                                         *)
(***************************************************************************)
LEMMA InitQueueInv == Init => QueueInv
<1> SUFFICES ASSUME Init PROVE QueueInv
  OBVIOUS
<1> USE TasksAssumption, MaxTasksAssumption DEF Init
<1>1. HalInv
  BY HalInitInv
<1>2. TypeOK
  BY <1>1 DEF TypeOK, HalInv, Statuses, TaskIds
<1>3. \A t \in Tasks : ~InFlushed(t) /\ ~InEnqueued(t) /\ ~Pending(t)
  BY EmptyContains DEF InFlushed, InEnqueued, Pending
<1>4. ListInv
  BY <1>3, EmptyContains DEF ListInv
<1>5. StatusInv
  BY <1>3 DEF StatusInv, HasEvent, FinishedMeansRan
<1>6. RefInv
  BY <1>3 DEF RefInv, HasEvent
<1>7. SlotInv
  BY DEF SlotInv, EventOwnsItsSlot, HalInit
<1>8. FrameInv
  BY DEF FrameInv
<1> QED BY <1>1, <1>2, <1>4, <1>5, <1>6, <1>7, <1>8 DEF QueueInv

-----------------------------------------------------------------------------
(***************************************************************************)
(* FlushOne: a task moves from the one list to the other.                  *)
(***************************************************************************)

\* What the move does to the lists, whatever the HAL says.
LEMMA FlushOneLists ==
  ASSUME QueueInv, enqueuedTasks # <<>>, ~IsFull,
         enqueuedTasks' = Tail(enqueuedTasks),
         PushFlushed(Head(enqueuedTasks)),
         created' = created
  PROVE  /\ enqueuedTasks' \in Seq(Tasks) /\ flushedTasks' \in Seq(Tasks)
         /\ flushedTasks' # <<>>
         /\ Head(enqueuedTasks) \in Tasks /\ InEnqueued(Head(enqueuedTasks))
         /\ ~InFlushed(Head(enqueuedTasks))
         /\ \A t \in Tasks :
              /\ InFlushed(t)' <=> InFlushed(t) \/ t = Head(enqueuedTasks)
              /\ InEnqueued(t)' <=> InEnqueued(t) /\ t # Head(enqueuedTasks)
              /\ Pending(t)' <=> Pending(t)
         /\ ListInv'
         /\ flushedTasks # <<>> => Head(flushedTasks') = Head(flushedTasks)
<1> DEFINE h == Head(enqueuedTasks)
<1>1. /\ flushedTasks \in Seq(Tasks) /\ enqueuedTasks \in Seq(Tasks)
      /\ IsInjective(flushedTasks) /\ IsInjective(enqueuedTasks)
      /\ \A t \in Tasks : ~(InFlushed(t) /\ InEnqueued(t))
      /\ \A t \in Tasks : Pending(t) => t \in created
      /\ flushedTasks' = Append(flushedTasks, h)
  BY DEF QueueInv, TypeOK, ListInv, PushFlushed
<1>2. /\ enqueuedTasks' \in Seq(Tasks) /\ h \in Tasks
      /\ Contains(enqueuedTasks, h)
      /\ IsInjective(enqueuedTasks')
      /\ \A t : Contains(enqueuedTasks', t) <=> Contains(enqueuedTasks, t) /\ t # h
  BY <1>1, TailContains
<1>3. ~Contains(flushedTasks, h)
  BY <1>1, <1>2 DEF InFlushed, InEnqueued
<1>4. /\ flushedTasks' \in Seq(Tasks) /\ flushedTasks' # <<>>
      /\ Len(flushedTasks') = Len(flushedTasks) + 1
      /\ \A t : Contains(flushedTasks', t) <=> Contains(flushedTasks, t) \/ t = h
      /\ IsInjective(flushedTasks')
      /\ flushedTasks # <<>> => Head(flushedTasks') = Head(flushedTasks)
  BY <1>1, <1>2, <1>3, AppendContains
<1> HIDE DEF h
<1>5. \A t \in Tasks :
         /\ InFlushed(t)' <=> InFlushed(t) \/ t = h
         /\ InEnqueued(t)' <=> InEnqueued(t) /\ t # h
         /\ Pending(t)' <=> Pending(t)
  BY <1>2, <1>4 DEF InFlushed, InEnqueued, Pending
<1>6. Len(flushedTasks') <= MaxTasks
  <2>1. Len(flushedTasks) \in Nat
    BY <1>1
  <2> QED BY <1>4, <2>1, MaxTasksAssumption DEF IsFull
<1>7. ListInv'
  BY <1>1, <1>2, <1>4, <1>5, <1>6 DEF ListInv
<1> QED BY <1>2, <1>3, <1>4, <1>5, <1>7 DEF h, InFlushed, InEnqueued

\* The HAL half of FlushOne: a new slot and a flushed event, a slot without an
\* event, or nothing at all.
LEMMA FlushOneHal ==
  ASSUME QueueInv, NEW h \in Tasks, ~InFlushed(h), Open,
         FlushSucceeds(h) \/ FlushWithoutEvent(h) \/ FlushFails(h)
  PROVE  /\ HalInv'
         /\ completed' = completed
         /\ \/ /\ evStatus' = evStatus /\ driverId' = driverId
               /\ taskStatusTable' = taskStatusTable
            \/ \E id \in TaskIds :
                 /\ taskStatusTable[id] = NULL
                 /\ taskStatusTable' = [taskStatusTable EXCEPT ![id] = h]
                 /\ \/ /\ evStatus[h] = "None"
                       /\ evStatus' = evStatus /\ driverId' = driverId
                    \/ /\ evStatus[h] = "QUEUED"
                       /\ evStatus' = [evStatus EXCEPT ![h] = "FLUSHED"]
                       /\ driverId' = [driverId EXCEPT ![h] = id]
<1>1. CASE FlushFails(h)
  <2>1. HalInv'
    BY <1>1, ExecuteFailsKeepsHalInv DEF FlushFails, QueueInv
  <2> QED BY <1>1, <2>1 DEF FlushFails, HalCm_ExecuteTaskFails
<1>2. ASSUME HalCm_ExecuteTask(h)
      PROVE  /\ HalInv' /\ completed' = completed
             /\ HalCm_GetNewTaskId \in TaskIds
             /\ taskStatusTable[HalCm_GetNewTaskId] = NULL
             /\ taskStatusTable' = [taskStatusTable EXCEPT ![HalCm_GetNewTaskId] = h]
  <2>1. HalInv'
    BY <1>2, ExecuteKeepsHalInv DEF QueueInv
  <2>2. HalCm_GetNewTaskId \in FreeIds
    BY <1>2, NewTaskIdIsFree DEF HalCm_ExecuteTask
  <2> QED BY <1>2, <2>1, <2>2 DEF HalCm_ExecuteTask, FreeIds
<1>3. CASE FlushSucceeds(h)
  BY <1>2, <1>3 DEF FlushSucceeds
<1>4. CASE FlushWithoutEvent(h)
  BY <1>2, <1>4 DEF FlushWithoutEvent
<1> QED BY <1>1, <1>3, <1>4

LEMMA FlushOneKeeps ==
  ASSUME QueueInv, Open, stack # <<>>, NEW loop \in {"flush", "flushBlock"},
         enqueuedTasks # <<>>, ~IsFull, FlushOne(loop)
  PROVE  QueueInv'
<1> DEFINE h == Head(enqueuedTasks)
<1>1. /\ enqueuedTasks' = Tail(enqueuedTasks)
      /\ PushFlushed(h)
      /\ FlushSucceeds(h) \/ FlushWithoutEvent(h) \/ FlushFails(h)
      /\ Goto(loop)
      /\ UNCHANGED <<created, surfState, refCount, evIndex, eventArray, userRef,
                     subject>>
  BY DEF FlushOne
<1>2. /\ enqueuedTasks' \in Seq(Tasks) /\ flushedTasks' \in Seq(Tasks)
      /\ flushedTasks' # <<>>
      /\ h \in Tasks /\ InEnqueued(h) /\ ~InFlushed(h)
      /\ \A t \in Tasks :
           /\ InFlushed(t)' <=> InFlushed(t) \/ t = h
           /\ InEnqueued(t)' <=> InEnqueued(t) /\ t # h
           /\ Pending(t)' <=> Pending(t)
      /\ ListInv'
      /\ flushedTasks # <<>> => Head(flushedTasks') = Head(flushedTasks)
  BY <1>1, FlushOneLists
<1> HIDE DEF h
<1>3. /\ HalInv'
      /\ completed' = completed
      /\ \/ /\ evStatus' = evStatus /\ driverId' = driverId
            /\ taskStatusTable' = taskStatusTable
         \/ \E id \in TaskIds :
              /\ taskStatusTable[id] = NULL
              /\ taskStatusTable' = [taskStatusTable EXCEPT ![id] = h]
              /\ \/ /\ evStatus[h] = "None"
                    /\ evStatus' = evStatus /\ driverId' = driverId
                 \/ /\ evStatus[h] = "QUEUED"
                    /\ evStatus' = [evStatus EXCEPT ![h] = "FLUSHED"]
                    /\ driverId' = [driverId EXCEPT ![h] = id]
  BY <1>1, <1>2, FlushOneHal
<1>4. /\ evStatus \in [Tasks -> Statuses]
      /\ driverId \in [Tasks -> TaskIds \cup {-1}]
      /\ taskStatusTable \in [TaskIds -> Tasks \cup {NULL}]
      /\ \A t \in Tasks : t # h => evStatus'[t] = evStatus[t] /\ driverId'[t] = driverId[t]
      /\ evStatus'[h] = evStatus[h] \/ (evStatus[h] = "QUEUED" /\ evStatus'[h] = "FLUSHED")
      /\ evStatus[h] \in {"None", "QUEUED"}
  <2>1. /\ evStatus \in [Tasks -> Statuses]
        /\ driverId \in [Tasks -> TaskIds \cup {-1}]
        /\ taskStatusTable \in [TaskIds -> Tasks \cup {NULL}]
    BY DEF QueueInv, TypeOK, HalTypeOK
  <2>2. evStatus[h] \in {"None", "QUEUED"}
    BY <1>2 DEF QueueInv, StatusInv
  <2> QED BY <1>2, <1>3, <2>1, <2>2
<1>5. evStatus' \in [Tasks -> Statuses] /\ driverId' \in [Tasks -> TaskIds \cup {-1}]
  BY <1>3, <1>4 DEF Statuses
<1>6. HeadKept
  <2> SUFFICES ASSUME flushedTasks # <<>>, evStatus[Head(flushedTasks)] = "QUEUED"
               PROVE  evStatus'[Head(flushedTasks)] = "QUEUED"
    BY <1>2 DEF HeadKept
  <2>1. Head(flushedTasks) \in Tasks /\ InFlushed(Head(flushedTasks))
    BY TailContains DEF QueueInv, TypeOK, InFlushed
  <2> QED BY <1>2, <1>4, <2>1
<1>7. stack' \in Seq(Frames) /\ FrameInv'
  <2>1. loop \in Frames /\ loop \notin RootFrames /\ loop # "queried"
        /\ loop \notin {"wait", "waitBo"}
    BY DEF Frames, RootFrames
  <2> QED BY <1>1, <1>6, <2>1, GotoKeepsFrameInv DEF QueueInv
<1>8. TypeOK'
  BY <1>1, <1>2, <1>3, <1>5, <1>7 DEF QueueInv, TypeOK, HalInv
<1>9. StatusInv'
  <2>1. \A t \in Tasks : t \notin created' => ~HasEvent(t)'
    BY <1>1, <1>2, <1>4 DEF QueueInv, StatusInv, HasEvent, Pending, ListInv
  <2>2. \A t \in Tasks : InEnqueued(t)' => evStatus'[t] \in {"None", "QUEUED"}
    BY <1>2, <1>4 DEF QueueInv, StatusInv
  <2>3. \A t \in created' : ~Pending(t)' => evStatus'[t] \in {"FINISHED", "Deleted"}
    BY <1>1, <1>2, <1>4 DEF QueueInv, StatusInv, TypeOK, Pending
  <2>4. FinishedMeansRan'
    BY <1>3, <1>4 DEF QueueInv, StatusInv, FinishedMeansRan
  <2> QED BY <2>1, <2>2, <2>3, <2>4 DEF StatusInv
<1>10. RefInv'
  BY <1>1, <1>2, <1>4 DEF QueueInv, RefInv, HasEvent
<1>11. SlotInv'
  <2>1. \A i \in TaskIds : taskStatusTable[i] # h
    BY <1>2, TasksAssumption DEF QueueInv, SlotInv
  <2>2. EventOwnsItsSlot'
    BY <1>2, <1>3, <1>4, <2>1, TasksAssumption DEF QueueInv, SlotInv, EventOwnsItsSlot
  <2>3. ASSUME NEW i \in TaskIds, NEW t \in Tasks, taskStatusTable'[i] = t
        PROVE  /\ InFlushed(t)'
               /\ ~HasEvent(t)' \/ (evStatus'[t] \in {"FLUSHED", "STARTED"} /\ driverId'[t] = i)
    <3>1. CASE taskStatusTable[i] = t
      <4>1. t # h /\ InFlushed(t)
        BY <2>1, <3>1 DEF QueueInv, SlotInv
      <4> QED BY <1>2, <1>4, <3>1, <4>1 DEF QueueInv, SlotInv, HasEvent
    <3>2. CASE taskStatusTable[i] # t
      <4>1. /\ t = h
            /\ \/ evStatus'[h] = "None"
               \/ evStatus'[h] = "FLUSHED" /\ driverId'[h] = i
        BY <1>2, <1>3, <1>4, <2>3, <3>2
      <4> QED BY <1>2, <4>1 DEF HasEvent
    <3> QED BY <3>1, <3>2
  <2>4. \A i, j \in TaskIds :
           taskStatusTable'[i] = taskStatusTable'[j] /\ taskStatusTable'[i] # NULL => i = j
    BY <1>3, <1>4, <2>1 DEF QueueInv, SlotInv
  <2> QED BY <2>2, <2>3, <2>4 DEF SlotInv
<1> QED BY <1>2, <1>3, <1>7, <1>8, <1>9, <1>10, <1>11 DEF QueueInv

-----------------------------------------------------------------------------
(***************************************************************************)
(* Query: an event asks the HAL for the state of its slot.                 *)
(***************************************************************************)
LEMMA QueryEffect ==
  ASSUME QueueInv, NEW t \in Tasks, Query(t)
  PROVE  /\ HalInv' /\ completed' = completed
         /\ \/ evStatus' = evStatus /\ taskStatusTable' = taskStatusTable
            \/ /\ evStatus[t] \in {"FLUSHED", "STARTED"}
               /\ evStatus' = [evStatus EXCEPT ![t] = "STARTED"]
               /\ taskStatusTable' = taskStatusTable
            \/ /\ evStatus[t] \in {"FLUSHED", "STARTED"}
               /\ evStatus' = [evStatus EXCEPT ![t] = "FINISHED"]
               /\ driverId[t] \in TaskIds /\ taskStatusTable[driverId[t]] = t
               /\ taskStatusTable' = [taskStatusTable EXCEPT ![driverId[t]] = NULL]
               /\ t \in completed
<1>1. CASE evStatus[t] \notin {"FLUSHED", "STARTED"}
  BY <1>1 DEF Query, halVars, QueueInv, HalInv, HalTypeOK, FinishedIsTrue,
              RingOwnsItsSlots, RingNotEnded
<1>2. CASE evStatus[t] \in {"FLUSHED", "STARTED"}
  <2>1. /\ HalCm_QueryTask(driverId[t])
        /\ evStatus' = [evStatus EXCEPT ![t] =
             IF QueryStatus(driverId[t]) = "FINISHED" THEN "FINISHED"
             ELSE IF QueryStatus(driverId[t]) = "IN_PROGRESS" THEN "STARTED"
             ELSE @]
    BY <1>2 DEF Query
  <2>2. HalInv' /\ completed' = completed
    BY <2>1, QueryKeepsHalInv DEF QueueInv, HalCm_QueryTask
  <2>3. driverId[t] \in TaskIds /\ taskStatusTable[driverId[t]] = t
    BY <1>2 DEF QueueInv, SlotInv, EventOwnsItsSlot
  <2>4. CASE QueryStatus(driverId[t]) = "FINISHED"
    <3>1. sync[driverId[t]] = "end"
      BY <2>3, <2>4 DEF QueryStatus, QueueInv, HalInv, HalTypeOK, SyncWords
    <3>2. t \in completed
      BY <2>3, <3>1, TasksAssumption DEF QueueInv, HalInv, FinishedIsTrue
    <3>3. taskStatusTable' = [taskStatusTable EXCEPT ![driverId[t]] = NULL]
      BY <2>1, <2>4 DEF HalCm_QueryTask, TableAfterQuery
    <3> QED BY <1>2, <2>1, <2>2, <2>3, <2>4, <3>2, <3>3
  <2>5. CASE QueryStatus(driverId[t]) = "IN_PROGRESS"
    <3>1. taskStatusTable' = taskStatusTable
      BY <2>1, <2>5 DEF HalCm_QueryTask, TableAfterQuery
    <3> QED BY <1>2, <2>1, <2>2, <2>5, <3>1
  <2>6. CASE QueryStatus(driverId[t]) \notin {"FINISHED", "IN_PROGRESS"}
    <3>1. taskStatusTable' = taskStatusTable
      BY <2>1, <2>6 DEF HalCm_QueryTask, TableAfterQuery
    <3>2. evStatus' = evStatus
      BY <2>1, <2>6 DEF QueueInv, TypeOK
    <3> QED BY <2>2, <3>1, <3>2
  <2> QED BY <2>4, <2>5, <2>6
<1> QED BY <1>1, <1>2

LEMMA QueryKeepsHead ==
  ASSUME QueueInv, NEW t \in Tasks, Query(t), flushedTasks' = flushedTasks
  PROVE  HeadKept
<1> SUFFICES ASSUME flushedTasks # <<>>, evStatus[Head(flushedTasks)] = "QUEUED"
             PROVE  evStatus'[Head(flushedTasks)] = "QUEUED"
  BY DEF HeadKept
<1>1. Head(flushedTasks) \in Tasks
  BY TailContains DEF QueueInv, TypeOK
<1> QED BY <1>1, QueryEffect DEF QueueInv, TypeOK

LEMMA QueryKeepsQueueInv ==
  ASSUME QueueInv, Open, NEW t \in Tasks, Query(t),
         UNCHANGED <<queueVars, eventVars>>,
         stack' \in Seq(Frames), FrameInv', subject' \in Tasks \cup {NULL}
  PROVE  QueueInv'
<1> USE DEF queueVars, eventVars
<1>1. /\ HalInv' /\ completed' = completed
      /\ \/ evStatus' = evStatus /\ taskStatusTable' = taskStatusTable
         \/ /\ evStatus[t] \in {"FLUSHED", "STARTED"}
            /\ evStatus' = [evStatus EXCEPT ![t] = "STARTED"]
            /\ taskStatusTable' = taskStatusTable
         \/ /\ evStatus[t] \in {"FLUSHED", "STARTED"}
            /\ evStatus' = [evStatus EXCEPT ![t] = "FINISHED"]
            /\ driverId[t] \in TaskIds /\ taskStatusTable[driverId[t]] = t
            /\ taskStatusTable' = [taskStatusTable EXCEPT ![driverId[t]] = NULL]
            /\ t \in completed
  BY QueryEffect
<1>2. /\ evStatus \in [Tasks -> Statuses]
      /\ driverId \in [Tasks -> TaskIds \cup {-1}]
      /\ taskStatusTable \in [TaskIds -> Tasks \cup {NULL}]
  BY DEF QueueInv, TypeOK, HalTypeOK
<1>3. evStatus' \in [Tasks -> Statuses]
  BY <1>1, <1>2 DEF Statuses
<1>4. \A u \in Tasks :
         /\ InFlushed(u)' <=> InFlushed(u)
         /\ InEnqueued(u)' <=> InEnqueued(u)
         /\ Pending(u)' <=> Pending(u)
         /\ HasEvent(u)' <=> HasEvent(u)
         /\ evStatus'[u] = "Deleted" <=> evStatus[u] = "Deleted"
         /\ evStatus[u] \in {"None", "QUEUED", "FINISHED", "Deleted"} => evStatus'[u] = evStatus[u]
  BY <1>1, <1>2 DEF InFlushed, InEnqueued, Pending, HasEvent
<1>5. TypeOK'
  BY <1>1, <1>3 DEF QueueInv, TypeOK, HalInv
<1>6. ListInv'
  BY <1>4 DEF QueueInv, ListInv
<1>7. StatusInv'
  <2>1. FinishedMeansRan'
    BY <1>1, <1>2 DEF QueueInv, StatusInv, FinishedMeansRan
  <2>2. \A u \in Tasks : u \notin created' => ~HasEvent(u)'
    BY <1>4 DEF QueueInv, StatusInv
  <2>3. \A u \in Tasks : InEnqueued(u)' => evStatus'[u] \in {"None", "QUEUED"}
    BY <1>4 DEF QueueInv, StatusInv
  <2>4. \A u \in created' : ~Pending(u)' => evStatus'[u] \in {"FINISHED", "Deleted"}
    BY <1>4 DEF QueueInv, StatusInv, TypeOK
  <2> QED BY <2>1, <2>2, <2>3, <2>4 DEF StatusInv
<1>8. RefInv'
  BY <1>4 DEF QueueInv, RefInv
<1>9. SlotInv'
  <2>1. EventOwnsItsSlot'
    BY <1>1, <1>2, TasksAssumption DEF QueueInv, SlotInv, EventOwnsItsSlot
  <2>2. \A i \in TaskIds, u \in Tasks : taskStatusTable'[i] = u =>
           /\ InFlushed(u)'
           /\ ~HasEvent(u)' \/ (evStatus'[u] \in {"FLUSHED", "STARTED"} /\ driverId'[u] = i)
    <3> SUFFICES ASSUME NEW i \in TaskIds, NEW u \in Tasks, taskStatusTable'[i] = u
                 PROVE  /\ InFlushed(u)'
                        /\ ~HasEvent(u)' \/ (evStatus'[u] \in {"FLUSHED", "STARTED"} /\ driverId'[u] = i)
      OBVIOUS
    <3>1. taskStatusTable[i] = u
      BY <1>1, <1>2, TasksAssumption
    <3>2. /\ InFlushed(u)
          /\ ~HasEvent(u) \/ (evStatus[u] \in {"FLUSHED", "STARTED"} /\ driverId[u] = i)
      BY <3>1 DEF QueueInv, SlotInv
    <3>3. evStatus'[u] \in {"FLUSHED", "STARTED"} \/ evStatus'[u] = evStatus[u]
      BY <1>1, <1>2, <3>1, <3>2, TasksAssumption DEF HasEvent
    <3> QED BY <1>4, <3>2, <3>3 DEF HasEvent
  <2>3. \A i, j \in TaskIds :
           taskStatusTable'[i] = taskStatusTable'[j] /\ taskStatusTable'[i] # NULL => i = j
    BY <1>1, <1>2 DEF QueueInv, SlotInv
  <2> QED BY <2>1, <2>2, <2>3 DEF SlotInv
<1> QED BY <1>1, <1>5, <1>6, <1>7, <1>8, <1>9 DEF QueueInv

-----------------------------------------------------------------------------
(***************************************************************************)
(* PopTaskFromFlushedQueue: a finished task leaves, with its reference.    *)
(***************************************************************************)

\* What dropping one reference does.
LEMMA ReleaseEffect ==
  ASSUME TypeOK, NEW t \in Tasks, ReleaseEvent(t)
  PROVE  /\ refCount' \in [Tasks -> Int] /\ evStatus' \in [Tasks -> Statuses]
         /\ eventArray' \in Seq(Tasks \cup {NULL})
         /\ driverId' = driverId /\ evIndex' = evIndex
         /\ refCount'[t] = refCount[t] - 1
         /\ evStatus'[t] = IF refCount[t] = 1 THEN "Deleted" ELSE evStatus[t]
         /\ \A u \in Tasks : u # t => refCount'[u] = refCount[u] /\ evStatus'[u] = evStatus[u]
<1>1. /\ refCount' = [refCount EXCEPT ![t] = @ - 1]
      /\ driverId' = driverId /\ evIndex' = evIndex
      /\ \/ /\ refCount[t] = 1
            /\ evStatus' = [evStatus EXCEPT ![t] = "Deleted"]
            /\ eventArray' = [eventArray EXCEPT ![evIndex[t]] = NULL]
         \/ /\ refCount[t] # 1
            /\ evStatus' = evStatus /\ eventArray' = eventArray
  BY DEF ReleaseEvent
<1>2. /\ refCount \in [Tasks -> Int] /\ evStatus \in [Tasks -> Statuses]
      /\ eventArray \in Seq(Tasks \cup {NULL})
  BY DEF TypeOK
<1>3. eventArray' \in Seq(Tasks \cup {NULL})
  <2> DEFINE Slots == Tasks \cup {NULL}
  <2>1. NULL \in Slots /\ eventArray \in Seq(Slots)
    BY <1>2
  <2> HIDE DEF Slots
  <2>2. [eventArray EXCEPT ![evIndex[t]] = NULL] \in Seq(Slots)
    BY <2>1, ExceptInSeq
  <2>3. eventArray' \in Seq(Slots)
    BY <1>1, <2>1, <2>2
  <2> QED BY <2>3 DEF Slots
<1> QED BY <1>1, <1>2, <1>3 DEF Statuses

LEMMA PopKeeps ==
  ASSUME QueueInv, PopTaskFromFlushedQueue
  PROVE  QueueInv'
<1>1. At("queried")
  BY DEF PopTaskFromFlushedQueue
<1>2. stack # <<>> /\ stack[Len(stack)] = "queried" /\ Open
  BY <1>1, AtTop
<1>3. stack \in Seq(Frames) /\ Len(stack) \in Nat \ {0}
  BY <1>2, EmptySeq DEF QueueInv, TypeOK
<1>4. flushedTasks # <<>> /\ flushedTasks \in Seq(Tasks) /\ IsInjective(flushedTasks)
  BY <1>2, <1>3 DEF QueueInv, FrameInv, TypeOK, ListInv
<1>h. PICK h \in Tasks : h = Head(flushedTasks)
  BY <1>4, TailContains
<1>a. /\ evStatus[h] = "FINISHED"
      /\ flushedTasks' = Tail(flushedTasks)
      /\ UpdateSurfaceStateOnPop(h)
      /\ ReleaseEvent(h)
      /\ Goto("query")
      /\ UNCHANGED <<enqueuedTasks, created, userRef, subject, halVars>>
  BY <1>h DEF PopTaskFromFlushedQueue, MayPop
<1>5. /\ flushedTasks' \in Seq(Tasks) /\ InFlushed(h)
      /\ Len(flushedTasks') = Len(flushedTasks) - 1 /\ Len(flushedTasks) \in Nat
      /\ IsInjective(flushedTasks')
      /\ \A t : Contains(flushedTasks', t) <=> Contains(flushedTasks, t) /\ t # h
  BY <1>h, <1>a, <1>4, TailContains DEF InFlushed
<1>6. \A k \in 1 .. Len(stack) - 1 : stack[k] # "queried"
  BY <1>h, <1>a, <1>3 DEF QueueInv, FrameInv
<1>7. /\ refCount' \in [Tasks -> Int] /\ evStatus' \in [Tasks -> Statuses]
      /\ eventArray' \in Seq(Tasks \cup {NULL})
      /\ driverId' = driverId /\ evIndex' = evIndex
      /\ refCount'[h] = refCount[h] - 1
      /\ evStatus'[h] = IF refCount[h] = 1 THEN "Deleted" ELSE evStatus[h]
      /\ \A u \in Tasks : u # h => refCount'[u] = refCount[u] /\ evStatus'[u] = evStatus[u]
  BY <1>a, <1>5, ReleaseEffect DEF QueueInv
<1>8. HalInv'
  BY <1>a DEF halVars, QueueInv, HalInv, HalTypeOK, FinishedIsTrue,
              RingOwnsItsSlots, RingNotEnded
<1>9. stack' \in Seq(Frames) /\ FrameInv'
  <2>1. /\ stack' \in Seq(Frames)
        /\ Len(stack') = Len(stack)
        /\ \A k \in 1 .. Len(stack) :
             stack'[k] = IF k = Len(stack) THEN "query" ELSE stack[k]
    BY <1>a, <1>2, <1>3, GotoFrames DEF Frames
  <2>2. \A k \in 1 .. Len(stack') : stack'[k] # "queried"
    BY <1>3, <1>6, <2>1
  <2> QED BY <1>a, <1>3, <2>1, <2>2 DEF QueueInv, FrameInv, RootFrames
<1>10. TypeOK'
  <2>1. surfState' \in [Surfaces -> Int]
    BY <1>a DEF QueueInv, TypeOK, UpdateSurfaceStateOnPop
  <2> QED BY <1>a, <1>5, <1>7, <1>8, <1>9, <2>1 DEF QueueInv, TypeOK, HalInv, halVars
<1>11. \A t \in Tasks :
         /\ InFlushed(t)' <=> InFlushed(t) /\ t # h
         /\ InEnqueued(t)' <=> InEnqueued(t)
         /\ Pending(t)' <=> Pending(t) /\ t # h
  BY <1>a, <1>5 DEF InFlushed, InEnqueued, Pending, QueueInv, ListInv
<1>12. ListInv'
  BY <1>a, <1>5, <1>11, MaxTasksAssumption DEF QueueInv, ListInv
<1>13. StatusInv'
  <2>1. FinishedMeansRan'
    BY <1>a, <1>7 DEF QueueInv, StatusInv, FinishedMeansRan, halVars
  <2>2. \A t \in Tasks : t \notin created' => ~HasEvent(t)'
    BY <1>a, <1>5, <1>7, <1>11 DEF QueueInv, StatusInv, HasEvent, ListInv, Pending
  <2>3. \A t \in Tasks : InEnqueued(t)' => evStatus'[t] \in {"None", "QUEUED"}
    BY <1>5, <1>7, <1>11 DEF QueueInv, StatusInv, ListInv
  <2>4. \A t \in created' : ~Pending(t)' => evStatus'[t] \in {"FINISHED", "Deleted"}
    BY <1>a, <1>2, <1>7, <1>11 DEF QueueInv, StatusInv, TypeOK
  <2> QED BY <2>1, <2>2, <2>3, <2>4 DEF StatusInv
<1>14. RefInv'
  <2>1. /\ HasEvent(h) /\ HasEvent(h)' /\ Pending(h) /\ ~Pending(h)'
    BY <1>a, <1>5, <1>7, <1>11 DEF HasEvent, Pending
  <2>2. \A t \in Tasks : t # h => (HasEvent(t)' <=> HasEvent(t))
    BY <1>7 DEF HasEvent
  <2> SUFFICES ASSUME NEW t \in Tasks
               PROVE  /\ refCount'[t] = (IF Pending(t)' /\ HasEvent(t)' THEN 1 ELSE 0)
                                        + (IF t \in userRef' THEN 1 ELSE 0)
                      /\ t \in userRef' => HasEvent(t)'
                      /\ evStatus'[t] = "Deleted" => refCount'[t] = 0
    BY DEF RefInv
  <2>3. CASE t = h
    BY <1>a, <1>5, <1>7, <2>1, <2>3 DEF QueueInv, RefInv
  <2>4. CASE t # h
    BY <1>a, <1>7, <1>11, <2>2, <2>4 DEF QueueInv, RefInv
  <2> QED BY <2>3, <2>4
<1>15. SlotInv'
  <2>1. taskStatusTable' = taskStatusTable
    BY <1>a DEF halVars
  <2>2. EventOwnsItsSlot'
    BY <1>a, <1>5, <1>7, <2>1 DEF QueueInv, SlotInv, EventOwnsItsSlot
  <2>3. \A i \in TaskIds, t \in Tasks : taskStatusTable'[i] = t =>
           /\ InFlushed(t)'
           /\ ~HasEvent(t)' \/ (evStatus'[t] \in {"FLUSHED", "STARTED"} /\ driverId'[t] = i)
    BY <1>a, <1>2, <1>7, <1>11, <2>1 DEF QueueInv, SlotInv, HasEvent
  <2>4. \A i, j \in TaskIds :
           taskStatusTable'[i] = taskStatusTable'[j] /\ taskStatusTable'[i] # NULL => i = j
    BY <2>1 DEF QueueInv, SlotInv
  <2> QED BY <2>2, <2>3, <2>4 DEF SlotInv
<1> QED BY <1>8, <1>9, <1>10, <1>12, <1>13, <1>14, <1>15 DEF QueueInv

-----------------------------------------------------------------------------
(***************************************************************************)
(* Calls of the application that change more than the call stack.          *)
(***************************************************************************)
LEMMA StackStaysKeepsFrameInv ==
  ASSUME FrameInv, HeadKept, UNCHANGED <<stack, subject>>
  PROVE  FrameInv'
BY DEF FrameInv, HeadKept

LEMMA OneFrame ==
  ASSUME NEW f \in Frames, stack' = <<f>>, f # "queried",
         f \in {"wait", "waitBo"} => subject' \in Tasks
  PROVE  stack' \in Seq(Frames) /\ FrameInv'
BY DEF FrameInv

LEMMA DestroyEventKeeps ==
  ASSUME QueueInv, NEW t \in Tasks, DestroyEvent(t)
  PROVE  QueueInv'
<1>1. /\ t \in userRef /\ Open
      /\ userRef' = userRef \ {t}
      /\ ReleaseEvent(t)
      /\ UNCHANGED <<enqueuedTasks, flushedTasks, created, surfState, stack, subject,
                     taskStatusTable, sync, ring, completed>>
  BY DEF DestroyEvent, Open, Idle, At, queueVars, halVars
<1>2. /\ refCount' \in [Tasks -> Int] /\ evStatus' \in [Tasks -> Statuses]
      /\ eventArray' \in Seq(Tasks \cup {NULL})
      /\ driverId' = driverId /\ evIndex' = evIndex
      /\ refCount'[t] = refCount[t] - 1
      /\ evStatus'[t] = IF refCount[t] = 1 THEN "Deleted" ELSE evStatus[t]
      /\ \A u \in Tasks : u # t => refCount'[u] = refCount[u] /\ evStatus'[u] = evStatus[u]
  BY <1>1, ReleaseEffect DEF QueueInv
<1>3. HasEvent(t) /\ (refCount[t] = 1 <=> ~Pending(t)) /\ HasEvent(t)'
  BY <1>1, <1>2 DEF QueueInv, RefInv, HasEvent
<1>4. \A u \in Tasks :
         /\ InFlushed(u)' <=> InFlushed(u)
         /\ InEnqueued(u)' <=> InEnqueued(u)
         /\ Pending(u)' <=> Pending(u)
         /\ HasEvent(u)' <=> HasEvent(u)
         /\ Pending(u) => evStatus'[u] = evStatus[u]
         /\ evStatus'[u] = evStatus[u] \/ evStatus'[u] = "Deleted"
  BY <1>1, <1>2, <1>3 DEF InFlushed, InEnqueued, Pending, HasEvent
<1>5. HalInv'
  BY <1>1 DEF QueueInv, HalInv, HalTypeOK, FinishedIsTrue, RingOwnsItsSlots, RingNotEnded
<1>6. FrameInv'
  <2>1. HeadKept
    <3> SUFFICES ASSUME flushedTasks # <<>>, evStatus[Head(flushedTasks)] = "QUEUED"
                 PROVE  evStatus'[Head(flushedTasks)] = "QUEUED"
      BY <1>1 DEF HeadKept
    <3>1. Head(flushedTasks) \in Tasks /\ InFlushed(Head(flushedTasks))
      BY TailContains DEF QueueInv, TypeOK, InFlushed
    <3> QED BY <1>4, <3>1 DEF Pending
  <2> QED BY <1>1, <2>1, StackStaysKeepsFrameInv DEF QueueInv
<1>7. TypeOK'
  BY <1>1, <1>2, <1>5 DEF QueueInv, TypeOK, HalInv
<1>8. ListInv'
  BY <1>1, <1>4 DEF QueueInv, ListInv
<1>9. StatusInv'
  <2>1. FinishedMeansRan'
    BY <1>1, <1>4 DEF QueueInv, StatusInv, FinishedMeansRan
  <2>2. \A u \in Tasks : u \notin created' => ~HasEvent(u)'
    BY <1>1, <1>4 DEF QueueInv, StatusInv
  <2>3. \A u \in Tasks : InEnqueued(u)' => evStatus'[u] \in {"None", "QUEUED"}
    BY <1>4 DEF QueueInv, StatusInv, Pending
  <2>4. \A u \in created' : ~Pending(u)' => evStatus'[u] \in {"FINISHED", "Deleted"}
    BY <1>1, <1>4 DEF QueueInv, StatusInv, TypeOK
  <2> QED BY <2>1, <2>2, <2>3, <2>4 DEF StatusInv
<1>10. RefInv'
  <2> SUFFICES ASSUME NEW u \in Tasks
               PROVE  /\ refCount'[u] = (IF Pending(u)' /\ HasEvent(u)' THEN 1 ELSE 0)
                                        + (IF u \in userRef' THEN 1 ELSE 0)
                      /\ u \in userRef' => HasEvent(u)'
                      /\ evStatus'[u] = "Deleted" => refCount'[u] = 0
    BY DEF RefInv
  <2>1. CASE u = t
    <3>1. /\ refCount[t] = (IF Pending(t) /\ HasEvent(t) THEN 1 ELSE 0) + 1
          /\ evStatus[t] # "Deleted"
      BY <1>1 DEF QueueInv, RefInv
    <3> QED BY <1>1, <1>2, <1>3, <1>4, <2>1, <3>1
  <2>2. CASE u # t
    BY <1>1, <1>2, <1>4, <2>2 DEF QueueInv, RefInv
  <2> QED BY <2>1, <2>2
<1>11. SlotInv'
  <2>1. EventOwnsItsSlot'
    BY <1>1, <1>2, <1>4 DEF QueueInv, SlotInv, EventOwnsItsSlot
  <2>2. \A i \in TaskIds, u \in Tasks : taskStatusTable'[i] = u =>
           /\ InFlushed(u)'
           /\ ~HasEvent(u)' \/ (evStatus'[u] \in {"FLUSHED", "STARTED"} /\ driverId'[u] = i)
    BY <1>1, <1>2, <1>4 DEF QueueInv, SlotInv, Pending
  <2>3. \A i, j \in TaskIds :
           taskStatusTable'[i] = taskStatusTable'[j] /\ taskStatusTable'[i] # NULL => i = j
    BY <1>1 DEF QueueInv, SlotInv
  <2> QED BY <2>1, <2>2, <2>3 DEF SlotInv
<1> QED BY <1>5, <1>6, <1>7, <1>8, <1>9, <1>10, <1>11 DEF QueueInv

LEMMA GpuStepKeeps ==
  ASSUME QueueInv, GpuStep
  PROVE  QueueInv'
<1>1. /\ UNCHANGED <<enqueuedTasks, flushedTasks, created, surfState, driverId, refCount,
                     evIndex, eventArray, userRef, evStatus, stack, subject>>
      /\ UNCHANGED taskStatusTable
      /\ completed \subseteq completed'
  BY DEF GpuStep, queueVars, eventVars, Gpu, GpuStart, GpuEnd
<1>2. HalInv'
  BY GpuKeepsHalInv DEF GpuStep, QueueInv
<1>3. \A u \in Tasks :
         /\ InFlushed(u)' <=> InFlushed(u)
         /\ InEnqueued(u)' <=> InEnqueued(u)
         /\ Pending(u)' <=> Pending(u)
         /\ HasEvent(u)' <=> HasEvent(u)
  BY <1>1 DEF InFlushed, InEnqueued, Pending, HasEvent
<1>4. TypeOK'
  BY <1>1, <1>2 DEF QueueInv, TypeOK, HalInv
<1>5. ListInv'
  BY <1>1, <1>3 DEF QueueInv, ListInv
<1>6. StatusInv'
  <2>1. FinishedMeansRan'
    BY <1>1 DEF QueueInv, StatusInv, FinishedMeansRan
  <2> QED BY <1>1, <1>3, <2>1 DEF QueueInv, StatusInv, Open, At, TypeOK
<1>7. RefInv'
  BY <1>1, <1>3 DEF QueueInv, RefInv
<1>8. SlotInv'
  BY <1>1, <1>3 DEF QueueInv, SlotInv, EventOwnsItsSlot, Open, At
<1>9. FrameInv'
  BY <1>1 DEF QueueInv, FrameInv
<1> QED BY <1>2, <1>4, <1>5, <1>6, <1>7, <1>8, <1>9 DEF QueueInv

\* GetFirstFreeIndex finds a free slot or the one past the end.
LEMMA FirstFreeSlot ==
  ASSUME TypeOK
  PROVE  GetFirstFreeIndex \in FreeSlots /\ GetFirstFreeIndex \in Nat
<1>1. Len(eventArray) \in Nat
  BY DEF TypeOK
<1>2. FreeSlots \in SUBSET Nat
  BY <1>1 DEF FreeSlots
<1>3. Len(eventArray) + 1 \in FreeSlots
  BY <1>1 DEF FreeSlots
<1> QED BY <1>2, <1>3, LeastExists DEF GetFirstFreeIndex, Min

LEMMA CreateEventEffect ==
  ASSUME TypeOK, NEW t \in Tasks, NEW visible \in BOOLEAN, CreateEvent(t, visible)
  PROVE  /\ evStatus' \in [Tasks -> Statuses] /\ refCount' \in [Tasks -> Int]
         /\ evIndex' \in [Tasks -> Nat] /\ eventArray' \in Seq(Tasks \cup {NULL})
         /\ userRef' \in SUBSET Tasks /\ driverId' = driverId
         /\ evStatus'[t] = "QUEUED"
         /\ refCount'[t] = 1 + (IF visible THEN 1 ELSE 0)
         /\ t \in userRef' <=> t \in userRef \/ visible
         /\ \A u \in Tasks : u # t => /\ evStatus'[u] = evStatus[u]
                                      /\ refCount'[u] = refCount[u]
                                      /\ u \in userRef' <=> u \in userRef
<1>1. GetFirstFreeIndex \in Nat
  BY FirstFreeSlot
<1>2. /\ evStatus \in [Tasks -> Statuses] /\ refCount \in [Tasks -> Int]
      /\ evIndex \in [Tasks -> Nat] /\ eventArray \in Seq(Tasks \cup {NULL})
      /\ userRef \in SUBSET Tasks
  BY DEF TypeOK
<1>3. /\ evStatus' = [evStatus EXCEPT ![t] = "QUEUED"]
      /\ refCount' = [refCount EXCEPT ![t] = IF visible THEN 2 ELSE 1]
      /\ evIndex' = [evIndex EXCEPT ![t] = GetFirstFreeIndex]
      /\ SetElement(GetFirstFreeIndex, t)
      /\ userRef' = IF visible THEN userRef \cup {t} ELSE userRef
      /\ driverId' = driverId
  BY DEF CreateEvent
<1>4. eventArray' \in Seq(Tasks \cup {NULL})
  <2>1. \/ eventArray' = [eventArray EXCEPT ![GetFirstFreeIndex] = t]
        \/ eventArray' = Append(eventArray, t)
    BY <1>3 DEF SetElement
  <2>2. t \in Tasks \cup {NULL}
    OBVIOUS
  <2>3. CASE eventArray' = [eventArray EXCEPT ![GetFirstFreeIndex] = t]
    BY <1>2, <2>2, <2>3, ExceptInSeq
  <2>4. CASE eventArray' = Append(eventArray, t)
    BY <1>2, <2>2, <2>4, AppendContains
  <2> QED BY <2>1, <2>3, <2>4
<1> HIDE DEF GetFirstFreeIndex
<1>5. evIndex' \in [Tasks -> Nat]
  BY <1>1, <1>2, <1>3
<1> QED BY <1>2, <1>3, <1>4, <1>5 DEF Statuses

\* A task the queue has not seen has no trace in it; Enqueue puts it at the
\* end of the list.
LEMMA EnqueueLists ==
  ASSUME QueueInv, NEW t \in Tasks, t \notin created,
         created' = created \cup {t},
         enqueuedTasks' = Append(enqueuedTasks, t), flushedTasks' = flushedTasks
  PROVE  /\ enqueuedTasks' \in Seq(Tasks) /\ created' \in SUBSET Tasks
         /\ ~Pending(t) /\ ~HasEvent(t) /\ t \notin userRef
         /\ InEnqueued(t)' /\ ~InFlushed(t)' /\ Pending(t)'
         /\ \A u \in Tasks : u # t => /\ InFlushed(u)' <=> InFlushed(u)
                                      /\ InEnqueued(u)' <=> InEnqueued(u)
                                      /\ Pending(u)' <=> Pending(u)
         /\ ListInv'
<1>1. /\ enqueuedTasks \in Seq(Tasks) /\ created \in SUBSET Tasks
      /\ IsInjective(enqueuedTasks) /\ ~Pending(t) /\ ~HasEvent(t) /\ t \notin userRef
  BY DEF QueueInv, TypeOK, ListInv, StatusInv, RefInv
<1>2. /\ enqueuedTasks' \in Seq(Tasks)
      /\ \A u : Contains(enqueuedTasks', u) <=> Contains(enqueuedTasks, u) \/ u = t
      /\ IsInjective(enqueuedTasks')
  BY <1>1, AppendContains DEF Pending, InEnqueued
<1>3. /\ InEnqueued(t)' /\ ~InFlushed(t)' /\ Pending(t)'
      /\ \A u \in Tasks : u # t => /\ InFlushed(u)' <=> InFlushed(u)
                                   /\ InEnqueued(u)' <=> InEnqueued(u)
                                   /\ Pending(u)' <=> Pending(u)
  BY <1>1, <1>2 DEF InFlushed, InEnqueued, Pending
<1>4. ListInv'
  BY <1>2, <1>3 DEF QueueInv, ListInv
<1> QED BY <1>1, <1>2, <1>3, <1>4

\* With the task on the list, every other part of the invariant follows from
\* its event being new or absent.
LEMMA EnqueueRest ==
  ASSUME QueueInv, Open, NEW t \in Tasks, t \notin created,
         created' = created \cup {t},
         enqueuedTasks' = Append(enqueuedTasks, t), flushedTasks' = flushedTasks,
         UNCHANGED <<halVars, driverId>>,
         evStatus' \in [Tasks -> Statuses],
         \/ evStatus'[t] = "QUEUED"
            /\ refCount'[t] = 1 + (IF t \in userRef' THEN 1 ELSE 0)
         \/ evStatus'[t] = "None" /\ refCount'[t] = 0 /\ t \notin userRef',
         \A u \in Tasks : u # t => /\ evStatus'[u] = evStatus[u]
                                   /\ refCount'[u] = refCount[u]
                                   /\ u \in userRef' <=> u \in userRef
  PROVE  HalInv' /\ ListInv' /\ StatusInv' /\ RefInv' /\ SlotInv' /\ HeadKept
<1>1. /\ ~Pending(t) /\ ~HasEvent(t)
      /\ InEnqueued(t)' /\ ~InFlushed(t)' /\ Pending(t)'
      /\ \A u \in Tasks : u # t => /\ InFlushed(u)' <=> InFlushed(u)
                                   /\ InEnqueued(u)' <=> InEnqueued(u)
                                   /\ Pending(u)' <=> Pending(u)
      /\ ListInv'
  BY EnqueueLists
<1>2. HalInv'
  BY DEF halVars, QueueInv, HalInv, HalTypeOK, FinishedIsTrue, RingOwnsItsSlots,
         RingNotEnded
<1>3. \A u \in Tasks : u # t => (HasEvent(u)' <=> HasEvent(u))
  BY DEF HasEvent
<1>4. StatusInv'
  <2>1. FinishedMeansRan'
    BY DEF QueueInv, StatusInv, FinishedMeansRan, halVars
  <2>2. \A u \in Tasks : u \notin created' => ~HasEvent(u)'
    BY <1>3 DEF QueueInv, StatusInv
  <2>3. \A u \in Tasks : InEnqueued(u)' => evStatus'[u] \in {"None", "QUEUED"}
    BY <1>1 DEF QueueInv, StatusInv
  <2>4. \A u \in created' : ~Pending(u)' => evStatus'[u] \in {"FINISHED", "Deleted"}
    BY <1>1 DEF QueueInv, StatusInv, TypeOK
  <2> QED BY <2>1, <2>2, <2>3, <2>4 DEF StatusInv
<1>5. RefInv'
  <2> SUFFICES ASSUME NEW u \in Tasks
               PROVE  /\ refCount'[u] = (IF Pending(u)' /\ HasEvent(u)' THEN 1 ELSE 0)
                                        + (IF u \in userRef' THEN 1 ELSE 0)
                      /\ u \in userRef' => HasEvent(u)'
                      /\ evStatus'[u] = "Deleted" => refCount'[u] = 0
    BY DEF RefInv
  <2>1. CASE u = t
    BY <1>1, <2>1 DEF HasEvent
  <2>2. CASE u # t
    BY <1>1, <1>3, <2>2 DEF QueueInv, RefInv
  <2> QED BY <2>1, <2>2
<1>6. SlotInv'
  <2>1. \A i \in TaskIds : taskStatusTable[i] # t
    BY <1>1 DEF QueueInv, SlotInv, Pending
  <2>2. EventOwnsItsSlot'
    BY DEF QueueInv, SlotInv, EventOwnsItsSlot, halVars
  <2>3. \A i \in TaskIds, u \in Tasks : taskStatusTable'[i] = u =>
           /\ InFlushed(u)'
           /\ ~HasEvent(u)' \/ (evStatus'[u] \in {"FLUSHED", "STARTED"} /\ driverId'[u] = i)
    BY <1>1, <1>3, <2>1 DEF QueueInv, SlotInv, halVars
  <2>4. \A i, j \in TaskIds :
           taskStatusTable'[i] = taskStatusTable'[j] /\ taskStatusTable'[i] # NULL => i = j
    BY DEF QueueInv, SlotInv, halVars
  <2> QED BY <2>2, <2>3, <2>4 DEF SlotInv
<1>7. HeadKept
  <2> SUFFICES ASSUME flushedTasks # <<>> PROVE evStatus'[Head(flushedTasks)] = evStatus[Head(flushedTasks)]
    BY DEF HeadKept
  <2>1. Head(flushedTasks) \in Tasks /\ InFlushed(Head(flushedTasks))
    BY TailContains DEF QueueInv, TypeOK, InFlushed
  <2> QED BY <1>1, <2>1 DEF Pending
<1> QED BY <1>1, <1>2, <1>4, <1>5, <1>6, <1>7

LEMMA EnqueueKeeps ==
  ASSUME QueueInv, NEW t \in Tasks, NEW visible \in BOOLEAN, Enqueue(t, visible)
  PROVE  QueueInv'
<1>1. /\ stack = <<>> /\ Open /\ t \notin created
      /\ created' = created \cup {t}
      /\ enqueuedTasks' = Append(enqueuedTasks, t)
      /\ CreateEvent(t, visible)
      /\ UpdateSurfaceStateOnPush(t)
      /\ stack' = <<"flush">>
      /\ UNCHANGED <<flushedTasks, subject, halVars>>
  BY DEF Enqueue, Idle, Open, At
<1>2. /\ evStatus' \in [Tasks -> Statuses] /\ refCount' \in [Tasks -> Int]
      /\ evIndex' \in [Tasks -> Nat] /\ eventArray' \in Seq(Tasks \cup {NULL})
      /\ userRef' \in SUBSET Tasks /\ driverId' = driverId
      /\ evStatus'[t] = "QUEUED"
      /\ refCount'[t] = 1 + (IF visible THEN 1 ELSE 0)
      /\ t \in userRef' <=> t \in userRef \/ visible
      /\ \A u \in Tasks : u # t => /\ evStatus'[u] = evStatus[u]
                                   /\ refCount'[u] = refCount[u]
                                   /\ u \in userRef' <=> u \in userRef
  BY <1>1, CreateEventEffect DEF QueueInv
<1>3. enqueuedTasks' \in Seq(Tasks) /\ created' \in SUBSET Tasks /\ t \notin userRef
  BY <1>1, EnqueueLists
<1>4. HalInv' /\ ListInv' /\ StatusInv' /\ RefInv' /\ SlotInv'
  BY <1>1, <1>2, <1>3, EnqueueRest
<1>5. stack' \in Seq(Frames) /\ FrameInv'
  BY <1>1, OneFrame DEF Frames
<1>6. surfState' \in [Surfaces -> Int]
  BY <1>1 DEF QueueInv, TypeOK, UpdateSurfaceStateOnPush
<1>7. TypeOK'
  BY <1>1, <1>2, <1>3, <1>4, <1>5, <1>6 DEF QueueInv, TypeOK, HalInv
<1> QED BY <1>4, <1>5, <1>7 DEF QueueInv

LEMMA EnqueueWithoutEventKeeps ==
  ASSUME QueueInv, NEW t \in Tasks, EnqueueWithoutEvent(t)
  PROVE  QueueInv'
<1>1. /\ stack = <<>> /\ Open /\ t \notin created
      /\ created' = created \cup {t}
      /\ enqueuedTasks' = Append(enqueuedTasks, t)
      /\ UNCHANGED <<flushedTasks, surfState, driverId, refCount, evIndex, eventArray,
                     userRef, evStatus, stack, subject, halVars>>
  BY DEF EnqueueWithoutEvent, Idle, Open, At, eventVars
<1>2. /\ enqueuedTasks' \in Seq(Tasks) /\ created' \in SUBSET Tasks
      /\ ~Pending(t) /\ ~HasEvent(t) /\ t \notin userRef
  BY <1>1, EnqueueLists
<1>3. refCount[t] = 0
  BY <1>2 DEF QueueInv, RefInv
<1>4. HalInv' /\ ListInv' /\ StatusInv' /\ RefInv' /\ SlotInv' /\ HeadKept
  BY <1>1, <1>2, <1>3, EnqueueRest DEF HasEvent, QueueInv, TypeOK
<1>5. FrameInv'
  BY <1>1, <1>4, StackStaysKeepsFrameInv DEF QueueInv
<1>6. TypeOK'
  BY <1>1, <1>2, <1>4 DEF QueueInv, TypeOK, HalInv
<1> QED BY <1>4, <1>5, <1>6 DEF QueueInv

LEMMA DestroyQueueKeeps ==
  ASSUME QueueInv, DestroyQueue
  PROVE  QueueInv'
<1>1. /\ At("destroy")
      /\ evStatus' = [t \in Tasks |-> IF refCount[t] > 0 THEN "Deleted" ELSE evStatus[t]]
      /\ refCount' = [t \in Tasks |-> 0]
      /\ eventArray' = <<>> /\ userRef' = {}
      /\ enqueuedTasks' = <<>> /\ flushedTasks' = <<>>
      /\ Goto("closed")
      /\ UNCHANGED <<created, surfState, driverId, evIndex, subject, taskStatusTable,
                     sync, ring, completed>>
  BY DEF DestroyQueue, halVars
<1>2. stack # <<>> /\ stack[Len(stack)] = "destroy"
  BY <1>1, AtTop
<1>3. stack \in Seq(Frames) /\ Len(stack) \in Nat \ {0}
  BY <1>2, EmptySeq DEF QueueInv, TypeOK
<1>4. Len(stack) = 1
  <2>1. Len(stack) \in 1 .. Len(stack) /\ stack[Len(stack)] \in RootFrames
    BY <1>2, <1>3 DEF RootFrames
  <2> QED BY <2>1 DEF QueueInv, FrameInv
<1>5. /\ stack' \in Seq(Frames) /\ Len(stack') = 1 /\ stack'[1] = "closed"
  BY <1>1, <1>2, <1>3, <1>4, GotoFrames DEF Frames
<1>6. ~Open'
  BY <1>5 DEF Open, At, Last
<1>7. FrameInv'
  BY <1>5 DEF FrameInv
<1>8. HalInv'
  BY <1>1 DEF QueueInv, HalInv, HalTypeOK, FinishedIsTrue, RingOwnsItsSlots, RingNotEnded
<1>9. TypeOK'
  BY <1>1, <1>5, <1>8 DEF QueueInv, TypeOK, HalInv, Statuses
<1>10. \A t \in Tasks : ~InFlushed(t)' /\ ~InEnqueued(t)' /\ ~Pending(t)'
  BY <1>1, EmptyContains DEF InFlushed, InEnqueued, Pending
<1>11. ListInv'
  BY <1>1, <1>10, EmptyContains, MaxTasksAssumption DEF ListInv
<1>12. \A t \in Tasks : evStatus'[t] = evStatus[t] \/ (evStatus'[t] = "Deleted" /\ HasEvent(t))
  BY <1>1 DEF QueueInv, RefInv, HasEvent
<1>13. StatusInv'
  BY <1>1, <1>6, <1>10, <1>12 DEF QueueInv, StatusInv, HasEvent, FinishedMeansRan
<1>14. RefInv'
  BY <1>1, <1>10 DEF RefInv
<1>15. SlotInv'
  BY <1>1, <1>6, <1>12 DEF QueueInv, SlotInv, EventOwnsItsSlot
<1> QED BY <1>7, <1>8, <1>9, <1>11, <1>13, <1>14, <1>15 DEF QueueInv

-----------------------------------------------------------------------------
(***************************************************************************)
(* The steps of the call in progress.                                      *)
(***************************************************************************)
LEMMA TopFrame ==
  ASSUME QueueInv, NEW f, At(f), f # "closed"
  PROVE  /\ stack \in Seq(Frames) /\ stack # <<>> /\ Len(stack) \in Nat \ {0} /\ Open
         /\ f \in RootFrames => Len(stack) = 1
         /\ f \in {"wait", "waitBo"} => subject \in Tasks
         /\ f = "queried" => flushedTasks # <<>>
<1>1. stack # <<>> /\ stack[Len(stack)] = f /\ Open
  BY AtTop
<1>2. stack \in Seq(Frames) /\ Len(stack) \in Nat \ {0}
  BY <1>1, EmptySeq DEF QueueInv, TypeOK
<1>3. Len(stack) \in 1 .. Len(stack)
  BY <1>2
<1> QED BY <1>1, <1>2, <1>3 DEF QueueInv, FrameInv

\* The three moves of the call stack, with nothing else changed.
LEMMA QuietGoto ==
  ASSUME QueueInv, NEW g, At(g), g # "closed", NEW f \in Frames, Goto(f),
         f \in RootFrames => g \in RootFrames,
         f \notin {"wait", "waitBo", "queried"},
         UNCHANGED <<queueVars, eventVars, evStatus, halVars, subject>>
  PROVE  QueueInv'
<1>1. stack # <<>> /\ Open /\ (f \in RootFrames => Len(stack) = 1)
  BY TopFrame
<1>2. HeadKept
  BY HeadKeptIfUnchanged DEF queueVars
<1>3. stack' \in Seq(Frames) /\ FrameInv'
  BY <1>1, <1>2, GotoKeepsFrameInv DEF QueueInv
<1>4. subject' \in Tasks \cup {NULL}
  BY DEF QueueInv, TypeOK
<1> QED BY <1>1, <1>3, <1>4, QuietKeepsQueueInv

LEMMA QuietReturn ==
  ASSUME QueueInv, NEW g, At(g), g # "closed", Return,
         subject' = subject \/ (g \in RootFrames /\ subject' = NULL),
         UNCHANGED <<queueVars, eventVars, evStatus, halVars>>
  PROVE  QueueInv'
<1>1. stack # <<>> /\ Open /\ (g \in RootFrames => Len(stack) = 1)
  BY TopFrame
<1>2. HeadKept
  BY HeadKeptIfUnchanged DEF queueVars
<1>3. stack' \in Seq(Frames) /\ FrameInv'
  BY <1>1, <1>2, ReturnKeepsFrameInv DEF QueueInv
<1>4. subject' \in Tasks \cup {NULL}
  BY DEF QueueInv, TypeOK
<1> QED BY <1>1, <1>3, <1>4, QuietKeepsQueueInv

LEMMA QuietCall ==
  ASSUME QueueInv, NEW g, At(g), g # "closed",
         NEW cont \in Frames, NEW callee \in Frames, Call(cont, callee),
         callee \notin RootFrames, callee # "queried",
         cont \in RootFrames => g \in RootFrames,
         cont \in {"wait", "waitBo"} => g \in {"wait", "waitBo"},
         cont = "queried" => /\ flushedTasks # <<>>
                             /\ evStatus[Head(flushedTasks)] = "QUEUED",
         UNCHANGED <<queueVars, eventVars, evStatus, halVars, subject>>
  PROVE  QueueInv'
<1>1. /\ stack # <<>> /\ Open
      /\ cont \in RootFrames => Len(stack) = 1
      /\ cont \in {"wait", "waitBo"} => subject \in Tasks
  BY TopFrame
<1>2. HeadKept
  BY HeadKeptIfUnchanged DEF queueVars
<1>3. stack' \in Seq(Frames) /\ FrameInv'
  BY <1>1, <1>2, CallKeepsFrameInv DEF QueueInv
<1>4. subject' \in Tasks \cup {NULL}
  BY DEF QueueInv, TypeOK
<1> QED BY <1>1, <1>3, <1>4, QuietKeepsQueueInv

\* A new call of the application.
LEMMA QuietStart ==
  ASSUME QueueInv, Idle, stack' \in Seq(Frames), FrameInv',
         subject' \in Tasks \cup {NULL},
         UNCHANGED <<queueVars, eventVars, evStatus, halVars>>
  PROVE  QueueInv'
<1>1. Open
  BY DEF Idle, Open, At
<1> QED BY <1>1, QuietKeepsQueueInv

LEMMA FlushTaskWithoutSyncKeeps ==
  ASSUME QueueInv, FlushTaskWithoutSync
  PROVE  QueueInv'
<1>1. PICK loop \in {"flush", "flushBlock"}, full \in {"flushFull", "flushBlockFull"} :
         FlushLoop(loop, full) \/ FlushRoom(loop, full) \/ FlushStillFull(full)
  BY DEF FlushTaskWithoutSync
<1>2. /\ loop \in Frames /\ full \in Frames /\ "query" \in Frames
      /\ loop \notin RootFrames /\ full \notin RootFrames /\ "query" \notin RootFrames
      /\ loop # "closed" /\ full # "closed" /\ loop # "queried" /\ full # "queried"
      /\ full \notin {"wait", "waitBo"}
  BY DEF Frames, RootFrames
<1>3. CASE FlushLoop(loop, full)
  <2>1. At(loop) /\ stack # <<>> /\ Open
    BY <1>2, <1>3, TopFrame DEF FlushLoop
  <2>2. CASE Return /\ UNCHANGED <<queueVars, eventVars, evStatus, halVars, subject>>
    BY <1>2, <2>1, <2>2, QuietReturn
  <2>3. CASE /\ Call(full, "query")
             /\ UNCHANGED <<queueVars, eventVars, evStatus, halVars, subject>>
    BY <1>2, <2>1, <2>3, QuietCall
  <2>4. CASE enqueuedTasks # <<>> /\ ~IsFull /\ FlushOne(loop)
    BY <2>1, <2>4, FlushOneKeeps
  <2> QED BY <1>3, <2>2, <2>3, <2>4 DEF FlushLoop
<1>4. CASE FlushRoom(loop, full)
  <2>1. At(full) /\ ~IsFull /\ stack # <<>> /\ Open
    BY <1>2, <1>4, TopFrame DEF FlushRoom
  <2>2. CASE Return /\ UNCHANGED <<queueVars, eventVars, evStatus, halVars, subject>>
    BY <1>2, <2>1, <2>2, QuietReturn
  <2>3. CASE enqueuedTasks # <<>> /\ FlushOne(loop)
    BY <2>1, <2>3, FlushOneKeeps
  <2> QED BY <1>4, <2>2, <2>3 DEF FlushRoom
<1>5. CASE FlushStillFull(full)
  <2>1. At(full) /\ UNCHANGED <<queueVars, eventVars, evStatus, halVars, subject>>
    BY <1>5 DEF FlushStillFull
  <2>2. CASE Return
    BY <1>2, <2>1, <2>2, QuietReturn
  <2>3. CASE Call(full, "query")
    BY <1>2, <2>1, <2>3, QuietCall
  <2> QED BY <1>5, <2>2, <2>3 DEF FlushStillFull
<1> QED BY <1>1, <1>3, <1>4, <1>5

LEMMA QueryFlushedTasksKeeps ==
  ASSUME QueueInv, QueryFlushedTasks
  PROVE  QueueInv'
<1>1. /\ "queried" \in Frames /\ "flush" \in Frames
      /\ "queried" \notin RootFrames /\ "flush" \notin RootFrames
  BY DEF Frames, RootFrames
<1>2. CASE QueryTop
  <2>1. At("query") /\ stack # <<>> /\ Open /\ UNCHANGED <<queueVars, eventVars, subject>>
    BY <1>2, TopFrame DEF QueryTop
  <2>2. CASE Return /\ UNCHANGED <<evStatus, halVars>>
    BY <2>1, <2>2, QuietReturn
  <2>3. CASE /\ flushedTasks # <<>>
             /\ evStatus[Head(flushedTasks)] = "QUEUED"
             /\ Call("queried", "flush")
             /\ UNCHANGED <<evStatus, halVars>>
    BY <1>1, <2>1, <2>3, QuietCall
  <2>4. CASE /\ flushedTasks # <<>>
             /\ Query(Head(flushedTasks))
             /\ Goto("queried")
    <3>1. Head(flushedTasks) \in Tasks /\ flushedTasks' = flushedTasks
      BY <2>1, <2>4, TailContains DEF QueueInv, TypeOK, queueVars
    <3>2. HeadKept
      BY <2>4, <3>1, QueryKeepsHead
    <3>3. stack' \in Seq(Frames) /\ FrameInv'
      BY <1>1, <2>1, <2>4, <3>2, GotoKeepsFrameInv DEF QueueInv
    <3>4. subject' \in Tasks \cup {NULL}
      BY <2>1 DEF QueueInv, TypeOK
    <3> QED BY <2>1, <2>4, <3>1, <3>3, <3>4, QueryKeepsQueueInv
  <2> QED BY <1>2, <2>2, <2>3, <2>4 DEF QueryTop
<1>3. CASE PopTaskFromFlushedQueue
  BY <1>3, PopKeeps
<1>4. CASE QueryBreak
  BY <1>4, QuietReturn DEF QueryBreak
<1> QED BY <1>2, <1>3, <1>4 DEF QueryFlushedTasks

LEMMA WaitKeeps ==
  ASSUME QueueInv, WaitFlush \/ WaitReturns \/ WaitBo \/ WaitTimeout
  PROVE  QueueInv'
<1>1. /\ "wait" \in Frames /\ "waitBo" \in Frames /\ "flush" \in Frames
      /\ "waitBo" \in RootFrames /\ "wait" \in RootFrames /\ "flush" \notin RootFrames
  BY DEF Frames, RootFrames
<1>2. CASE WaitFlush
  <2>1. /\ At("wait") /\ stack # <<>> /\ Open /\ subject \in Tasks /\ Len(stack) = 1
        /\ UNCHANGED <<queueVars, eventVars, subject>>
    BY <1>1, <1>2, TopFrame DEF WaitFlush
  <2>2. CASE Call("wait", "flush") /\ UNCHANGED <<evStatus, halVars>>
    BY <1>1, <2>1, <2>2, QuietCall
  <2>3. CASE Query(subject) /\ Goto("waitBo")
    <3>1. HeadKept
      BY <2>1, <2>3, QueryKeepsHead DEF queueVars
    <3>2. stack' \in Seq(Frames) /\ FrameInv'
      BY <1>1, <2>1, <2>3, <3>1, GotoKeepsFrameInv DEF QueueInv
    <3> QED BY <2>1, <2>3, <3>2, QueryKeepsQueueInv
  <2> QED BY <1>2, <2>2, <2>3 DEF WaitFlush
<1>3. CASE WaitReturns
  BY <1>1, <1>3, QuietReturn DEF WaitReturns
<1>4. CASE WaitTimeout
  BY <1>1, <1>4, QuietReturn DEF WaitTimeout
<1>5. CASE WaitBo
  <2>1. /\ At("waitBo") /\ Open /\ subject \in Tasks /\ Query(subject)
        /\ UNCHANGED <<queueVars, eventVars, stack, subject>>
    BY <1>5, TopFrame DEF WaitBo
  <2>2. HeadKept
    BY <2>1, QueryKeepsHead DEF queueVars
  <2>3. stack' \in Seq(Frames) /\ FrameInv'
    BY <2>1, <2>2, StackStaysKeepsFrameInv DEF QueueInv, TypeOK
  <2> QED BY <2>1, <2>3, QueryKeepsQueueInv
<1> QED BY <1>2, <1>3, <1>4, <1>5

LEMMA TouchAndCleanKeep ==
  ASSUME QueueInv, TouchQuery \/ CleanLoop \/ CleanPoll
  PROVE  QueueInv'
<1>1. /\ {"query", "clean", "cleanPoll", "destroy"} \subseteq Frames
      /\ {"touchQuery", "clean", "cleanPoll", "destroy"} \subseteq RootFrames
      /\ "query" \notin RootFrames
  BY DEF Frames, RootFrames
<1>2. CASE TouchQuery
  <2>1. At("touchQuery") /\ UNCHANGED <<queueVars, eventVars, evStatus, subject, halVars>>
    BY <1>2 DEF TouchQuery
  <2>2. CASE Goto("query")
    BY <1>1, <2>1, <2>2, QuietGoto
  <2>3. CASE Return
    BY <2>1, <2>3, QuietReturn
  <2> QED BY <1>2, <2>2, <2>3 DEF TouchQuery
<1>3. CASE CleanLoop
  <2>1. At("clean") /\ UNCHANGED <<queueVars, eventVars, evStatus, subject, halVars>>
    BY <1>3 DEF CleanLoop
  <2>2. CASE Goto("destroy")
    BY <1>1, <2>1, <2>2, QuietGoto
  <2>3. CASE Call("cleanPoll", "query")
    BY <1>1, <2>1, <2>3, QuietCall
  <2> QED BY <1>3, <2>2, <2>3 DEF CleanLoop
<1>4. CASE CleanPoll
  <2>1. At("cleanPoll") /\ UNCHANGED <<queueVars, eventVars, evStatus, subject, halVars>>
    BY <1>4 DEF CleanPoll
  <2>2. CASE Goto("clean")
    BY <1>1, <2>1, <2>2, QuietGoto
  <2>3. CASE Goto("destroy")
    BY <1>1, <2>1, <2>3, QuietGoto
  <2> QED BY <1>4, <2>2, <2>3 DEF CleanPoll
<1> QED BY <1>2, <1>3, <1>4

LEMMA CallStepKeeps ==
  ASSUME QueueInv, CallStep
  PROVE  QueueInv'
BY FlushTaskWithoutSyncKeeps, QueryFlushedTasksKeeps, WaitKeeps, TouchAndCleanKeep,
   DestroyQueueKeeps DEF CallStep

LEMMA ApplicationKeeps ==
  ASSUME QueueInv, Application
  PROVE  QueueInv'
<1>1. {"flush", "query", "wait", "clean", "touchQuery", "flushBlock"} \subseteq Frames
  BY DEF Frames
<1>2. ASSUME NEW t \in Tasks, GetStatus(t) PROVE QueueInv'
  <2>1. /\ Idle /\ Open /\ UNCHANGED <<queueVars, eventVars, subject>>
        /\ subject \in Tasks \cup {NULL}
    BY <1>2 DEF GetStatus, Idle, Open, At, QueueInv, TypeOK
  <2>2. CASE stack' = <<"flush">> /\ UNCHANGED <<evStatus, halVars>>
    BY <1>1, <2>1, <2>2, OneFrame, QuietStart
  <2>3. CASE Query(t) /\ UNCHANGED stack
    <3>1. HeadKept
      BY <2>1, <2>3, QueryKeepsHead DEF queueVars
    <3>2. stack' \in Seq(Frames) /\ FrameInv'
      BY <2>1, <2>3, <3>1, StackStaysKeepsFrameInv DEF QueueInv, TypeOK
    <3> QED BY <2>1, <2>3, <3>2, QueryKeepsQueueInv
  <2> QED BY <1>2, <2>2, <2>3 DEF GetStatus
<1>3. ASSUME NEW t \in Tasks, WaitForTaskFinished(t) PROVE QueueInv'
  BY <1>1, <1>3, OneFrame, QuietStart DEF WaitForTaskFinished
<1>4. ASSUME NEW a \in Frames, NEW b \in Frames \ RootFrames, b # "queried",
             a \notin {"wait", "waitBo", "queried"}, stack' = <<a, b>>
      PROVE  stack' \in Seq(Frames) /\ FrameInv'
  BY <1>4 DEF FrameInv, RootFrames
<1>5. CASE TouchFlushedTasks
  <2>1. /\ Idle /\ UNCHANGED <<queueVars, eventVars, evStatus, subject, halVars>>
        /\ subject' \in Tasks \cup {NULL}
    BY <1>5 DEF TouchFlushedTasks, QueueInv, TypeOK
  <2>2. CASE stack' = <<"query">>
    BY <1>1, <2>1, <2>2, OneFrame, QuietStart
  <2>3. CASE stack' = <<"touchQuery", "flush">>
    <3>1. "touchQuery" \in Frames /\ "flush" \in Frames \ RootFrames
      BY DEF Frames, RootFrames
    <3>2. stack' \in Seq(Frames) /\ FrameInv'
      BY <1>4, <2>3, <3>1
    <3> QED BY <2>1, <3>2, QuietStart
  <2> QED BY <1>5, <2>2, <2>3 DEF TouchFlushedTasks
<1>6. CASE CleanQueue
  <2>1. /\ Idle /\ UNCHANGED <<queueVars, eventVars, evStatus, subject, halVars>>
        /\ subject' \in Tasks \cup {NULL}
    BY <1>6 DEF CleanQueue, QueueInv, TypeOK
  <2>2. CASE stack' = <<"clean">>
    BY <1>1, <2>1, <2>2, OneFrame, QuietStart
  <2>3. CASE stack' = <<"clean", "flushBlock">>
    <3>1. "clean" \in Frames /\ "flushBlock" \in Frames \ RootFrames
      BY DEF Frames, RootFrames
    <3>2. stack' \in Seq(Frames) /\ FrameInv'
      BY <1>4, <2>3, <3>1
    <3> QED BY <2>1, <3>2, QuietStart
  <2> QED BY <1>6, <2>2, <2>3 DEF CleanQueue
<1> QED BY <1>2, <1>3, <1>5, <1>6, EnqueueKeeps, EnqueueWithoutEventKeeps,
           DestroyEventKeeps DEF Application

LEMMA UnchangedKeeps ==
  ASSUME QueueInv, UNCHANGED vars
  PROVE  QueueInv'
BY DEF vars, QueueInv, TypeOK, HalInv, HalTypeOK, FinishedIsTrue, RingOwnsItsSlots,
       RingNotEnded, ListInv, StatusInv, FinishedMeansRan, RefInv, SlotInv,
       EventOwnsItsSlot, FrameInv, Pending, InFlushed, InEnqueued, HasEvent, Open, At

-----------------------------------------------------------------------------
(***************************************************************************)
(* The theorems.                                                           *)
(***************************************************************************)

\* Every step of the queue, whatever fails, keeps the inductive invariant.
THEOREM QueueInvariant == Spec => []QueueInv
<1>1. Init => QueueInv
  BY InitQueueInv
<1>2. QueueInv /\ [Next]_vars => QueueInv'
  BY ApplicationKeeps, CallStepKeeps, GpuStepKeeps, UnchangedKeeps DEF Next, Ended
<1> QED BY <1>1, <1>2, PTL DEF Spec

\* The variables keep their types: no status, index or frame is ever out of
\* the range the code gives it.
THEOREM QueueTypeCorrect == Spec => []TypeOK
<1>1. QueueInv => TypeOK
  BY DEF QueueInv
<1> QED BY <1>1, QueueInvariant, PTL

\* A task handed to Enqueue stays on exactly one list until its event has been
\* seen FINISHED, through failures, nested flushes and timeouts.
THEOREM QueueLosesNoTask == Spec => []NoTaskLost
<1>1. QueueInv => NoTaskLost
  BY DEF QueueInv, ListInv, StatusInv, NoTaskLost
<1> QED BY <1>1, QueueInvariant, PTL

\* An event that would ask the HAL for a slot still owns that slot.
THEOREM QueueEventOwnsItsSlot == Spec => []EventOwnsItsSlot
<1>1. QueueInv => EventOwnsItsSlot
  BY DEF QueueInv, SlotInv
<1> QED BY <1>1, QueueInvariant, PTL

\* An event says FINISHED only of a task the GPU has ended.
THEOREM QueueFinishedMeansRan == Spec => []FinishedMeansRan
<1>1. QueueInv => FinishedMeansRan
  BY DEF QueueInv, StatusInv
<1> QED BY <1>1, QueueInvariant, PTL

\* A table without a free slot holds as many flushed tasks as it has slots.
LEMMA FullTableFullList ==
  ASSUME TypeOK, SlotInv, Open, FreeIds = {}
  PROVE  MaxTasks <= Len(flushedTasks)
<1> DEFINE P == 1 .. Len(flushedTasks)
           f == [i \in TaskIds |-> CHOOSE k \in P : flushedTasks[k] = taskStatusTable[i]]
<1>1. flushedTasks \in Seq(Tasks) /\ Len(flushedTasks) \in Nat /\ DOMAIN flushedTasks = P
  BY DEF TypeOK
<1>2. \A i \in TaskIds : /\ taskStatusTable[i] \in Tasks /\ taskStatusTable[i] # NULL
                         /\ \E k \in P : flushedTasks[k] = taskStatusTable[i]
  <2> TAKE i \in TaskIds
  <2>1. taskStatusTable[i] \in Tasks /\ taskStatusTable[i] # NULL
    BY TasksAssumption DEF FreeIds, TypeOK, HalTypeOK
  <2>2. Contains(flushedTasks, taskStatusTable[i])
    BY <2>1 DEF SlotInv, InFlushed
  <2> QED BY <1>1, <2>1, <2>2 DEF Contains
<1>3. \A i \in TaskIds : f[i] \in P /\ flushedTasks[f[i]] = taskStatusTable[i]
  BY <1>2
<1>4. f \in [TaskIds -> P]
  BY <1>3
<1>5. /\ IsFiniteSet(P) /\ IsFiniteSet(TaskIds)
      /\ Cardinality(P) = Len(flushedTasks) /\ Cardinality(TaskIds) = MaxTasks
  <2>1. IsFiniteSet(P) /\ Cardinality(P) = Len(flushedTasks)
    BY <1>1, FS_Interval
  <2>2. MaxTasks - 1 \in Int /\ ~(0 > MaxTasks - 1) /\ MaxTasks - 1 - 0 + 1 = MaxTasks
    BY MaxTasksAssumption
  <2>3. IsFiniteSet(TaskIds) /\ Cardinality(TaskIds) = MaxTasks
    BY <2>2, FS_Interval DEF TaskIds
  <2> QED BY <2>1, <2>3
<1> HIDE DEF f, P
<1>6. CASE Cardinality(P) < Cardinality(TaskIds)
  <2>1. PICK i, j \in TaskIds : i # j /\ f[i] = f[j]
    BY <1>4, <1>5, <1>6, FS_PigeonHole
  <2>2. taskStatusTable[i] = taskStatusTable[j]
    BY <1>3, <2>1
  <2> QED BY <1>2, <2>1, <2>2 DEF SlotInv
<1> QED BY <1>1, <1>5, <1>6, MaxTasksAssumption

\* FlushTaskWithoutSync counts the tasks on its list and the HAL counts its
\* slots; a queue with room always finds a free slot.
THEOREM QueueSlotForEveryFlush == Spec => []SlotForEveryFlush
<1>1. QueueInv => SlotForEveryFlush
  <2> SUFFICES ASSUME QueueInv PROVE SlotForEveryFlush
    OBVIOUS
  <2>1. Len(flushedTasks) <= MaxTasks /\ Len(flushedTasks) \in Nat
    BY DEF QueueInv, ListInv, TypeOK
  <2>2. ASSUME Open, Len(flushedTasks) < MaxTasks PROVE FreeIds # {}
    BY <2>1, <2>2, FullTableFullList, MaxTasksAssumption DEF QueueInv
  <2> QED BY <2>1, <2>2 DEF SlotForEveryFlush
<1> QED BY <1>1, QueueInvariant, PTL

\* The HAL under the queue keeps the invariant it has on its own: the queue
\* submits and queries only in ways the layer expects.
THEOREM QueueKeepsHalInv == Spec => []HalInv
<1>1. QueueInv => HalInv
  BY DEF QueueInv
<1> QED BY <1>1, QueueInvariant, PTL

\* The steps an event may take.
Forward(t) ==
    \/ evStatus'[t] = evStatus[t]
    \/ evStatus'[t] = "Deleted"
    \/ evStatus[t] = "None" /\ evStatus'[t] = "QUEUED"
    \/ evStatus[t] = "QUEUED" /\ evStatus'[t] = "FLUSHED"
    \/ evStatus[t] \in {"FLUSHED", "STARTED"} /\ evStatus'[t] \in {"STARTED", "FINISHED"}

LEMMA QueryForward ==
  ASSUME QueueInv, NEW q \in Tasks, Query(q)
  PROVE  \A t \in Tasks : Forward(t)
BY QueryEffect DEF QueueInv, TypeOK, Forward

LEMMA FlushOneForward ==
  ASSUME QueueInv, NEW loop, FlushOne(loop)
  PROVE  \A t \in Tasks : Forward(t)
<1>1. PICK h : FlushSucceeds(h) \/ FlushWithoutEvent(h) \/ FlushFails(h)
  BY DEF FlushOne
<1>2. \/ evStatus' = evStatus
      \/ evStatus[h] = "QUEUED" /\ evStatus' = [evStatus EXCEPT ![h] = "FLUSHED"]
  BY <1>1 DEF FlushSucceeds, FlushWithoutEvent, FlushFails
<1> QED BY <1>2 DEF Forward, QueueInv, TypeOK

LEMMA ReleaseForward ==
  ASSUME QueueInv, NEW r \in Tasks, ReleaseEvent(r)
  PROVE  \A t \in Tasks : Forward(t)
BY ReleaseEffect DEF QueueInv, Forward

LEMMA StepsForward ==
  ASSUME QueueInv, Next
  PROVE  \A t \in Tasks : Forward(t)
<1>1. ASSUME evStatus' = evStatus PROVE \A t \in Tasks : Forward(t)
  BY <1>1 DEF Forward
<1>2. CASE FlushTaskWithoutSync
  <2>1. (\E loop : FlushOne(loop)) \/ evStatus' = evStatus
    BY <1>2 DEF FlushTaskWithoutSync, FlushLoop, FlushRoom, FlushStillFull
  <2> QED BY <1>1, <2>1, FlushOneForward
<1>3. CASE QueryFlushedTasks
  <2>1. CASE QueryTop
    <3>1. \/ evStatus' = evStatus
          \/ flushedTasks # <<>> /\ Query(Head(flushedTasks))
      BY <2>1 DEF QueryTop
    <3>2. flushedTasks # <<>> => Head(flushedTasks) \in Tasks
      BY TailContains DEF QueueInv, TypeOK
    <3> QED BY <1>1, <3>1, <3>2, QueryForward
  <2>2. CASE PopTaskFromFlushedQueue
    <3>1. flushedTasks # <<>>
      BY <2>2, TopFrame DEF PopTaskFromFlushedQueue
    <3>2. Head(flushedTasks) \in Tasks /\ ReleaseEvent(Head(flushedTasks))
      BY <2>2, <3>1, TailContains DEF QueueInv, TypeOK, PopTaskFromFlushedQueue
    <3> QED BY <3>2, ReleaseForward
  <2>3. CASE QueryBreak
    BY <1>1, <2>3 DEF QueryBreak
  <2> QED BY <1>3, <2>1, <2>2, <2>3 DEF QueryFlushedTasks
<1>4. CASE WaitFlush
  <2>1. subject \in Tasks
    BY <1>4, TopFrame DEF WaitFlush
  <2> QED BY <1>1, <1>4, <2>1, QueryForward DEF WaitFlush
<1>5. CASE WaitBo
  <2>1. subject \in Tasks
    BY <1>5, TopFrame DEF WaitBo
  <2> QED BY <1>5, <2>1, QueryForward DEF WaitBo
<1>6. CASE TouchQuery \/ WaitReturns \/ WaitTimeout \/ CleanLoop \/ CleanPoll
  BY <1>1, <1>6 DEF TouchQuery, WaitReturns, WaitTimeout, CleanLoop, CleanPoll
<1>7. CASE DestroyQueue
  BY <1>7 DEF DestroyQueue, Forward
<1>8. CASE Application
  <2>1. ASSUME NEW e \in Tasks, NEW visible \in BOOLEAN, Enqueue(e, visible)
        PROVE  \A t \in Tasks : Forward(t)
    <3>1. evStatus[e] = "None"
      BY <2>1 DEF Enqueue, QueueInv, StatusInv, HasEvent
    <3> QED BY <2>1, <3>1 DEF Enqueue, CreateEvent, Forward, QueueInv, TypeOK
  <2>2. ASSUME NEW e \in Tasks, EnqueueWithoutEvent(e) PROVE \A t \in Tasks : Forward(t)
    BY <1>1, <2>2 DEF EnqueueWithoutEvent
  <2>3. ASSUME NEW e \in Tasks, GetStatus(e) PROVE \A t \in Tasks : Forward(t)
    BY <1>1, <2>3, QueryForward DEF GetStatus
  <2>4. ASSUME NEW e \in Tasks, DestroyEvent(e) PROVE \A t \in Tasks : Forward(t)
    BY <2>4, ReleaseForward DEF DestroyEvent
  <2>5. ASSUME NEW e \in Tasks, WaitForTaskFinished(e) PROVE \A t \in Tasks : Forward(t)
    BY <1>1, <2>5 DEF WaitForTaskFinished
  <2>6. CASE TouchFlushedTasks \/ CleanQueue
    BY <1>1, <2>6 DEF TouchFlushedTasks, CleanQueue
  <2> QED BY <1>8, <2>1, <2>2, <2>3, <2>4, <2>5, <2>6 DEF Application
<1>9. CASE GpuStep \/ Ended
  BY <1>1, <1>9 DEF GpuStep, Ended, vars
<1> QED BY <1>2, <1>3, <1>4, <1>5, <1>6, <1>7, <1>8, <1>9 DEF Next, CallStep

\* Nobody sees the status of an event go back: every step, failures and the
\* end of the queue included, moves it forward or leaves it.
THEOREM QueueStatusNeverRegresses == Spec => StatusNeverRegresses
<1>1. QueueInv /\ [Next]_vars
         => [\A t \in Tasks : Rank(evStatus'[t]) >= Rank(evStatus[t])]_vars
  <2> SUFFICES ASSUME QueueInv, Next, NEW t \in Tasks
               PROVE  Rank(evStatus'[t]) >= Rank(evStatus[t])
    OBVIOUS
  <2>1. /\ Rank("None") = 0 /\ Rank("QUEUED") = 1 /\ Rank("FLUSHED") = 2
        /\ Rank("STARTED") = 3 /\ Rank("FINISHED") = 4 /\ Rank("Deleted") = 5
    BY DEF Rank
  <2>2. evStatus[t] \in Statuses
    BY DEF QueueInv, TypeOK
  <2>3. Forward(t)
    BY StepsForward
  <2>4. evStatus'[t] \in Statuses
    BY <2>2, <2>3 DEF Forward, Statuses
  <2> QED BY <2>1, <2>2, <2>3, <2>4 DEF Forward, Statuses
<1> QED BY <1>1, QueueInvariant, PTL DEF Spec, StatusNeverRegresses
=============================================================================
