-------------------------- MODULE CmQueueOrder_proofs --------------------------
(***************************************************************************)
(* More proofs about the task queue: who holds its events, whatever fails, *)
(* and the order of its tasks when the HAL accepts every one.              *)
(***************************************************************************)
EXTENDS CmQueue_proofs

-----------------------------------------------------------------------------
(***************************************************************************)
(* The array of events.                                                    *)
(***************************************************************************)
arrayVars == <<refCount, evIndex, eventArray>>

LEMMA ArrayCreate ==
  ASSUME QueueInv, ArrayInv, NEW t \in Tasks, t \notin created,
         NEW visible \in BOOLEAN, CreateEvent(t, visible)
  PROVE  ArrayInv'
<1> DEFINE g == GetFirstFreeIndex
<1>1. /\ refCount \in [Tasks -> Int] /\ evIndex \in [Tasks -> Nat]
      /\ eventArray \in Seq(Tasks \cup {NULL}) /\ NULL \notin Tasks
  BY TasksAssumption DEF QueueInv, TypeOK
<1>2. refCount[t] = 0
  <2>1. ~HasEvent(t)
    BY DEF QueueInv, StatusInv
  <2> QED BY <2>1 DEF QueueInv, RefInv
<1>3. /\ Len(eventArray) \in Nat /\ DOMAIN eventArray = 1 .. Len(eventArray)
      /\ g \in 1 .. Len(eventArray) + 1
      /\ g <= Len(eventArray) => eventArray[g] = NULL
  BY <1>1, FirstFreeSlot DEF QueueInv, FreeSlots
<1>4. /\ refCount' = [refCount EXCEPT ![t] = IF visible THEN 2 ELSE 1]
      /\ evIndex' = [evIndex EXCEPT ![t] = g]
      /\ eventArray' = IF g <= Len(eventArray) THEN [eventArray EXCEPT ![g] = t]
                                               ELSE Append(eventArray, t)
  BY DEF CreateEvent, SetElement
<1> HIDE DEF g
<1>5. /\ \A i \in DOMAIN eventArray' :
           IF i = g THEN eventArray'[i] = t
           ELSE i \in DOMAIN eventArray /\ eventArray'[i] = eventArray[i]
      /\ g \in DOMAIN eventArray' /\ DOMAIN eventArray \subseteq DOMAIN eventArray'
  <2>1. CASE g <= Len(eventArray)
    <3>1. eventArray' = [eventArray EXCEPT ![g] = t] /\ g \in DOMAIN eventArray
      BY <1>3, <1>4, <2>1
    <3> QED BY <3>1
  <2>2. CASE ~(g <= Len(eventArray))
    <3>1. eventArray' = Append(eventArray, t) /\ g = Len(eventArray) + 1
      BY <1>3, <1>4, <2>2
    <3>2. /\ DOMAIN eventArray' = 1 .. Len(eventArray) + 1
          /\ eventArray'[Len(eventArray) + 1] = t
          /\ \A i \in 1 .. Len(eventArray) : eventArray'[i] = eventArray[i]
      BY <1>1, <3>1
    <3> QED BY <1>3, <3>1, <3>2
  <2> QED BY <2>1, <2>2
<1>6. /\ refCount'[t] > 0 /\ evIndex'[t] = g
      /\ \A u \in Tasks : u # t => refCount'[u] = refCount[u] /\ evIndex'[u] = evIndex[u]
  BY <1>1, <1>4
<1>7. \A u \in Tasks : refCount'[u] > 0 =>
        evIndex'[u] \in DOMAIN eventArray' /\ eventArray'[evIndex'[u]] = u
  <2> SUFFICES ASSUME NEW u \in Tasks, refCount'[u] > 0
               PROVE  evIndex'[u] \in DOMAIN eventArray' /\ eventArray'[evIndex'[u]] = u
    OBVIOUS
  <2>1. CASE u = t
    BY <1>5, <1>6, <2>1
  <2>2. CASE u # t
    <3>1. evIndex[u] \in DOMAIN eventArray /\ eventArray[evIndex[u]] = u
      BY <1>6, <2>2 DEF ArrayInv
    <3>2. evIndex[u] # g
      BY <1>1, <1>3, <3>1
    <3> QED BY <1>5, <1>6, <2>2, <3>1, <3>2
  <2> QED BY <2>1, <2>2
<1>8. \A i \in DOMAIN eventArray' : eventArray'[i] # NULL =>
        refCount'[eventArray'[i]] > 0 /\ evIndex'[eventArray'[i]] = i
  <2> SUFFICES ASSUME NEW i \in DOMAIN eventArray', eventArray'[i] # NULL
               PROVE  refCount'[eventArray'[i]] > 0 /\ evIndex'[eventArray'[i]] = i
    OBVIOUS
  <2>1. CASE i = g
    BY <1>5, <1>6, <2>1
  <2>2. CASE i # g
    <3>1. i \in DOMAIN eventArray /\ eventArray'[i] = eventArray[i]
      BY <1>5, <2>2
    <3>2. /\ eventArray[i] \in Tasks
          /\ refCount[eventArray[i]] > 0 /\ evIndex[eventArray[i]] = i
      BY <1>1, <3>1 DEF ArrayInv
    <3>3. eventArray[i] # t
      BY <1>2, <3>2
    <3> QED BY <1>6, <3>1, <3>2, <3>3
  <2> QED BY <2>1, <2>2
<1> QED BY <1>7, <1>8 DEF ArrayInv

LEMMA ArrayRelease ==
  ASSUME QueueInv, ArrayInv, NEW t \in Tasks, refCount[t] > 0, ReleaseEvent(t)
  PROVE  ArrayInv'
<1>1. /\ refCount \in [Tasks -> Int] /\ evIndex \in [Tasks -> Nat]
      /\ eventArray \in Seq(Tasks \cup {NULL}) /\ NULL \notin Tasks
  BY TasksAssumption DEF QueueInv, TypeOK
<1>2. /\ refCount' = [refCount EXCEPT ![t] = @ - 1] /\ evIndex' = evIndex
      /\ eventArray' = IF refCount[t] = 1 THEN [eventArray EXCEPT ![evIndex[t]] = NULL]
                                          ELSE eventArray
  BY DEF ReleaseEvent
<1>3. evIndex[t] \in DOMAIN eventArray /\ eventArray[evIndex[t]] = t
  BY DEF ArrayInv
<1>4. \A i \in DOMAIN eventArray : eventArray[i] \in Tasks \cup {NULL}
  BY <1>1
<1>5. CASE refCount[t] = 1
  BY <1>1, <1>2, <1>3, <1>4, <1>5 DEF ArrayInv
<1>6. CASE refCount[t] # 1
  BY <1>1, <1>2, <1>3, <1>4, <1>6 DEF ArrayInv
<1> QED BY <1>5, <1>6

\* The steps that touch the events of the array.
LEMMA ArraySteps ==
  ASSUME QueueInv, [Next]_vars
  PROVE  \/ UNCHANGED arrayVars
         \/ \E t \in Tasks, visible \in BOOLEAN :
              t \notin created /\ CreateEvent(t, visible)
         \/ \E t \in Tasks : refCount[t] > 0 /\ ReleaseEvent(t)
         \/ eventArray' = <<>> /\ refCount' = [t \in Tasks |-> 0]
<1> USE DEF arrayVars, queueVars, eventVars
<1>1. CASE FlushTaskWithoutSync
  <2>1. (\E loop : FlushOne(loop)) \/ UNCHANGED arrayVars
    BY <1>1 DEF FlushTaskWithoutSync, FlushLoop, FlushRoom, FlushStillFull
  <2> QED BY <2>1 DEF FlushOne
<1>2. CASE PopTaskFromFlushedQueue
  <2>1. flushedTasks # <<>> /\ flushedTasks \in Seq(Tasks)
    BY <1>2, TopFrame DEF PopTaskFromFlushedQueue, QueueInv, TypeOK
  <2>2. Head(flushedTasks) \in Tasks /\ InFlushed(Head(flushedTasks))
    BY <2>1, TailContains DEF InFlushed
  <2>3. HasEvent(Head(flushedTasks)) /\ ReleaseEvent(Head(flushedTasks))
    BY <1>2 DEF PopTaskFromFlushedQueue, MayPop, HasEvent
  <2>4. refCount[Head(flushedTasks)] > 0
    BY <2>2, <2>3 DEF QueueInv, RefInv, Pending
  <2> QED BY <2>2, <2>3, <2>4
<1>3. CASE QueryTop \/ QueryBreak
  BY <1>3 DEF QueryTop, QueryBreak
<1>4. CASE TouchQuery \/ WaitFlush \/ WaitReturns \/ WaitBo \/ WaitTimeout
           \/ CleanLoop \/ CleanPoll
  BY <1>4 DEF TouchQuery, WaitFlush, WaitReturns, WaitBo, WaitTimeout, CleanLoop, CleanPoll
<1>5. CASE DestroyQueue
  BY <1>5 DEF DestroyQueue
<1>6. ASSUME NEW t \in Tasks, NEW visible \in BOOLEAN, Enqueue(t, visible)
      PROVE  t \notin created /\ CreateEvent(t, visible)
  BY <1>6 DEF Enqueue
<1>7. ASSUME NEW t \in Tasks, DestroyEvent(t)
      PROVE  refCount[t] > 0 /\ ReleaseEvent(t)
  BY <1>7 DEF DestroyEvent, QueueInv, RefInv
<1>8. ASSUME NEW t \in Tasks,
             EnqueueWithoutEvent(t) \/ GetStatus(t) \/ WaitForTaskFinished(t)
      PROVE  UNCHANGED arrayVars
  BY <1>8 DEF EnqueueWithoutEvent, GetStatus, WaitForTaskFinished
<1>9. CASE TouchFlushedTasks \/ CleanQueue \/ GpuStep \/ Ended \/ UNCHANGED vars
  BY <1>9 DEF TouchFlushedTasks, CleanQueue, GpuStep, Ended, vars
<1> QED BY <1>1, <1>2, <1>3, <1>4, <1>5, <1>6, <1>7, <1>8, <1>9
        DEF Next, CallStep, Application, QueryFlushedTasks

\* The array and the counts agree whatever fails.
THEOREM AlwaysArray == Spec => []ArrayInv
<1>1. Init => ArrayInv
  BY DEF Init, ArrayInv
<1>2. QueueInv /\ ArrayInv /\ [Next]_vars => ArrayInv'
  <2> SUFFICES ASSUME QueueInv, ArrayInv, [Next]_vars PROVE ArrayInv'
    OBVIOUS
  <2>1. CASE UNCHANGED arrayVars
    BY <2>1 DEF arrayVars, ArrayInv
  <2>2. CASE eventArray' = <<>> /\ refCount' = [t \in Tasks |-> 0]
    BY <2>2 DEF ArrayInv
  <2> QED BY <2>1, <2>2, ArraySteps, ArrayCreate, ArrayRelease
<1> QED BY <1>1, <1>2, QueueInvariant, PTL DEF Spec

\* Every event is held by its pending task and by the application, once each,
\* and lies in its slot of m_EventArray exactly as long: DestroyEvent never
\* deletes it twice, through failures, nested flushes and the end of the queue,
\* for an application that makes one call at a time (Idle in DestroyEvent): the
\* count and the slot have no lock.
THEOREM QueueEventReferences == Spec => []EventReferences
<1>1. QueueInv /\ ArrayInv => EventReferences
  <2> SUFFICES ASSUME QueueInv, ArrayInv, NEW t \in Tasks
               PROVE  /\ refCount[t] = (IF Pending(t) /\ evStatus[t] # "None" THEN 1 ELSE 0)
                                       + (IF t \in userRef THEN 1 ELSE 0)
                      /\ refCount[t] > 0 <=> Contains(eventArray, t)
                      /\ refCount[t] > 0 => /\ evIndex[t] \in DOMAIN eventArray
                                            /\ eventArray[evIndex[t]] = t
                                            /\ evStatus[t] # "Deleted"
    BY DEF EventReferences
  <2>1. refCount[t] = (IF Pending(t) /\ evStatus[t] # "None" THEN 1 ELSE 0)
                      + (IF t \in userRef THEN 1 ELSE 0)
    BY DEF QueueInv, RefInv, HasEvent
  <2>2. refCount[t] > 0 => evStatus[t] # "Deleted"
    BY DEF QueueInv, RefInv
  <2>3. /\ eventArray \in Seq(Tasks \cup {NULL}) /\ t # NULL
        /\ DOMAIN eventArray = 1 .. Len(eventArray)
    BY TasksAssumption DEF QueueInv, TypeOK
  <2>4. refCount[t] > 0 <=> Contains(eventArray, t)
    BY <2>3 DEF ArrayInv, Contains
  <2> QED BY <2>1, <2>2, <2>4 DEF ArrayInv
<1> QED BY <1>1, QueueInvariant, AlwaysArray, PTL

-----------------------------------------------------------------------------
(***************************************************************************)
(* The call stack, when nothing fails.                                     *)
(***************************************************************************)
NoFailures == ~HalMayFail /\ ~AllocMayFail /\ ~MayTimeout

FullFrames == {"flushFull", "flushBlockFull"}
BlockFrames == {"flushBlock", "flushBlockFull"}
TopFrames == {"flush", "flushBlock", "query", "queried", "waitBo", "destroy",
              "closed", "crashed"}

LEMMA OrderlyStays ==
  ASSUME OrderlyInv, UNCHANGED <<stack, enqueuedTasks, flushedTasks>>
  PROVE  OrderlyInv'
BY DEF OrderlyInv

LEMMA OrderlyReturn ==
  ASSUME QueueInv, OrderlyInv, NEW g, At(g), g # "closed", Return,
         UNCHANGED <<enqueuedTasks, flushedTasks>>,
         g \in BlockFrames => enqueuedTasks = <<>>
  PROVE  OrderlyInv'
<1>1. stack \in Seq(Frames) /\ stack # <<>> /\ Len(stack) \in Nat \ {0}
  BY TopFrame
<1>2. stack[Len(stack)] = g
  BY AtTop
<1>3. /\ Len(stack') = Len(stack) - 1
      /\ \A k \in 1 .. Len(stack') : stack'[k] = stack[k]
  BY <1>1, ReturnFrames
<1> SUFFICES ASSUME NEW k \in 1 .. Len(stack')
             PROVE  /\ stack'[k] \in TopFrames => k = Len(stack')
                    /\ stack'[k] \in FullFrames =>
                         /\ enqueuedTasks # <<>>
                         /\ k < Len(stack') => stack'[k + 1] \in {"query", "queried"}
                    /\ stack'[k] \in {"cleanPoll", "destroy"} => enqueuedTasks = <<>>
                    /\ stack'[k] = "clean" =>
                         IF k = Len(stack') THEN enqueuedTasks = <<>>
                         ELSE stack'[k + 1] \in BlockFrames
                    /\ stack'[k] = "destroy" => flushedTasks = <<>>
  BY DEF OrderlyInv, TopFrames, FullFrames, BlockFrames
<1>4. k \in 1 .. Len(stack) /\ k < Len(stack) /\ stack'[k] = stack[k]
  BY <1>1, <1>3
<1>5. k < Len(stack') => stack'[k + 1] = stack[k + 1]
  BY <1>1, <1>3
<1>6. k = Len(stack') => k + 1 = Len(stack)
  BY <1>1, <1>3
<1> QED BY <1>1, <1>2, <1>3, <1>4, <1>5, <1>6
        DEF OrderlyInv, TopFrames, FullFrames, BlockFrames

LEMMA OrderlyGoto ==
  ASSUME QueueInv, OrderlyInv, NEW g, At(g), g # "closed", NEW f \in Frames, Goto(f),
         \/ enqueuedTasks' = enqueuedTasks
         \/ enqueuedTasks # <<>> /\ g \in {"flush", "flushBlock"} \cup FullFrames,
         g \in BlockFrames => f \in BlockFrames,
         f \in FullFrames => enqueuedTasks' # <<>>,
         g \in {"query", "queried"} => f \in {"query", "queried"},
         f \in {"cleanPoll", "destroy", "clean"} => enqueuedTasks' = <<>>,
         f = "destroy" => flushedTasks' = <<>>
  PROVE  OrderlyInv'
<1>1. stack \in Seq(Frames) /\ stack # <<>> /\ Len(stack) \in Nat \ {0}
  BY TopFrame
<1>2. stack[Len(stack)] = g
  BY AtTop
<1>3. /\ Len(stack') = Len(stack)
      /\ \A k \in 1 .. Len(stack) :
           stack'[k] = IF k = Len(stack) THEN f ELSE stack[k]
  BY <1>1, GotoFrames
<1> SUFFICES ASSUME NEW k \in 1 .. Len(stack)
             PROVE  /\ stack'[k] \in TopFrames => k = Len(stack)
                    /\ stack'[k] \in FullFrames =>
                         /\ enqueuedTasks' # <<>>
                         /\ k < Len(stack) => stack'[k + 1] \in {"query", "queried"}
                    /\ stack'[k] \in {"cleanPoll", "destroy"} => enqueuedTasks' = <<>>
                    /\ stack'[k] = "clean" =>
                         IF k = Len(stack) THEN enqueuedTasks' = <<>>
                         ELSE stack'[k + 1] \in BlockFrames
                    /\ stack'[k] = "destroy" => flushedTasks' = <<>>
  BY <1>3 DEF OrderlyInv, TopFrames, FullFrames, BlockFrames
<1>4. CASE k = Len(stack)
  BY <1>1, <1>3, <1>4
<1>5. CASE k # Len(stack)
  <2>1. k < Len(stack) /\ stack'[k] = stack[k] /\ k + 1 \in 1 .. Len(stack)
    BY <1>1, <1>3, <1>5
  <2>2. /\ stack[k] \notin TopFrames
        /\ stack[k] \in FullFrames =>
             enqueuedTasks # <<>> /\ stack[k + 1] \in {"query", "queried"}
        /\ stack[k] = "cleanPoll" => enqueuedTasks = <<>>
        /\ stack[k] = "clean" => stack[k + 1] \in BlockFrames
    BY <1>5, <2>1 DEF OrderlyInv, TopFrames, FullFrames, BlockFrames
  <2>3. \/ k + 1 = Len(stack) /\ stack[k + 1] = g /\ stack'[k + 1] = f
        \/ k + 1 # Len(stack) /\ stack'[k + 1] = stack[k + 1]
    BY <1>2, <1>3, <2>1
  <2>4. stack[k + 1] \in {"query", "queried"} => k + 1 = Len(stack)
    BY <2>1 DEF OrderlyInv
  <2> QED BY <1>5, <2>1, <2>2, <2>3, <2>4 DEF FullFrames, BlockFrames, TopFrames
<1> QED BY <1>4, <1>5

LEMMA OrderlyCall ==
  ASSUME QueueInv, OrderlyInv, NEW g, At(g), g \notin {"closed", "query", "queried"},
         NEW cont \in {"flushFull", "flushBlockFull", "wait", "cleanPoll"},
         NEW callee \in {"query", "flush"}, Call(cont, callee),
         UNCHANGED <<enqueuedTasks, flushedTasks>>,
         g \in BlockFrames => cont \in BlockFrames,
         cont \in FullFrames => enqueuedTasks # <<>> /\ callee = "query",
         cont = "cleanPoll" => enqueuedTasks = <<>>
  PROVE  OrderlyInv'
<1>1. stack \in Seq(Frames) /\ stack # <<>> /\ Len(stack) \in Nat \ {0}
  BY TopFrame
<1>2. stack[Len(stack)] = g
  BY AtTop
<1>3. cont \in Frames /\ callee \in Frames
  BY DEF Frames
<1>4. \/ Len(stack') = 1 /\ stack'[1] = "crashed"
      \/ /\ Len(stack') = Len(stack) + 1
         /\ stack'[Len(stack) + 1] = callee
         /\ stack'[Len(stack)] = cont
         /\ \A k \in 1 .. Len(stack) - 1 : stack'[k] = stack[k]
  BY <1>1, <1>3, CallFrames
<1>5. CASE Len(stack') = 1 /\ stack'[1] = "crashed"
  BY <1>5 DEF OrderlyInv
<1>6. CASE /\ Len(stack') = Len(stack) + 1
           /\ stack'[Len(stack) + 1] = callee
           /\ stack'[Len(stack)] = cont
           /\ \A k \in 1 .. Len(stack) - 1 : stack'[k] = stack[k]
  <2> SUFFICES ASSUME NEW k \in 1 .. Len(stack) + 1
               PROVE  /\ stack'[k] \in TopFrames => k = Len(stack) + 1
                      /\ stack'[k] \in FullFrames =>
                           /\ enqueuedTasks # <<>>
                           /\ k < Len(stack) + 1 => stack'[k + 1] \in {"query", "queried"}
                      /\ stack'[k] \in {"cleanPoll", "destroy"} => enqueuedTasks = <<>>
                      /\ stack'[k] = "clean" =>
                           IF k = Len(stack) + 1 THEN enqueuedTasks = <<>>
                           ELSE stack'[k + 1] \in BlockFrames
                      /\ stack'[k] = "destroy" => flushedTasks = <<>>
    BY <1>6 DEF OrderlyInv, TopFrames, FullFrames, BlockFrames
  <2>1. CASE k = Len(stack) + 1
    BY <1>1, <1>6, <2>1 DEF FullFrames
  <2>2. CASE k = Len(stack)
    BY <1>1, <1>6, <2>2 DEF TopFrames
  <2>3. CASE k \in 1 .. Len(stack) - 1
    <3>1. k < Len(stack) /\ stack'[k] = stack[k] /\ k + 1 \in 1 .. Len(stack)
          /\ k \in 1 .. Len(stack) /\ k # Len(stack) + 1
      BY <1>1, <1>6, <2>3
    <3>2. /\ stack[k] \notin TopFrames
          /\ stack[k] \in FullFrames =>
               enqueuedTasks # <<>> /\ stack[k + 1] \in {"query", "queried"}
          /\ stack[k] = "cleanPoll" => enqueuedTasks = <<>>
          /\ stack[k] = "clean" => stack[k + 1] \in BlockFrames
      BY <3>1 DEF OrderlyInv, TopFrames, FullFrames, BlockFrames
    <3>3. \/ k + 1 = Len(stack) /\ stack[k + 1] = g /\ stack'[k + 1] = cont
          \/ k + 1 \in 1 .. Len(stack) - 1 /\ stack'[k + 1] = stack[k + 1]
      BY <1>1, <1>2, <1>6, <3>1
    <3>4. stack[k + 1] \in {"query", "queried"} => k + 1 = Len(stack)
      BY <3>1 DEF OrderlyInv
    <3> QED BY <3>1, <3>2, <3>3, <3>4 DEF FullFrames, BlockFrames, TopFrames
  <2> QED BY <1>1, <2>1, <2>2, <2>3
<1> QED BY <1>4, <1>5, <1>6

\* A new call.
LEMMA OrderlyStart ==
  ASSUME OrderlyInv,
         \/ stack' \in {<<"flush">>, <<"query">>, <<"wait">>, <<"touchQuery", "flush">>,
                        <<"clean", "flushBlock">>}
         \/ stack' = <<"clean">> /\ enqueuedTasks' = <<>>
  PROVE  OrderlyInv'
<1>1. ASSUME NEW f \in {"flush", "query", "wait"}, stack' = <<f>>
      PROVE  OrderlyInv'
  BY <1>1 DEF OrderlyInv
<1>2. CASE stack' = <<"touchQuery", "flush">>
  BY <1>2 DEF OrderlyInv
<1>3. CASE stack' = <<"clean", "flushBlock">>
  BY <1>3 DEF OrderlyInv
<1>4. CASE stack' = <<"clean">> /\ enqueuedTasks' = <<>>
  BY <1>4 DEF OrderlyInv
<1> QED BY <1>1, <1>2, <1>3, <1>4

-----------------------------------------------------------------------------
(***************************************************************************)
(* Both lists as one.                                                      *)
(***************************************************************************)
LEMMA Concatenation ==
  ASSUME NEW S, NEW a \in Seq(S), NEW b \in Seq(S)
  PROVE  /\ a \o b \in Seq(S)
         /\ Len(a) \in Nat /\ Len(b) \in Nat /\ Len(a \o b) = Len(a) + Len(b)
         /\ DOMAIN a = 1 .. Len(a) /\ DOMAIN b = 1 .. Len(b)
         /\ DOMAIN (a \o b) = 1 .. Len(a) + Len(b)
         /\ \A k \in 1 .. Len(a) : (a \o b)[k] = a[k]
         /\ \A k \in 1 .. Len(b) : (a \o b)[Len(a) + k] = b[k]
OBVIOUS

\* The oldest of the second list becomes the newest of the first.
LEMMA MoveConcat ==
  ASSUME NEW S, NEW a \in Seq(S), NEW b \in Seq(S), b # <<>>
  PROVE  Append(a, Head(b)) \o Tail(b) = a \o b
<1> DEFINE a2 == Append(a, Head(b))
           b2 == Tail(b)
<1>1. /\ a2 \in Seq(S) /\ b2 \in Seq(S)
      /\ Len(a2) = Len(a) + 1 /\ Len(b2) = Len(b) - 1
      /\ Len(a) \in Nat /\ Len(b) \in Nat \ {0}
      /\ \A k \in 1 .. Len(a) : a2[k] = a[k]
      /\ a2[Len(a) + 1] = b[1]
      /\ \A k \in 1 .. Len(b) - 1 : b2[k] = b[k + 1]
  OBVIOUS
<1> HIDE DEF a2, b2
<1>2. /\ a2 \o b2 \in Seq(S) /\ a \o b \in Seq(S)
      /\ Len(a2 \o b2) = Len(a) + Len(b) /\ Len(a \o b) = Len(a) + Len(b)
      /\ \A k \in 1 .. Len(a) + 1 : (a2 \o b2)[k] = a2[k]
      /\ \A k \in 1 .. Len(b) - 1 : (a2 \o b2)[Len(a) + 1 + k] = b2[k]
      /\ \A k \in 1 .. Len(a) : (a \o b)[k] = a[k]
      /\ \A k \in 1 .. Len(b) : (a \o b)[Len(a) + k] = b[k]
  <2>1. /\ a2 \o b2 \in Seq(S) /\ Len(a2 \o b2) = Len(a2) + Len(b2)
        /\ \A k \in 1 .. Len(a2) : (a2 \o b2)[k] = a2[k]
        /\ \A k \in 1 .. Len(b2) : (a2 \o b2)[Len(a2) + k] = b2[k]
    <3>1. a2 \in Seq(S) /\ b2 \in Seq(S)
      BY <1>1
    <3> QED BY <3>1, Concatenation
  <2>2. /\ a \o b \in Seq(S) /\ Len(a \o b) = Len(a) + Len(b)
        /\ \A k \in 1 .. Len(a) : (a \o b)[k] = a[k]
        /\ \A k \in 1 .. Len(b) : (a \o b)[Len(a) + k] = b[k]
    BY Concatenation
  <2>3. Len(a2) + Len(b2) = Len(a) + Len(b)
    BY <1>1
  <2> QED BY <1>1, <2>1, <2>2, <2>3
<1>3. ASSUME NEW k \in 1 .. Len(a2 \o b2)
      PROVE  (a2 \o b2)[k] = (a \o b)[k]
  <2>1. CASE k <= Len(a)
    BY <1>1, <1>2, <2>1
  <2>2. CASE k = Len(a) + 1
    <3>1. 1 \in 1 .. Len(b)
      BY <1>1
    <3>2. (a \o b)[Len(a) + 1] = b[1]
      BY <1>2, <3>1
    <3> QED BY <1>1, <1>2, <2>2, <3>2
  <2>3. CASE k > Len(a) + 1
    <3>1. PICK j \in 1 .. Len(b) - 1 : k = Len(a) + 1 + j
      <4>1. k - Len(a) - 1 \in 1 .. Len(b) - 1 /\ k = Len(a) + 1 + (k - Len(a) - 1)
        BY <1>1, <1>2, <2>3
      <4> QED BY <4>1
    <3>2. (a2 \o b2)[k] = b[j + 1]
      BY <1>1, <1>2, <3>1
    <3>3. j + 1 \in 1 .. Len(b) /\ k = Len(a) + (j + 1)
      BY <1>1, <3>1
    <3> QED BY <1>2, <3>2, <3>3
  <2> QED BY <1>1, <1>2, <2>1, <2>2, <2>3
<1>4. a2 \o b2 = a \o b
  BY <1>2, <1>3, SeqEqual
<1> QED BY <1>4 DEF a2, b2

LEMMA AppendConcat ==
  ASSUME NEW S, NEW a \in Seq(S), NEW b \in Seq(S), NEW e \in S
  PROVE  a \o Append(b, e) = Append(a \o b, e)
<1> DEFINE b2 == Append(b, e)
           c == a \o b
<1>1. /\ b2 \in Seq(S) /\ Len(b2) = Len(b) + 1
      /\ \A k \in 1 .. Len(b) : b2[k] = b[k]
      /\ b2[Len(b) + 1] = e
  OBVIOUS
<1>2. /\ c \in Seq(S) /\ Len(a) \in Nat /\ Len(b) \in Nat /\ Len(c) = Len(a) + Len(b)
      /\ \A k \in 1 .. Len(a) : c[k] = a[k]
      /\ \A k \in 1 .. Len(b) : c[Len(a) + k] = b[k]
  BY Concatenation
<1> HIDE DEF b2, c
<1>3. /\ Append(c, e) \in Seq(S) /\ Len(Append(c, e)) = Len(c) + 1
      /\ \A k \in 1 .. Len(c) : Append(c, e)[k] = c[k]
      /\ Append(c, e)[Len(c) + 1] = e
  <2>1. c \in Seq(S)
    BY <1>2
  <2> QED BY ONLY <2>1, e \in S
<1>4. /\ a \o b2 \in Seq(S) /\ Len(a \o b2) = Len(a) + Len(b) + 1
      /\ \A k \in 1 .. Len(a) : (a \o b2)[k] = a[k]
      /\ \A k \in 1 .. Len(b) + 1 : (a \o b2)[Len(a) + k] = b2[k]
  BY <1>1, <1>2, Concatenation
<1>5. ASSUME NEW k \in 1 .. Len(a \o b2)
      PROVE  (a \o b2)[k] = Append(c, e)[k]
  <2>1. CASE k <= Len(a)
    BY <1>2, <1>3, <1>4, <2>1
  <2>2. CASE k > Len(a)
    <3>1. PICK j \in 1 .. Len(b) + 1 : k = Len(a) + j
      <4>1. k - Len(a) \in 1 .. Len(b) + 1 /\ k = Len(a) + (k - Len(a))
        BY <1>2, <1>4, <2>2
      <4> QED BY <4>1
    <3>2. (a \o b2)[k] = b2[j]
      BY <1>4, <3>1
    <3>3. CASE j = Len(b) + 1
      BY <1>1, <1>2, <1>3, <3>1, <3>2, <3>3
    <3>4. CASE j # Len(b) + 1
      <4>1. j \in 1 .. Len(b) /\ k \in 1 .. Len(c)
        BY <1>2, <3>1, <3>4
      <4>2. b2[j] = b[j] /\ c[k] = b[j] /\ Append(c, e)[k] = c[k]
        BY <1>1, <1>2, <1>3, <3>1, <4>1
      <4> QED BY <3>2, <4>2
    <3> QED BY <3>3, <3>4
  <2>3. k <= Len(a) \/ k > Len(a)
    BY <1>2, <1>4
  <2> QED BY <2>1, <2>2, <2>3, Zenon
<1>6. a \o b2 = Append(c, e)
  BY <1>2, <1>3, <1>4, <1>5, SeqEqual, ZenonT(60)
<1> QED BY <1>6 DEF b2, c

LEMMA TailConcat ==
  ASSUME NEW S, NEW a \in Seq(S), NEW b \in Seq(S), a # <<>>
  PROVE  /\ a \o b # <<>>
         /\ Head(a \o b) = Head(a)
         /\ Tail(a \o b) = Tail(a) \o b
<1> DEFINE a2 == Tail(a)
           c == a \o b
<1>1. /\ a2 \in Seq(S) /\ Len(a2) = Len(a) - 1 /\ Len(a) \in Nat \ {0}
      /\ \A k \in 1 .. Len(a) - 1 : a2[k] = a[k + 1]
      /\ Head(a) = a[1]
  OBVIOUS
<1>2. /\ c \in Seq(S) /\ Len(b) \in Nat /\ Len(c) = Len(a) + Len(b)
      /\ \A k \in 1 .. Len(a) : c[k] = a[k]
      /\ \A k \in 1 .. Len(b) : c[Len(a) + k] = b[k]
  BY Concatenation
<1> HIDE DEF a2, c
<1>3. c # <<>> /\ Head(c) = Head(a)
  <2>1. c # <<>>
    BY <1>1, <1>2, EmptySeq
  <2>2. Head(c) = c[1]
    BY <1>2, <2>1
  <2> QED BY <1>1, <1>2, <2>1, <2>2
<1>4. /\ Tail(c) \in Seq(S) /\ Len(Tail(c)) = Len(c) - 1
      /\ \A k \in 1 .. Len(c) - 1 : Tail(c)[k] = c[k + 1]
  BY <1>2, <1>3
<1>5. /\ a2 \o b \in Seq(S) /\ Len(a2 \o b) = Len(a) - 1 + Len(b)
      /\ \A k \in 1 .. Len(a) - 1 : (a2 \o b)[k] = a2[k]
      /\ \A k \in 1 .. Len(b) : (a2 \o b)[Len(a) - 1 + k] = b[k]
  <2>1. /\ a2 \o b \in Seq(S) /\ Len(a2 \o b) = Len(a2) + Len(b)
        /\ \A k \in 1 .. Len(a2) : (a2 \o b)[k] = a2[k]
        /\ \A k \in 1 .. Len(b) : (a2 \o b)[Len(a2) + k] = b[k]
    <3>1. a2 \in Seq(S)
      BY <1>1
    <3> QED BY <3>1, Concatenation
  <2> QED BY <1>1, <2>1
<1>6. ASSUME NEW k \in 1 .. Len(Tail(c))
      PROVE  Tail(c)[k] = (a2 \o b)[k]
  <2>0. Tail(c)[k] = c[k + 1]
    BY <1>4
  <2>1. CASE k <= Len(a) - 1
    <3>1. k \in 1 .. Len(a) - 1 /\ k + 1 \in 1 .. Len(a)
      BY <1>1, <2>1
    <3> QED BY <1>1, <1>2, <1>5, <2>0, <3>1
  <2>2. CASE k > Len(a) - 1
    <3>1. PICK j \in 1 .. Len(b) : k = Len(a) - 1 + j
      <4>1. k - Len(a) + 1 \in 1 .. Len(b) /\ k = Len(a) - 1 + (k - Len(a) + 1)
        BY <1>1, <1>2, <1>4, <2>2
      <4> QED BY <4>1
    <3>2. k + 1 = Len(a) + j
      BY <1>1, <3>1
    <3> QED BY <1>2, <1>5, <2>0, <3>1, <3>2
  <2>3. k <= Len(a) - 1 \/ k > Len(a) - 1
    BY <1>1, <1>2, <1>4
  <2> QED BY <2>1, <2>2, <2>3, Zenon
<1>7. Tail(c) = a2 \o b
  <2>1. /\ Tail(c) \in Seq(S) /\ a2 \o b \in Seq(S)
        /\ Len(Tail(c)) = Len(a2 \o b)
    BY <1>1, <1>2, <1>4, <1>5
  <2> QED BY <1>6, <2>1, SeqEqual
<1> QED BY <1>3, <1>7 DEF a2, c

-----------------------------------------------------------------------------
(***************************************************************************)
(* What the steps do to the order of the tasks.  Every step is one of      *)
(* these, or leaves orderState alone.                                      *)
(***************************************************************************)
orderState == <<enqueuedTasks, flushedTasks, created, evStatus, ring, completed>>

\* FlushTaskWithoutSync moves a task the HAL has accepted.
Moves ==
    /\ enqueuedTasks # <<>>
    /\ enqueuedTasks' = Tail(enqueuedTasks)
    /\ flushedTasks' = Append(flushedTasks, Head(enqueuedTasks))
    /\ evStatus' = [evStatus EXCEPT ![Head(enqueuedTasks)] = "FLUSHED"]
    /\ \E id \in TaskIds : ring' = Append(ring, [task |-> Head(enqueuedTasks), id |-> id])
    /\ UNCHANGED <<created, completed>>

\* Query sees the batch of t running, or ended.
Sees(t) ==
    /\ evStatus[t] \in {"FLUSHED", "STARTED"}
    /\ \/ evStatus' = [evStatus EXCEPT ![t] = "STARTED"]
       \/ evStatus' = [evStatus EXCEPT ![t] = "FINISHED"] /\ t \in completed
    /\ UNCHANGED <<enqueuedTasks, flushedTasks, created, ring, completed>>

\* PopTaskFromFlushedQueue.
Pops ==
    /\ flushedTasks # <<>>
    /\ evStatus[Head(flushedTasks)] = "FINISHED"
    /\ flushedTasks' = Tail(flushedTasks)
    /\ \/ evStatus' = evStatus
       \/ evStatus' = [evStatus EXCEPT ![Head(flushedTasks)] = "Deleted"]
    /\ UNCHANGED <<enqueuedTasks, created, ring, completed>>

\* The application drops the last reference, of an event that is FINISHED.
Drops(t) ==
    /\ ~Pending(t)
    /\ evStatus[t] = "FINISHED"
    /\ evStatus' = [evStatus EXCEPT ![t] = "Deleted"]
    /\ UNCHANGED <<enqueuedTasks, flushedTasks, created, ring, completed>>

Accepts(t) ==
    /\ t \notin created
    /\ enqueuedTasks' = Append(enqueuedTasks, t)
    /\ created' = created \cup {t}
    /\ evStatus' = [evStatus EXCEPT ![t] = "QUEUED"]
    /\ UNCHANGED <<flushedTasks, ring, completed>>

\* GpuEnd.
Ends ==
    /\ ring # <<>>
    /\ ring' = Tail(ring)
    /\ completed' = completed \cup {Head(ring).task}
    /\ UNCHANGED <<enqueuedTasks, flushedTasks, created, evStatus>>

\* ~CmQueue_RT, with nothing left on the lists.
Closes ==
    /\ enqueuedTasks = <<>> /\ flushedTasks = <<>>
    /\ evStatus' = [t \in Tasks |-> IF refCount[t] > 0 THEN "Deleted" ELSE evStatus[t]]
    /\ UNCHANGED <<enqueuedTasks, flushedTasks, created, ring, completed>>

OrderStep ==
    \/ Moves \/ Pops \/ Ends \/ Closes
    \/ \E t \in Tasks : Sees(t) \/ Drops(t) \/ Accepts(t)
    \/ UNCHANGED orderState

-----------------------------------------------------------------------------
(***************************************************************************)
(* What the statuses say of the lists, step by step.                       *)
(***************************************************************************)
LEMMA ListTypes ==
  ASSUME QueueInv
  PROVE  /\ enqueuedTasks \in Seq(Tasks) /\ flushedTasks \in Seq(Tasks)
         /\ Len(enqueuedTasks) \in Nat /\ Len(flushedTasks) \in Nat /\ Len(ring) \in Nat
         /\ DOMAIN flushedTasks = 1 .. Len(flushedTasks) /\ DOMAIN ring = 1 .. Len(ring)
         /\ ring \in Seq(Batches) /\ completed \in SUBSET Tasks
         /\ evStatus \in [Tasks -> Statuses]
         /\ IsInjective(flushedTasks) /\ IsInjective(enqueuedTasks)
         /\ \A t \in Tasks : ~(InFlushed(t) /\ InEnqueued(t))
         /\ \A t \in Tasks : Pending(t) => t \in created
BY DEF QueueInv, TypeOK, HalInv, HalTypeOK, ListInv

LEMMA AcceptedSame ==
  ASSUME AcceptedInv, UNCHANGED orderState
  PROVE  AcceptedInv'
BY DEF AcceptedInv, orderState, InFlushed, InEnqueued, Pending

LEMMA AcceptedMoves ==
  ASSUME QueueInv, AcceptedInv, Moves
  PROVE  AcceptedInv'
<1>h. PICK h : h = Head(enqueuedTasks)
  OBVIOUS
<1>1. /\ h \in Tasks /\ InEnqueued(h)
      /\ \A t : Contains(Tail(enqueuedTasks), t) <=> Contains(enqueuedTasks, t) /\ t # h
  BY <1>h, ListTypes, TailContains DEF Moves, InEnqueued
<1>2. \A t : Contains(Append(flushedTasks, h), t) <=> Contains(flushedTasks, t) \/ t = h
  BY <1>1, ListTypes, AppendContains
<1>3. /\ evStatus' = [evStatus EXCEPT ![h] = "FLUSHED"] /\ created' = created
      /\ completed' = completed
      /\ \A t : /\ InEnqueued(t)' <=> InEnqueued(t) /\ t # h
                /\ InFlushed(t)' <=> InFlushed(t) \/ t = h
  BY <1>1, <1>2, <1>h DEF Moves, InEnqueued, InFlushed
<1>4. \A t \in Tasks : evStatus'[t] = IF t = h THEN "FLUSHED" ELSE evStatus[t]
  BY <1>3, ListTypes
<1> QED BY <1>1, <1>3, <1>4, ListTypes DEF AcceptedInv, Pending

LEMMA AcceptedSees ==
  ASSUME QueueInv, AcceptedInv, NEW s \in Tasks, Sees(s)
  PROVE  AcceptedInv'
<1>1. \A t : /\ InEnqueued(t)' <=> InEnqueued(t)
             /\ InFlushed(t)' <=> InFlushed(t)
  BY DEF Sees, InEnqueued, InFlushed
<1>2. created' = created /\ completed' = completed
  BY DEF Sees
<1>3. \A t \in Tasks : \/ evStatus'[t] = evStatus[t]
                       \/ /\ t = s /\ evStatus'[t] \in {"STARTED", "FINISHED"}
                          /\ evStatus[t] \in {"FLUSHED", "STARTED"}
  BY ListTypes DEF Sees
<1> QED BY <1>1, <1>2, <1>3 DEF AcceptedInv, Pending

LEMMA AcceptedPops ==
  ASSUME QueueInv, AcceptedInv, Pops
  PROVE  AcceptedInv'
<1>h. PICK h : h = Head(flushedTasks)
  OBVIOUS
<1>1. /\ h \in Tasks /\ InFlushed(h)
      /\ \A t : Contains(Tail(flushedTasks), t) <=> Contains(flushedTasks, t) /\ t # h
  BY <1>h, ListTypes, TailContains DEF Pops, InFlushed
<1>2. /\ evStatus[h] = "FINISHED" /\ created' = created /\ completed' = completed
      /\ \A t : /\ InEnqueued(t)' <=> InEnqueued(t)
                /\ InFlushed(t)' <=> InFlushed(t) /\ t # h
  BY <1>1, <1>h DEF Pops, InEnqueued, InFlushed
<1>3. h \in completed
  BY <1>1, <1>2 DEF QueueInv, StatusInv, FinishedMeansRan
<1>4. /\ \A t \in Tasks : t # h => evStatus'[t] = evStatus[t]
      /\ evStatus'[h] \in {"FINISHED", "Deleted"}
  BY <1>1, <1>2, <1>h, ListTypes DEF Pops
<1> QED BY <1>1, <1>2, <1>3, <1>4 DEF AcceptedInv, Pending

LEMMA AcceptedDrops ==
  ASSUME QueueInv, AcceptedInv, NEW d \in Tasks, Drops(d)
  PROVE  AcceptedInv'
<1>1. \A t : /\ InEnqueued(t)' <=> InEnqueued(t)
             /\ InFlushed(t)' <=> InFlushed(t)
  BY DEF Drops, InEnqueued, InFlushed
<1>2. created' = created /\ completed' = completed /\ d \in completed
  BY DEF Drops, QueueInv, StatusInv, FinishedMeansRan
<1>3. \A t \in Tasks : evStatus'[t] = IF t = d THEN "Deleted" ELSE evStatus[t]
  BY ListTypes DEF Drops
<1>4. ~Pending(d) /\ evStatus[d] = "FINISHED"
  BY DEF Drops
<1> QED BY <1>1, <1>2, <1>3, <1>4 DEF AcceptedInv, Pending

LEMMA AcceptedAccepts ==
  ASSUME QueueInv, AcceptedInv, NEW a \in Tasks, Accepts(a)
  PROVE  AcceptedInv'
<1>1. \A t : Contains(Append(enqueuedTasks, a), t) <=> Contains(enqueuedTasks, t) \/ t = a
  BY ListTypes, AppendContains
<1>2. /\ created' = created \cup {a} /\ completed' = completed
      /\ \A t : /\ InEnqueued(t)' <=> InEnqueued(t) \/ t = a
                /\ InFlushed(t)' <=> InFlushed(t)
  BY <1>1 DEF Accepts, InEnqueued, InFlushed
<1>3. \A t \in Tasks : evStatus'[t] = IF t = a THEN "QUEUED" ELSE evStatus[t]
  BY ListTypes DEF Accepts
<1>4. a \notin created /\ ~Pending(a)
  BY ListTypes DEF Accepts
<1> QED BY <1>2, <1>3, <1>4 DEF AcceptedInv, Pending

LEMMA AcceptedEnds ==
  ASSUME QueueInv, AcceptedInv, RingInv, Ends
  PROVE  AcceptedInv'
<1>1. \A t : /\ InEnqueued(t)' <=> InEnqueued(t)
             /\ InFlushed(t)' <=> InFlushed(t)
  BY DEF Ends, InEnqueued, InFlushed
<1>h. PICK h : h = Head(ring).task
  OBVIOUS
<1>2. h \in Tasks /\ InFlushed(h)
  <2>1. ring # <<>> /\ ring[1] = Head(ring) /\ 1 \in 1 .. Len(ring) /\ ring[1] \in Batches
    BY ListTypes DEF Ends
  <2>2. Len(flushedTasks) - Len(ring) + 1 \in DOMAIN flushedTasks
    BY <2>1, ListTypes DEF RingInv
  <2>3. flushedTasks[Len(flushedTasks) - Len(ring) + 1] = h
    BY <1>h, <2>1 DEF RingInv
  <2> QED BY <1>h, <2>1, <2>2, <2>3 DEF InFlushed, Contains, Batches
<1>3. /\ evStatus' = evStatus /\ created' = created /\ completed' = completed \cup {h}
  BY <1>h DEF Ends
<1>4. h \in created /\ ~InEnqueued(h)
  BY <1>2, ListTypes DEF Pending
<1> QED BY <1>1, <1>3, <1>4 DEF AcceptedInv, Pending

LEMMA AcceptedCloses ==
  ASSUME QueueInv, AcceptedInv, Closes
  PROVE  AcceptedInv'
<1>1. \A t \in Tasks : ~InEnqueued(t) /\ ~InFlushed(t) /\ ~Pending(t)
  BY EmptyContains DEF Closes, InEnqueued, InFlushed, Pending
<1>2. \A t \in Tasks : ~InEnqueued(t)' /\ ~InFlushed(t)' /\ ~Pending(t)'
  BY EmptyContains DEF Closes, InEnqueued, InFlushed, Pending
<1>3. \A t \in Tasks : refCount[t] > 0 => evStatus[t] \in {"FINISHED", "Deleted"}
  <2> TAKE t \in Tasks
  <2>1. HAVE refCount[t] > 0
  <2>2. t \in userRef
    BY <1>1, <2>1 DEF QueueInv, RefInv
  <2>3. t \in created
    BY <2>2 DEF QueueInv, RefInv, StatusInv
  <2> QED BY <1>1, <2>3 DEF AcceptedInv
<1>4. \A t \in Tasks : evStatus[t] \in {"FINISHED", "Deleted"} => t \in completed
  BY DEF AcceptedInv, QueueInv, StatusInv, FinishedMeansRan
<1>5. /\ created' = created /\ completed' = completed
      /\ \A t \in Tasks : \/ evStatus'[t] = evStatus[t]
                          \/ refCount[t] > 0 /\ evStatus'[t] = "Deleted"
  BY DEF Closes
<1> QED BY <1>1, <1>2, <1>3, <1>4, <1>5 DEF AcceptedInv

-----------------------------------------------------------------------------
(***************************************************************************)
(* The ring stays the end of the flushed list.                             *)
(***************************************************************************)
LEMMA RingSame ==
  ASSUME RingInv, UNCHANGED <<flushedTasks, ring, completed>>
  PROVE  RingInv'
BY DEF RingInv

LEMMA RingMoves ==
  ASSUME QueueInv, AcceptedInv, RingInv, Moves
  PROVE  RingInv'
<1>h. PICK h : h = Head(enqueuedTasks)
  OBVIOUS
<1>1. h \in Tasks /\ InEnqueued(h) /\ h \notin completed
  BY <1>h, ListTypes, TailContains DEF Moves, InEnqueued, AcceptedInv
<1>2. PICK id \in TaskIds : ring' = Append(ring, [task |-> h, id |-> id])
  BY <1>h DEF Moves
<1>3. /\ flushedTasks' = Append(flushedTasks, h) /\ completed' = completed
  BY <1>h DEF Moves
<1>4. /\ Len(ring') = Len(ring) + 1 /\ Len(ring) \in Nat
      /\ \A n \in 1 .. Len(ring) : ring'[n] = ring[n]
      /\ ring'[Len(ring) + 1].task = h
  <2>1. [task |-> h, id |-> id] \in Batches
    BY <1>1 DEF Batches
  <2> QED BY <1>2, <2>1, ListTypes
<1>5. /\ Len(flushedTasks') = Len(flushedTasks) + 1 /\ Len(flushedTasks) \in Nat
      /\ \A n \in 1 .. Len(flushedTasks) : flushedTasks'[n] = flushedTasks[n]
      /\ flushedTasks'[Len(flushedTasks) + 1] = h
  BY <1>1, <1>3, ListTypes
<1>6. PICK e \in Int : e = Len(flushedTasks) - Len(ring)
  BY <1>4, <1>5
<1>7. /\ e >= 0
      /\ \A n \in 1 .. Len(ring) :
           ring[n].task = flushedTasks[e + n] /\ ring[n].task \notin completed
      /\ \A n \in 1 .. e : flushedTasks[n] \in completed
  BY <1>6 DEF RingInv
<1>8. Len(flushedTasks') - Len(ring') = e
  BY <1>4, <1>5, <1>6
<1>9. ASSUME NEW n \in 1 .. Len(ring')
      PROVE  ring'[n].task = flushedTasks'[e + n] /\ ring'[n].task \notin completed
  <2>1. CASE n = Len(ring) + 1
    BY <1>1, <1>4, <1>5, <1>6, <2>1
  <2>2. CASE n # Len(ring) + 1
    <3>1. n \in 1 .. Len(ring) /\ e + n \in 1 .. Len(flushedTasks)
      BY <1>4, <1>5, <1>6, <1>7, <2>2
    <3> QED BY <1>4, <1>5, <1>7, <3>1
  <2> QED BY <2>1, <2>2
<1>10. \A n \in 1 .. e : flushedTasks'[n] \in completed
  BY <1>4, <1>5, <1>6, <1>7
<1> QED BY <1>3, <1>7, <1>8, <1>9, <1>10 DEF RingInv

LEMMA RingPops ==
  ASSUME QueueInv, RingInv, Pops
  PROVE  RingInv'
<1>1. /\ ring' = ring /\ completed' = completed /\ flushedTasks' = Tail(flushedTasks)
      /\ flushedTasks # <<>>
  BY DEF Pops
<1>2. /\ Len(flushedTasks') = Len(flushedTasks) - 1
      /\ Len(flushedTasks) \in Nat \ {0} /\ Len(ring) \in Nat
      /\ \A n \in 1 .. Len(flushedTasks) - 1 : flushedTasks'[n] = flushedTasks[n + 1]
      /\ Head(flushedTasks) = flushedTasks[1] /\ Head(flushedTasks) \in Tasks
  BY <1>1, ListTypes
<1>3. flushedTasks[1] \in completed
  BY <1>2 DEF Pops, QueueInv, StatusInv, FinishedMeansRan
<1>4. PICK e \in Int : e = Len(flushedTasks) - Len(ring)
  <2>1. Len(flushedTasks) - Len(ring) \in Int
    BY <1>2
  <2> QED BY <2>1
<1>5. /\ e >= 0
      /\ \A n \in 1 .. Len(ring) :
           ring[n].task = flushedTasks[e + n] /\ ring[n].task \notin completed
      /\ \A n \in 1 .. e : flushedTasks[n] \in completed
  BY <1>4 DEF RingInv
<1>6. e >= 1
  <2> SUFFICES ASSUME e = 0 PROVE FALSE
    BY <1>5
  <2>1. 1 \in 1 .. Len(ring)
    BY <1>2, <1>4
  <2> QED BY <1>3, <1>5, <2>1
<1>7. Len(flushedTasks') - Len(ring') = e - 1
  BY <1>1, <1>2, <1>4
<1>8. \A n \in 1 .. Len(ring) : flushedTasks'[(e - 1) + n] = flushedTasks[e + n]
  <2> TAKE n \in 1 .. Len(ring)
  <2>1. (e - 1) + n \in 1 .. Len(flushedTasks) - 1 /\ (e - 1) + n + 1 = e + n
    BY <1>2, <1>4, <1>6
  <2> QED BY <1>2, <2>1
<1>9. \A n \in 1 .. e - 1 : flushedTasks'[n] \in completed
  <2> TAKE n \in 1 .. e - 1
  <2>1. n \in 1 .. Len(flushedTasks) - 1 /\ n + 1 \in 1 .. e
    BY <1>2, <1>4, <1>6
  <2> QED BY <1>2, <1>5, <2>1
<1> QED BY <1>1, <1>5, <1>6, <1>7, <1>8, <1>9 DEF RingInv

\* The batch that ends is that of the oldest task that has not run.
LEMMA EndedTask ==
  ASSUME QueueInv, RingInv, Ends
  PROVE  \E m \in DOMAIN flushedTasks :
           /\ m = Len(flushedTasks) - Len(ring) + 1
           /\ Head(ring).task = flushedTasks[m]
           /\ flushedTasks[m] \notin completed
           /\ \A n \in 1 .. m - 1 : flushedTasks[n] \in completed
<1>1. /\ ring # <<>> /\ ring[1] = Head(ring) /\ 1 \in 1 .. Len(ring)
      /\ Len(ring) \in Nat \ {0} /\ Len(flushedTasks) \in Nat
  BY ListTypes DEF Ends
<1>2. PICK e \in Int : e = Len(flushedTasks) - Len(ring)
  BY <1>1
<1>3. /\ e >= 0
      /\ \A n \in 1 .. Len(ring) :
           ring[n].task = flushedTasks[e + n] /\ ring[n].task \notin completed
      /\ \A n \in 1 .. e : flushedTasks[n] \in completed
  BY <1>2 DEF RingInv
<1>4. e + 1 \in DOMAIN flushedTasks /\ (e + 1) - 1 = e
  BY <1>1, <1>2, <1>3, ListTypes
<1>5. Head(ring).task = flushedTasks[e + 1] /\ flushedTasks[e + 1] \notin completed
  BY <1>1, <1>3
<1> QED BY <1>2, <1>3, <1>4, <1>5

LEMMA RingEnds ==
  ASSUME QueueInv, RingInv, Ends
  PROVE  RingInv'
<1>1. /\ ring # <<>> /\ ring' = Tail(ring) /\ flushedTasks' = flushedTasks
      /\ completed' = completed \cup {Head(ring).task}
  BY DEF Ends
<1>2. /\ Len(ring') = Len(ring) - 1
      /\ Len(ring) \in Nat \ {0} /\ Len(flushedTasks) \in Nat
      /\ \A n \in 1 .. Len(ring) - 1 : ring'[n] = ring[n + 1]
  BY <1>1, ListTypes
<1>3. PICK m \in DOMAIN flushedTasks :
           /\ m = Len(flushedTasks) - Len(ring) + 1
           /\ Head(ring).task = flushedTasks[m]
           /\ flushedTasks[m] \notin completed
           /\ \A n \in 1 .. m - 1 : flushedTasks[n] \in completed
  BY EndedTask
<1>4. /\ \A n \in 1 .. Len(ring) :
           /\ ring[n].task = flushedTasks[Len(flushedTasks) - Len(ring) + n]
           /\ ring[n].task \notin completed
      /\ 0 <= Len(flushedTasks) - Len(ring)
  BY DEF RingInv
<1>5. ASSUME NEW n \in 1 .. Len(ring')
      PROVE  ring'[n].task = flushedTasks[m + n] /\ ring'[n].task \notin completed'
  <2>1. n + 1 \in 1 .. Len(ring) /\ ring'[n] = ring[n + 1]
    BY <1>2
  <2>2. Len(flushedTasks) - Len(ring) + (n + 1) = m + n
    BY <1>2, <1>3
  <2>3. ring'[n].task = flushedTasks[m + n] /\ ring'[n].task \notin completed
    BY <1>4, <2>1, <2>2
  <2>4. m + n \in DOMAIN flushedTasks /\ m + n # m
    BY <1>2, <1>3, <1>4, <2>1, ListTypes
  <2>5. flushedTasks[m + n] # flushedTasks[m]
    BY <1>3, <2>4, ListTypes DEF IsInjective
  <2> QED BY <1>1, <1>3, <2>3, <2>5
<1>6. \A n \in 1 .. m : flushedTasks[n] \in completed'
  <2> TAKE n \in 1 .. m
  <2>1. n = m \/ n \in 1 .. m - 1
    <3>1. m \in Nat
      BY <1>3, ListTypes
    <3> QED BY <3>1
  <2> QED BY <1>1, <1>3, <2>1
<1>7. Len(flushedTasks') - Len(ring') = m /\ 0 <= m
  BY <1>1, <1>2, <1>3, <1>4
<1> QED BY <1>1, <1>5, <1>6, <1>7 DEF RingInv

LEMMA OrderStepKeeps ==
  ASSUME QueueInv, AcceptedInv, RingInv, OrderStep
  PROVE  AcceptedInv' /\ RingInv'
<1>1. CASE Moves
  BY <1>1, AcceptedMoves, RingMoves
<1>2. CASE Pops
  BY <1>2, AcceptedPops, RingPops
<1>3. CASE Ends
  BY <1>3, AcceptedEnds, RingEnds
<1>4. CASE Closes
  <2>1. UNCHANGED <<flushedTasks, ring, completed>>
    BY <1>4 DEF Closes
  <2> QED BY <1>4, <2>1, AcceptedCloses, RingSame
<1>5. ASSUME NEW t \in Tasks, Sees(t) \/ Drops(t) \/ Accepts(t)
      PROVE  AcceptedInv' /\ RingInv'
  <2>1. UNCHANGED <<flushedTasks, ring, completed>>
    BY <1>5 DEF Sees, Drops, Accepts
  <2> QED BY <1>5, <2>1, AcceptedSees, AcceptedDrops, AcceptedAccepts, RingSame
<1>6. CASE UNCHANGED orderState
  <2>1. UNCHANGED <<flushedTasks, ring, completed>>
    BY <1>6 DEF orderState
  <2> QED BY <1>6, <2>1, AcceptedSame, RingSame
<1> QED BY <1>1, <1>2, <1>3, <1>4, <1>5, <1>6 DEF OrderStep

-----------------------------------------------------------------------------
(***************************************************************************)
(* Every step of the order is a step of CmTaskOrder, or none of its steps. *)
(***************************************************************************)
Outstanding == flushedTasks \o enqueuedTasks
Reported == {t \in Tasks : evStatus[t] \in {"FINISHED", "Deleted"}}

LEMMA OutstandingTypes ==
  ASSUME QueueInv
  PROVE  /\ Outstanding \in Seq(Tasks)
         /\ DOMAIN Outstanding = 1 .. Len(flushedTasks) + Len(enqueuedTasks)
         /\ \A k \in DOMAIN flushedTasks :
              k \in DOMAIN Outstanding /\ Outstanding[k] = flushedTasks[k]
         /\ \A t : (\E k \in DOMAIN Outstanding : Outstanding[k] = t) <=> Pending(t)
<1>1. /\ flushedTasks \in Seq(Tasks) /\ enqueuedTasks \in Seq(Tasks)
      /\ DOMAIN flushedTasks = 1 .. Len(flushedTasks)
      /\ DOMAIN enqueuedTasks = 1 .. Len(enqueuedTasks)
      /\ Len(flushedTasks) \in Nat /\ Len(enqueuedTasks) \in Nat
  BY ListTypes
<1>2. /\ Outstanding \in Seq(Tasks)
      /\ DOMAIN Outstanding = 1 .. Len(flushedTasks) + Len(enqueuedTasks)
      /\ \A k \in 1 .. Len(flushedTasks) : Outstanding[k] = flushedTasks[k]
      /\ \A k \in 1 .. Len(enqueuedTasks) :
           Outstanding[Len(flushedTasks) + k] = enqueuedTasks[k]
  BY <1>1, Concatenation DEF Outstanding
<1>3. \A k \in DOMAIN flushedTasks :
        k \in DOMAIN Outstanding /\ Outstanding[k] = flushedTasks[k]
  BY <1>1, <1>2
<1>4. ASSUME NEW t, Pending(t) PROVE \E k \in DOMAIN Outstanding : Outstanding[k] = t
  <2>1. CASE \E k \in DOMAIN flushedTasks : flushedTasks[k] = t
    BY <1>3, <2>1
  <2>2. ASSUME NEW k \in DOMAIN enqueuedTasks, enqueuedTasks[k] = t
        PROVE  \E j \in DOMAIN Outstanding : Outstanding[j] = t
    <3>1. Len(flushedTasks) + k \in DOMAIN Outstanding
      BY <1>1, <1>2
    <3> QED BY <1>1, <1>2, <2>2, <3>1
  <2> QED BY <1>4, <2>1, <2>2 DEF Pending, InFlushed, InEnqueued, Contains
<1>5. ASSUME NEW t, NEW k \in DOMAIN Outstanding, Outstanding[k] = t PROVE Pending(t)
  <2>1. CASE k \in 1 .. Len(flushedTasks)
    BY <1>1, <1>2, <1>5, <2>1 DEF Pending, InFlushed, Contains
  <2>2. CASE k \notin 1 .. Len(flushedTasks)
    <3>1. PICK j \in 1 .. Len(enqueuedTasks) : k = Len(flushedTasks) + j
      <4>1. /\ k - Len(flushedTasks) \in 1 .. Len(enqueuedTasks)
            /\ k = Len(flushedTasks) + (k - Len(flushedTasks))
        BY <1>1, <1>2, <2>2
      <4> QED BY <4>1
    <3> QED BY <1>1, <1>2, <1>5, <3>1 DEF Pending, InEnqueued, Contains
  <2> QED BY <2>1, <2>2
<1> QED BY <1>2, <1>3, <1>4, <1>5

\* The steps of CmTaskOrder, of these lists.
LEMMA MapsToStutter ==
  ASSUME Outstanding' = Outstanding, completed' = completed, Reported' = Reported
  PROVE  UNCHANGED TaskOrder!orderVars
BY DEF TaskOrder!orderVars, Outstanding, Reported

LEMMA MapsToAccept ==
  ASSUME QueueInv, NEW t \in Tasks, ~Pending(t), t \notin completed,
         Outstanding' = Append(Outstanding, t), completed' = completed,
         Reported' = Reported
  PROVE  TaskOrder!Next
<1>1. ~ \E k \in DOMAIN Outstanding : Outstanding[k] = t
  BY OutstandingTypes
<1>2. TaskOrder!Accept(t)
  BY <1>1 DEF TaskOrder!Accept, TaskOrder!Listed, Outstanding, Reported
<1> QED BY <1>2 DEF TaskOrder!Next

LEMMA MapsToReport ==
  ASSUME QueueInv, NEW t \in Tasks, Pending(t), t \in completed \ Reported,
         Outstanding' = Outstanding, completed' = completed,
         Reported' = Reported \cup {t}
  PROVE  TaskOrder!Next
<1>1. \E k \in DOMAIN Outstanding : Outstanding[k] = t
  BY OutstandingTypes
<1>2. TaskOrder!Report(t)
  BY <1>1 DEF TaskOrder!Report, TaskOrder!Listed, Outstanding, Reported
<1> QED BY <1>2 DEF TaskOrder!Next

LEMMA MapsToForget ==
  ASSUME Outstanding # <<>>, Head(Outstanding) \in Reported,
         Outstanding' = Tail(Outstanding), completed' = completed, Reported' = Reported
  PROVE  TaskOrder!Next
BY DEF TaskOrder!Next, TaskOrder!Forget, Outstanding, Reported

LEMMA MapsToExecute ==
  ASSUME NEW k \in DOMAIN Outstanding, Outstanding[k] \notin completed,
         \A j \in 1 .. k - 1 : Outstanding[j] \in completed,
         completed' = completed \cup {Outstanding[k]},
         Outstanding' = Outstanding, Reported' = Reported
  PROVE  TaskOrder!Next
<1>1. TaskOrder!Execute
  BY DEF TaskOrder!Execute, Outstanding, Reported
<1> QED BY <1>1 DEF TaskOrder!Next

LEMMA MovesMaps ==
  ASSUME QueueInv, AcceptedInv, Moves
  PROVE  UNCHANGED TaskOrder!orderVars
<1>h. PICK h : h = Head(enqueuedTasks)
  OBVIOUS
<1>1. h \in Tasks /\ InEnqueued(h)
  BY <1>h, ListTypes, TailContains DEF Moves, InEnqueued
<1>2. Outstanding' = Outstanding
  BY ListTypes, MoveConcat DEF Moves, Outstanding
<1>3. \A t \in Tasks : evStatus'[t] = IF t = h THEN "FLUSHED" ELSE evStatus[t]
  BY <1>h, ListTypes DEF Moves
<1>4. evStatus[h] = "QUEUED"
  BY <1>1 DEF AcceptedInv
<1>5. Reported' = Reported
  BY <1>3, <1>4 DEF Reported
<1> QED BY <1>2, <1>5, MapsToStutter DEF Moves

LEMMA SeesMaps ==
  ASSUME QueueInv, AcceptedInv, NEW s \in Tasks, Sees(s)
  PROVE  TaskOrder!Next \/ UNCHANGED TaskOrder!orderVars
<1>1. Outstanding' = Outstanding /\ completed' = completed
  BY DEF Sees, Outstanding
<1>2. s \notin Reported /\ evStatus[s] \in {"FLUSHED", "STARTED"}
  BY DEF Sees, Reported
<1>3. Pending(s)
  <2>1. s \in created
    BY <1>2 DEF QueueInv, StatusInv, HasEvent
  <2> QED BY <1>2, <2>1 DEF AcceptedInv
<1>4. CASE evStatus' = [evStatus EXCEPT ![s] = "STARTED"]
  <2>1. Reported' = Reported
    BY <1>2, <1>4, ListTypes DEF Reported
  <2> QED BY <1>1, <2>1, MapsToStutter
<1>5. CASE evStatus' = [evStatus EXCEPT ![s] = "FINISHED"] /\ s \in completed
  <2>1. \A t \in Tasks : evStatus'[t] = IF t = s THEN "FINISHED" ELSE evStatus[t]
    BY <1>5, ListTypes
  <2>2. Reported' = Reported \cup {s}
    BY <2>1 DEF Reported
  <2>3. s \in completed \ Reported
    BY <1>2, <1>5
  <2> QED BY <1>1, <1>3, <2>2, <2>3, MapsToReport
<1> QED BY <1>4, <1>5 DEF Sees

LEMMA PopsMaps ==
  ASSUME QueueInv, Pops
  PROVE  TaskOrder!Next
<1>h. PICK h \in Tasks : h = Head(flushedTasks)
  BY ListTypes, TailContains DEF Pops
<1>1. /\ Outstanding # <<>> /\ Head(Outstanding) = h
      /\ Outstanding' = Tail(Outstanding)
  BY <1>h, ListTypes, TailConcat DEF Pops, Outstanding
<1>2. /\ \A t \in Tasks : t # h => evStatus'[t] = evStatus[t]
      /\ evStatus'[h] \in {"FINISHED", "Deleted"}
      /\ evStatus[h] = "FINISHED"
  BY <1>h, ListTypes DEF Pops
<1>3. Reported' = Reported /\ h \in Reported
  BY <1>2 DEF Reported
<1> QED BY <1>1, <1>3, MapsToForget DEF Pops

LEMMA DropsMaps ==
  ASSUME QueueInv, NEW d \in Tasks, Drops(d)
  PROVE  UNCHANGED TaskOrder!orderVars
<1>1. Outstanding' = Outstanding /\ completed' = completed
  BY DEF Drops, Outstanding
<1>2. \A t \in Tasks : evStatus'[t] = IF t = d THEN "Deleted" ELSE evStatus[t]
  BY ListTypes DEF Drops
<1>3. Reported' = Reported
  BY <1>2 DEF Drops, Reported
<1> QED BY <1>1, <1>3, MapsToStutter

LEMMA AcceptsMaps ==
  ASSUME QueueInv, AcceptedInv, NEW a \in Tasks, Accepts(a)
  PROVE  TaskOrder!Next
<1>1. a \notin completed /\ ~Pending(a)
  BY ListTypes DEF Accepts, AcceptedInv
<1>2. Outstanding' = Append(Outstanding, a)
  BY ListTypes, AppendConcat DEF Accepts, Outstanding
<1>3. evStatus[a] = "None"
  BY DEF Accepts, QueueInv, StatusInv, HasEvent
<1>4. \A t \in Tasks : evStatus'[t] = IF t = a THEN "QUEUED" ELSE evStatus[t]
  BY ListTypes DEF Accepts
<1>5. Reported' = Reported
  BY <1>3, <1>4 DEF Reported
<1> QED BY <1>1, <1>2, <1>5, MapsToAccept DEF Accepts

LEMMA EndsMaps ==
  ASSUME QueueInv, RingInv, Ends
  PROVE  TaskOrder!Next
<1>1. PICK m \in DOMAIN flushedTasks :
           /\ m = Len(flushedTasks) - Len(ring) + 1
           /\ Head(ring).task = flushedTasks[m]
           /\ flushedTasks[m] \notin completed
           /\ \A n \in 1 .. m - 1 : flushedTasks[n] \in completed
  BY EndedTask
<1>2. /\ Outstanding' = Outstanding /\ Reported' = Reported
      /\ completed' = completed \cup {flushedTasks[m]}
  BY <1>1 DEF Ends, Outstanding, Reported
<1>3. m \in DOMAIN Outstanding /\ Outstanding[m] = flushedTasks[m]
  BY OutstandingTypes
<1>4. \A n \in 1 .. m - 1 : Outstanding[n] \in completed
  <2> TAKE n \in 1 .. m - 1
  <2>1. n \in DOMAIN flushedTasks
    BY ListTypes
  <2> QED BY <1>1, <2>1, OutstandingTypes
<1> QED BY <1>1, <1>2, <1>3, <1>4, MapsToExecute

LEMMA ClosesMaps ==
  ASSUME QueueInv, AcceptedInv, Closes
  PROVE  UNCHANGED TaskOrder!orderVars
<1>1. \A t \in Tasks : ~Pending(t)
  BY EmptyContains DEF Closes, InEnqueued, InFlushed, Pending
<1>2. \A t \in Tasks : refCount[t] > 0 => evStatus[t] \in {"FINISHED", "Deleted"}
  <2> TAKE t \in Tasks
  <2>1. HAVE refCount[t] > 0
  <2>2. t \in userRef
    BY <1>1, <2>1 DEF QueueInv, RefInv
  <2>3. t \in created
    BY <2>2 DEF QueueInv, RefInv, StatusInv
  <2> QED BY <1>1, <2>3 DEF AcceptedInv
<1>3. \A t \in Tasks : evStatus'[t] = IF refCount[t] > 0 THEN "Deleted" ELSE evStatus[t]
  BY DEF Closes
<1>4. Reported' = Reported
  BY <1>2, <1>3 DEF Reported
<1>5. Outstanding' = Outstanding
  BY DEF Closes, Outstanding
<1> QED BY <1>4, <1>5, MapsToStutter DEF Closes

LEMMA OrderStepMaps ==
  ASSUME QueueInv, AcceptedInv, RingInv, OrderStep
  PROVE  TaskOrder!Next \/ UNCHANGED TaskOrder!orderVars
<1>1. CASE UNCHANGED orderState
  <2>1. Outstanding' = Outstanding /\ completed' = completed /\ Reported' = Reported
    BY <1>1 DEF orderState, Outstanding, Reported
  <2> QED BY <2>1, MapsToStutter
<1> QED BY <1>1, MovesMaps, SeesMaps, PopsMaps, DropsMaps, AcceptsMaps, EndsMaps, ClosesMaps
        DEF OrderStep

-----------------------------------------------------------------------------
(***************************************************************************)
(* The steps of the queue, when nothing fails.                             *)
(***************************************************************************)
\* The HAL has a slot and takes the task.
LEMMA FlushOneMoves ==
  ASSUME NoFailures, QueueInv, AcceptedInv, Open, enqueuedTasks # <<>>, ~IsFull,
         NEW loop, FlushOne(loop)
  PROVE  Moves
<1>h. PICK h : h = Head(enqueuedTasks)
  OBVIOUS
<1>1. evStatus[h] = "QUEUED"
  BY <1>h, ListTypes, TailContains DEF InEnqueued, AcceptedInv
<1>2. FreeIds # {}
  BY FullTableFullList, ListTypes, MaxTasksAssumption DEF QueueInv, IsFull
<1>3. FlushSucceeds(h)
  BY <1>1, <1>2, <1>h DEF FlushOne, FlushWithoutEvent, FlushFails, NoFailures
<1>4. HalCm_GetNewTaskId \in TaskIds
  BY <1>2, NewTaskIdIsFree DEF FreeIds
<1>5. /\ evStatus' = [evStatus EXCEPT ![h] = "FLUSHED"]
      /\ ring' = Append(ring, [task |-> h, id |-> HalCm_GetNewTaskId])
      /\ completed' = completed
  BY <1>3 DEF FlushSucceeds, HalCm_ExecuteTask, HalCm_SubmitCommands
<1>6. /\ enqueuedTasks' = Tail(enqueuedTasks)
      /\ flushedTasks' = Append(flushedTasks, h)
      /\ created' = created
  BY <1>h DEF FlushOne, PushFlushed
<1> QED BY <1>4, <1>5, <1>6, <1>h DEF Moves

LEMMA QuerySees ==
  ASSUME QueueInv, NEW t \in Tasks, Query(t), UNCHANGED queueVars
  PROVE  Sees(t) \/ UNCHANGED orderState
<1>1. /\ completed' = completed
      /\ \/ evStatus' = evStatus
         \/ /\ evStatus[t] \in {"FLUSHED", "STARTED"}
            /\ evStatus' = [evStatus EXCEPT ![t] = "STARTED"]
         \/ /\ evStatus[t] \in {"FLUSHED", "STARTED"}
            /\ evStatus' = [evStatus EXCEPT ![t] = "FINISHED"]
            /\ t \in completed
  BY QueryEffect
<1>2. ring' = ring
  BY DEF Query, HalCm_QueryTask, halVars
<1> QED BY <1>1, <1>2 DEF Sees, orderState, queueVars

LEMMA QuietOrder ==
  ASSUME UNCHANGED <<queueVars, evStatus, halVars>>
  PROVE  UNCHANGED orderState
BY DEF queueVars, halVars, orderState

LEMMA FlushTaskOrder ==
  ASSUME NoFailures, QueueInv, OrderInv, FlushTaskWithoutSync
  PROVE  OrderStep /\ OrderlyInv'
<1>1. PICK b \in {<<"flush", "flushFull">>, <<"flushBlock", "flushBlockFull">>} :
        FlushLoop(b[1], b[2]) \/ FlushRoom(b[1], b[2]) \/ FlushStillFull(b[2])
  BY DEF FlushTaskWithoutSync
<1>2. PICK loop, full : loop = b[1] /\ full = b[2]
  OBVIOUS
<1>3. /\ loop \in {"flush", "flushBlock"} /\ full \in FullFrames
      /\ loop \in BlockFrames <=> full \in BlockFrames
      /\ FlushLoop(loop, full) \/ FlushRoom(loop, full) \/ FlushStillFull(full)
      /\ full = "flushBlockFull" <=> full \in BlockFrames
  BY <1>1, <1>2 DEF FullFrames, BlockFrames
<1>4. loop \in Frames /\ full \in Frames /\ loop # "closed" /\ full # "closed"
  BY <1>3 DEF Frames, FullFrames
<1>f. At(full) => enqueuedTasks # <<>>
  <2> SUFFICES ASSUME At(full) PROVE enqueuedTasks # <<>>
    OBVIOUS
  <2>1. stack[Len(stack)] = full /\ Len(stack) \in 1 .. Len(stack)
    BY <1>4, TopFrame, AtTop
  <2> QED BY <1>3, <2>1 DEF OrderInv, OrderlyInv, FullFrames
<1>5. ASSUME NEW g \in {loop, full}, At(g), enqueuedTasks # <<>>, ~IsFull, FlushOne(loop)
      PROVE  OrderStep /\ OrderlyInv'
  <2>1. Moves
    BY <1>4, <1>5, AtTop, FlushOneMoves DEF OrderInv
  <2>2. Goto(loop)
    BY <1>5 DEF FlushOne
  <2>3. OrderlyInv'
    BY <1>3, <1>4, <1>5, <2>2, OrderlyGoto DEF OrderInv, FullFrames, BlockFrames
  <2> QED BY <2>1, <2>3 DEF OrderStep
<1>6. ASSUME NEW g \in {loop, full}, At(g), enqueuedTasks # <<>>, Call(full, "query"),
             g \in BlockFrames => full \in BlockFrames,
             UNCHANGED <<queueVars, eventVars, evStatus, halVars, subject>>
      PROVE  OrderStep /\ OrderlyInv'
  <2>1. OrderStep
    BY <1>6, QuietOrder DEF OrderStep
  <2>2. UNCHANGED <<enqueuedTasks, flushedTasks>>
    BY <1>6 DEF queueVars
  <2>3. g \notin {"closed", "query", "queried"} /\ full # "cleanPoll"
        /\ full \in {"flushFull", "flushBlockFull", "wait", "cleanPoll"}
    BY <1>3 DEF FullFrames
  <2>4. OrderlyInv'
    BY <1>6, <2>2, <2>3, OrderlyCall DEF OrderInv
  <2> QED BY <2>1, <2>4
<1>7. ASSUME NEW g \in {loop, full}, At(g), Return,
             g \in BlockFrames => enqueuedTasks = <<>>,
             UNCHANGED <<queueVars, eventVars, evStatus, halVars, subject>>
      PROVE  OrderStep /\ OrderlyInv'
  <2>1. OrderStep
    BY <1>7, QuietOrder DEF OrderStep
  <2>2. UNCHANGED <<enqueuedTasks, flushedTasks>>
    BY <1>7 DEF queueVars
  <2>3. OrderlyInv'
    BY <1>4, <1>7, <2>2, OrderlyReturn DEF OrderInv
  <2> QED BY <2>1, <2>3
<1>8. CASE FlushLoop(loop, full)
  BY <1>3, <1>5, <1>6, <1>7, <1>8 DEF FlushLoop
<1>9. CASE FlushRoom(loop, full)
  BY <1>5, <1>9, <1>f DEF FlushRoom
<1>10. CASE FlushStillFull(full)
  <2>1. CASE full = "flushBlockFull"
    BY <1>6, <1>10, <1>f, <2>1 DEF FlushStillFull
  <2>2. CASE full # "flushBlockFull"
    BY <1>3, <1>7, <1>10, <2>2 DEF FlushStillFull
  <2> QED BY <2>1, <2>2
<1> QED BY <1>3, <1>8, <1>9, <1>10

LEMMA QueryFlushedOrder ==
  ASSUME QueueInv, OrderInv, QueryFlushedTasks
  PROVE  OrderStep /\ OrderlyInv'
<1>0. {"query", "queried"} \subseteq Frames /\ "query" \notin BlockFrames
      /\ "queried" \notin BlockFrames /\ "query" \notin FullFrames
      /\ "queried" \notin FullFrames
  BY DEF Frames, BlockFrames, FullFrames
<1>1. ASSUME NEW g \in {"query", "queried"}, At(g), Return,
             UNCHANGED <<queueVars, evStatus, halVars>>
      PROVE  OrderStep /\ OrderlyInv'
  <2>1. OrderStep
    BY <1>1, QuietOrder DEF OrderStep
  <2>2. UNCHANGED <<enqueuedTasks, flushedTasks>>
    BY <1>1 DEF queueVars
  <2> QED BY <1>0, <1>1, <2>1, <2>2, OrderlyReturn DEF OrderInv
<1>2. CASE QueryTop
  <2>1. At("query") /\ UNCHANGED queueVars
    BY <1>2 DEF QueryTop
  <2>2. CASE flushedTasks = <<>>
    BY <1>1, <1>2, <2>1, <2>2 DEF QueryTop
  <2>3. CASE flushedTasks # <<>>
    <3>1. PICK h \in Tasks : h = Head(flushedTasks) /\ InFlushed(h)
      BY <2>3, ListTypes, TailContains DEF InFlushed
    <3>2. evStatus[h] # "QUEUED"
      BY <3>1 DEF OrderInv, AcceptedInv
    <3>3. Query(h) /\ Goto("queried")
      BY <1>2, <2>3, <3>1, <3>2 DEF QueryTop
    <3>4. OrderStep
      BY <2>1, <3>3, QuerySees DEF OrderStep
    <3>5. UNCHANGED <<enqueuedTasks, flushedTasks>>
      BY <2>1 DEF queueVars
    <3>6. OrderlyInv'
      BY <1>0, <2>1, <3>3, <3>5, OrderlyGoto DEF OrderInv
    <3> QED BY <3>4, <3>6
  <2> QED BY <2>2, <2>3
<1>3. CASE PopTaskFromFlushedQueue
  <2>1. At("queried") /\ flushedTasks # <<>>
    BY <1>3, TopFrame DEF PopTaskFromFlushedQueue
  <2>2. PICK h \in Tasks : h = Head(flushedTasks)
    BY <2>1, ListTypes, TailContains
  <2>3. ReleaseEvent(h) /\ evStatus[h] = "FINISHED" /\ flushedTasks' = Tail(flushedTasks)
        /\ UNCHANGED <<enqueuedTasks, created, halVars>> /\ Goto("query")
    BY <1>3, <2>2 DEF PopTaskFromFlushedQueue, MayPop
  <2>4. evStatus' = evStatus \/ evStatus' = [evStatus EXCEPT ![h] = "Deleted"]
    BY <2>3 DEF ReleaseEvent
  <2>5. Pops
    BY <2>1, <2>2, <2>3, <2>4 DEF Pops, halVars
  <2>6. OrderlyInv'
    BY <1>0, <2>1, <2>3, OrderlyGoto DEF OrderInv
  <2> QED BY <2>5, <2>6 DEF OrderStep
<1>4. CASE QueryBreak
  BY <1>1, <1>4 DEF QueryBreak
<1> QED BY <1>2, <1>3, <1>4 DEF QueryFlushedTasks

LEMMA WaitOrder ==
  ASSUME NoFailures, QueueInv, OrderInv, WaitFlush \/ WaitReturns \/ WaitBo \/ WaitTimeout
  PROVE  OrderStep /\ OrderlyInv'
<1>0. /\ "waitBo" \in Frames /\ {"wait", "waitBo"} \cap BlockFrames = {}
      /\ {"wait", "waitBo"} \cap FullFrames = {}
  BY DEF Frames, BlockFrames, FullFrames
<1>1. CASE WaitFlush
  <2>1. At("wait") /\ UNCHANGED queueVars
    BY <1>1 DEF WaitFlush
  <2>2. subject \in Tasks
    BY <2>1, TopFrame
  <2>3. UNCHANGED <<enqueuedTasks, flushedTasks>>
    BY <2>1 DEF queueVars
  <2>4. CASE Call("wait", "flush") /\ UNCHANGED <<evStatus, halVars>>
    <3>1. OrderStep
      BY <2>1, <2>4, QuietOrder DEF OrderStep
    <3>2. "wait" \in {"flushFull", "flushBlockFull", "wait", "cleanPoll"}
          /\ "flush" \in {"query", "flush"}
      OBVIOUS
    <3>3. OrderlyInv'
      BY <1>0, <2>1, <2>3, <2>4, <3>2, OrderlyCall DEF OrderInv
    <3> QED BY <3>1, <3>3
  <2>5. CASE Query(subject) /\ Goto("waitBo")
    <3>1. OrderStep
      BY <2>1, <2>2, <2>5, QuerySees DEF OrderStep
    <3>2. OrderlyInv'
      BY <1>0, <2>1, <2>3, <2>5, OrderlyGoto DEF OrderInv
    <3> QED BY <3>1, <3>2
  <2> QED BY <1>1, <2>4, <2>5 DEF WaitFlush
<1>2. CASE WaitReturns
  <2>1. At("waitBo") /\ Return /\ UNCHANGED <<queueVars, evStatus, halVars>>
    BY <1>2 DEF WaitReturns
  <2>2. UNCHANGED <<enqueuedTasks, flushedTasks>>
    BY <2>1 DEF queueVars
  <2>3. OrderlyInv'
    BY <1>0, <2>1, <2>2, OrderlyReturn DEF OrderInv
  <2> QED BY <2>1, <2>3, QuietOrder DEF OrderStep
<1>3. CASE WaitBo
  <2>1. At("waitBo") /\ Query(subject) /\ UNCHANGED <<queueVars, stack>>
    BY <1>3 DEF WaitBo
  <2>2. subject \in Tasks
    BY <2>1, TopFrame
  <2>3. OrderlyInv'
    BY <2>1, OrderlyStays DEF OrderInv, queueVars
  <2> QED BY <2>1, <2>2, <2>3, QuerySees DEF OrderStep
<1>4. ~WaitTimeout
  BY DEF WaitTimeout, NoFailures
<1> QED BY <1>1, <1>2, <1>3, <1>4

LEMMA TouchAndCleanOrder ==
  ASSUME NoFailures, QueueInv, OrderInv,
         TouchQuery \/ CleanLoop \/ CleanPoll \/ DestroyQueue
  PROVE  OrderStep /\ OrderlyInv'
<1>0. /\ {"query", "clean", "destroy", "closed"} \subseteq Frames
      /\ {"touchQuery", "query", "clean", "cleanPoll", "destroy", "closed"} \cap BlockFrames = {}
      /\ {"touchQuery", "query", "clean", "cleanPoll", "destroy", "closed"} \cap FullFrames = {}
  BY DEF Frames, BlockFrames, FullFrames
<1>1. ASSUME NEW f, At(f), f # "closed"
      PROVE  /\ stack[Len(stack)] = f /\ Len(stack) \in 1 .. Len(stack)
  BY <1>1, TopFrame, AtTop
<1>2. CASE TouchQuery
  <2>1. At("touchQuery") /\ UNCHANGED <<queueVars, evStatus, halVars>>
    BY <1>2 DEF TouchQuery
  <2>2. UNCHANGED <<enqueuedTasks, flushedTasks>>
    BY <2>1 DEF queueVars
  <2>3. CASE Goto("query")
    BY <1>0, <2>1, <2>2, <2>3, OrderlyGoto, QuietOrder DEF OrderInv, OrderStep
  <2>4. CASE Return
    BY <1>0, <2>1, <2>2, <2>4, OrderlyReturn, QuietOrder DEF OrderInv, OrderStep
  <2> QED BY <1>2, <2>3, <2>4 DEF TouchQuery
<1>3. CASE CleanLoop
  <2>1. At("clean") /\ UNCHANGED <<queueVars, evStatus, halVars>>
    BY <1>3 DEF CleanLoop
  <2>2. UNCHANGED <<enqueuedTasks, flushedTasks>>
    BY <2>1 DEF queueVars
  <2>3. enqueuedTasks = <<>>
    BY <1>1, <2>1 DEF OrderInv, OrderlyInv
  <2>4. CASE flushedTasks = <<>> /\ Goto("destroy")
    BY <1>0, <2>1, <2>2, <2>3, <2>4, OrderlyGoto, QuietOrder DEF OrderInv, OrderStep
  <2>5. CASE Call("cleanPoll", "query")
    <3>1. "cleanPoll" \in {"flushFull", "flushBlockFull", "wait", "cleanPoll"}
          /\ "query" \in {"query", "flush"}
      OBVIOUS
    <3>2. OrderlyInv'
      BY <1>0, <2>1, <2>2, <2>3, <2>5, <3>1, OrderlyCall DEF OrderInv
    <3> QED BY <2>1, <3>2, QuietOrder DEF OrderStep
  <2> QED BY <1>3, <2>4, <2>5 DEF CleanLoop
<1>4. CASE CleanPoll
  <2>1. At("cleanPoll") /\ UNCHANGED <<queueVars, evStatus, halVars>> /\ Goto("clean")
    BY <1>4 DEF CleanPoll, NoFailures
  <2>2. UNCHANGED <<enqueuedTasks, flushedTasks>>
    BY <2>1 DEF queueVars
  <2>3. enqueuedTasks = <<>>
    BY <1>1, <2>1 DEF OrderInv, OrderlyInv
  <2> QED BY <1>0, <2>1, <2>2, <2>3, OrderlyGoto, QuietOrder DEF OrderInv, OrderStep
<1>5. CASE DestroyQueue
  <2>1. At("destroy") /\ Goto("closed") /\ enqueuedTasks' = <<>> /\ flushedTasks' = <<>>
    BY <1>5 DEF DestroyQueue
  <2>2. enqueuedTasks = <<>> /\ flushedTasks = <<>>
    BY <1>1, <2>1 DEF OrderInv, OrderlyInv
  <2>3. Closes
    BY <1>5, <2>2 DEF DestroyQueue, Closes, halVars
  <2>4. OrderlyInv'
    BY <1>0, <2>1, <2>2, OrderlyGoto DEF OrderInv
  <2> QED BY <2>3, <2>4 DEF OrderStep
<1> QED BY <1>2, <1>3, <1>4, <1>5

LEMMA ApplicationOrder ==
  ASSUME NoFailures, QueueInv, OrderInv, Application
  PROVE  OrderStep /\ OrderlyInv'
<1>1. ASSUME NEW t \in Tasks, NEW visible \in BOOLEAN, Enqueue(t, visible)
      PROVE  OrderStep /\ OrderlyInv'
  <2>1. Accepts(t)
    BY <1>1 DEF Enqueue, CreateEvent, Accepts, halVars
  <2>2. OrderlyInv'
    BY <1>1, OrderlyStart DEF Enqueue, OrderInv
  <2> QED BY <2>1, <2>2 DEF OrderStep
<1>2. ASSUME NEW t \in Tasks PROVE ~EnqueueWithoutEvent(t)
  BY DEF EnqueueWithoutEvent, NoFailures
<1>3. ASSUME NEW t \in Tasks, GetStatus(t)
      PROVE  OrderStep /\ OrderlyInv'
  <2>1. UNCHANGED queueVars
    BY <1>3 DEF GetStatus
  <2>2. CASE stack' = <<"flush">> /\ UNCHANGED <<evStatus, halVars>>
    BY <2>1, <2>2, OrderlyStart, QuietOrder DEF OrderInv, OrderStep
  <2>3. CASE Query(t) /\ UNCHANGED stack
    <3>1. OrderlyInv'
      BY <2>1, <2>3, OrderlyStays DEF OrderInv, queueVars
    <3> QED BY <2>1, <2>3, <3>1, QuerySees DEF OrderStep
  <2> QED BY <1>3, <2>2, <2>3 DEF GetStatus
<1>4. ASSUME NEW t \in Tasks, DestroyEvent(t)
      PROVE  OrderStep /\ OrderlyInv'
  <2>1. t \in userRef /\ ReleaseEvent(t) /\ UNCHANGED <<queueVars, stack, halVars>>
    BY <1>4 DEF DestroyEvent
  <2>2. OrderlyInv'
    BY <2>1, OrderlyStays DEF OrderInv, queueVars
  <2>3. CASE evStatus' = evStatus
    BY <2>1, <2>2, <2>3, QuietOrder DEF OrderStep
  <2>4. CASE evStatus' # evStatus
    <3>1. refCount[t] = 1 /\ evStatus' = [evStatus EXCEPT ![t] = "Deleted"]
      BY <2>1, <2>4 DEF ReleaseEvent
    <3>2. ~Pending(t) /\ HasEvent(t) /\ evStatus[t] # "Deleted"
      BY <2>1, <3>1 DEF QueueInv, RefInv
    <3>3. t \in created
      BY <3>2 DEF QueueInv, StatusInv
    <3>4. evStatus[t] = "FINISHED"
      BY <3>2, <3>3 DEF OrderInv, AcceptedInv
    <3>5. Drops(t)
      BY <2>1, <3>1, <3>2, <3>4 DEF Drops, queueVars, halVars
    <3> QED BY <2>2, <3>5 DEF OrderStep
  <2> QED BY <2>3, <2>4
<1>5. ASSUME NEW t \in Tasks, WaitForTaskFinished(t)
      PROVE  OrderStep /\ OrderlyInv'
  BY <1>5, OrderlyStart, QuietOrder DEF WaitForTaskFinished, OrderInv, OrderStep
<1>6. CASE TouchFlushedTasks
  BY <1>6, OrderlyStart, QuietOrder DEF TouchFlushedTasks, OrderInv, OrderStep
<1>7. CASE CleanQueue
  BY <1>7, OrderlyStart, QuietOrder DEF CleanQueue, OrderInv, OrderStep, queueVars
<1> QED BY <1>1, <1>2, <1>3, <1>4, <1>5, <1>6, <1>7 DEF Application

LEMMA GpuOrder ==
  ASSUME QueueInv, OrderInv, GpuStep
  PROVE  OrderStep /\ OrderlyInv'
<1>1. UNCHANGED <<queueVars, evStatus, stack>>
  BY DEF GpuStep
<1>2. OrderlyInv'
  BY <1>1, OrderlyStays DEF OrderInv, queueVars
<1>3. CASE GpuStart
  BY <1>1, <1>2, <1>3 DEF GpuStart, OrderStep, orderState, queueVars
<1>4. CASE GpuEnd
  <2>1. Ends
    BY <1>1, <1>4 DEF GpuEnd, Ends, queueVars
  <2> QED BY <1>2, <2>1 DEF OrderStep
<1> QED BY <1>3, <1>4 DEF GpuStep, Gpu

LEMMA NextOrder ==
  ASSUME NoFailures, QueueInv, OrderInv, [Next]_vars
  PROVE  OrderStep /\ OrderInv'
<1>1. CASE CallStep
  BY <1>1, FlushTaskOrder, QueryFlushedOrder, WaitOrder, TouchAndCleanOrder,
     OrderStepKeeps DEF CallStep, OrderInv
<1>2. CASE UNCHANGED vars
  <2>1. UNCHANGED orderState /\ UNCHANGED <<stack, enqueuedTasks, flushedTasks>>
    BY <1>2 DEF vars, orderState
  <2>2. OrderlyInv'
    BY <2>1, OrderlyStays DEF OrderInv
  <2> QED BY <2>1, <2>2, OrderStepKeeps DEF OrderStep, OrderInv
<1> QED BY <1>1, <1>2, ApplicationOrder, GpuOrder, OrderStepKeeps DEF Next, Ended, OrderInv

LEMMA InitOrder == Init => OrderInv /\ TaskOrder!Init
<1> SUFFICES ASSUME Init PROVE OrderInv /\ TaskOrder!Init
  OBVIOUS
<1> USE DEF Init, HalInit
<1>1. AcceptedInv
  BY EmptyContains DEF AcceptedInv, InFlushed, InEnqueued, Pending
<1>2. RingInv
  BY DEF RingInv
<1>3. OrderlyInv
  BY DEF OrderlyInv
<1>4. flushedTasks \o enqueuedTasks = <<>>
  BY ConcatEmptySeq
<1>5. TaskOrder!Init
  BY <1>4 DEF TaskOrder!Init
<1> QED BY <1>1, <1>2, <1>3, <1>5 DEF OrderInv

\* What the lists, the ring and the frames say of each other while the HAL
\* takes every task.
THEOREM AlwaysOrder ==
  ASSUME NoFailures
  PROVE  Spec => []OrderInv
<1>1. Init => OrderInv
  BY InitOrder
<1>2. QueueInv /\ OrderInv /\ [Next]_vars => OrderInv'
  BY NextOrder
<1> QED BY <1>1, <1>2, QueueInvariant, PTL DEF Spec

\* While the HAL takes every task, Pop is never called on an empty list
\* (CM_ASSERT(0), cm_basic_queue.cpp:52).
THEOREM QueueNeverPopsEmpty ==
  ASSUME NoFailures
  PROVE  Spec => []NoPopOfEmptyList
<1>1. QueueInv /\ OrderInv => NoPopOfEmptyList
  <2> SUFFICES ASSUME QueueInv, OrderInv, NEW f \in FullFrames, At(f)
               PROVE  enqueuedTasks # <<>>
    BY DEF NoPopOfEmptyList, FullFrames
  <2>1. f # "closed"
    BY DEF FullFrames
  <2>2. stack[Len(stack)] = f /\ Len(stack) \in 1 .. Len(stack)
    BY <2>1, TopFrame, AtTop
  <2> QED BY <2>2 DEF OrderInv, OrderlyInv, FullFrames
<1> QED BY <1>1, QueueInvariant, AlwaysOrder, PTL

\* While nothing fails, the queue keeps the promise of CmTaskOrder: tasks run
\* one at a time in the order of Enqueue, each once, and are reported and
\* forgotten in that order, only after they ran.
THEOREM QueueImplementsTaskOrder ==
  ASSUME NoFailures
  PROVE  Spec => ImplementsTaskOrder
<1>1. Init => TaskOrder!Init
  BY InitOrder
<1>2. QueueInv /\ OrderInv /\ [Next]_vars => [TaskOrder!Next]_(TaskOrder!orderVars)
  BY NextOrder, OrderStepMaps DEF OrderInv
<1> QED BY <1>1, <1>2, QueueInvariant, AlwaysOrder, PTL
        DEF Spec, ImplementsTaskOrder, TaskOrder!OrderSpec
=============================================================================
