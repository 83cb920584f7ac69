---------------------------- MODULE HalHeaps_proofs ----------------------------
(***************************************************************************)
(* Proofs about the batches of the HAL and the memory they share with the  *)
(* GPU, for every set of tasks and kernels, every size of the heap and of  *)
(* its tables, and whatever fails.                                         *)
(***************************************************************************)
EXTENDS HalHeapsInv, HalCmTask_proofs

-----------------------------------------------------------------------------
(***************************************************************************)
(* The task table: the steps of a call are steps of HalCmTask or leave it  *)
(* alone.                                                                  *)
(***************************************************************************)
\* The steps of a call that touch neither the task table nor the call's task.
QuietStep ==
    \/ IntelGen_HwAssignMediaState \/ WaitForMediaState
    \/ ReuseBatchBuffer \/ TakeBatchBuffer \/ IntelGen_HwLockBB \/ AlreadyLocked
    \/ LoadedKernel \/ HalCm_LoadKernel \/ EvictKernel \/ NothingToEvict
    \/ Fails

LEMMA CallInProgress ==
  ASSUME call.pc \in {"media", "wait", "buffer", "lock", "kernel", "submit"}
  PROVE  call # NoCall
  BY DEF NoCall

LEMMA QuietStepTask ==
  ASSUME TaskInv, QuietStep
  PROVE  TaskInv' /\ UNCHANGED halVars
<1>1. call # NoCall
  BY CallInProgress DEF QuietStep, IntelGen_HwAssignMediaState, WaitForMediaState,
     ReuseBatchBuffer, TakeBatchBuffer, IntelGen_HwLockBB, AlreadyLocked, LoadedKernel,
     HalCm_LoadKernel, EvictKernel, NothingToEvict, NoRoom, Fails
<1>2. {"pc", "task"} \subseteq DOMAIN call
  BY <1>1 DEF TaskInv
<1>3. UNCHANGED halVars
  BY DEF QuietStep, IntelGen_HwAssignMediaState, WaitForMediaState,
     ReuseBatchBuffer, TakeBatchBuffer, IntelGen_HwLockBB, AlreadyLocked, LoadedKernel,
     HalCm_LoadKernel, EvictKernel, NothingToEvict, Fails
<1>4. call' = NoCall \/ (DOMAIN call' = DOMAIN call /\ call'.task = call.task)
  <2>1. CASE IntelGen_HwAssignMediaState
    BY <1>2, <2>1 DEF IntelGen_HwAssignMediaState, TakeMediaState
  <2>2. CASE WaitForMediaState
    BY <1>2, <2>2 DEF WaitForMediaState, TakeMediaState
  <2>3. CASE ReuseBatchBuffer
    BY <1>2, <2>3 DEF ReuseBatchBuffer
  <2>4. CASE TakeBatchBuffer
    <3>1. call' = NoCall \/ \E b : call' = [call EXCEPT !.pc = "lock", !.buffer = b,
                                                     !.write = TRUE]
      BY <2>4, Zenon DEF TakeBatchBuffer, CallFails
    <3>2. ASSUME NEW b, call' = [call EXCEPT !.pc = "lock", !.buffer = b, !.write = TRUE]
          PROVE  DOMAIN call' = DOMAIN call /\ call'.task = call.task
      BY <1>2, <3>2
    <3> QED BY <3>1, <3>2, Zenon
  <2>5. CASE IntelGen_HwLockBB
    BY <1>2, <2>5 DEF IntelGen_HwLockBB
  <2>6. CASE AlreadyLocked \/ NothingToEvict \/ Fails
    <3>1. CallFails
      BY <2>6, Zenon DEF AlreadyLocked, NothingToEvict, Fails
    <3> QED BY <3>1, Zenon DEF CallFails
  <2>7. CASE LoadedKernel
    BY <1>2, <2>7 DEF LoadedKernel, HalCm_AllocateMediaID
  <2>8. CASE HalCm_LoadKernel
    BY <1>2, <2>8 DEF HalCm_LoadKernel, HalCm_AllocateMediaID
  <2>9. CASE EvictKernel
    BY <1>2, <2>9 DEF EvictKernel
  <2> QED BY <2>1, <2>2, <2>3, <2>4, <2>5, <2>6, <2>7, <2>8, <2>9 DEF QuietStep
<1> QED BY <1>1, <1>3, <1>4 DEF TaskInv, Owned, halVars

\* Every step keeps the invariants and is a step of HalCmTask, or none.
LEMMA StepTask ==
  ASSUME HalInv, TaskInv, [Next]_vars
  PROVE  TaskInv' /\ [HalNext]_halVars
<1>1. CASE QuietStep
  BY <1>1, QuietStepTask
<1>2. ASSUME NEW t \in Tasks, Begin(t)
      PROVE  TaskInv' /\ [HalNext]_halVars
  <2>1. UNCHANGED halVars /\ ~Owned(t) /\ t \notin completed
    BY <1>2 DEF Begin
  <2>2. {"pc", "task"} \subseteq DOMAIN call' /\ call'.task = t
    BY <1>2 DEF Begin
  <2> QED BY <2>1, <2>2 DEF TaskInv, Owned, halVars
<1>3. CASE Submit
  <2>1. call # NoCall /\ HalCm_ExecuteTask(call.task) /\ call' = NoCall
    BY <1>3, CallInProgress DEF Submit
  <2> QED BY <2>1 DEF TaskInv, HalNext
<1>4. CASE SubmitFails
  BY <1>4 DEF SubmitFails, CallFails, TaskInv, HalNext
<1>5. CASE GpuBegin
  <2>1. GpuStart /\ call' = call /\ UNCHANGED <<taskStatusTable, completed>>
    BY <1>5 DEF GpuBegin, GpuStart
  <2> QED BY <2>1 DEF TaskInv, Owned, HalNext, Gpu
<1>6. CASE GpuFinish
  <2>1. GpuEnd /\ call' = call /\ UNCHANGED taskStatusTable
    BY <1>6 DEF GpuFinish, GpuEnd
  <2>2. ring # <<>> /\ completed' = completed \cup {Head(ring).task}
    BY <1>6 DEF GpuFinish, GpuEnd
  <2>3. Head(ring) = ring[1] /\ 1 \in DOMAIN ring
    BY <2>2 DEF HalInv, HalTypeOK
  <2>4. Owned(Head(ring).task)
    BY <2>3, RingMembers DEF HalInv, RingOwnsItsSlots, Owned
  <2> QED BY <2>1, <2>2, <2>4 DEF TaskInv, Owned, HalNext, Gpu
<1>7. ASSUME NEW id \in TaskIds, QueryTask(id)
      PROVE  TaskInv' /\ [HalNext]_halVars
  BY <1>7 DEF QueryTask, heapVars, TaskInv, HalNext
<1>8. CASE UNCHANGED vars
  BY <1>8 DEF vars, heapVars, halVars, TaskInv, Owned
<1> QED BY <1>1, <1>2, <1>3, <1>4, <1>5, <1>6, <1>7, <1>8 DEF Next, QuietStep

LEMMA HalInvStep == HalInv /\ [HalNext]_halVars => HalInv'
<1> SUFFICES ASSUME HalInv, [HalNext]_halVars PROVE HalInv'
  OBVIOUS
<1>1. CASE UNCHANGED halVars
  BY <1>1 DEF halVars, HalInv, HalTypeOK, FinishedIsTrue, RingOwnsItsSlots, RingNotEnded
<1>2. CASE HalNext
  BY <1>2, ExecuteKeepsHalInv, ExecuteFailsKeepsHalInv, QueryKeepsHalInv, GpuKeepsHalInv
     DEF HalNext
<1> QED BY <1>1, <1>2

\* The task of the call in progress owns no slot until it is submitted.
THEOREM AlwaysTask == Spec => [](HalInv /\ TaskInv)
<1>1. Init => HalInv /\ TaskInv
  BY HalInitInv DEF Init, TaskInv
<1>2. (HalInv /\ TaskInv) /\ [Next]_vars => (HalInv /\ TaskInv)'
  BY StepTask, HalInvStep
<1> QED BY <1>1, <1>2, PTL DEF Spec

\* The execute functions with all their steps, and the GPU, implement the task
\* table on its own.
THEOREM HeapsImplementHalCmTask == Spec => ImplementsHalCmTask
<1>1. Init => HalInit
  BY DEF Init
<1>2. HalInv /\ TaskInv /\ [Next]_vars => [HalNext]_halVars
  BY StepTask
<1> QED BY <1>1, <1>2, AlwaysTask, PTL DEF Spec, ImplementsHalCmTask, HalSpec

\* So a query is right about the end of a task whatever fails on the way, and
\* the GPU writes the words of no other task's slot.
THEOREM HeapsFinishedIsTrue == Spec => []FinishedIsTrue
<1>1. HalInv => FinishedIsTrue
  BY DEF HalInv
<1> QED BY <1>1, AlwaysTask, PTL

THEOREM HeapsRingOwnsItsSlots == Spec => []RingOwnsItsSlots
<1>1. HalInv => RingOwnsItsSlots
  BY DEF HalInv
<1> QED BY <1>1, AlwaysTask, PTL

-----------------------------------------------------------------------------
(***************************************************************************)
(* Facts about the data.                                                   *)
(***************************************************************************)
\* A finite non-empty set of naturals has a greatest element.
LEMMA GreatestExists ==
  ASSUME NEW S \in SUBSET Nat, IsFiniteSet(S), S # {}
  PROVE  \E x \in S : \A y \in S : y <= x
<1>0. PICK n \in Nat : \E f \in [1 .. n -> S] : \A x \in S : \E k \in 1 .. n : f[k] = x
  BY FS_NatSurjection DEF ExistsSurjection, Surjection
<1>1. PICK f \in [1 .. n -> S] : \A x \in S : \E k \in 1 .. n : f[k] = x
  BY <1>0
<1> DEFINE Bad == {m \in 0 .. n : \A b \in Nat : \E k \in 1 .. m : f[k] > b}
<1>2. Bad \in SUBSET Nat
  OBVIOUS
<1>3. \A m \in Bad : m \in 0 .. n /\ \A b \in Nat : \E k \in 1 .. m : f[k] > b
  OBVIOUS
<1>4. \A m \in 0 .. n : m \notin Bad => \E b \in Nat : \A k \in 1 .. m : ~(f[k] > b)
  OBVIOUS
<1> HIDE DEF Bad
<1>5. Bad = {}
  <2> SUFFICES ASSUME Bad # {} PROVE FALSE
    OBVIOUS
  <2>1. PICK m \in Bad : \A j \in Bad : m <= j
    BY <1>2, LeastExists
  <2>2. m \in 1 .. n /\ m - 1 \in 0 .. n /\ m - 1 \notin Bad
    <3>1. m \in 0 .. n /\ m # 0
      BY <1>3, <2>1
    <3>2. m - 1 \in 0 .. n /\ ~(m <= m - 1)
      BY <3>1
    <3> QED BY <2>1, <3>1, <3>2
  <2>3. PICK b \in Nat : \A k \in 1 .. m - 1 : ~(f[k] > b)
    BY <1>4, <2>2
  <2> DEFINE c == IF f[m] > b THEN f[m] ELSE b
  <2>4. \A k \in 1 .. n : f[k] \in Nat
    OBVIOUS
  <2>5. c \in Nat /\ ~(f[m] > c) /\ b <= c
    BY <2>2, <2>4
  <2> HIDE DEF c
  <2>6. \A k \in 1 .. m : ~(f[k] > c)
    <3> SUFFICES ASSUME NEW k \in 1 .. m PROVE ~(f[k] > c)
      OBVIOUS
    <3>1. k \in 1 .. n /\ (k = m \/ k \in 1 .. m - 1)
      BY <2>2
    <3>2. f[k] \in Nat
      BY <2>4, <3>1
    <3> QED BY <2>3, <2>5, <3>1, <3>2
  <2> QED BY <1>3, <2>1, <2>5, <2>6
<1>6. n \in 0 .. n
  OBVIOUS
<1>7. PICK b \in Nat : \A k \in 1 .. n : ~(f[k] > b)
  BY <1>4, <1>5, <1>6
<1>8. \A x \in S : x <= b /\ x \in Nat
  BY <1>1, <1>7
<1> DEFINE D == {b - x : x \in S}
<1>9. /\ D \in SUBSET Nat /\ D # {}
      /\ \A d \in D : \E x \in S : d = b - x
      /\ \A x \in S : b - x \in D
  BY <1>8
<1> HIDE DEF D
<1>10. PICK d \in D : \A e \in D : d <= e
  BY <1>9, LeastExists
<1>11. PICK x \in S : d = b - x
  BY <1>9, <1>10
<1>12. \A y \in S : y <= x
  BY <1>8, <1>9, <1>10, <1>11
<1> QED BY <1>12

LEMMA MinFacts ==
  ASSUME NEW S \in SUBSET Nat, S # {}
  PROVE  Min(S) \in S /\ \A x \in S : Min(S) <= x
  BY LeastExists DEF Min

\* There is an interface descriptor for every kernel of a task.
LEMMA MediaIdsFacts ==
  /\ IsFiniteSet(MediaIds) /\ MediaIds \subseteq Nat
  /\ Cardinality(MediaIds) \in Nat
  /\ \A c \in Calls : /\ Len(c.kernels) - 1 \in MediaIds
                      /\ Len(c.kernels) <= Cardinality(MediaIds)
<1> DEFINE L == {Len(c.kernels) : c \in Calls}
           N == Max(L)
<1>1. \A c \in Calls : Len(c.kernels) \in Nat \ {0}
  BY CallsAssumption, EmptySeq, LenProperties
<1>2. L \in SUBSET Nat /\ L # {} /\ IsFiniteSet(L)
  <2> DEFINE g == [c \in Calls |-> Len(c.kernels)]
  <2>1. g \in Surjection(Calls, L)
    BY DEF Surjection
  <2>2. IsFiniteSet(Calls) /\ Calls # {}
    BY CallsAssumption
  <2>3. L \in SUBSET Nat /\ L # {}
    BY <1>1, <2>2
  <2> HIDE DEF g, L
  <2> QED BY <2>1, <2>2, <2>3, FS_Surjection
<1>3. N \in L /\ \A x \in L : x <= N
  <2> HIDE DEF L
  <2>1. PICK x \in L : \A y \in L : y <= x
    BY <1>2, GreatestExists
  <2>2. \A y \in L : x >= y
    BY <1>2, <2>1
  <2>3. N \in L /\ \A y \in L : N >= y
    BY <2>2, Zenon DEF Max
  <2> QED BY <1>2, <2>3
<1>4. N \in Nat
  BY <1>2, <1>3
<1>5. MediaIds = 0 .. N - 1
  BY DEF MediaIds
<1> HIDE DEF N
<1>6. IsFiniteSet(MediaIds) /\ Cardinality(MediaIds) = N
  BY <1>4, <1>5, FS_Interval
<1>7. \A c \in Calls : Len(c.kernels) <= N
  BY <1>3
<1> QED BY <1>1, <1>4, <1>5, <1>6, <1>7

\* A part of a sequence.
LEMMA SubSeqFacts ==
  ASSUME NEW S, NEW s \in Seq(S), NEW m \in Int, NEW n \in Int,
         1 <= m, n <= Len(s)
  PROVE  /\ SubSeq(s, m, n) \in Seq(S)
         /\ Len(SubSeq(s, m, n)) = IF m <= n THEN n - m + 1 ELSE 0
         /\ \A i \in 1 .. n - m + 1 : SubSeq(s, m, n)[i] = s[m + i - 1]
<1>1. Len(s) \in Nat
  BY LenProperties
<1>2. \A i \in m .. n : i \in 1 .. Len(s)
  BY <1>1
<1>3. \A i \in m .. n : s[i] \in S
  BY <1>2, ElementOfSeq
<1> QED BY <1>3, SubSeqProperties

\* What is left of a sequence without one of its places.
LEMMA RemoveAtFacts ==
  ASSUME NEW S, NEW s \in Seq(S), NEW p \in DOMAIN s
  PROVE  /\ RemoveAt(s, p) \in Seq(S)
         /\ \A n \in DOMAIN s : n # p =>
              \E m \in DOMAIN RemoveAt(s, p) : RemoveAt(s, p)[m] = s[n]
<1> DEFINE a == SubSeq(s, 1, p - 1)
           b == SubSeq(s, p + 1, Len(s))
<1>1. p \in 1 .. Len(s) /\ Len(s) \in Nat /\ DOMAIN s = 1 .. Len(s)
  BY LenProperties
<1>2. a \in Seq(S) /\ Len(a) = p - 1 /\ \A k \in 1 .. p - 1 : a[k] = s[k]
  <2>1. 1 \in Int /\ p - 1 \in Int /\ 1 <= 1 /\ p - 1 <= Len(s)
    BY <1>1
  <2>2. /\ a \in Seq(S) /\ Len(a) = IF 1 <= p - 1 THEN (p - 1) - 1 + 1 ELSE 0
        /\ \A k \in 1 .. (p - 1) - 1 + 1 : a[k] = s[1 + k - 1]
    <3>1. \A m, n \in Int : 1 <= m /\ n <= Len(s) =>
             /\ SubSeq(s, m, n) \in Seq(S)
             /\ Len(SubSeq(s, m, n)) = IF m <= n THEN n - m + 1 ELSE 0
             /\ \A k \in 1 .. n - m + 1 : SubSeq(s, m, n)[k] = s[m + k - 1]
      <4> TAKE m, n \in Int
      <4> HAVE 1 <= m /\ n <= Len(s)
      <4> QED BY SubSeqFacts, ZenonT(40)
    <3> QED BY <2>1, <3>1
  <2> HIDE DEF a
  <2> QED BY <1>1, <2>2
<1>3. b \in Seq(S) /\ Len(b) = Len(s) - p /\ \A k \in 1 .. Len(s) - p : b[k] = s[p + k]
  <2>1. p + 1 \in Int /\ Len(s) \in Int /\ 1 <= p + 1 /\ Len(s) <= Len(s)
    BY <1>1
  <2>2. /\ b \in Seq(S)
        /\ Len(b) = IF p + 1 <= Len(s) THEN Len(s) - (p + 1) + 1 ELSE 0
        /\ \A k \in 1 .. Len(s) - (p + 1) + 1 : b[k] = s[(p + 1) + k - 1]
    BY <2>1, SubSeqFacts, ZenonT(40)
  <2> HIDE DEF b
  <2>3. ASSUME NEW k \in 1 .. Len(s) - p PROVE b[k] = s[p + k]
    <3>1. k \in 1 .. Len(s) - (p + 1) + 1 /\ (p + 1) + k - 1 = p + k
      BY <1>1
    <3> QED BY <2>2, <3>1
  <2> QED BY <1>1, <2>2, <2>3
<1>4. RemoveAt(s, p) = a \o b
  BY DEF RemoveAt
<1> HIDE DEF a, b
<1>5. /\ a \o b \in Seq(S) /\ Len(a \o b) = Len(a) + Len(b)
      /\ \A k \in 1 .. Len(a) + Len(b) :
           (a \o b)[k] = IF k <= Len(a) THEN a[k] ELSE b[k - Len(a)]
  BY <1>2, <1>3, ConcatProperties, Zenon
<1> DEFINE r == a \o b
<1>6. /\ r \in Seq(S) /\ DOMAIN r = 1 .. Len(s) - 1
      /\ \A k \in 1 .. p - 1 : r[k] = s[k]
      /\ \A k \in p .. Len(s) - 1 : r[k] = s[k + 1]
  <2>1. r \in Seq(S) /\ Len(r) = Len(s) - 1
    BY <1>1, <1>2, <1>3, <1>5
  <2>2. \A k \in 1 .. p - 1 : r[k] = s[k]
    BY <1>1, <1>2, <1>3, <1>5
  <2>3. ASSUME NEW k \in p .. Len(s) - 1 PROVE r[k] = s[k + 1]
    <3>1. /\ k \in 1 .. Len(a) + Len(b) /\ ~(k <= Len(a)) /\ k - Len(a) = k - p + 1
          /\ k - p + 1 \in 1 .. Len(s) - p /\ p + (k - p + 1) = k + 1
      BY <1>1, <1>2, <1>3
    <3>2. r[k] = b[k - p + 1]
      BY <1>5, <3>1
    <3> QED BY <1>3, <3>1, <3>2
  <2>4. DOMAIN r = 1 .. Len(r)
    BY <2>1, LenProperties
  <2> QED BY <2>1, <2>2, <2>3, <2>4
<1> HIDE DEF r
<1>7. ASSUME NEW n \in DOMAIN s, n # p
      PROVE  \E m \in DOMAIN r : r[m] = s[n]
  <2>1. CASE n < p
    <3>1. n \in 1 .. p - 1 /\ n \in 1 .. Len(s) - 1
      BY <1>1, <2>1
    <3> QED BY <1>6, <3>1
  <2>2. CASE n > p
    <3>1. n - 1 \in p .. Len(s) - 1 /\ (n - 1) + 1 = n /\ n - 1 \in 1 .. Len(s) - 1
      BY <1>1, <2>2
    <3> QED BY <1>6, <3>1
  <2> QED BY <1>1, <1>7, <2>1, <2>2
<1>8. RemoveAt(s, p) = r
  BY <1>4 DEF r
<1> QED BY <1>6, <1>7, <1>8

-----------------------------------------------------------------------------
(***************************************************************************)
(* The table of the instruction heap.                                      *)
(***************************************************************************)
LEMMA PlaceOf ==
  ASSUME NEW h, Known(h), NEW i \in Used(h)
  PROVE  /\ Place(h, h.alloc[i].kernel) \in DOMAIN h.used
         /\ h.used[Place(h, h.alloc[i].kernel)] = h.alloc[i].kernel
BY Zenon DEF Known, Place

LEMMA UsedTyped ==
  ASSUME NEW h, TableInv(h)
  PROVE  /\ DOMAIN h = HeapFields /\ h.n \in 1 .. MaxEntries
         /\ h.alloc \in [Entries -> EntryType] /\ h.total \in [Entries -> Nat]
         /\ h.used \in Seq(Kernels) /\ h.phantom \in BOOLEAN
         /\ Entries \subseteq Nat /\ Entries = 0 .. MaxEntries - 1
         /\ MaxEntries \in Nat \ {0} /\ NoKernel \notin Kernels
         /\ \A k \in Kernels : Size[k] \in Nat \ {0}
         /\ \A i \in Used(h) : /\ i \in Entries /\ i < h.n
                               /\ h.alloc[i].kernel \in Kernels
<1>1. h \in HeapType
  BY DEF TableInv
<1>2. /\ DOMAIN h = HeapFields /\ h.n \in 1 .. MaxEntries
      /\ h.alloc \in [Entries -> EntryType] /\ h.total \in [Entries -> Nat]
      /\ h.used \in Seq(Kernels) /\ h.phantom \in BOOLEAN
  BY <1>1 DEF HeapType, HeapFields
<1>3. /\ MaxEntries \in Nat \ {0} /\ NoKernel \notin Kernels
      /\ \A k \in Kernels : Size[k] \in Nat \ {0}
  BY HeapAssumption, KernelsAssumption, SizeAssumption
<1>4. Entries \subseteq Nat /\ Entries = 0 .. MaxEntries - 1
  BY <1>3 DEF Entries
<1>5. \A i \in Entries : h.alloc[i].kernel \in Kernels \cup {NoKernel}
  BY <1>2 DEF EntryType
<1>6. \A i \in Used(h) : i \in Entries /\ i < h.n /\ h.alloc[i].kernel \in Kernels
  BY <1>5 DEF Used, bIsFree
<1> QED BY <1>2, <1>3, <1>4, <1>6

\* The oldest of some loaded kernels is one of them.
LEMMA OldestIsOne ==
  ASSUME NEW h, TableInv(h), NEW S \in SUBSET Used(h), S # {}
  PROVE  Oldest(h, S) \in S
<1> DEFINE Age(i) == Place(h, h.alloc[i].kernel)
           A == {Age(i) : i \in S}
<1>1. Known(h) /\ h.used \in Seq(Kernels)
  BY UsedTyped DEF TableInv
<1>2. \A i \in S : Age(i) \in Nat
  <2>1. DOMAIN h.used = 1 .. Len(h.used) /\ Len(h.used) \in Nat
    BY <1>1, LenProperties
  <2>2. \A i \in S : Age(i) \in DOMAIN h.used
    BY <1>1, PlaceOf, Zenon
  <2> HIDE DEF Since
  <2> QED BY <2>1, <2>2
<1>3. A \in SUBSET Nat /\ A # {}
  BY <1>2
<1>4. (\A a \in A : \E i \in S : a = Age(i)) /\ \A i \in S : Age(i) \in A
  OBVIOUS
<1> HIDE DEF A
<1>5. PICK a \in A : \A b \in A : a <= b
  BY <1>3, LeastExists
<1>6. \E i \in S : \A j \in S : Age(i) <= Age(j)
  BY <1>4, <1>5
<1> QED BY <1>6, Zenon DEF Oldest

\* Neither the use of a kernel nor its new descriptor changes the regions.
LEMMA SameRegions ==
  ASSUME NEW h, TableInv(h), NEW g, g \in HeapType,
         g.n = h.n, g.total = h.total, g.phantom = h.phantom,
         \A j \in Entries : /\ g.alloc[j].kernel = h.alloc[j].kernel
                            /\ g.alloc[j].offset = h.alloc[j].offset
                            /\ g.alloc[j].size = h.alloc[j].size,
         \A p \in DOMAIN h.used : \E q \in DOMAIN g.used : g.used[q] = h.used[p]
  PROVE  TableInv(g) /\ Used(g) = Used(h)
<1>1. Used(g) = Used(h) /\ \A j \in Entries : bIsFree(g, j) <=> bIsFree(h, j)
  BY DEF Used, bIsFree
<1>2. \A j \in Used(h) : j \in Entries
  BY DEF Used
<1>3. Sized(g)
  BY <1>1, Zenon DEF TableInv, Sized
<1>4. Tiled(g)
  <2>1. Tiled(h)
    BY DEF TableInv
  <2>2. /\ \A i \in Entries : i + 1 < h.n => i + 1 \in Entries
        /\ 0 \in Entries /\ h.n - 1 \in Entries
    BY UsedTyped
  <2> QED BY <2>1, <2>2 DEF Tiled
<1>5. Known(g)
  <2>1. Known(h)
    BY DEF TableInv
  <2>2. ASSUME NEW i \in Used(g)
        PROVE  \E p \in DOMAIN g.used : g.used[p] = g.alloc[i].kernel
    <3>1. PICK p \in DOMAIN h.used : h.used[p] = h.alloc[i].kernel
      BY <1>1, <2>1, <2>2 DEF Known
    <3> QED BY <1>1, <1>2, <2>2, <3>1
  <2>3. \A i, j \in Used(g) : g.alloc[i].kernel = g.alloc[j].kernel => i = j
    BY <1>1, <1>2, <2>1 DEF Known
  <2> QED BY <2>2, <2>3 DEF Known
<1> QED BY <1>1, <1>3, <1>4, <1>5 DEF TableInv

\* The order of use without a kernel still has the others, and the kernel again
\* when it is used.
LEMMA UseAgain ==
  ASSUME NEW h, TableInv(h), NEW i \in Used(h), NEW k \in Kernels,
         k = h.alloc[i].kernel
  PROVE  /\ RemoveAt(h.used, Place(h, k)) \in Seq(Kernels)
         /\ \A p \in DOMAIN h.used : h.used[p] # k =>
              \E q \in DOMAIN RemoveAt(h.used, Place(h, k)) :
                RemoveAt(h.used, Place(h, k))[q] = h.used[p]
<1> DEFINE P == Place(h, k)
<1>1. P \in DOMAIN h.used /\ h.used[P] = k /\ h.used \in Seq(Kernels)
  BY PlaceOf, UsedTyped, Zenon DEF TableInv
<1> HIDE DEF P
<1>2. /\ RemoveAt(h.used, P) \in Seq(Kernels)
      /\ \A p \in DOMAIN h.used : p # P =>
           \E q \in DOMAIN RemoveAt(h.used, P) : RemoveAt(h.used, P)[q] = h.used[p]
  BY <1>1, RemoveAtFacts, Zenon
<1>3. \A p \in DOMAIN h.used : h.used[p] # k => p # P
  BY <1>1
<1> QED BY <1>2, <1>3, Zenon DEF P

LEMMA AppendKeeps ==
  ASSUME NEW S, NEW s \in Seq(S), NEW k \in S
  PROVE  /\ Append(s, k) \in Seq(S) /\ Len(Append(s, k)) = Len(s) + 1
         /\ \A p \in DOMAIN s : p \in DOMAIN Append(s, k) /\ Append(s, k)[p] = s[p]
         /\ \E p \in DOMAIN Append(s, k) : Append(s, k)[p] = k
<1>1. /\ Append(s, k) \in Seq(S) /\ Len(Append(s, k)) = Len(s) + 1
      /\ \A p \in 1 .. Len(s) : Append(s, k)[p] = s[p]
      /\ Append(s, k)[Len(s) + 1] = k
  BY AppendProperties
<1>2. DOMAIN s = 1 .. Len(s) /\ Len(s) \in Nat
  BY LenProperties
<1>3. DOMAIN Append(s, k) = 1 .. Len(s) + 1
  BY <1>1, LenProperties
<1> QED BY <1>1, <1>2, <1>3

LEMMA TouchTable ==
  ASSUME NEW h, TableInv(h), NEW i \in Used(h), NEW tag \in Int
  PROVE  LET g == HalCm_TouchKernel(h, i, tag) IN
         /\ TableInv(g) /\ Used(g) = Used(h) /\ g.phantom = h.phantom
         /\ \A j \in Entries : /\ g.alloc[j].kernel = h.alloc[j].kernel
                               /\ g.alloc[j].offset = h.alloc[j].offset
<1> DEFINE k == h.alloc[i].kernel
           r == RemoveAt(h.used, Place(h, k))
           g == HalCm_TouchKernel(h, i, tag)
<1>0. /\ k \in Kernels /\ i \in Entries /\ DOMAIN h = HeapFields
      /\ h.alloc \in [Entries -> EntryType] /\ h.n \in 1 .. MaxEntries
      /\ h.total \in [Entries -> Nat] /\ h.phantom \in BOOLEAN
  BY UsedTyped
<1>1. /\ r \in Seq(Kernels)
      /\ \A p \in DOMAIN h.used : h.used[p] # k => \E q \in DOMAIN r : r[q] = h.used[p]
  BY <1>0, UseAgain, Zenon
<1>2. g = [h EXCEPT !.used = Append(r, k), !.alloc[i].sync = tag]
  BY Zenon DEF HalCm_TouchKernel
<1> HIDE DEF r, g
<1>3. /\ DOMAIN g = HeapFields /\ g.used = Append(r, k) /\ g.n = h.n
      /\ g.total = h.total /\ g.phantom = h.phantom
      /\ g.alloc = [h.alloc EXCEPT ![i].sync = tag]
  BY <1>0, <1>2 DEF HeapFields
<1>4. g.alloc \in [Entries -> EntryType]
  BY <1>0, <1>3, ZenonT(60) DEF EntryType
<1>5. \A j \in Entries : /\ g.alloc[j].kernel = h.alloc[j].kernel
                         /\ g.alloc[j].offset = h.alloc[j].offset
                         /\ g.alloc[j].size = h.alloc[j].size
  BY <1>0, <1>3 DEF EntryType
<1>6. g \in HeapType
  <2>1. g.used \in Seq(Kernels)
    BY <1>0, <1>1, <1>3, AppendKeeps
  <2>2. g = [alloc |-> g.alloc, total |-> g.total, n |-> g.n, used |-> g.used,
             phantom |-> g.phantom]
    BY <1>2, <1>3, Zenon DEF HeapFields
  <2> QED BY <1>0, <1>3, <1>4, <2>1, <2>2 DEF HeapType
<1>7. ASSUME NEW p \in DOMAIN h.used
      PROVE  \E q \in DOMAIN g.used : g.used[q] = h.used[p]
  <2>1. CASE h.used[p] = k
    <3>1. \E q \in DOMAIN Append(r, k) : Append(r, k)[q] = k
      <4>1. r \in Seq(Kernels) /\ k \in Kernels
        BY <1>0, <1>1
      <4> HIDE DEF k
      <4> QED BY ONLY <4>1, AppendKeeps
    <3> QED BY <1>3, <2>1, <3>1, Zenon
  <2>2. CASE h.used[p] # k
    <3>1. PICK q \in DOMAIN r : r[q] = h.used[p]
      BY <1>1, <2>2
    <3> QED BY <1>0, <1>1, <1>3, <3>1, AppendKeeps
  <2> QED BY <2>1, <2>2
<1>8. TableInv(g) /\ Used(g) = Used(h)
  BY <1>3, <1>5, <1>6, <1>7, SameRegions, Zenon
<1> QED BY <1>3, <1>5, <1>8, Zenon DEF g

LEMMA KidTable ==
  ASSUME NEW h, TableInv(h), NEW i \in Used(h), NEW id \in MediaIds
  PROVE  LET g == [h EXCEPT !.alloc[i].kid = IF @ = NoEntry THEN id ELSE @] IN
         /\ TableInv(g) /\ Used(g) = Used(h) /\ g.phantom = h.phantom
         /\ \A j \in Entries : /\ g.alloc[j].kernel = h.alloc[j].kernel
                               /\ g.alloc[j].offset = h.alloc[j].offset
<1> DEFINE g == [h EXCEPT !.alloc[i].kid = IF @ = NoEntry THEN id ELSE @]
<1>0. /\ i \in Entries /\ DOMAIN h = HeapFields
      /\ h.alloc \in [Entries -> EntryType] /\ h.n \in 1 .. MaxEntries
      /\ h.total \in [Entries -> Nat] /\ h.phantom \in BOOLEAN
      /\ h.used \in Seq(Kernels)
  BY UsedTyped
<1>3. /\ DOMAIN g = HeapFields /\ g.used = h.used /\ g.n = h.n
      /\ g.total = h.total /\ g.phantom = h.phantom
      /\ g.alloc = [h.alloc EXCEPT ![i].kid = IF @ = NoEntry THEN id ELSE @]
  BY <1>0 DEF HeapFields
<1>1. g = [h EXCEPT !.alloc[i].kid = IF @ = NoEntry THEN id ELSE @]
  OBVIOUS
<1> HIDE DEF g
<1>2. g = [alloc |-> g.alloc, total |-> g.total, n |-> g.n, used |-> g.used,
           phantom |-> g.phantom]
  BY <1>1, <1>3, Zenon DEF HeapFields
<1>4. g.alloc \in [Entries -> EntryType]
  BY <1>0, <1>3, ZenonT(60) DEF EntryType
<1>5. \A j \in Entries : /\ g.alloc[j].kernel = h.alloc[j].kernel
                         /\ g.alloc[j].offset = h.alloc[j].offset
                         /\ g.alloc[j].size = h.alloc[j].size
  BY <1>0, <1>3 DEF EntryType
<1>6. g \in HeapType
  BY <1>0, <1>2, <1>3, <1>4 DEF HeapType
<1>8. TableInv(g) /\ Used(g) = Used(h)
  BY <1>3, <1>5, <1>6, SameRegions, Zenon
<1> QED BY <1>3, <1>5, <1>8, Zenon DEF g

\* Regions of a table lie in the heap and apart from each other.
LEMMA RegionsApart ==
  ASSUME NEW h, TableInv(h)
  PROVE  /\ \A i \in Entries : i < h.n =>
              /\ h.alloc[i].offset \in Int /\ h.total[i] \in Nat
              /\ 0 <= h.alloc[i].offset
              /\ h.alloc[i].offset + h.total[i] <= HeapSize
         /\ \A i, j \in Entries : i < j /\ j < h.n =>
              h.alloc[i].offset + h.total[i] <= h.alloc[j].offset
<1> DEFINE off == [i \in Entries |-> h.alloc[i].offset]
           tot == h.total
           n == h.n
<1>1. /\ n \in 1 .. MaxEntries /\ tot \in [Entries -> Nat]
      /\ Entries = 0 .. MaxEntries - 1 /\ MaxEntries \in Nat \ {0}
  BY UsedTyped
<1>2. off \in [Entries -> Int]
  BY UsedTyped DEF EntryType
<1>3. /\ 0 <= off[0] /\ off[n - 1] + tot[n - 1] <= HeapSize
      /\ \A i \in Entries : i + 1 < n => off[i] + tot[i] = off[i + 1]
  <2>1. \A i \in Entries : off[i] = h.alloc[i].offset
    OBVIOUS
  <2>2. 0 \in Entries /\ n - 1 \in Entries /\ \A i \in Entries : i + 1 < n => i + 1 \in Entries
    BY <1>1
  <2> HIDE DEF off
  <2> QED BY <2>1, <2>2 DEF TableInv, Tiled
<1>4. HeapSize \in Nat
  BY HeapAssumption
<1>5. \A i \in Entries : off[i] = h.alloc[i].offset
  OBVIOUS
<1> HIDE DEF off, tot, n
<1>6. ASSUME NEW i \in Entries, NEW j \in Entries, i < j, j < n
      PROVE  off[i] + tot[i] <= off[j]
  <2> DEFINE Bad == {m \in Nat : i < m /\ m < n /\ ~(off[i] + tot[i] <= off[m])}
  <2>1. Bad \subseteq Nat /\ \A m \in Nat : m \in Bad <=>
             i < m /\ m < n /\ ~(off[i] + tot[i] <= off[m])
    OBVIOUS
  <2> HIDE DEF Bad
  <2>2. Bad = {}
    <3> SUFFICES ASSUME Bad # {} PROVE FALSE
      OBVIOUS
    <3>1. PICK m \in Bad : \A l \in Bad : m <= l
      BY <2>1, LeastExists
    <3>2. m \in Nat /\ i < m /\ m < n /\ ~(off[i] + tot[i] <= off[m]) /\ i \in Nat
      BY <1>1, <2>1, <3>1
    <3>3. m - 1 \in Nat /\ m - 1 \in Entries /\ m \in Entries /\ (m - 1) + 1 = m
      BY <1>1, <3>2
    <3>4. off[m - 1] + tot[m - 1] = off[m]
      BY <1>3, <3>2, <3>3
    <3>5. /\ off[i] \in Int /\ off[m] \in Int /\ off[m - 1] \in Int
          /\ tot[i] \in Nat /\ tot[m - 1] \in Nat
      BY <1>1, <1>2, <3>3
    <3>6. m - 1 # i
      BY <3>2, <3>4, <3>5
    <3>7. off[i] + tot[i] <= off[m - 1]
      <4>1. m - 1 \notin Bad /\ i < m - 1 /\ m - 1 < n
        BY <1>1, <3>1, <3>2, <3>3, <3>6
      <4> QED BY <2>1, <3>3, <4>1
    <3> QED BY ONLY <3>2, <3>4, <3>5, <3>7
  <2> QED BY <1>1, <1>6, <2>1, <2>2
<1>7. ASSUME NEW i \in Entries, i < n
      PROVE  0 <= off[i] /\ off[i] + tot[i] <= HeapSize
  <2>1. 0 \in Entries /\ n - 1 \in Entries /\ n - 1 < n /\ i \in Nat
    BY <1>1
  <2>2. /\ off[0] \in Int /\ off[i] \in Int /\ off[n - 1] \in Int
        /\ tot[0] \in Nat /\ tot[i] \in Nat /\ tot[n - 1] \in Nat
    BY <1>1, <1>2, <2>1
  <2>3. i = 0 \/ off[0] + tot[0] <= off[i]
    BY <1>6, <1>7, <2>1
  <2>4. i = n - 1 \/ off[i] + tot[i] <= off[n - 1]
    BY <1>1, <1>6, <1>7, <2>1
  <2> QED BY ONLY <1>3, <1>4, <2>2, <2>3, <2>4
<1>8. \A i \in Entries : off[i] \in Int /\ tot[i] \in Nat
  BY <1>1, <1>2
<1> QED BY <1>5, <1>6, <1>7, <1>8, Zenon DEF tot, n

\* The loaded kernel lies where its slot began, the others stay where they are.
LoadedInto(h, g, slot, k) ==
    /\ slot \in Used(g) /\ g.alloc[slot].kernel = k
    /\ g.alloc[slot].offset = h.alloc[slot].offset
    /\ g.phantom = h.phantom
    /\ \A j \in Used(g) \ {slot} : \E i \in Used(h) :
         /\ g.alloc[j].kernel = h.alloc[i].kernel
         /\ g.alloc[j].offset = h.alloc[i].offset

\* Table g is h with the free region slot split.
SplitAt(h, g, slot, k) ==
    /\ g.n = h.n + 1 /\ g.used = Append(h.used, k) /\ g.phantom = h.phantom
    /\ g.alloc[slot].kernel = k /\ g.alloc[slot].size = Size[k]
    /\ g.alloc[slot].offset = h.alloc[slot].offset
    /\ g.total[slot] = Size[k]
    /\ g.alloc[slot + 1].kernel = NoKernel /\ g.alloc[slot + 1].size = 0
    /\ g.alloc[slot + 1].offset = h.alloc[slot].offset + Size[k]
    /\ g.total[slot + 1] = h.total[slot] - Size[k]
    /\ \A j \in Entries : j < slot =>
         g.alloc[j] = h.alloc[j] /\ g.total[j] = h.total[j]
    /\ \A j \in Entries : slot + 1 < j /\ j <= h.n =>
         g.alloc[j] = h.alloc[j - 1] /\ g.total[j] = h.total[j - 1]

LEMMA SplitSlot ==
  ASSUME NEW h, TableInv(h), NEW k \in Kernels, LoadedAt(h, k) = {},
         NEW slot \in FreeSlots(h, k), h.n < MaxEntries,
         NEW g, g \in HeapType, SplitAt(h, g, slot, k)
  PROVE  TableInv(g) /\ LoadedInto(h, g, slot, k)
<1> DEFINE n == h.n
           s == Size[k]
           off == [j \in Entries |-> h.alloc[j].offset]
           tot == h.total
           new == [j \in Entries |-> g.alloc[j].offset]
           cut == g.total
<1>0. /\ h.n \in 1 .. MaxEntries /\ h.alloc \in [Entries -> EntryType]
      /\ h.total \in [Entries -> Nat] /\ h.used \in Seq(Kernels)
      /\ Entries = 0 .. MaxEntries - 1 /\ MaxEntries \in Nat \ {0}
      /\ Size[k] \in Nat \ {0} /\ NoKernel \notin Kernels
  BY UsedTyped
<1>1. /\ slot \in Entries /\ slot < h.n /\ h.alloc[slot].kernel = NoKernel
      /\ h.total[slot] >= Size[k] /\ slot + 1 \in Entries
  BY <1>0 DEF FreeSlots, bIsFree
<1>2. /\ \A j \in Entries : j \in Nat /\ j < MaxEntries
      /\ \A j \in Nat : j < MaxEntries => j \in Entries
      /\ slot \in Nat /\ slot < n /\ n \in Nat /\ n < MaxEntries
      /\ MaxEntries \in Nat /\ g.n = n + 1
  BY <1>0, <1>1, SMTT(30) DEF SplitAt
<1>3. /\ \A j \in Entries : off[j] \in Int /\ tot[j] \in Nat
      /\ s \in Nat /\ s <= tot[slot]
  BY <1>0, <1>1 DEF EntryType
<1>4. /\ \A j \in Entries : off[j] = h.alloc[j].offset
      /\ \A j \in Entries : new[j] = g.alloc[j].offset
  OBVIOUS
<1> HIDE DEF n, s, off, tot, new, cut
<1>5. \A j \in Entries : j < n + 1 =>
        \/ j < slot \/ j = slot \/ j = slot + 1
        \/ slot + 1 < j /\ j <= n /\ j - 1 \in Entries /\ j - 1 < n
  BY ONLY <1>2
<1>6. Sized(g)
  <2> SUFFICES ASSUME NEW j \in Entries, j < n + 1
               PROVE  /\ g.alloc[j].size <= g.total[j]
                      /\ g.alloc[j].size =
                           IF g.alloc[j].kernel = NoKernel THEN 0
                           ELSE Size[g.alloc[j].kernel]
    BY <1>2, Zenon DEF Sized, bIsFree
  <2>0. Sized(h)
    BY DEF TableInv
  <2>1. CASE j = slot
    BY <1>0, <2>1, SMTT(30) DEF SplitAt
  <2>2. CASE j = slot + 1
    BY <1>0, <1>1, <2>2, SMTT(30) DEF SplitAt
  <2>3. CASE j < slot
    <3>1. j < n
      BY ONLY <1>2, <2>3, j \in Entries
    <3> QED BY ONLY <2>0, <2>3, <3>1, j \in Entries, SplitAt(h, g, slot, k)
            DEF bIsFree, Sized, SplitAt, n
  <2>4. CASE slot + 1 < j /\ j <= n /\ j - 1 \in Entries /\ j - 1 < n
    BY ONLY <2>0, <2>4, j \in Entries, SplitAt(h, g, slot, k) DEF bIsFree, Sized, SplitAt, n
  <2> QED BY <1>5, <2>1, <2>2, <2>3, <2>4, Zenon
<1>7. Tiled(g)
  <2>1. /\ 0 <= off[0] /\ off[n - 1] + tot[n - 1] <= HeapSize
        /\ \A j \in Entries : j + 1 < n => off[j] + tot[j] = off[j + 1]
    <3>1. /\ 0 \in Entries /\ n - 1 \in Entries
          /\ \A j \in Entries : j + 1 < n => j + 1 \in Entries
      BY <1>2
    <3> QED BY ONLY <1>4, <3>1, TableInv(h) DEF TableInv, Tiled, n, tot
  <2>2. /\ \A j \in Entries : j < slot => new[j] = off[j] /\ cut[j] = tot[j]
        /\ \A j \in Entries : slot + 1 < j /\ j <= n =>
             new[j] = off[j - 1] /\ cut[j] = tot[j - 1]
        /\ new[slot] = off[slot] /\ cut[slot] = s
        /\ new[slot + 1] = off[slot] + s /\ cut[slot + 1] = tot[slot] - s
    <3>1. \A j \in Entries : slot + 1 < j /\ j <= n => j - 1 \in Entries
      BY ONLY <1>2
    <3> QED BY ONLY <1>1, <1>4, <3>1, SplitAt(h, g, slot, k) DEF SplitAt, n, s, tot, cut
  <2>3. 0 <= new[0]
    BY ONLY <1>2, <1>3, <2>1, <2>2
  <2>4. new[n] + cut[n] <= HeapSize
    BY ONLY <1>2, <1>3, <2>1, <2>2
  <2>5. ASSUME NEW j \in Entries, j + 1 < n + 1
        PROVE  new[j] + cut[j] = new[j + 1]
    <3>1. j \in Nat /\ j + 1 \in Entries
      BY ONLY <1>2, <2>5
    <3>2. CASE j < slot
      BY ONLY <1>2, <1>3, <2>1, <2>2, <3>1, <3>2, j \in Entries
    <3>3. CASE j = slot
      BY ONLY <1>2, <1>3, <2>2, <3>3
    <3>4. CASE j = slot + 1
      BY ONLY <1>2, <1>3, <2>1, <2>2, <2>5, <3>1, <3>4, j \in Entries
    <3>5. CASE slot + 1 < j
      BY ONLY <1>2, <1>3, <2>1, <2>2, <2>5, <3>1, <3>5, j \in Entries
    <3> QED BY ONLY <1>2, <3>1, <3>2, <3>3, <3>4, <3>5
  <2> QED
    <3>1. 0 \in Entries /\ n \in Entries /\ (n + 1) - 1 = n
      BY ONLY <1>2
    <3>2. \A j \in Entries : j + 1 < n + 1 => j + 1 \in Entries
      BY ONLY <1>2
    <3> QED BY ONLY <1>2, <1>4, <2>3, <2>4, <2>5, <3>1, <3>2 DEF Tiled, cut
<1> DEFINE src(j) == IF j < slot THEN j ELSE j - 1
<1>8. ASSUME NEW j \in Used(g), j # slot
      PROVE  src(j) \in Used(h) /\ g.alloc[j] = h.alloc[src(j)]
  <2>1. j \in Entries /\ j < n + 1 /\ g.alloc[j].kernel # NoKernel
    BY <1>2 DEF Used, bIsFree
  <2>2. j # slot + 1
    BY <2>1 DEF SplitAt
  <2>3. CASE j < slot
    <3>1. src(j) = j /\ j < n
      BY ONLY <1>2, <2>1, <2>3
    <3> QED BY ONLY <2>1, <2>3, <3>1, SplitAt(h, g, slot, k) DEF Used, bIsFree, SplitAt, n
  <2>4. CASE slot + 1 < j /\ j <= n /\ j - 1 \in Entries /\ j - 1 < n
    <3>1. src(j) = j - 1
      BY ONLY <1>2, <2>1, <2>4
    <3> QED BY ONLY <2>1, <2>4, <3>1, SplitAt(h, g, slot, k) DEF Used, bIsFree, SplitAt, n
  <2> QED BY <1>5, <1>8, <2>1, <2>2, <2>3, <2>4, Zenon
<1>9. \A i, j \in Used(g) : i # slot /\ j # slot /\ src(i) = src(j) => i = j
  <2> SUFFICES ASSUME NEW i \in Used(g), NEW j \in Used(g), i # slot, j # slot,
                      src(i) = src(j)
               PROVE  i = j
    OBVIOUS
  <2>1. \A e \in Used(g) : e \in Entries /\ e < n + 1 /\ e # slot + 1
    BY <1>2 DEF Used, bIsFree, SplitAt
  <2>2. /\ i \in Nat /\ (i < slot \/ slot + 1 < i)
        /\ j \in Nat /\ (j < slot \/ slot + 1 < j)
    BY <1>2, <1>5, <2>1
  <2> QED BY ONLY <1>2, <2>2, src(i) = src(j)
<1> HIDE DEF src
<1>10. Known(g)
  <2>0. Known(h) /\ g.used = Append(h.used, k)
    BY DEF TableInv, SplitAt
  <2>1. ASSUME NEW j \in Used(g)
        PROVE  \E p \in DOMAIN g.used : g.used[p] = g.alloc[j].kernel
    <3>1. CASE j = slot
      <4>1. \E p \in DOMAIN Append(h.used, k) : Append(h.used, k)[p] = k
        BY ONLY <1>0, k \in Kernels, AppendKeeps
      <4> QED BY <2>0, <3>1, <4>1 DEF SplitAt
    <3>2. CASE j # slot
      <4>1. PICK p \in DOMAIN h.used : h.used[p] = h.alloc[src(j)].kernel
        BY <1>8, <2>0, <3>2 DEF Known
      <4>2. p \in DOMAIN Append(h.used, k) /\ Append(h.used, k)[p] = h.used[p]
        BY ONLY <1>0, k \in Kernels, AppendKeeps, p \in DOMAIN h.used
      <4> QED BY <1>8, <2>0, <3>2, <4>1, <4>2
    <3> QED BY <3>1, <3>2
  <2>2. ASSUME NEW j \in Used(g), j # slot
        PROVE  g.alloc[j].kernel # k
    BY <1>8, <2>2 DEF LoadedAt, Used
  <2>3. ASSUME NEW i \in Used(g), NEW j \in Used(g),
               g.alloc[i].kernel = g.alloc[j].kernel
        PROVE  i = j
    <3>1. CASE i = slot \/ j = slot
      BY <2>2, <2>3, <3>1 DEF SplitAt
    <3>2. CASE i # slot /\ j # slot
      <4>1. src(i) = src(j)
        BY <1>8, <2>0, <2>3, <3>2 DEF Known
      <4> QED BY <1>9, <3>2, <4>1
    <3> QED BY <3>1, <3>2
  <2> QED BY <2>1, <2>3 DEF Known
<1>11. LoadedInto(h, g, slot, k)
  <2>1. slot < n + 1
    BY ONLY <1>2
  <2>2. slot \in Used(g)
    BY <1>0, <1>1, <1>2, <2>1 DEF Used, bIsFree, SplitAt
  <2> QED BY <1>8, <2>2 DEF LoadedInto, SplitAt
<1> QED BY <1>6, <1>7, <1>10, <1>11 DEF TableInv

\* Table g is h with the free region slot taken whole.
WholeAt(h, g, slot, k) ==
    /\ g.n = h.n /\ g.used = Append(h.used, k) /\ g.phantom = h.phantom
    /\ g.total = h.total
    /\ g.alloc[slot].kernel = k /\ g.alloc[slot].size = Size[k]
    /\ g.alloc[slot].offset = h.alloc[slot].offset
    /\ \A j \in Entries : j # slot => g.alloc[j] = h.alloc[j]

LEMMA WholeSlot ==
  ASSUME NEW h, TableInv(h), NEW k \in Kernels, LoadedAt(h, k) = {},
         NEW slot \in FreeSlots(h, k),
         NEW g, g \in HeapType, WholeAt(h, g, slot, k)
  PROVE  TableInv(g) /\ LoadedInto(h, g, slot, k)
<1>0. /\ h.n \in 1 .. MaxEntries /\ h.used \in Seq(Kernels)
      /\ \A j \in Entries : j \in Nat
      /\ \A j \in Nat : j < MaxEntries => j \in Entries
      /\ MaxEntries \in Nat \ {0} /\ NoKernel \notin Kernels
  BY UsedTyped
<1>1. /\ slot \in Entries /\ slot < h.n /\ h.total[slot] >= Size[k]
      /\ h.total[slot] \in Nat /\ Size[k] \in Nat
  BY UsedTyped DEF FreeSlots
<1>2. \A j \in Entries : g.alloc[j].offset = h.alloc[j].offset
  BY DEF WholeAt
<1>3. Sized(g)
  <2> SUFFICES ASSUME NEW j \in Entries, j < h.n
               PROVE  /\ g.alloc[j].size <= g.total[j]
                      /\ g.alloc[j].size =
                           IF g.alloc[j].kernel = NoKernel THEN 0
                           ELSE Size[g.alloc[j].kernel]
    BY Zenon DEF Sized, bIsFree, WholeAt
  <2>1. CASE j = slot
    BY <1>0, <1>1, <2>1 DEF WholeAt
  <2>2. CASE j # slot
    BY <2>2, Zenon DEF WholeAt, TableInv, Sized, bIsFree
  <2> QED BY <2>1, <2>2
<1>4. Tiled(g)
  <2>1. /\ 0 \in Entries /\ h.n - 1 \in Entries
        /\ \A j \in Entries : j + 1 < h.n => j + 1 \in Entries
    BY <1>0
  <2> QED BY ONLY <1>2, <2>1, TableInv(h), WholeAt(h, g, slot, k)
          DEF TableInv, Tiled, WholeAt
<1>5. /\ slot \in Used(g)
      /\ \A j \in Used(g) : j # slot => j \in Used(h) /\ g.alloc[j] = h.alloc[j]
  BY <1>0, <1>1 DEF Used, bIsFree, WholeAt
<1>6. Known(g)
  <2>0. Known(h) /\ g.used = Append(h.used, k)
    BY DEF TableInv, WholeAt
  <2>1. ASSUME NEW j \in Used(g)
        PROVE  \E p \in DOMAIN g.used : g.used[p] = g.alloc[j].kernel
    <3>1. CASE j = slot
      <4>1. \E p \in DOMAIN Append(h.used, k) : Append(h.used, k)[p] = k
        BY ONLY <1>0, k \in Kernels, AppendKeeps
      <4> QED BY <2>0, <3>1, <4>1 DEF WholeAt
    <3>2. CASE j # slot
      <4>1. PICK p \in DOMAIN h.used : h.used[p] = h.alloc[j].kernel
        BY <1>5, <2>0, <3>2 DEF Known
      <4>2. p \in DOMAIN Append(h.used, k) /\ Append(h.used, k)[p] = h.used[p]
        BY ONLY <1>0, k \in Kernels, AppendKeeps, p \in DOMAIN h.used
      <4> QED BY <1>5, <2>0, <3>2, <4>1, <4>2
    <3> QED BY <3>1, <3>2
  <2>2. ASSUME NEW j \in Used(g), j # slot
        PROVE  g.alloc[j].kernel # k
    BY <1>5, <2>2 DEF LoadedAt, Used
  <2>3. ASSUME NEW i \in Used(g), NEW j \in Used(g),
               g.alloc[i].kernel = g.alloc[j].kernel
        PROVE  i = j
    <3>1. CASE i = slot \/ j = slot
      BY <2>2, <2>3, <3>1 DEF WholeAt
    <3>2. CASE i # slot /\ j # slot
      BY <1>5, <2>0, <2>3, <3>2 DEF Known
    <3> QED BY <3>1, <3>2
  <2> QED BY <2>1, <2>3 DEF Known
<1> QED BY <1>3, <1>4, <1>5, <1>6 DEF TableInv, LoadedInto, WholeAt

LEMMA FreedEntry ==
  ASSUME NEW e \in EntryType
  PROVE  /\ CmFreeKernel(e) \in EntryType /\ CmFreeKernel(e).kernel = NoKernel
         /\ CmFreeKernel(e).size = 0 /\ CmFreeKernel(e).offset = e.offset
<1> DEFINE f == CmFreeKernel(e)
<1>1. f = [e EXCEPT !.kernel = NoKernel, !.size = 0, !.sync = 0, !.kid = NoEntry]
  BY Zenon DEF CmFreeKernel
<1> HIDE DEF f
<1>2. DOMAIN e = {"kernel", "offset", "size", "sync", "kid"} /\ e.offset \in Int
  BY DEF EntryType
<1>3. /\ DOMAIN f = {"kernel", "offset", "size", "sync", "kid"}
      /\ f.kernel = NoKernel /\ f.size = 0 /\ f.sync = 0 /\ f.kid = NoEntry
      /\ f.offset = e.offset
  BY <1>1, <1>2
<1>4. f = [kernel |-> f.kernel, offset |-> f.offset, size |-> f.size,
           sync |-> f.sync, kid |-> f.kid]
  BY <1>1, <1>3, Zenon
<1>5. f \in EntryType
  BY <1>2, <1>3, <1>4 DEF EntryType
<1> QED BY <1>3, <1>5 DEF f

\* Every kernel of h is in g, as it was.
AllStay(h, g) == \A e \in Used(h) : \E j \in Used(g) : g.alloc[j] = h.alloc[e]

LEMMA SplitStays ==
  ASSUME NEW h, TableInv(h), NEW k \in Kernels, NEW slot \in FreeSlots(h, k),
         h.n < MaxEntries, NEW g, SplitAt(h, g, slot, k)
  PROVE  AllStay(h, g)
<1>0. /\ h.n \in Nat /\ h.n < MaxEntries /\ MaxEntries \in Nat
      /\ \A j \in Entries : j \in Nat /\ j < MaxEntries
      /\ \A j \in Nat : j < MaxEntries => j \in Entries
  BY UsedTyped
<1>1. slot \in Entries /\ slot < h.n /\ h.alloc[slot].kernel = NoKernel
  BY DEF FreeSlots, bIsFree
<1> SUFFICES ASSUME NEW e \in Used(h)
             PROVE  \E j \in Used(g) : g.alloc[j] = h.alloc[e]
  BY DEF AllStay
<1>2. e \in Entries /\ e < h.n /\ h.alloc[e].kernel # NoKernel /\ e # slot
  BY <1>1 DEF Used, bIsFree
<1>3. g.n = h.n + 1
  BY DEF SplitAt
<1>4. CASE e < slot
  <2>1. g.alloc[e] = h.alloc[e]
    BY <1>2, <1>4 DEF SplitAt
  <2>2. e < g.n
    BY ONLY <1>0, <1>2, <1>3
  <2> QED BY ONLY <1>2, <2>1, <2>2 DEF Used, bIsFree
<1>5. CASE slot < e
  <2>1. /\ e + 1 \in Entries /\ slot + 1 < e + 1 /\ e + 1 <= h.n /\ (e + 1) - 1 = e
        /\ e + 1 < g.n
    BY ONLY <1>0, <1>1, <1>2, <1>3, <1>5
  <2>2. g.alloc[e + 1] = h.alloc[e]
    BY ONLY <2>1, SplitAt(h, g, slot, k) DEF SplitAt
  <2> QED BY ONLY <1>2, <2>1, <2>2 DEF Used, bIsFree
<1> QED BY ONLY <1>0, <1>1, <1>2, <1>4, <1>5

LEMMA WholeStays ==
  ASSUME NEW h, NEW k \in Kernels, NEW slot \in FreeSlots(h, k),
         NEW g, WholeAt(h, g, slot, k)
  PROVE  AllStay(h, g)
  BY DEF AllStay, WholeAt, FreeSlots, Used, bIsFree

LEMMA LoadTable ==
  ASSUME NEW h, TableInv(h), NEW k \in Kernels, LoadedAt(h, k) = {},
         NEW tag \in Int, CmSearchFreeSlotSize(h, k) # NoEntry
  PROVE  LET slot == CmSearchFreeSlotSize(h, k)
             g == CmAddCurrentKerenelToFreeSlot(h, slot, k, tag) IN
         /\ slot \in Entries /\ TableInv(g) /\ LoadedInto(h, g, slot, k)
         /\ g.alloc[slot].sync = tag /\ g.alloc[slot].kid = NoEntry
         /\ AllStay(h, g)
<1> DEFINE slot == CmSearchFreeSlotSize(h, k)
           g == CmAddCurrentKerenelToFreeSlot(h, slot, k, tag)
           e == h.alloc[slot]
           loaded == CmLoadKernel(e, k, tag)
           rest == [CmFreeKernel(e) EXCEPT !.offset = e.offset + Size[k]]
           split == [h EXCEPT
             !.alloc = InsertAfter(@, slot, h.n, loaded, rest),
             !.total = InsertAfter(@, slot, h.n, Size[k], @[slot] - Size[k]),
             !.n = @ + 1, !.used = Append(@, k)]
           whole == [h EXCEPT !.alloc[slot] = loaded, !.used = Append(@, k)]
<1>0. /\ h.n \in 1 .. MaxEntries /\ h.alloc \in [Entries -> EntryType]
      /\ h.total \in [Entries -> Nat] /\ h.used \in Seq(Kernels)
      /\ Entries = 0 .. MaxEntries - 1 /\ MaxEntries \in Nat \ {0}
      /\ Size[k] \in Nat \ {0} /\ NoKernel \notin Kernels
      /\ DOMAIN h = HeapFields /\ h.phantom \in BOOLEAN /\ Entries \subseteq Nat
  BY UsedTyped
<1>1. slot \in FreeSlots(h, k)
  <2>1. FreeSlots(h, k) # {} /\ slot = Min(FreeSlots(h, k))
    BY Zenon DEF CmSearchFreeSlotSize
  <2>2. FreeSlots(h, k) \in SUBSET Nat
    BY <1>0 DEF FreeSlots
  <2> QED BY <2>1, <2>2, MinFacts
<1> HIDE DEF slot
<1>2. /\ slot \in Entries /\ slot < h.n /\ h.alloc[slot].kernel = NoKernel
      /\ h.total[slot] >= Size[k] /\ slot \in Nat
  BY <1>0, <1>1 DEF FreeSlots, bIsFree
<1>3. e \in EntryType /\ e.size = 0
  BY <1>0, <1>2 DEF TableInv, Sized, bIsFree
<1>4. e.size # Size[k]
  BY <1>0, <1>3
<1> HIDE DEF e
<1>5. /\ loaded \in EntryType /\ loaded.kernel = k /\ loaded.size = Size[k]
      /\ loaded.offset = e.offset /\ loaded.sync = tag /\ loaded.kid = NoEntry
      /\ rest \in EntryType /\ rest.kernel = NoKernel /\ rest.size = 0
      /\ rest.offset = e.offset + Size[k]
  <2>1. Size[k] \in Nat /\ k \in Kernels /\ tag \in Int /\ e.offset + Size[k] \in Int
    BY <1>0, <1>3 DEF EntryType
  <2>2. /\ loaded \in EntryType /\ loaded.kernel = k /\ loaded.size = Size[k]
        /\ loaded.offset = e.offset /\ loaded.sync = tag /\ loaded.kid = NoEntry
    BY ONLY <1>3, <2>1 DEF EntryType, CmLoadKernel, NoEntry
  <2>3. CmFreeKernel(e) \in EntryType /\ CmFreeKernel(e).kernel = NoKernel
        /\ CmFreeKernel(e).size = 0
    BY <1>3, FreedEntry, Zenon
  <2>4. /\ rest \in EntryType /\ rest.kernel = NoKernel /\ rest.size = 0
        /\ rest.offset = e.offset + Size[k]
    BY ONLY <2>1, <2>3 DEF EntryType
  <2> QED BY <2>2, <2>4
<1>6. g = IF h.n < MaxEntries THEN split ELSE whole
  BY <1>4, Zenon DEF CmAddCurrentKerenelToFreeSlot, e
<1> HIDE DEF loaded, rest
<1>7. Append(h.used, k) \in Seq(Kernels)
  BY <1>0, AppendKeeps, Zenon
<1>8. CASE h.n < MaxEntries
  <2>1. /\ DOMAIN split = HeapFields
        /\ split.alloc = InsertAfter(h.alloc, slot, h.n, loaded, rest)
        /\ split.total = InsertAfter(h.total, slot, h.n, Size[k], h.total[slot] - Size[k])
        /\ split.n = h.n + 1 /\ split.used = Append(h.used, k)
        /\ split.phantom = h.phantom
    BY <1>0 DEF HeapFields
  <2>0. split = [h EXCEPT
             !.alloc = InsertAfter(@, slot, h.n, loaded, rest),
             !.total = InsertAfter(@, slot, h.n, Size[k], @[slot] - Size[k]),
             !.n = @ + 1, !.used = Append(@, k)]
    OBVIOUS
  <2> HIDE DEF split
  <2>2. split = [alloc |-> split.alloc, total |-> split.total, n |-> split.n,
                 used |-> split.used, phantom |-> split.phantom]
    BY <2>0, <2>1, Zenon DEF HeapFields
  <2>3. slot + 1 \in Entries /\ \A j \in Entries : slot + 1 < j => j - 1 \in Entries
    BY <1>0, <1>2, <1>8
  <2>4. \A j \in Entries :
          split.alloc[j] = CASE j = slot -> loaded
                             [] j = slot + 1 -> rest
                             [] slot + 1 < j /\ j <= h.n -> h.alloc[j - 1]
                             [] OTHER -> h.alloc[j]
    BY <2>1 DEF InsertAfter
  <2>5. \A j \in Entries :
          split.total[j] = CASE j = slot -> Size[k]
                             [] j = slot + 1 -> h.total[slot] - Size[k]
                             [] slot + 1 < j /\ j <= h.n -> h.total[j - 1]
                             [] OTHER -> h.total[j]
    BY <2>1 DEF InsertAfter
  <2>6. split.alloc \in [Entries -> EntryType]
    <3>1. \A j \in Entries : split.alloc[j] \in EntryType
      BY <1>0, <1>5, <2>3, <2>4, ZenonT(60)
    <3> QED BY <2>1, <3>1 DEF InsertAfter
  <2>7. split.total \in [Entries -> Nat]
    <3>1. h.total[slot] - Size[k] \in Nat
      BY <1>0, <1>2
    <3>2. \A j \in Entries : split.total[j] \in Nat
      BY <1>0, <2>3, <2>5, <3>1
    <3> QED BY <2>1, <3>2 DEF InsertAfter
  <2>8. split \in HeapType
    <3>1. split.n \in 1 .. MaxEntries
      BY <1>0, <1>8, <2>1
    <3> QED BY ONLY <1>0, <1>7, <2>1, <2>2, <2>6, <2>7, <3>1 DEF HeapType
  <2>9. slot # slot + 1 /\ ~(slot + 1 < slot) /\ ~(slot + 1 < slot + 1)
    BY <1>2
  <2>10. SplitAt(h, split, slot, k)
    <3>1. /\ split.alloc[slot] = loaded /\ split.total[slot] = Size[k]
          /\ split.alloc[slot + 1] = rest
          /\ split.total[slot + 1] = h.total[slot] - Size[k]
      BY ONLY <1>2, <2>3, <2>4, <2>5, <2>9
    <3>2. ASSUME NEW j \in Entries, j < slot
          PROVE  split.alloc[j] = h.alloc[j] /\ split.total[j] = h.total[j]
      <4>1. j # slot /\ j # slot + 1 /\ ~(slot + 1 < j)
        BY <1>0, <1>2, <3>2
      <4> QED BY ONLY <2>4, <2>5, <4>1, j \in Entries
    <3>3. ASSUME NEW j \in Entries, slot + 1 < j, j <= h.n
          PROVE  split.alloc[j] = h.alloc[j - 1] /\ split.total[j] = h.total[j - 1]
      <4>1. j # slot /\ j # slot + 1
        BY <1>0, <1>2, <3>3
      <4> QED BY ONLY <2>4, <2>5, <3>3, <4>1, j \in Entries
    <3> QED BY ONLY <1>5, <2>1, <3>1, <3>2, <3>3 DEF SplitAt, e
  <2>11. TableInv(split) /\ LoadedInto(h, split, slot, k) /\ AllStay(h, split)
    BY <1>1, <1>8, <2>8, <2>10, SplitSlot, SplitStays, Zenon
  <2>12. split.alloc[slot].sync = tag /\ split.alloc[slot].kid = NoEntry
    BY ONLY <1>2, <1>5, <2>4
  <2> QED BY <1>2, <1>6, <1>8, <2>11, <2>12, Zenon DEF slot
<1>9. CASE ~(h.n < MaxEntries)
  <2>1. /\ DOMAIN whole = HeapFields /\ whole.alloc = [h.alloc EXCEPT ![slot] = loaded]
        /\ whole.total = h.total /\ whole.n = h.n /\ whole.used = Append(h.used, k)
        /\ whole.phantom = h.phantom
    BY <1>0 DEF HeapFields
  <2>0. whole = [h EXCEPT !.alloc[slot] = loaded, !.used = Append(@, k)]
    OBVIOUS
  <2> HIDE DEF whole
  <2>2. whole = [alloc |-> whole.alloc, total |-> whole.total, n |-> whole.n,
                 used |-> whole.used, phantom |-> whole.phantom]
    BY <2>0, <2>1, Zenon DEF HeapFields
  <2>3. whole.alloc \in [Entries -> EntryType]
    BY <1>0, <1>5, <2>1
  <2>4. whole \in HeapType
    BY ONLY <1>0, <1>7, <2>1, <2>2, <2>3 DEF HeapType
  <2>5. WholeAt(h, whole, slot, k)
    BY ONLY <1>0, <1>2, <1>5, <2>1 DEF WholeAt, e
  <2>6. TableInv(whole) /\ LoadedInto(h, whole, slot, k) /\ AllStay(h, whole)
    BY <1>1, <2>4, <2>5, WholeSlot, WholeStays, Zenon
  <2>7. whole.alloc[slot].sync = tag /\ whole.alloc[slot].kid = NoEntry
    BY ONLY <1>0, <1>2, <1>5, <2>1
  <2> QED BY <1>2, <1>6, <1>9, <2>6, <2>7, Zenon DEF slot
<1> QED BY <1>8, <1>9, Zenon

\* Table g is h without the kernel of entry i: regions m to m + d have become
\* one, which may have taken what region m - 1 did not use.
Merged(h, g, i, m, d) ==
    /\ g.n = h.n - d /\ m + d < h.n /\ i \in m .. m + d
    /\ \A e \in m .. m + d : e # i => h.alloc[e].kernel = NoKernel
    /\ g.used = RemoveAt(h.used, Place(h, h.alloc[i].kernel))
    /\ g.alloc[m].kernel = NoKernel /\ g.alloc[m].size = 0
    /\ g.alloc[m].offset + g.total[m] = h.alloc[m + d].offset + h.total[m + d]
    /\ IF m = 0 THEN g.alloc[m].offset = h.alloc[m].offset
       ELSE /\ g.alloc[m - 1].offset + g.total[m - 1] = g.alloc[m].offset
            /\ g.total[m - 1] \in {h.total[m - 1], h.alloc[m - 1].size}
    /\ \A j \in Entries : j < m => g.alloc[j] = h.alloc[j]
    /\ \A j \in Entries : j + 1 < m => g.total[j] = h.total[j]
    /\ \A j \in Entries : m < j /\ j < h.n - d =>
         g.alloc[j] = h.alloc[j + d] /\ g.total[j] = h.total[j + d]

\* The other kernels stay where they are.
StillLoaded(h, g) ==
    \A j \in Used(g) : \E e \in Used(h) :
      /\ g.alloc[j].kernel = h.alloc[e].kernel
      /\ g.alloc[j].offset = h.alloc[e].offset

\* Table g has the kernels of h, but for that of entry i.
AllBut(h, g, i) ==
    /\ \A j \in Used(g) : \E e \in Used(h) : e # i /\ g.alloc[j] = h.alloc[e]
    /\ \A e \in Used(h) : e # i => \E j \in Used(g) : g.alloc[j] = h.alloc[e]

LEMMA MergedTable ==
  ASSUME NEW h, TableInv(h), NEW i \in Used(h), NEW g, g \in HeapType,
         NEW m \in Nat, NEW d \in Nat, Merged(h, g, i, m, d)
  PROVE  TableInv(g) /\ StillLoaded(h, g) /\ AllBut(h, g, i)
<1> DEFINE n == h.n
           off == [j \in Entries |-> h.alloc[j].offset]
           tot == h.total
           new == [j \in Entries |-> g.alloc[j].offset]
           cut == g.total
<1>0. /\ h.n \in 1 .. MaxEntries /\ h.alloc \in [Entries -> EntryType]
      /\ h.total \in [Entries -> Nat] /\ h.used \in Seq(Kernels)
      /\ Entries = 0 .. MaxEntries - 1 /\ MaxEntries \in Nat \ {0}
      /\ NoKernel \notin Kernels
  BY UsedTyped
<1>1. g.alloc \in [Entries -> EntryType] /\ g.total \in [Entries -> Nat]
  BY DEF HeapType
<1>2. /\ \A j \in Entries : j \in Nat /\ j < MaxEntries
      /\ \A j \in Nat : j < MaxEntries => j \in Entries
      /\ n \in Nat /\ n <= MaxEntries /\ MaxEntries \in Nat
      /\ g.n = n - d /\ m \in Nat /\ d \in Nat /\ m + d < n
  BY <1>0, SMTT(40) DEF Merged
<1>3. /\ \A j \in Entries : off[j] \in Int /\ tot[j] \in Nat
      /\ \A j \in Entries : new[j] \in Int /\ cut[j] \in Nat
  BY <1>0, <1>1 DEF EntryType
<1>4. /\ \A j \in Entries : off[j] = h.alloc[j].offset
      /\ \A j \in Entries : new[j] = g.alloc[j].offset
  OBVIOUS
<1> HIDE DEF n, off, tot, new, cut
<1>5. \A j \in Entries : j < n - d =>
        \/ j + 1 < m \/ (j + 1 = m /\ j = m - 1) \/ j = m
        \/ m < j /\ j + d \in Entries /\ j + d < n
  BY ONLY <1>2
<1>6. Sized(g)
  <2> SUFFICES ASSUME NEW j \in Entries, j < n - d
               PROVE  /\ g.alloc[j].size <= g.total[j]
                      /\ g.alloc[j].size =
                           IF g.alloc[j].kernel = NoKernel THEN 0
                           ELSE Size[g.alloc[j].kernel]
    BY <1>2, Zenon DEF Sized, bIsFree
  <2>0. /\ Sized(h) /\ g.alloc[j].size \in Nat /\ g.total[j] \in Nat
        /\ h.alloc[j].size \in Nat
    BY <1>0, <1>1 DEF TableInv, EntryType
  <2>1. CASE j + 1 < m
    <3>1. j < n /\ j < m
      BY ONLY <1>2, <2>1, j \in Entries
    <3> QED BY ONLY <2>0, <2>1, <3>1, j \in Entries, Merged(h, g, i, m, d)
            DEF bIsFree, Sized, Merged, n
  <2>2. CASE j + 1 = m /\ j = m - 1
    <3>1. j < n /\ j < m /\ m # 0
      BY ONLY <1>2, <2>2, j \in Entries
    <3>2. g.alloc[j] = h.alloc[j] /\ g.total[j] \in {h.total[j], h.alloc[j].size}
      BY ONLY <2>2, <3>1, j \in Entries, Merged(h, g, i, m, d) DEF Merged
    <3> QED BY ONLY <2>0, <3>1, <3>2, j \in Entries DEF bIsFree, Sized, n
  <2>3. CASE j = m
    <3>1. g.alloc[m].kernel = NoKernel /\ g.alloc[m].size = 0
      BY Zenon DEF Merged
    <3>2. g.total[m] \in Nat
      BY <2>0, <2>3
    <3> QED BY ONLY <2>3, <3>1, <3>2
  <2>4. CASE m < j /\ j + d \in Entries /\ j + d < n
    BY ONLY <2>0, <2>4, j \in Entries, j < n - d, Merged(h, g, i, m, d)
       DEF bIsFree, Sized, Merged, n
  <2> QED BY <1>5, <2>1, <2>2, <2>3, <2>4, Zenon
<1>7. Tiled(g)
  <2>1. /\ 0 <= off[0] /\ off[n - 1] + tot[n - 1] <= HeapSize
        /\ \A j \in Entries : j + 1 < n => off[j] + tot[j] = off[j + 1]
    <3>1. /\ 0 \in Entries /\ n - 1 \in Entries
          /\ \A j \in Entries : j + 1 < n => j + 1 \in Entries
      BY <1>2
    <3> QED BY ONLY <1>4, <3>1, TableInv(h) DEF TableInv, Tiled, n, tot
  <2>2. /\ new[m] + cut[m] = off[m + d] + tot[m + d]
        /\ m = 0 => new[m] = off[m]
        /\ m # 0 => new[m - 1] + cut[m - 1] = new[m]
        /\ \A j \in Entries : j < m => new[j] = off[j]
        /\ \A j \in Entries : j + 1 < m => cut[j] = tot[j]
        /\ \A j \in Entries : m < j /\ j < n - d =>
             new[j] = off[j + d] /\ cut[j] = tot[j + d]
    <3>1. /\ \A j \in Entries : m < j /\ j < n - d => j + d \in Entries
          /\ m \in Entries /\ m + d \in Entries /\ (m # 0 => m - 1 \in Entries)
      BY ONLY <1>2
    <3> QED BY ONLY <1>4, <3>1, Merged(h, g, i, m, d) DEF Merged, n, tot, cut
  <2>3. 0 <= new[0]
    BY ONLY <1>2, <1>3, <2>1, <2>2
  <2>4. new[n - d - 1] + cut[n - d - 1] <= HeapSize
    <3>1. CASE m = n - d - 1
      <4>1. m + d = n - 1
        BY ONLY <1>2, <3>1
      <4> QED BY ONLY <2>1, <2>2, <3>1, <4>1
    <3>2. CASE m # n - d - 1
      <4>1. /\ n - d - 1 \in Entries /\ m < n - d - 1 /\ n - d - 1 < n - d
            /\ (n - d - 1) + d = n - 1
        BY ONLY <1>2, <3>2
      <4> QED BY ONLY <2>1, <2>2, <4>1
    <3> QED BY ONLY <3>1, <3>2
  <2>5. ASSUME NEW j \in Entries, j + 1 < n - d
        PROVE  new[j] + cut[j] = new[j + 1]
    <3>1. j \in Nat /\ j + 1 \in Entries
      BY ONLY <1>2, <2>5
    <3>2. CASE j + 1 < m
      BY ONLY <1>2, <1>3, <2>1, <2>2, <3>1, <3>2, j \in Entries
    <3>3. CASE j + 1 = m
      <4>1. j = m - 1 /\ m # 0
        BY ONLY <1>2, <3>1, <3>3
      <4> QED BY ONLY <2>2, <3>3, <4>1
    <3>4. CASE j = m
      <4>1. /\ m + d \in Entries /\ (m + d) + 1 < n /\ (m + 1) + d = (m + d) + 1
            /\ m < m + 1 /\ m + 1 < n - d
        BY ONLY <1>2, <2>5, <3>4
      <4>2. new[m + 1] = off[(m + d) + 1]
        BY ONLY <2>2, <3>1, <3>4, <4>1
      <4> QED BY ONLY <2>1, <2>2, <3>4, <4>1, <4>2
    <3>5. CASE m < j
      <4>1. /\ j + d \in Entries /\ (j + d) + 1 < n /\ (j + 1) + d = (j + d) + 1
            /\ m < j + 1 /\ j < n - d
        BY ONLY <1>2, <2>5, <3>1, <3>5
      <4>2. new[j + 1] = off[(j + d) + 1] /\ new[j] = off[j + d] /\ cut[j] = tot[j + d]
        BY ONLY <2>2, <2>5, <3>1, <3>5, <4>1
      <4> QED BY ONLY <2>1, <4>1, <4>2
    <3> QED BY ONLY <1>2, <3>1, <3>2, <3>3, <3>4, <3>5
  <2> QED
    <3>1. 0 \in Entries /\ n - d - 1 \in Entries /\ (n - d) - 1 = n - d - 1
      BY ONLY <1>2
    <3>2. \A j \in Entries : j + 1 < n - d => j + 1 \in Entries
      BY ONLY <1>2
    <3> QED BY ONLY <1>2, <1>4, <2>3, <2>4, <2>5, <3>1, <3>2 DEF Tiled, cut
<1> DEFINE src(j) == IF j < m THEN j ELSE j + d
<1>8. ASSUME NEW j \in Used(g)
      PROVE  src(j) \in Used(h) /\ g.alloc[j] = h.alloc[src(j)] /\ src(j) # i
  <2>1. j \in Entries /\ j < n - d /\ g.alloc[j].kernel # NoKernel
    BY <1>2 DEF Used, bIsFree
  <2>2. j # m
    BY <2>1 DEF Merged
  <2>3. i \in Nat /\ m <= i /\ i <= m + d
    BY <1>2 DEF Merged
  <2>4. CASE j < m
    <3>1. src(j) = j /\ j < n /\ src(j) # i
      BY ONLY <1>2, <2>1, <2>3, <2>4
    <3> QED BY ONLY <2>1, <2>4, <3>1, Merged(h, g, i, m, d) DEF Used, bIsFree, Merged, n
  <2>5. CASE m < j
    <3>1. src(j) = j + d /\ j + d \in Entries /\ j + d < n /\ src(j) # i
      BY ONLY <1>2, <2>1, <2>3, <2>5
    <3> QED BY ONLY <2>1, <2>5, <3>1, Merged(h, g, i, m, d) DEF Used, bIsFree, Merged, n
  <2> QED BY ONLY <1>2, <2>1, <2>2, <2>4, <2>5
<1>9. \A e, j \in Used(g) : src(e) = src(j) => e = j
  <2> SUFFICES ASSUME NEW e \in Used(g), NEW j \in Used(g), src(e) = src(j)
               PROVE  e = j
    OBVIOUS
  <2>1. e \in Nat /\ j \in Nat
    BY <1>2 DEF Used
  <2> QED BY ONLY <1>2, <2>1, src(e) = src(j)
<1> HIDE DEF src
<1>10. Known(g)
  <2> DEFINE k == h.alloc[i].kernel
             r == RemoveAt(h.used, Place(h, k))
  <2>0. Known(h) /\ g.used = r
    BY DEF TableInv, Merged
  <2>1. \A p \in DOMAIN h.used : h.used[p] # k => \E q \in DOMAIN r : r[q] = h.used[p]
    <3>1. k \in Kernels
      BY UsedTyped
    <3> QED BY <3>1, UseAgain, Zenon
  <2> HIDE DEF r
  <2>2. ASSUME NEW j \in Used(g)
        PROVE  \E p \in DOMAIN g.used : g.used[p] = g.alloc[j].kernel
    <3>1. PICK p \in DOMAIN h.used : h.used[p] = h.alloc[src(j)].kernel
      BY <1>8, <2>0 DEF Known
    <3>2. h.used[p] # k
      BY <1>8, <2>0, <3>1 DEF Known
    <3> QED BY <1>8, <2>0, <2>1, <3>1, <3>2
  <2>3. ASSUME NEW e \in Used(g), NEW j \in Used(g),
               g.alloc[e].kernel = g.alloc[j].kernel
        PROVE  e = j
    <3>1. src(e) = src(j)
      BY <1>8, <2>0, <2>3 DEF Known
    <3> QED BY <1>9, <3>1
  <2> QED BY <2>2, <2>3 DEF Known
<1>11. ASSUME NEW e \in Used(h), e # i
       PROVE  \E j \in Used(g) : g.alloc[j] = h.alloc[e]
  <2>1. e \in Entries /\ e < n /\ h.alloc[e].kernel # NoKernel /\ e \in Nat
    BY <1>2 DEF Used, bIsFree, n
  <2>2. ~(m <= e /\ e <= m + d)
    <3>1. e \notin m .. m + d
      BY ONLY <1>11, <2>1, Merged(h, g, i, m, d) DEF Merged
    <3> QED BY ONLY <1>2, <2>1, <3>1
  <2>3. CASE e < m
    <3>1. e < g.n
      BY ONLY <1>2, <2>1, <2>3
    <3>2. g.alloc[e] = h.alloc[e]
      BY ONLY <2>1, <2>3, Merged(h, g, i, m, d) DEF Merged
    <3> QED BY ONLY <2>1, <3>1, <3>2 DEF Used, bIsFree
  <2>4. CASE m + d < e
    <3>1. /\ e - d \in Entries /\ m < e - d /\ e - d < n - d /\ (e - d) + d = e
          /\ e - d < g.n
      BY ONLY <1>2, <2>1, <2>4
    <3>2. g.alloc[e - d] = h.alloc[e]
      BY ONLY <3>1, Merged(h, g, i, m, d) DEF Merged, n
    <3> QED BY ONLY <2>1, <3>1, <3>2 DEF Used, bIsFree
  <2> QED BY ONLY <1>2, <2>1, <2>2, <2>3, <2>4
<1>12. AllBut(h, g, i)
  BY <1>8, <1>11 DEF AllBut
<1> QED BY <1>6, <1>7, <1>8, <1>10, <1>12 DEF TableInv, StillLoaded

\* There is a free region before entry i, or behind it.
Before(h, i) == i > 0 /\ bIsFree(h, i - 1)
Behind(h, i) == i < MaxEntries - 1 /\ bIsFree(h, i + 1)

\* The fields of a table, and nothing else.
IsTable(t) ==
    t = [alloc |-> t.alloc, total |-> t.total, n |-> t.n, used |-> t.used,
         phantom |-> t.phantom]

\* Table h without the kernel of entry i, before its regions are joined.
Unloaded(h, i) ==
    [h EXCEPT !.alloc[i] = CmFreeKernel(@),
              !.used = RemoveAt(@, Place(h, h.alloc[i].kernel)),
              !.phantom = @ \/ (Behind(h, i) /\ i + 1 >= h.n)]

LEMMA UnloadedFields ==
  ASSUME NEW h, DOMAIN h = HeapFields, NEW i
  PROVE  LET u == Unloaded(h, i) IN
         /\ DOMAIN u = HeapFields /\ u.n = h.n /\ u.total = h.total
         /\ u.alloc = [h.alloc EXCEPT ![i] = CmFreeKernel(@)]
         /\ u.used = RemoveAt(h.used, Place(h, h.alloc[i].kernel))
         /\ u.phantom = (h.phantom \/ (Behind(h, i) /\ i + 1 >= h.n))
         /\ IsTable(u)
<1> DEFINE u == Unloaded(h, i)
<1>1. /\ DOMAIN u = HeapFields /\ u.n = h.n /\ u.total = h.total
      /\ u.alloc = [h.alloc EXCEPT ![i] = CmFreeKernel(@)]
      /\ u.used = RemoveAt(h.used, Place(h, h.alloc[i].kernel))
      /\ u.phantom = (h.phantom \/ (Behind(h, i) /\ i + 1 >= h.n))
  BY DEF Unloaded, HeapFields
<1>2. u = [h EXCEPT !.alloc[i] = CmFreeKernel(@),
                    !.used = RemoveAt(@, Place(h, h.alloc[i].kernel)),
                    !.phantom = @ \/ (Behind(h, i) /\ i + 1 >= h.n)]
  BY Zenon DEF Unloaded
<1> HIDE DEF u
<1>3. IsTable(u)
  BY <1>1, <1>2, Zenon DEF IsTable, HeapFields
<1> QED BY <1>1, <1>3, Zenon DEF u

LEMMA RemainderFields ==
  ASSUME NEW t, DOMAIN t = HeapFields, IsTable(t), NEW i
  PROVE  LET g == TakeRemainder(t, i)
             shift == t.total[i - 1] - t.alloc[i - 1].size IN
         /\ DOMAIN g = HeapFields /\ g.n = t.n /\ g.used = t.used
         /\ g.phantom = t.phantom
         /\ i = 0 => g.alloc = t.alloc /\ g.total = t.total
         /\ i # 0 => /\ g.alloc = [t.alloc EXCEPT ![i].offset = @ - shift]
                     /\ g.total = [[t.total EXCEPT ![i - 1] = @ - shift]
                                     EXCEPT ![i] = @ + shift]
         /\ IsTable(g)
<1> DEFINE g == TakeRemainder(t, i)
           shift == t.total[i - 1] - t.alloc[i - 1].size
<1>1. g = IF i = 0 THEN t
          ELSE [t EXCEPT !.total[i - 1] = @ - shift, !.total[i] = @ + shift,
                         !.alloc[i].offset = @ - shift]
  BY Zenon DEF TakeRemainder
<1> HIDE DEF g, shift
<1>2. /\ DOMAIN g = HeapFields /\ g.n = t.n /\ g.used = t.used
      /\ g.phantom = t.phantom
      /\ i = 0 => g.alloc = t.alloc /\ g.total = t.total
      /\ i # 0 => /\ g.alloc = [t.alloc EXCEPT ![i].offset = @ - shift]
                  /\ g.total = [[t.total EXCEPT ![i - 1] = @ - shift]
                                  EXCEPT ![i] = @ + shift]
  <2>1. CASE i = 0
    BY <1>1, <2>1
  <2>2. CASE i # 0
    <3>1. g = [t EXCEPT !.total[i - 1] = @ - shift, !.total[i] = @ + shift,
                         !.alloc[i].offset = @ - shift]
      BY <1>1, <2>2
    <3> QED BY ONLY <2>2, <3>1, DOMAIN t = HeapFields DEF HeapFields
  <2> QED BY <2>1, <2>2
<1>3. IsTable(g)
  <2>1. CASE i = 0
    BY <1>1, <2>1, Zenon
  <2>2. CASE i # 0
    <3>1. g = [t EXCEPT !.total[i - 1] = @ - shift, !.total[i] = @ + shift,
                         !.alloc[i].offset = @ - shift]
      BY <1>1, <2>2, Zenon
    <3> QED BY <1>2, <3>1, Zenon DEF IsTable, HeapFields
  <2> QED BY <2>1, <2>2
<1> QED BY <1>2, <1>3, Zenon DEF g, shift

LEMMA JoinedIsTable ==
  ASSUME NEW t, DOMAIN t = HeapFields, NEW a, NEW b, NEW c
  PROVE  IsTable([t EXCEPT !.total = a, !.alloc = b, !.n = c])
<1> DEFINE g == [t EXCEPT !.total = a, !.alloc = b, !.n = c]
<1>1. DOMAIN g = HeapFields
  BY DEF HeapFields
<1>2. g = [t EXCEPT !.total = a, !.alloc = b, !.n = c]
  OBVIOUS
<1> HIDE DEF g
<1>3. IsTable(g)
  BY <1>1, <1>2, Zenon DEF IsTable, HeapFields
<1> QED BY <1>3 DEF g

\* The four cases of CmDeleteOldestKernel.
LEMMA DeleteCases ==
  ASSUME NEW h, DOMAIN h = HeapFields, NEW i
  PROVE  LET g == CmDeleteOldestKernel(h, i)
             u == Unloaded(h, i)
             v == [u EXCEPT !.total[i] = @ + h.total[i + 1]] IN
         /\ DOMAIN g = HeapFields /\ g.used = u.used /\ g.phantom = u.phantom
         /\ IsTable(g)
         /\ Before(h, i) /\ Behind(h, i) =>
              /\ g.n = h.n - 2
              /\ g.alloc = CloseGap(u.alloc, i, h.n - 3, 2, FreshEntry)
              /\ g.total = CloseGap([h.total EXCEPT
                                       ![i - 1] = @ + h.total[i] + h.total[i + 1]],
                                    i, h.n - 3, 2, 0)
         /\ Before(h, i) /\ ~Behind(h, i) =>
              /\ g.n = h.n - 1
              /\ g.alloc = CloseGap(u.alloc, i, h.n - 2, 1, FreshEntry)
              /\ g.total = CloseGap([h.total EXCEPT ![i - 1] = @ + h.total[i]],
                                    i, h.n - 2, 1, 0)
         /\ ~Before(h, i) /\ Behind(h, i) =>
              /\ DOMAIN v = HeapFields /\ IsTable(v) /\ v.alloc = u.alloc
              /\ v.total = [h.total EXCEPT ![i] = @ + h.total[i + 1]]
              /\ g.n = h.n - 1
              /\ g.alloc = CloseGap(TakeRemainder(v, i).alloc,
                                    i + 1, h.n - 1, 1, FreshEntry)
              /\ g.total = CloseGap(TakeRemainder(v, i).total, i + 1, h.n - 1, 1, 0)
         /\ ~Before(h, i) /\ ~Behind(h, i) =>
              /\ g.n = h.n /\ g.alloc = TakeRemainder(u, i).alloc
              /\ g.total = TakeRemainder(u, i).total
<1> DEFINE g == CmDeleteOldestKernel(h, i)
           u == Unloaded(h, i)
           v == [u EXCEPT !.total[i] = @ + h.total[i + 1]]
           t == TakeRemainder(v, i)
           w == TakeRemainder(u, i)
           three == [h.total EXCEPT ![i - 1] = @ + h.total[i] + h.total[i + 1]]
           two == [h.total EXCEPT ![i - 1] = @ + h.total[i]]
           A == [u EXCEPT
                !.total = CloseGap(three, i, h.n - 3, 2, 0),
                !.alloc = CloseGap(@, i, h.n - 3, 2, FreshEntry),
                !.n = @ - 2]
           B == [u EXCEPT
                !.total = CloseGap(two, i, h.n - 2, 1, 0),
                !.alloc = CloseGap(@, i, h.n - 2, 1, FreshEntry),
                !.n = @ - 1]
           C == [t EXCEPT
                !.total = CloseGap(@, i + 1, h.n - 1, 1, 0),
                !.alloc = CloseGap(@, i + 1, h.n - 1, 1, FreshEntry),
                !.n = @ - 1]
           x == [h EXCEPT !.alloc[i] = CmFreeKernel(@),
                       !.used = RemoveAt(@, Place(h, h.alloc[i].kernel))]
<1>0. x.phantom = h.phantom /\ u = [x EXCEPT !.phantom = @ \/ (Behind(h, i) /\ i + 1 >= h.n)]
  BY DEF Unloaded, HeapFields
<1>1. g = CASE Before(h, i) /\ Behind(h, i) -> A
            [] Before(h, i) /\ ~Behind(h, i) -> B
            [] ~Before(h, i) /\ Behind(h, i) -> C
            [] OTHER -> w
  <2> HIDE DEF u
  <2> QED BY <1>0, Zenon DEF CmDeleteOldestKernel, Before, Behind
<1> HIDE DEF g, x
<1>2. /\ DOMAIN u = HeapFields /\ u.n = h.n /\ u.total = h.total /\ IsTable(u)
  BY UnloadedFields, Zenon
<1> HIDE DEF u
<1>3. /\ DOMAIN v = HeapFields /\ v.n = h.n /\ v.used = u.used /\ v.phantom = u.phantom
      /\ v.alloc = u.alloc /\ v.total = [h.total EXCEPT ![i] = @ + h.total[i + 1]]
      /\ IsTable(v)
  <2>1. /\ DOMAIN v = HeapFields /\ v.n = h.n /\ v.used = u.used /\ v.phantom = u.phantom
        /\ v.alloc = u.alloc /\ v.total = [h.total EXCEPT ![i] = @ + h.total[i + 1]]
    BY <1>2 DEF HeapFields
  <2>2. v = [u EXCEPT !.total[i] = @ + h.total[i + 1]]
    OBVIOUS
  <2> HIDE DEF v
  <2>3. IsTable(v)
    BY <2>1, <2>2, Zenon DEF IsTable, HeapFields
  <2> QED BY <2>1, <2>3
<1> HIDE DEF v
<1>4. /\ DOMAIN t = HeapFields /\ t.n = v.n /\ t.used = v.used /\ t.phantom = v.phantom
      /\ IsTable(t)
  BY <1>3, RemainderFields, Zenon
<1>5. /\ DOMAIN w = HeapFields /\ w.n = u.n /\ w.used = u.used /\ w.phantom = u.phantom
      /\ IsTable(w)
  BY <1>2, RemainderFields, Zenon
<1> HIDE DEF t, w
<1>6. /\ DOMAIN A = HeapFields /\ A.n = h.n - 2 /\ A.used = u.used /\ A.phantom = u.phantom
      /\ A.alloc = CloseGap(u.alloc, i, h.n - 3, 2, FreshEntry)
      /\ A.total = CloseGap([h.total EXCEPT
                               ![i - 1] = @ + h.total[i] + h.total[i + 1]],
                            i, h.n - 3, 2, 0)
  <2> HIDE DEF three
  <2>1. /\ DOMAIN A = HeapFields /\ A.n = h.n - 2 /\ A.used = u.used /\ A.phantom = u.phantom
        /\ A.alloc = CloseGap(u.alloc, i, h.n - 3, 2, FreshEntry)
        /\ A.total = CloseGap(three, i, h.n - 3, 2, 0)
    BY <1>2 DEF HeapFields
  <2> HIDE DEF A
  <2> QED BY <1>2, <2>1, Zenon DEF three
<1>7. /\ DOMAIN B = HeapFields /\ B.n = h.n - 1 /\ B.used = u.used /\ B.phantom = u.phantom
      /\ B.alloc = CloseGap(u.alloc, i, h.n - 2, 1, FreshEntry)
      /\ B.total = CloseGap([h.total EXCEPT ![i - 1] = @ + h.total[i]], i, h.n - 2, 1, 0)
  <2> HIDE DEF two
  <2>1. /\ DOMAIN B = HeapFields /\ B.n = h.n - 1 /\ B.used = u.used /\ B.phantom = u.phantom
        /\ B.alloc = CloseGap(u.alloc, i, h.n - 2, 1, FreshEntry)
        /\ B.total = CloseGap(two, i, h.n - 2, 1, 0)
    BY <1>2 DEF HeapFields
  <2> HIDE DEF B
  <2> QED BY <1>2, <2>1, Zenon DEF two
<1>8. /\ DOMAIN C = HeapFields /\ C.n = h.n - 1 /\ C.used = u.used /\ C.phantom = u.phantom
      /\ C.alloc = CloseGap(t.alloc, i + 1, h.n - 1, 1, FreshEntry)
      /\ C.total = CloseGap(t.total, i + 1, h.n - 1, 1, 0)
  BY <1>3, <1>4 DEF HeapFields
<1>13. IsTable(A) /\ IsTable(B) /\ IsTable(C)
  BY <1>2, <1>4, JoinedIsTable, Zenon
<1> HIDE DEF A, B, C
<1>9. /\ Before(h, i) /\ Behind(h, i) => g = A
      /\ Before(h, i) /\ ~Behind(h, i) => g = B
      /\ ~Before(h, i) /\ Behind(h, i) => g = C
      /\ ~Before(h, i) /\ ~Behind(h, i) => g = w
  BY <1>1, Zenon
<1>10. g = A \/ g = B \/ g = C \/ g = w
  BY <1>9, Zenon
<1>11. DOMAIN g = HeapFields /\ g.used = u.used /\ g.phantom = u.phantom /\ IsTable(g)
  BY <1>5, <1>6, <1>7, <1>8, <1>10, <1>13, Zenon
<1>12. ~Before(h, i) /\ ~Behind(h, i) => g.n = h.n
  BY <1>2, <1>5, <1>9, Zenon
<1> USE DEF t, w
<1> QED BY <1>3, <1>6, <1>7, <1>8, <1>9, <1>11, <1>12, Zenon DEF g, u, v

LEMMA CloseGapTyped ==
  ASSUME NEW S, NEW f \in [Entries -> S], NEW beyond \in S,
         NEW from \in Int, NEW last \in Int, NEW d \in Nat,
         NEW g, g = CloseGap(f, from, last, d, beyond)
  PROVE  g \in [Entries -> S]
  BY DEF CloseGap, EntryAt

\* Deleting a kernel leaves a table, if it looks at no entry behind the last.
LEMMA DeleteTable ==
  ASSUME NEW h, TableInv(h), NEW i \in Used(h), ~CmDeleteOldestKernel(h, i).phantom
  PROVE  /\ ~h.phantom
         /\ TableInv(CmDeleteOldestKernel(h, i))
         /\ StillLoaded(h, CmDeleteOldestKernel(h, i))
         /\ AllBut(h, CmDeleteOldestKernel(h, i), i)
<1> DEFINE g == CmDeleteOldestKernel(h, i)
           u == Unloaded(h, i)
           v == [u EXCEPT !.total[i] = @ + h.total[i + 1]]
           n == h.n
           f == u.alloc
<1>0. /\ h.n \in 1 .. MaxEntries /\ h.alloc \in [Entries -> EntryType]
      /\ h.total \in [Entries -> Nat] /\ h.used \in Seq(Kernels)
      /\ Entries = 0 .. MaxEntries - 1 /\ MaxEntries \in Nat \ {0}
      /\ NoKernel \notin Kernels /\ DOMAIN h = HeapFields /\ h.phantom \in BOOLEAN
      /\ i \in Entries /\ i < h.n /\ h.alloc[i].kernel \in Kernels
  BY UsedTyped
<1>1. /\ \A j \in Entries : j \in Nat /\ j < MaxEntries
      /\ \A j \in Nat : j < MaxEntries => j \in Entries
      /\ n \in Nat /\ n <= MaxEntries /\ MaxEntries \in Nat
      /\ i \in Nat /\ i < n /\ i \in Entries
  BY <1>0
<1>2. /\ DOMAIN g = HeapFields /\ g.used = u.used /\ g.phantom = u.phantom
      /\ IsTable(g)
  BY <1>0, DeleteCases, ZenonT(40)
<1>3. /\ u.alloc = [h.alloc EXCEPT ![i] = CmFreeKernel(@)]
      /\ u.used = RemoveAt(h.used, Place(h, h.alloc[i].kernel))
      /\ u.phantom = (h.phantom \/ (Behind(h, i) /\ i + 1 >= h.n))
      /\ DOMAIN u = HeapFields /\ IsTable(u) /\ u.n = h.n /\ u.total = h.total
  BY <1>0, UnloadedFields, Zenon
<1>4. ~h.phantom /\ (Behind(h, i) => i + 1 < n)
  <2>1. ~(h.phantom \/ (Behind(h, i) /\ i + 1 >= h.n))
    BY <1>2, <1>3
  <2> QED BY <1>1, <2>1
<1> HIDE DEF g, u, n
<1>5. u.used \in Seq(Kernels)
  <2>1. RemoveAt(h.used, Place(h, h.alloc[i].kernel)) \in Seq(Kernels)
    BY <1>0, UseAgain, Zenon
  <2> QED BY <1>3, <2>1
<1>6. /\ f \in [Entries -> EntryType]
      /\ f[i].kernel = NoKernel /\ f[i].size = 0 /\ f[i].offset = h.alloc[i].offset
      /\ \A j \in Entries : j # i => f[j] = h.alloc[j]
  <2>1. h.alloc[i] \in EntryType
    BY <1>0
  <2>2. /\ CmFreeKernel(h.alloc[i]) \in EntryType
        /\ CmFreeKernel(h.alloc[i]).kernel = NoKernel
        /\ CmFreeKernel(h.alloc[i]).size = 0
        /\ CmFreeKernel(h.alloc[i]).offset = h.alloc[i].offset
    BY <2>1, FreedEntry, Zenon
  <2> QED BY <1>0, <1>3, <2>2
<1> HIDE DEF f
<1>7. FreshEntry \in EntryType /\ 0 \in Nat
  BY DEF FreshEntry, EntryType, NoEntry
<1>8. /\ \A j \in Entries : /\ h.alloc[j].offset \in Int /\ h.total[j] \in Nat
                            /\ h.alloc[j].size \in Nat
      /\ \A j \in Entries : j + 1 < n =>
           h.alloc[j].offset + h.total[j] = h.alloc[j + 1].offset
      /\ \A j \in Entries : j < n /\ h.alloc[j].kernel = NoKernel => h.alloc[j].size = 0
      /\ \A j \in Entries : j < n => h.alloc[j].size <= h.total[j]
  BY <1>0 DEF EntryType, TableInv, Tiled, Sized, bIsFree, n
<1>9. ASSUME NEW m \in Nat, NEW d \in Nat, Merged(h, g, i, m, d),
             g.alloc \in [Entries -> EntryType], g.total \in [Entries -> Nat]
      PROVE  TableInv(g) /\ StillLoaded(h, g) /\ AllBut(h, g, i)
  <2>1. g.n \in 1 .. MaxEntries
    <3>1. g.n = n - d /\ m + d < n
      BY <1>9 DEF Merged, n
    <3> QED BY ONLY <1>1, <3>1, m \in Nat, d \in Nat
  <2>2. g.used \in Seq(Kernels) /\ g.phantom \in BOOLEAN
    BY <1>0, <1>2, <1>3, <1>5
  <2>3. g \in HeapType
    BY ONLY <1>2, <1>9, <2>1, <2>2 DEF IsTable, HeapType
  <2> QED BY <1>9, <2>3, MergedTable, Zenon
<1>10. PICK z \in Nat : z = 0
  OBVIOUS
<1>11. CASE Before(h, i)
  <2>0. PICK d \in Nat : d = IF Behind(h, i) THEN 2 ELSE 1
    OBVIOUS
  <2> DEFINE grown == [h.total EXCEPT ![i - 1] =
                         IF Behind(h, i) THEN @ + h.total[i] + h.total[i + 1]
                                         ELSE @ + h.total[i]]
  <2>1. /\ g.n = n - d
        /\ g.alloc = CloseGap(f, i, n - 1 - d, d, FreshEntry)
        /\ g.total = CloseGap(grown, i, n - 1 - d, d, z)
    <3>1. CASE Behind(h, i)
      <4> DEFINE three == [h.total EXCEPT ![i - 1] = @ + h.total[i] + h.total[i + 1]]
      <4>1. /\ g.n = n - 2
            /\ g.alloc = CloseGap(f, i, n - 3, 2, FreshEntry)
            /\ g.total = CloseGap(three, i, n - 3, 2, 0)
        BY <1>0, <1>11, <3>1, DeleteCases, Zenon DEF g, f, u, n
      <4>2. grown = three
        BY <3>1
      <4>3. d = 2 /\ n - 1 - d = n - 3
        BY ONLY <1>1, <2>0, <3>1
      <4> HIDE DEF grown, three
      <4> QED BY ONLY <1>10, <4>1, <4>2, <4>3
    <3>2. CASE ~Behind(h, i)
      <4> DEFINE two == [h.total EXCEPT ![i - 1] = @ + h.total[i]]
      <4>1. /\ g.n = n - 1
            /\ g.alloc = CloseGap(f, i, n - 2, 1, FreshEntry)
            /\ g.total = CloseGap(two, i, n - 2, 1, 0)
        BY <1>0, <1>11, <3>2, DeleteCases, Zenon DEF g, f, u, n
      <4>2. grown = two
        BY <3>2
      <4>3. d = 1 /\ n - 1 - d = n - 2
        BY ONLY <1>1, <2>0, <3>2
      <4> HIDE DEF grown, two
      <4> QED BY ONLY <1>10, <4>1, <4>2, <4>3
    <3> QED BY <3>1, <3>2
  <2> DEFINE m == i - 1
             last == n - 1 - d
  <2>2. i > 0 /\ h.alloc[i - 1].kernel = NoKernel
    BY <1>11 DEF Before, bIsFree
  <2>3. /\ m \in Nat /\ m \in Entries /\ m + d \in Entries /\ m + d < n /\ m + 1 = i
        /\ m < i /\ m # i /\ last \in Int /\ i \in Int /\ last = n - 1 - d
        /\ i \in m .. m + d /\ (d = 2 => i + 1 < n)
    BY ONLY <1>1, <1>4, <2>0, <2>2
  <2>4. /\ grown \in [Entries -> Nat]
        /\ h.alloc[m].offset + grown[m] = h.alloc[m + d].offset + h.total[m + d]
        /\ \A j \in Entries : j # m => grown[j] = h.total[j]
    <3>1. /\ h.alloc[m].offset + h.total[m] = h.alloc[i].offset
          /\ d = 2 => /\ h.alloc[i].offset + h.total[i] = h.alloc[i + 1].offset
                      /\ i + 1 \in Entries
      BY ONLY <1>1, <1>8, <2>3
    <3>2. /\ h.alloc[m].offset \in Int /\ h.alloc[i].offset \in Int
          /\ h.alloc[m + d].offset \in Int /\ h.total[m] \in Nat
          /\ h.total[i] \in Nat /\ h.total[m + d] \in Nat
      BY ONLY <1>1, <1>8, <2>3
    <3>3. h.total \in [Entries -> Nat]
      BY <1>0
    <3>4. CASE Behind(h, i)
      <4>1. d = 2 /\ m + d = i + 1
        BY ONLY <1>1, <2>0, <2>3, <3>4
      <4>2. grown = [h.total EXCEPT ![m] = h.total[m] + h.total[i] + h.total[i + 1]]
        BY <3>4
      <4> HIDE DEF grown, m
      <4>3. h.total[m] + h.total[i] + h.total[i + 1] \in Nat
        BY ONLY <3>2, <4>1
      <4>4. grown[m] = h.total[m] + h.total[i] + h.total[i + 1]
        BY ONLY <2>3, <3>3, <4>2
      <4> QED BY ONLY <2>3, <3>1, <3>2, <3>3, <4>1, <4>2, <4>3, <4>4
    <3>5. CASE ~Behind(h, i)
      <4>1. d = 1 /\ m + d = i
        BY ONLY <1>1, <2>0, <2>3, <3>5
      <4>2. grown = [h.total EXCEPT ![m] = h.total[m] + h.total[i]]
        BY <3>5
      <4> HIDE DEF grown, m
      <4>3. h.total[m] + h.total[i] \in Nat
        BY ONLY <3>2, <4>1
      <4>4. grown[m] = h.total[m] + h.total[i]
        BY ONLY <2>3, <3>3, <4>2
      <4> QED BY ONLY <2>3, <3>1, <3>2, <3>3, <4>1, <4>2, <4>3, <4>4
    <3> QED BY <3>4, <3>5
  <2>5. h.alloc[m].kernel = NoKernel
    BY <2>2
  <2> HIDE DEF grown, m, last
  <2>6. /\ g.alloc = CloseGap(f, i, last, d, FreshEntry)
        /\ g.total = CloseGap(grown, i, last, d, z)
    BY <2>1 DEF last
  <2>7. /\ g.alloc \in [Entries -> EntryType]
        /\ \A j \in Entries : j < i => g.alloc[j] = f[j]
        /\ \A j \in Entries : i <= j /\ j <= last /\ j + d \in Entries =>
             g.alloc[j] = f[j + d]
    <3>1. ASSUME NEW c, c = CloseGap(f, i, last, d, FreshEntry)
          PROVE  /\ c \in [Entries -> EntryType]
                 /\ \A j \in Entries : j < i => c[j] = f[j]
                 /\ \A j \in Entries : i <= j /\ j <= last /\ j + d \in Entries =>
                      c[j] = f[j + d]
      <4>1. c \in [Entries -> EntryType]
        BY ONLY <1>6, <1>7, <2>3, <3>1, CloseGapTyped, d \in Nat, Zenon
      <4>2. ASSUME NEW j \in Entries, j < i PROVE c[j] = f[j]
        BY ONLY <1>1, <3>1, <4>2 DEF CloseGap
      <4>3. ASSUME NEW j \in Entries, i <= j, j <= last, j + d \in Entries
            PROVE  c[j] = f[j + d]
        BY ONLY <1>1, <3>1, <4>3 DEF CloseGap, EntryAt
      <4> QED BY ONLY <4>1, <4>2, <4>3, Zenon
    <3> QED BY ONLY <2>6, <3>1, Zenon
  <2>8. /\ g.total \in [Entries -> Nat]
        /\ \A j \in Entries : j < i => g.total[j] = grown[j]
        /\ \A j \in Entries : i <= j /\ j <= last /\ j + d \in Entries =>
             g.total[j] = grown[j + d]
    <3>1. ASSUME NEW c, c = CloseGap(grown, i, last, d, z)
          PROVE  /\ c \in [Entries -> Nat]
                 /\ \A j \in Entries : j < i => c[j] = grown[j]
                 /\ \A j \in Entries : i <= j /\ j <= last /\ j + d \in Entries =>
                      c[j] = grown[j + d]
      <4>1. c \in [Entries -> Nat]
        BY ONLY <2>3, <2>4, <3>1, CloseGapTyped, d \in Nat, z \in Nat, Zenon
      <4>2. ASSUME NEW j \in Entries, j < i PROVE c[j] = grown[j]
        BY ONLY <1>1, <3>1, <4>2 DEF CloseGap
      <4>3. ASSUME NEW j \in Entries, i <= j, j <= last, j + d \in Entries
            PROVE  c[j] = grown[j + d]
        BY ONLY <1>1, <3>1, <4>3 DEF CloseGap, EntryAt
      <4> QED BY ONLY <4>1, <4>2, <4>3, Zenon
    <3> QED BY ONLY <2>6, <3>1, Zenon
  <2>9. g.alloc[m] = h.alloc[m] /\ g.total[m] = grown[m]
    BY ONLY <1>6, <2>3, <2>7, <2>8
  <2>10. ASSUME NEW j \in Entries, m < j, j < n - d
         PROVE  g.alloc[j] = h.alloc[j + d] /\ g.total[j] = h.total[j + d]
    <3>1. i <= j /\ j <= last /\ j + d \in Entries /\ j + d # i /\ j + d # m
      BY ONLY <1>1, <2>0, <2>3, <2>10
    <3> QED BY ONLY <1>6, <2>4, <2>7, <2>8, <3>1, j \in Entries
  <2>11. ASSUME NEW j \in Entries, j < m
         PROVE  g.alloc[j] = h.alloc[j] /\ g.total[j] = h.total[j]
    <3>1. j < i /\ j # i /\ j # m
      BY ONLY <1>1, <2>3, <2>11
    <3> QED BY ONLY <1>6, <2>4, <2>7, <2>8, <3>1, j \in Entries
  <2>12. m # 0 =>
           /\ g.alloc[m - 1].offset + g.total[m - 1] = g.alloc[m].offset
           /\ g.total[m - 1] = h.total[m - 1]
    <3> HAVE m # 0
    <3>1. m - 1 \in Entries /\ m - 1 < m /\ (m - 1) + 1 < n /\ (m - 1) + 1 = m
      BY ONLY <1>1, <2>0, <2>3, m # 0
    <3>2. g.alloc[m - 1] = h.alloc[m - 1] /\ g.total[m - 1] = h.total[m - 1]
      BY ONLY <2>11, <3>1
    <3>3. h.alloc[m - 1].offset + h.total[m - 1] = h.alloc[m].offset
      BY ONLY <1>8, <3>1
    <3> QED BY ONLY <2>9, <3>2, <3>3
  <2>13. Merged(h, g, i, m, d)
    <3>1. \A j \in Entries : j + 1 < m => j < m
      BY ONLY <1>1, <2>3
    <3>2. m < n
      BY ONLY <1>1, <2>3
    <3>3. h.alloc[m].size = 0
      BY ONLY <1>8, <2>3, <2>5, <3>2
    <3>4. ASSUME NEW e \in m .. m + d, e # i
          PROVE  h.alloc[e].kernel = NoKernel
      <4>1. CASE Behind(h, i)
        <5>1. h.alloc[i + 1].kernel = NoKernel
          BY <4>1 DEF Behind, bIsFree
        <5>2. e = m \/ e = i + 1
          BY ONLY <1>1, <2>0, <2>3, <3>4, <4>1
        <5> QED BY ONLY <2>5, <5>1, <5>2
      <4>2. CASE ~Behind(h, i)
        <5>1. e = m
          BY ONLY <1>1, <2>0, <2>3, <3>4, <4>2
        <5> QED BY ONLY <2>5, <5>1
      <4> QED BY <4>1, <4>2
    <3> QED BY ONLY <1>2, <1>3, <2>1, <2>3, <2>4, <2>5, <2>9, <2>10, <2>11, <2>12,
               <3>1, <3>3, <3>4 DEF Merged, n
  <2> QED BY ONLY <1>4, <1>9, <2>3, <2>7, <2>8, <2>13, d \in Nat DEF g
<1>12. CASE ~Before(h, i)
  <2>0. PICK d \in Nat : d = IF Behind(h, i) THEN 1 ELSE 0
    OBVIOUS
  <2> DEFINE w == IF Behind(h, i) THEN v ELSE u
             R == TakeRemainder(w, i)
             a == R.alloc
             t == R.total
             shift == w.total[i - 1] - w.alloc[i - 1].size
  <2>1. /\ Behind(h, i) =>
             /\ DOMAIN v = HeapFields /\ IsTable(v) /\ v.alloc = f
             /\ v.total = [h.total EXCEPT ![i] = @ + h.total[i + 1]]
             /\ g.n = n - 1
             /\ g.alloc = CloseGap(TakeRemainder(v, i).alloc, i + 1, n - 1, 1, FreshEntry)
             /\ g.total = CloseGap(TakeRemainder(v, i).total, i + 1, n - 1, 1, 0)
        /\ ~Behind(h, i) =>
             /\ g.n = n /\ g.alloc = TakeRemainder(u, i).alloc
             /\ g.total = TakeRemainder(u, i).total
    BY <1>0, <1>12, DeleteCases, ZenonT(40) DEF g, f, u, n
  <2> HIDE DEF v
  <2>2. /\ DOMAIN w = HeapFields /\ IsTable(w) /\ w.alloc = f
        /\ w.total = IF Behind(h, i) THEN [h.total EXCEPT ![i] = @ + h.total[i + 1]]
                                     ELSE h.total
    BY <1>3, <2>1 DEF f
  <2>3. /\ g.n = n - d
        /\ Behind(h, i) => /\ g.alloc = CloseGap(a, i + 1, n - 1, 1, FreshEntry)
                           /\ g.total = CloseGap(t, i + 1, n - 1, 1, 0)
        /\ ~Behind(h, i) => g.alloc = a /\ g.total = t
    <3>1. CASE Behind(h, i)
      <4>1. w = v /\ d = 1
        BY <2>0, <3>1
      <4> HIDE DEF w
      <4> QED BY <2>1, <3>1, <4>1
    <3>2. CASE ~Behind(h, i)
      <4>1. w = u /\ d = 0 /\ n - 0 = n
        BY <1>1, <2>0, <3>2
      <4> HIDE DEF w
      <4> QED BY <2>1, <3>2, <4>1
    <3> QED BY <3>1, <3>2
  <2> HIDE DEF w
  <2>4. /\ i = 0 => a = w.alloc /\ t = w.total
        /\ i # 0 => /\ a = [w.alloc EXCEPT ![i].offset = @ - shift]
                    /\ t = [[w.total EXCEPT ![i - 1] = @ - shift]
                              EXCEPT ![i] = @ + shift]
    BY <2>2, RemainderFields, Zenon
  <2> HIDE DEF a, t, shift
  <2>5. i + d \in Entries /\ i + d < n /\ i \in i .. i + d
    BY ONLY <1>1, <1>4, <2>0
  <2>6. PICK grown \in [Entries -> Nat] :
          /\ w.total = grown
          /\ h.alloc[i].offset + grown[i] = h.alloc[i + d].offset + h.total[i + d]
          /\ \A j \in Entries : j # i => grown[j] = h.total[j]
    <3>0. h.total \in [Entries -> Nat] /\ h.total[i] \in Nat /\ h.alloc[i].offset \in Int
      BY <1>0, <1>8
    <3>1. CASE Behind(h, i)
      <4>1. d = 1 /\ i + 1 \in Entries /\ i + 1 < n
        BY ONLY <2>0, <2>5, <3>1
      <4>2. /\ h.total[i + 1] \in Nat /\ h.alloc[i + 1].offset \in Int
            /\ h.alloc[i].offset + h.total[i] = h.alloc[i + 1].offset
        BY ONLY <1>1, <1>8, <4>1
      <4>3. /\ w.total \in [Entries -> Nat] /\ w.total[i] = h.total[i] + h.total[i + 1]
            /\ \A j \in Entries : j # i => w.total[j] = h.total[j]
        BY ONLY <1>1, <2>2, <3>0, <3>1, <4>2
      <4> QED BY ONLY <3>0, <4>1, <4>2, <4>3
    <3>2. CASE ~Behind(h, i)
      <4>1. d = 0 /\ i + d = i
        BY ONLY <1>1, <2>0, <3>2
      <4> QED BY ONLY <2>2, <3>0, <3>2, <4>1
    <3> QED BY <3>1, <3>2
  <2>7. /\ a \in [Entries -> EntryType] /\ t \in [Entries -> Nat]
        /\ a[i].kernel = NoKernel /\ a[i].size = 0
        /\ a[i].offset + t[i] = h.alloc[i + d].offset + h.total[i + d]
        /\ i = 0 => a[i].offset = h.alloc[i].offset
        /\ i # 0 => /\ a[i - 1].offset + t[i - 1] = a[i].offset
                    /\ t[i - 1] = h.alloc[i - 1].size
        /\ \A j \in Entries : j # i => a[j] = h.alloc[j]
        /\ \A j \in Entries : j # i /\ j # i - 1 => t[j] = h.total[j]
    <3>0. grown[i] \in Nat /\ h.alloc[i].offset \in Int
      BY ONLY <1>1, <1>8, <2>6, grown \in [Entries -> Nat]
    <3>1. CASE i = 0
      BY ONLY <1>1, <1>6, <2>2, <2>4, <2>6, <3>0, <3>1
    <3>2. CASE i # 0
      <4>1. i - 1 \in Entries /\ i - 1 # i /\ i - 1 < n /\ (i - 1) + 1 = i
        BY ONLY <1>1, <3>2
      <4>2. shift = h.total[i - 1] - h.alloc[i - 1].size
        BY ONLY <1>6, <2>2, <2>6, <4>1 DEF shift
      <4>3. /\ h.total[i - 1] \in Nat /\ h.alloc[i - 1].size \in Nat
            /\ h.alloc[i - 1].offset \in Int
            /\ h.alloc[i - 1].size <= h.total[i - 1]
            /\ h.alloc[i - 1].offset + h.total[i - 1] = h.alloc[i].offset
        BY ONLY <1>1, <1>8, <4>1
      <4>4. /\ shift \in Nat /\ h.total[i - 1] - shift = h.alloc[i - 1].size
            /\ h.alloc[i].offset - shift \in Int
            /\ h.alloc[i - 1].offset + h.alloc[i - 1].size = h.alloc[i].offset - shift
            /\ (h.alloc[i].offset - shift) + (grown[i] + shift)
                 = h.alloc[i].offset + grown[i]
        BY ONLY <3>0, <4>2, <4>3
      <4>5. a = [f EXCEPT ![i].offset = @ - shift]
        BY ONLY <2>2, <2>4, <3>2
      <4>6. /\ a \in [Entries -> EntryType]
            /\ a[i].kernel = NoKernel /\ a[i].size = 0
            /\ a[i].offset = h.alloc[i].offset - shift
            /\ \A j \in Entries : j # i => a[j] = h.alloc[j]
        BY ONLY <1>1, <1>6, <4>4, <4>5 DEF EntryType
      <4>7. /\ t \in [Entries -> Nat]
            /\ t[i] = grown[i] + shift /\ t[i - 1] = h.total[i - 1] - shift
            /\ \A j \in Entries : j # i /\ j # i - 1 => t[j] = h.total[j]
        <5>1. t = [[grown EXCEPT ![i - 1] = @ - shift] EXCEPT ![i] = @ + shift]
          BY ONLY <2>4, <2>6, <3>2
        <5>2. grown[i - 1] - shift \in Nat /\ grown[i] + shift \in Nat
          BY ONLY <2>6, <3>0, <4>1, <4>3, <4>4
        <5> QED BY ONLY <1>1, <2>6, <4>1, <5>1, <5>2
      <4> QED BY ONLY <2>6, <3>2, <4>1, <4>4, <4>6, <4>7
    <3> QED BY <3>1, <3>2
  <2>8. /\ g.alloc \in [Entries -> EntryType] /\ g.total \in [Entries -> Nat]
        /\ \A j \in Entries : j <= i => g.alloc[j] = a[j] /\ g.total[j] = t[j]
        /\ \A j \in Entries : i < j /\ j < n - d =>
             g.alloc[j] = a[j + d] /\ g.total[j] = t[j + d]
    <3>1. CASE Behind(h, i)
      <4>0. PICK lo, hi \in Int : lo = i + 1 /\ hi = n - 1
        BY <1>1
      <4>1. /\ d = 1
            /\ g.alloc = CloseGap(a, lo, hi, d, FreshEntry)
            /\ g.total = CloseGap(t, lo, hi, d, z)
        BY ONLY <1>1, <1>10, <2>0, <2>3, <3>1, <4>0
      <4>2. g.alloc \in [Entries -> EntryType]
        <5>1. ASSUME NEW c, c = CloseGap(a, lo, hi, d, FreshEntry)
              PROVE  c \in [Entries -> EntryType]
          BY ONLY <1>7, <2>7, <5>1, CloseGapTyped, lo \in Int, hi \in Int, d \in Nat, Zenon
        <5> QED BY ONLY <4>1, <5>1, Zenon
      <4>3. g.total \in [Entries -> Nat]
        <5>1. ASSUME NEW c, c = CloseGap(t, lo, hi, d, z)
              PROVE  c \in [Entries -> Nat]
          BY ONLY <2>7, <5>1, CloseGapTyped, lo \in Int, hi \in Int, d \in Nat,
             z \in Nat, Zenon
        <5> QED BY ONLY <4>1, <5>1, Zenon
      <4>4. ASSUME NEW j \in Entries, j <= i
            PROVE  g.alloc[j] = a[j] /\ g.total[j] = t[j]
        <5>1. ~(lo <= j)
          BY ONLY <1>1, <4>0, <4>4
        <5> QED BY ONLY <4>1, <5>1, j \in Entries DEF CloseGap
      <4>5. ASSUME NEW j \in Entries, i < j, j < n - d
            PROVE  g.alloc[j] = a[j + d] /\ g.total[j] = t[j + d]
        <5>0. /\ j \in Nat /\ i \in Nat /\ n \in Nat /\ n <= MaxEntries
              /\ MaxEntries \in Nat
          BY ONLY <1>1, j \in Entries
        <5>4. d = 1
          BY ONLY <4>1
        <5>5. lo <= j /\ j <= hi /\ j + d \in Nat /\ j + d < MaxEntries
          BY ONLY <4>0, <4>5, <5>0, <5>4
        <5>1. lo <= j /\ j <= hi /\ j + d \in Entries
          BY ONLY <1>1, <5>5
        <5> QED BY ONLY <4>1, <5>1, j \in Entries DEF CloseGap, EntryAt
      <4> QED BY ONLY <4>2, <4>3, <4>4, <4>5, Zenon
    <3>2. CASE ~Behind(h, i)
      <4>1. d = 0 /\ \A j \in Entries : j + d = j
        BY ONLY <1>1, <2>0, <3>2
      <4> QED BY ONLY <2>3, <2>7, <3>2, <4>1
    <3> QED BY <3>1, <3>2
  <2>9. Merged(h, g, i, i, d)
    <3>1. g.alloc[i] = a[i] /\ g.total[i] = t[i]
      BY ONLY <1>1, <2>8
    <3>2. i # 0 => g.alloc[i - 1] = a[i - 1] /\ g.total[i - 1] = t[i - 1]
      BY ONLY <1>1, <2>8
    <3>3. ASSUME NEW j \in Entries, j < i
          PROVE  g.alloc[j] = h.alloc[j]
      BY ONLY <1>1, <2>7, <2>8, <3>3
    <3>4. ASSUME NEW j \in Entries, j + 1 < i
          PROVE  g.total[j] = h.total[j]
      <4>1. j <= i /\ j # i /\ j # i - 1
        BY ONLY <1>1, <3>4
      <4> QED BY ONLY <2>7, <2>8, <4>1, j \in Entries
    <3>5. ASSUME NEW j \in Entries, i < j, j < n - d
          PROVE  g.alloc[j] = h.alloc[j + d] /\ g.total[j] = h.total[j + d]
      <4>1. j + d \in Entries /\ j + d # i /\ j + d # i - 1
        BY ONLY <1>1, <3>5, d \in Nat
      <4> QED BY ONLY <2>7, <2>8, <3>5, <4>1
    <3>6. ASSUME NEW e \in i .. i + d, e # i
          PROVE  h.alloc[e].kernel = NoKernel
      <4>1. CASE Behind(h, i)
        <5>1. h.alloc[i + 1].kernel = NoKernel
          BY <4>1 DEF Behind, bIsFree
        <5>2. e = i + 1
          BY ONLY <1>1, <2>0, <3>6, <4>1
        <5> QED BY ONLY <5>1, <5>2
      <4>2. CASE ~Behind(h, i)
        BY ONLY <1>1, <2>0, <3>6, <4>2
      <4> QED BY <4>1, <4>2
    <3> QED BY ONLY <1>2, <1>3, <2>3, <2>5, <2>7, <3>1, <3>2, <3>3, <3>4, <3>5, <3>6
               DEF Merged, n
  <2> QED BY ONLY <1>1, <1>4, <1>9, <2>8, <2>9, d \in Nat DEF g
<1> QED BY <1>11, <1>12

-----------------------------------------------------------------------------
(***************************************************************************)
(* The memory behind the table, and the call that loads into it.           *)
(***************************************************************************)
\* Kernels that stay where they are stay in memory.
LEMMA HoldsStay ==
  ASSUME NEW m, NEW h, \A e \in Used(h) : Holds(m, h, e), NEW g, StillLoaded(h, g)
  PROVE  \A j \in Used(g) : Holds(m, g, j)
<1> SUFFICES ASSUME NEW j \in Used(g) PROVE Holds(m, g, j)
  OBVIOUS
<1>1. PICK e \in Used(h) : /\ g.alloc[j].kernel = h.alloc[e].kernel
                           /\ g.alloc[j].offset = h.alloc[e].offset
  BY DEF StillLoaded
<1>2. Holds(m, h, e)
  OBVIOUS
<1> QED BY ONLY <1>1, <1>2 DEF Holds

\* Memory m2 is m with kernel k copied to from.
CopiedTo(m, m2, from, k) ==
    \A a \in 0 .. HeapSize - 1 :
        m2[a] = IF a \in from .. from + Size[k] - 1 THEN k ELSE m[a]

\* A loaded kernel overwrites no other.
LEMMA LoadMemory ==
  ASSUME NEW m \in [0 .. HeapSize - 1 -> Kernels \cup {NoKernel}],
         NEW h, \A e \in Used(h) : Holds(m, h, e),
         NEW g, TableInv(g), NEW k \in Kernels, NEW slot \in Entries,
         LoadedInto(h, g, slot, k), NEW from, from = g.alloc[slot].offset,
         NEW m2, CopiedTo(m, m2, from, k)
  PROVE  \A j \in Used(g) : Holds(m2, g, j)
<1>2. \A a \in 0 .. HeapSize - 1 :
        m2[a] = IF a \in from .. from + Size[k] - 1 THEN k ELSE m[a]
  BY DEF CopiedTo
<1> SUFFICES ASSUME NEW j \in Used(g) PROVE Holds(m2, g, j)
  OBVIOUS
<1> DEFINE K == g.alloc[j].kernel
           o == g.alloc[j].offset
<1>3. /\ slot \in Used(g) /\ g.alloc[slot].kernel = k
      /\ slot \in Entries /\ slot < g.n /\ j \in Entries /\ j < g.n
      /\ j \in Nat /\ slot \in Nat /\ K \in Kernels
      /\ Size[k] \in Nat /\ Size[K] \in Nat /\ HeapSize \in Nat
  BY UsedTyped, HeapAssumption DEF LoadedInto
<1>4. /\ o \in Int /\ g.total[j] \in Nat /\ 0 <= o /\ o + g.total[j] <= HeapSize
      /\ from \in Int /\ g.total[slot] \in Nat
      /\ 0 <= from /\ from + g.total[slot] <= HeapSize
  BY <1>3, RegionsApart
<1>5. Size[K] <= g.total[j] /\ Size[k] <= g.total[slot]
  <2>1. \A e \in Used(g) : Size[g.alloc[e].kernel] <= g.total[e]
    BY DEF TableInv, Sized, Used
  <2> QED BY <1>3, <2>1
<1>6. j = slot \/ o + g.total[j] <= from \/ from + g.total[slot] <= o
  <2>1. j = slot \/ j < slot \/ slot < j
    BY ONLY <1>3
  <2>2. j < slot => o + g.total[j] <= from
    BY <1>3, RegionsApart
  <2>3. slot < j => from + g.total[slot] <= o
    BY <1>3, RegionsApart
  <2> QED BY <2>1, <2>2, <2>3
<1>7. CASE j = slot
  <2>1. K = k /\ o = from
    BY <1>3, <1>7
  <2> SUFFICES ASSUME NEW s \in 0 .. Size[K] - 1 PROVE m2[o + s] = K
    BY DEF Holds
  <2> HIDE DEF K, o
  <2>2. o + s \in 0 .. HeapSize - 1 /\ o + s \in from .. from + Size[k] - 1
    BY ONLY <1>3, <1>4, <1>5, <1>7, <2>1, s \in 0 .. Size[K] - 1
  <2> QED BY ONLY <1>2, <2>1, <2>2
<1>8. CASE j # slot
  <2>1. PICK e \in Used(h) : K = h.alloc[e].kernel /\ o = h.alloc[e].offset
    BY <1>8 DEF LoadedInto
  <2>2. Holds(m, h, e)
    OBVIOUS
  <2> SUFFICES ASSUME NEW s \in 0 .. Size[K] - 1 PROVE m2[o + s] = K
    BY DEF Holds
  <2>3. m[o + s] = K
    BY ONLY <2>1, <2>2, s \in 0 .. Size[K] - 1 DEF Holds
  <2> HIDE DEF K, o
  <2>4. o + s \in 0 .. HeapSize - 1 /\ o + s \notin from .. from + Size[k] - 1
    <3>1. s \in Nat /\ s < Size[K]
      BY ONLY <1>3, s \in 0 .. Size[K] - 1
    <3>2. o + s \in 0 .. HeapSize - 1
      BY ONLY <1>3, <1>4, <1>5, <3>1, SMTT(30)
    <3>3. o + g.total[j] <= from => o + s < from
      BY ONLY <1>3, <1>4, <1>5, <3>1
    <3>4. from + g.total[slot] <= o => from + Size[k] - 1 < o + s
      BY ONLY <1>3, <1>4, <1>5, <3>1, SMTT(30)
    <3> QED BY ONLY <1>3, <1>4, <1>6, <1>8, <3>1, <3>2, <3>3, <3>4, SMTT(30)
  <2> QED BY ONLY <1>2, <2>3, <2>4
<1> QED BY <1>7, <1>8

\* What is left of a call that goes on.
LEMMA CallGoesOn ==
  ASSUME CallInv, call # NoCall, call.pc # "submit",
         DOMAIN call' = DOMAIN call, call'.kernels = call.kernels,
         call'.ids = call.ids, call'.allocation = call.allocation,
         call'.pc # "submit"
  PROVE  CallInv'
  BY DEF CallInv

\* There is an interface descriptor for the kernel, and one more is taken.
LEMMA MediaIdFree ==
  ASSUME CallInv, call # NoCall, call.pc # "submit",
         NEW h, TableInv(h), NEW i \in Entries
  PROVE  LET id == MediaId(h, i)
             after == [call.allocation EXCEPT ![id] = i] IN
         /\ id \in MediaIds
         /\ after \in [MediaIds -> Entries \cup {NoEntry}]
         /\ Cardinality({d \in MediaIds : after[d] # NoEntry}) <= Len(call.ids) + 1
<1> DEFINE al == call.allocation
           D == {d \in MediaIds : al[d] # NoEntry}
           F == {d \in MediaIds : al[d] = NoEntry}
           id == MediaId(h, i)
           after == [al EXCEPT ![id] = i]
           E == {d \in MediaIds : after[d] # NoEntry}
<1>1. /\ al \in [MediaIds -> Entries \cup {NoEntry}]
      /\ Len(call.ids) < Len(call.kernels) /\ Cardinality(D) <= Len(call.ids)
      /\ Len(call.kernels) <= Cardinality(MediaIds)
      /\ Len(call.ids) \in Nat /\ Len(call.kernels) \in Nat
  BY LenProperties DEF CallInv
<1>2. IsFiniteSet(MediaIds) /\ MediaIds \subseteq Nat /\ Cardinality(MediaIds) \in Nat
  BY MediaIdsFacts
<1>3. IsFiniteSet(D) /\ Cardinality(D) \in Nat
  BY <1>2, FS_Subset, FS_CardinalityType
<1>4. F # {} /\ F \in SUBSET Nat
  <2>1. D # MediaIds
    <3> HIDE DEF D
    <3> QED BY ONLY <1>1, <1>2, <1>3
  <2> QED BY <1>2, <2>1
<1>5. Min(F) \in F
  BY <1>4, MinFacts
<1>6. id \in MediaIds
  <2>1. h.alloc[i].kid \in MediaIds \cup {NoEntry}
    BY UsedTyped DEF EntryType
  <2> QED BY <1>5, <2>1 DEF MediaId
<1> HIDE DEF id
<1>7. after \in [MediaIds -> Entries \cup {NoEntry}]
  BY <1>1, <1>6
<1>8. E \subseteq D \cup {id}
  BY <1>1, <1>6
<1> HIDE DEF D, E
<1>9. IsFiniteSet(D \cup {id}) /\ Cardinality(D \cup {id}) <= Cardinality(D) + 1
  <2>1. /\ IsFiniteSet(D \cup {id})
        /\ Cardinality(D \cup {id}) =
             IF id \in D THEN Cardinality(D) ELSE Cardinality(D) + 1
    BY <1>3, FS_AddElement, Zenon
  <2> QED BY <1>3, <2>1
<1>10. Cardinality(E) <= Cardinality(D \cup {id}) /\ Cardinality(E) \in Nat
       /\ Cardinality(D \cup {id}) \in Nat
  BY <1>8, <1>9, FS_Subset, FS_CardinalityType
<1>11. Cardinality(E) <= Len(call.ids) + 1
  BY ONLY <1>1, <1>3, <1>9, <1>10
<1> QED BY <1>6, <1>7, <1>11, Zenon DEF id, E

LEMMA TouchFields ==
  ASSUME NEW h, DOMAIN h = HeapFields, NEW i, NEW tag
  PROVE  /\ DOMAIN HalCm_TouchKernel(h, i, tag) = HeapFields
         /\ HalCm_TouchKernel(h, i, tag).phantom = h.phantom
  BY DEF HalCm_TouchKernel, HeapFields

LEMMA LoadFields ==
  ASSUME NEW h, DOMAIN h = HeapFields, NEW slot, NEW k, NEW tag
  PROVE  LET g == CmAddCurrentKerenelToFreeSlot(h, slot, k, tag) IN
         DOMAIN g = HeapFields /\ g.phantom = h.phantom
<1> DEFINE g == CmAddCurrentKerenelToFreeSlot(h, slot, k, tag)
           e == h.alloc[slot]
           loaded == CmLoadKernel(e, k, tag)
           rest == [CmFreeKernel(e) EXCEPT !.offset = e.offset + Size[k]]
           split == [h EXCEPT
             !.alloc = InsertAfter(@, slot, h.n, loaded, rest),
             !.total = InsertAfter(@, slot, h.n, Size[k], @[slot] - Size[k]),
             !.n = @ + 1, !.used = Append(@, k)]
           whole == [h EXCEPT !.alloc[slot] = loaded, !.used = Append(@, k)]
           equal == [whole EXCEPT !.total[slot] = Size[k]]
<1>1. g = CASE h.n < MaxEntries /\ e.size # Size[k] -> split
            [] h.n < MaxEntries /\ e.size = Size[k] -> equal
            [] OTHER -> whole
  BY Zenon DEF CmAddCurrentKerenelToFreeSlot
<1> HIDE DEF loaded, rest
<1>2. DOMAIN split = HeapFields /\ split.phantom = h.phantom
  BY DEF HeapFields
<1>3. DOMAIN whole = HeapFields /\ whole.phantom = h.phantom
  BY DEF HeapFields
<1> HIDE DEF whole, split
<1>4. DOMAIN equal = HeapFields /\ equal.phantom = h.phantom
  BY <1>3 DEF HeapFields
<1> HIDE DEF equal, g
<1>5. g = split \/ g = whole \/ g = equal
  BY <1>1
<1>6. DOMAIN g = HeapFields /\ g.phantom = h.phantom
  BY <1>2, <1>3, <1>4, <1>5, Zenon
<1> QED BY <1>6 DEF g

LEMMA DeleteFields ==
  ASSUME NEW h, DOMAIN h = HeapFields, h.phantom \in BOOLEAN, NEW i
  PROVE  LET g == CmDeleteOldestKernel(h, i) IN
         DOMAIN g = HeapFields /\ g.phantom \in BOOLEAN /\ (h.phantom => g.phantom)
<1>2. Unloaded(h, i).phantom = (h.phantom \/ (Behind(h, i) /\ i + 1 >= h.n))
  BY DEF Unloaded, HeapFields
<1> DEFINE g == CmDeleteOldestKernel(h, i)
<1>0. DOMAIN g = HeapFields /\ g.phantom = Unloaded(h, i).phantom
  BY DeleteCases, Zenon
<1> HIDE DEF g
<1>3. DOMAIN g = HeapFields /\ g.phantom \in BOOLEAN /\ (h.phantom => g.phantom)
  BY <1>0, <1>2
<1> QED BY <1>3 DEF g

\* The descriptor that goes with a kernel.
LEMMA AllocateFields ==
  ASSUME NEW h, DOMAIN h = HeapFields, NEW i, HalCm_AllocateMediaID(h, i)
  PROVE  DOMAIN heap' = HeapFields /\ heap'.phantom = h.phantom
<1>1. PICK id : heap' = [h EXCEPT !.alloc[i].kid = IF @ = NoEntry THEN id ELSE @]
  BY Zenon DEF HalCm_AllocateMediaID
<1> QED BY <1>1 DEF HeapFields

LEMMA AllocateStep ==
  ASSUME CallInv, call.pc = "kernel", NEW h, TableInv(h), NEW i \in Used(h),
         HalCm_AllocateMediaID(h, i)
  PROVE  TableInv(heap') /\ StillLoaded(h, heap') /\ CallInv'
<1> DEFINE id == MediaId(h, i)
           after == [call.allocation EXCEPT ![id] = i]
<1>0. call # NoCall /\ call.pc # "submit" /\ i \in Entries
  BY CallInProgress, UsedTyped
<1>1. /\ heap' = [h EXCEPT !.alloc[i].kid = IF @ = NoEntry THEN id ELSE @]
      /\ call' = [call EXCEPT
                    !.ids = Append(@, id), !.allocation[id] = i,
                    !.doubt = DoubtAfter(h),
                    !.pc = IF Len(call.ids) + 1 = Len(call.kernels)
                             THEN "submit" ELSE "kernel"]
  BY Zenon DEF HalCm_AllocateMediaID
<1>2. /\ id \in MediaIds
      /\ after \in [MediaIds -> Entries \cup {NoEntry}]
      /\ Cardinality({d \in MediaIds : after[d] # NoEntry}) <= Len(call.ids) + 1
  BY <1>0, MediaIdFree, Zenon
<1>3. /\ TableInv(heap') /\ Used(heap') = Used(h)
      /\ \A j \in Entries : /\ heap'.alloc[j].kernel = h.alloc[j].kernel
                            /\ heap'.alloc[j].offset = h.alloc[j].offset
  <2>1. ASSUME NEW d \in MediaIds, NEW g,
               g = [h EXCEPT !.alloc[i].kid = IF @ = NoEntry THEN d ELSE @]
        PROVE  /\ TableInv(g) /\ Used(g) = Used(h)
               /\ \A j \in Entries : /\ g.alloc[j].kernel = h.alloc[j].kernel
                                     /\ g.alloc[j].offset = h.alloc[j].offset
    <3>1. LET k == [h EXCEPT !.alloc[i].kid = IF @ = NoEntry THEN d ELSE @] IN
          /\ TableInv(k) /\ Used(k) = Used(h)
          /\ \A j \in Entries : /\ k.alloc[j].kernel = h.alloc[j].kernel
                                /\ k.alloc[j].offset = h.alloc[j].offset
      BY KidTable, Zenon
    <3> QED BY ONLY <2>1, <3>1
  <2> HIDE DEF id, after
  <2>2. id \in MediaIds /\ heap' = [h EXCEPT !.alloc[i].kid = IF @ = NoEntry THEN id ELSE @]
    BY <1>1, <1>2
  <2> QED BY ONLY <2>1, <2>2
<1>4. StillLoaded(h, heap')
  BY <1>3 DEF StillLoaded, Used
<1> HIDE DEF id
<1>5. CallInv'
  <2>1. {"pc", "kernels", "ids", "allocation"} \subseteq DOMAIN call
    BY <1>0 DEF CallInv
  <2>2. /\ DOMAIN call' = DOMAIN call /\ call'.kernels = call.kernels
        /\ call'.ids = Append(call.ids, id)
        /\ call'.allocation = after
        /\ call'.pc = IF Len(call.ids) + 1 = Len(call.kernels) THEN "submit" ELSE "kernel"
    BY <1>1, <2>1
  <2>3. /\ call.ids \in Seq(MediaIds) /\ call.kernels \in Seq(Kernels)
        /\ Len(call.ids) < Len(call.kernels)
        /\ Len(call.kernels) <= Cardinality(MediaIds)
    BY <1>0 DEF CallInv
  <2>4. /\ call'.ids \in Seq(MediaIds) /\ Len(call'.ids) = Len(call.ids) + 1
        /\ Len(call.ids) \in Nat /\ Len(call.kernels) \in Nat
    BY <1>2, <2>2, <2>3, AppendKeeps, LenProperties
  <2>5. IF call'.pc = "submit" THEN Len(call'.ids) = Len(call'.kernels)
                               ELSE Len(call'.ids) < Len(call'.kernels)
    BY ONLY <2>2, <2>3, <2>4
  <2>6. Cardinality({d \in MediaIds : call'.allocation[d] # NoEntry}) <= Len(call'.ids)
    BY <1>2, <2>2, <2>4
  <2> HIDE DEF after
  <2> QED BY <1>2, <2>1, <2>2, <2>3, <2>4, <2>5, <2>6 DEF CallInv
<1> QED BY <1>3, <1>4, <1>5

-----------------------------------------------------------------------------
(***************************************************************************)
(* Every step keeps HeapInv.                                               *)
(***************************************************************************)
\* All of it that a step which leaves the heap alone can change.
LEMMA HeapAlone ==
  ASSUME HeapInv, UNCHANGED <<heap, mem>>, nextTag' \in Nat,
         ~heap.phantom => CallInv'
  PROVE  HeapInv'
<1>1. Used(heap)' = Used(heap) /\ TableInv(heap)' = TableInv(heap)
  BY DEF Used, bIsFree, TableInv, Sized, Tiled, Known
<1>2. (\A i \in Used(heap) : Holds(mem, heap, i))'
        = \A i \in Used(heap) : Holds(mem, heap, i)
  BY <1>1 DEF Holds
<1> QED BY <1>1, <1>2 DEF HeapInv

LEMMA IdleCall == ASSUME call' = NoCall PROVE CallInv'
  BY DEF CallInv

\* A step between the beginning of a call and its kernels.
QuietHeapStep ==
    \/ IntelGen_HwAssignMediaState \/ WaitForMediaState
    \/ ReuseBatchBuffer \/ TakeBatchBuffer \/ IntelGen_HwLockBB \/ AlreadyLocked
    \/ NothingToEvict \/ Fails

LEMMA QuietHeapCall ==
  ASSUME CallInv, QuietHeapStep
  PROVE  CallInv' /\ UNCHANGED <<heap, mem, nextTag>>
<1>1. UNCHANGED <<heap, mem, nextTag>>
  BY DEF QuietHeapStep, IntelGen_HwAssignMediaState, WaitForMediaState,
     ReuseBatchBuffer, TakeBatchBuffer, IntelGen_HwLockBB, AlreadyLocked,
     NothingToEvict, Fails
<1>2. CASE AlreadyLocked \/ NothingToEvict \/ Fails
  <2>1. CallFails
    BY <1>2, Zenon DEF AlreadyLocked, NothingToEvict, Fails
  <2>2. call' = NoCall
    BY <2>1, Zenon DEF CallFails
  <2> QED BY <1>1, <2>2, IdleCall
<1>3. CASE IntelGen_HwAssignMediaState \/ WaitForMediaState
           \/ ReuseBatchBuffer \/ TakeBatchBuffer \/ IntelGen_HwLockBB
  <2>1. call # NoCall /\ call.pc # "submit"
    BY <1>3, CallInProgress
       DEF IntelGen_HwAssignMediaState, WaitForMediaState, ReuseBatchBuffer,
           TakeBatchBuffer, IntelGen_HwLockBB
  <2>2. {"pc", "kernels", "ids", "allocation"} \subseteq DOMAIN call
    BY <2>1 DEF CallInv
  <2>3. call' = NoCall \/ /\ DOMAIN call' = DOMAIN call
                          /\ call'.kernels = call.kernels /\ call'.ids = call.ids
                          /\ call'.allocation = call.allocation
                          /\ call'.pc # "submit"
    <3>1. CASE IntelGen_HwAssignMediaState
      BY <2>2, <3>1 DEF IntelGen_HwAssignMediaState, TakeMediaState
    <3>2. CASE WaitForMediaState
      BY <2>2, <3>2 DEF WaitForMediaState, TakeMediaState
    <3>3. CASE ReuseBatchBuffer
      BY <2>2, <3>3 DEF ReuseBatchBuffer
    <3>4. CASE TakeBatchBuffer
      <4>1. call' = NoCall \/ \E b : call' = [call EXCEPT !.pc = "lock", !.buffer = b,
                                                       !.write = TRUE]
        BY <3>4, Zenon DEF TakeBatchBuffer, CallFails
      <4>2. ASSUME NEW b, call' = [call EXCEPT !.pc = "lock", !.buffer = b, !.write = TRUE]
            PROVE  /\ DOMAIN call' = DOMAIN call
                   /\ call'.kernels = call.kernels /\ call'.ids = call.ids
                   /\ call'.allocation = call.allocation
                   /\ call'.pc # "submit"
        BY <2>2, <4>2
      <4> QED BY <4>1, <4>2, Zenon
    <3>5. CASE IntelGen_HwLockBB
      BY <2>2, <3>5 DEF IntelGen_HwLockBB
    <3> QED BY <1>3, <3>1, <3>2, <3>3, <3>4, <3>5
  <2>4. CASE call' = NoCall
    BY <1>1, <2>4, IdleCall
  <2>5. CASE /\ DOMAIN call' = DOMAIN call
             /\ call'.kernels = call.kernels /\ call'.ids = call.ids
             /\ call'.allocation = call.allocation
             /\ call'.pc # "submit"
    BY <1>1, <2>1, <2>5, CallGoesOn
  <2> QED BY <2>3, <2>4, <2>5
<1> QED BY <1>2, <1>3 DEF QuietHeapStep

\* The kernel a call is at is one of its task.
LEMMA KernelTyped ==
  ASSUME CallInv, call.pc = "kernel"
  PROVE  Kernel \in Kernels
<1>1. call # NoCall /\ call.pc # "submit"
  BY CallInProgress
<1>2. /\ call.kernels \in Seq(Kernels) /\ call.ids \in Seq(MediaIds)
      /\ Len(call.ids) < Len(call.kernels)
  BY <1>1 DEF CallInv
<1>3. Len(call.ids) \in Nat /\ Len(call.kernels) \in Nat
      /\ DOMAIN call.kernels = 1 .. Len(call.kernels)
  BY <1>2, LenProperties
<1>4. Len(call.ids) + 1 \in DOMAIN call.kernels
  BY <1>2, <1>3
<1> QED BY <1>2, <1>4 DEF Kernel

\* A step that reaches a table where every kernel was loaded before.
LEMMA HeapMoves ==
  ASSUME NEW m, NEW h, \A e \in Used(h) : Holds(m, h, e),
         TableInv(heap'), StillLoaded(h, heap'), mem' = m,
         m \in [0 .. HeapSize - 1 -> Kernels \cup {NoKernel}],
         DOMAIN heap' = HeapFields, heap'.phantom \in BOOLEAN, nextTag' \in Nat, CallInv'
  PROVE  HeapInv'
<1>1. \A j \in Used(heap') : Holds(m, heap', j)
  BY HoldsStay, Zenon
<1>2. (\A i \in Used(heap) : Holds(mem, heap, i))'
  BY <1>1
<1>3. TableInv(heap)'
  OBVIOUS
<1> QED BY <1>2, <1>3 DEF HeapInv

LEMMA UseStep ==
  ASSUME HeapInv, LoadedKernel
  PROVE  HeapInv'
<1> DEFINE i == Min(LoadedAt(heap, Kernel))
           g == HalCm_TouchKernel(heap, i, nextTag)
<1>1. /\ call.pc = "kernel" /\ LoadedAt(heap, Kernel) # {}
      /\ HalCm_AllocateMediaID(g, i)
      /\ mem' = mem /\ nextTag' = nextTag
  BY DEF LoadedKernel
<1>2. /\ DOMAIN heap = HeapFields /\ heap.phantom \in BOOLEAN /\ nextTag \in Nat
  BY DEF HeapInv
<1>3. DOMAIN g = HeapFields /\ g.phantom = heap.phantom
  BY <1>2, TouchFields
<1> HIDE DEF g, i
<1>4. DOMAIN heap' = HeapFields /\ heap'.phantom = heap.phantom
  BY <1>1, <1>3, AllocateFields
<1>5. CASE heap.phantom
  BY <1>1, <1>2, <1>4, <1>5 DEF HeapInv
<1>6. CASE ~heap.phantom
  <2>1. /\ TableInv(heap) /\ CallInv
        /\ mem \in [0 .. HeapSize - 1 -> Kernels \cup {NoKernel}]
        /\ \A e \in Used(heap) : Holds(mem, heap, e)
    BY <1>6 DEF HeapInv
  <2>2. Kernel \in Kernels
    BY <1>1, <2>1, KernelTyped
  <2>3. i \in Used(heap)
    <3>1. LoadedAt(heap, Kernel) \in SUBSET Nat
      BY DEF LoadedAt, Entries
    <3>2. i \in LoadedAt(heap, Kernel)
      BY <1>1, <3>1, MinFacts DEF i
    <3> QED BY <2>2, <3>2, KernelsAssumption DEF LoadedAt, Used, bIsFree
  <2>4. /\ TableInv(g) /\ Used(g) = Used(heap)
        /\ \A j \in Entries : /\ g.alloc[j].kernel = heap.alloc[j].kernel
                              /\ g.alloc[j].offset = heap.alloc[j].offset
    <3>1. nextTag \in Int
      BY <1>2
    <3>2. ASSUME NEW a \in Used(heap), NEW b, b = HalCm_TouchKernel(heap, a, nextTag)
          PROVE  /\ TableInv(b) /\ Used(b) = Used(heap)
                 /\ \A j \in Entries : /\ b.alloc[j].kernel = heap.alloc[j].kernel
                                       /\ b.alloc[j].offset = heap.alloc[j].offset
      BY <2>1, <3>1, <3>2, TouchTable, Zenon
    <3> QED BY <2>3, <3>2, Zenon DEF g
  <2>5. StillLoaded(heap, g)
    BY <2>4 DEF StillLoaded, Used
  <2>6. \A e \in Used(g) : Holds(mem, g, e)
    BY <2>1, <2>5, HoldsStay, Zenon
  <2>7. TableInv(heap') /\ StillLoaded(g, heap') /\ CallInv'
    BY <1>1, <2>1, <2>3, <2>4, AllocateStep, Zenon
  <2> QED BY <1>1, <1>2, <1>4, <2>1, <2>6, <2>7, HeapMoves, Zenon
<1> QED BY <1>2, <1>5, <1>6

LEMMA LoadStep ==
  ASSUME HeapInv, HalCm_LoadKernel
  PROVE  HeapInv'
<1> DEFINE k == Kernel
           slot == CmSearchFreeSlotSize(heap, k)
           g == CmAddCurrentKerenelToFreeSlot(heap, slot, k, nextTag)
           from == g.alloc[slot].offset
<1>1. /\ call.pc = "kernel" /\ LoadedAt(heap, k) = {} /\ slot # NoEntry
      /\ HalCm_AllocateMediaID(g, slot)
      /\ mem' = [a \in DOMAIN mem |->
                   IF a \in from .. from + Size[k] - 1 THEN k ELSE mem[a]]
      /\ nextTag' = nextTag
  BY Zenon DEF HalCm_LoadKernel
<1>2. /\ DOMAIN heap = HeapFields /\ heap.phantom \in BOOLEAN /\ nextTag \in Nat
  BY DEF HeapInv
<1>3. DOMAIN g = HeapFields /\ g.phantom = heap.phantom
  <2>1. \A s, j, t : LET b == CmAddCurrentKerenelToFreeSlot(heap, s, j, t) IN
          DOMAIN b = HeapFields /\ b.phantom = heap.phantom
    BY <1>2, LoadFields, Zenon
  <2> QED BY <2>1, Zenon
<1>4. ASSUME slot \in Entries, TableInv(heap), k \in Kernels, LoadedAt(heap, k) = {},
             slot # NoEntry
      PROVE  TableInv(g) /\ LoadedInto(heap, g, slot, k)
  <2>1. nextTag \in Int
    BY <1>2
  <2> HIDE DEF k
  <2>2. LET s == CmSearchFreeSlotSize(heap, k)
            b == CmAddCurrentKerenelToFreeSlot(heap, s, k, nextTag) IN
        /\ s \in Entries /\ TableInv(b) /\ LoadedInto(heap, b, s, k)
    BY <1>4, <2>1, LoadTable, Zenon
  <2> QED BY <2>2, Zenon
<1>5. ASSUME slot # NoEntry PROVE slot \in Entries
  <2>1. FreeSlots(heap, k) \in SUBSET Nat
    BY DEF FreeSlots, Entries
  <2>2. FreeSlots(heap, k) # {} /\ slot = Min(FreeSlots(heap, k))
    BY <1>5 DEF CmSearchFreeSlotSize
  <2>3. slot \in FreeSlots(heap, k)
    BY <2>1, <2>2, MinFacts, Zenon
  <2> QED BY <2>3 DEF FreeSlots
<1> HIDE DEF g, slot, k
<1>6. DOMAIN heap' = HeapFields /\ heap'.phantom = heap.phantom
  BY <1>1, <1>3, AllocateFields
<1>7. CASE heap.phantom
  BY <1>1, <1>2, <1>6, <1>7 DEF HeapInv
<1>8. CASE ~heap.phantom
  <2>1. /\ TableInv(heap) /\ CallInv
        /\ mem \in [0 .. HeapSize - 1 -> Kernels \cup {NoKernel}]
        /\ \A e \in Used(heap) : Holds(mem, heap, e)
    BY <1>8 DEF HeapInv
  <2>2. k \in Kernels
    BY <1>1, <2>1, KernelTyped DEF k
  <2>3. slot \in Entries /\ TableInv(g) /\ LoadedInto(heap, g, slot, k)
    BY <1>1, <1>4, <1>5, <2>1, <2>2, Zenon
  <2>4. slot \in Used(g)
    BY <2>3 DEF LoadedInto
  <2>5. /\ mem' \in [0 .. HeapSize - 1 -> Kernels \cup {NoKernel}]
        /\ \A j \in Used(g) : Holds(mem', g, j)
    <3> HIDE DEF from
    <3>1. from = g.alloc[slot].offset
      BY DEF from
    <3>2. /\ mem' \in [0 .. HeapSize - 1 -> Kernels \cup {NoKernel}]
          /\ \A a \in 0 .. HeapSize - 1 :
               mem'[a] = IF a \in from .. from + Size[k] - 1 THEN k ELSE mem[a]
      BY <1>1, <2>1, <2>2
    <3>3. ASSUME NEW b, b = from, NEW m, m = mem'
          PROVE  \A j \in Used(g) : Holds(m, g, j)
      <4>1. b = g.alloc[slot].offset
        BY <3>1, <3>3
      <4>2. CopiedTo(mem, m, b, k)
        BY <3>2, <3>3 DEF CopiedTo
      <4> QED BY <2>1, <2>2, <2>3, <4>1, <4>2, LoadMemory, Zenon
    <3> QED BY <3>2, <3>3, Zenon
  <2>6. TableInv(heap') /\ StillLoaded(g, heap') /\ CallInv'
    BY <1>1, <2>1, <2>3, <2>4, AllocateStep, Zenon
  <2>7. nextTag' \in Nat /\ heap'.phantom \in BOOLEAN
    BY <1>1, <1>2, <1>6
  <2>8. ASSUME NEW m, m = mem'
        PROVE  /\ m \in [0 .. HeapSize - 1 -> Kernels \cup {NoKernel}]
               /\ \A j \in Used(g) : Holds(m, g, j)
               /\ mem' = m
    BY <2>5, <2>8
  <2>9. ASSUME NEW m, m = mem' PROVE HeapInv'
    BY <1>6, <2>6, <2>7, <2>8, <2>9, HeapMoves, Zenon
  <2> QED BY <2>9, Zenon
<1> QED BY <1>2, <1>7, <1>8

LEMMA EvictStep ==
  ASSUME HeapInv, EvictKernel
  PROVE  HeapInv'
<1> DEFINE i == Oldest(heap, Unloadable(heap, syncTag))
<1>1. /\ call.pc = "kernel" /\ Unloadable(heap, syncTag) # {}
      /\ heap' = CmDeleteOldestKernel(heap, i)
      /\ call' = [call EXCEPT !.doubt = DoubtAfter(heap')]
      /\ mem' = mem /\ nextTag' = nextTag
  BY Zenon DEF EvictKernel, NoRoom
<1>2. /\ DOMAIN heap = HeapFields /\ heap.phantom \in BOOLEAN /\ nextTag \in Nat
  BY DEF HeapInv
<1>3. /\ DOMAIN heap' = HeapFields /\ heap'.phantom \in BOOLEAN
      /\ heap.phantom => heap'.phantom
  <2>1. \A j : LET b == CmDeleteOldestKernel(heap, j) IN
          DOMAIN b = HeapFields /\ b.phantom \in BOOLEAN /\ (heap.phantom => b.phantom)
    BY <1>2, DeleteFields, Zenon
  <2> QED BY <1>1, <2>1, Zenon
<1>4. CASE heap'.phantom
  BY <1>1, <1>2, <1>3, <1>4 DEF HeapInv
<1>5. CASE ~heap'.phantom
  <2>1. /\ TableInv(heap) /\ CallInv
        /\ mem \in [0 .. HeapSize - 1 -> Kernels \cup {NoKernel}]
        /\ \A e \in Used(heap) : Holds(mem, heap, e)
    BY <1>3, <1>5 DEF HeapInv
  <2>2. i \in Used(heap)
    <3>1. Unloadable(heap, syncTag) \in SUBSET Used(heap)
      BY DEF Unloadable, Used
    <3>2. i \in Unloadable(heap, syncTag)
      BY <1>1, <2>1, <3>1, OldestIsOne, Zenon
    <3> QED BY <3>1, <3>2
  <2> HIDE DEF i
  <2>3. TableInv(heap') /\ StillLoaded(heap, heap')
    BY <1>1, <1>5, <2>1, <2>2, DeleteTable, Zenon
  <2>4. CallInv'
    <3>1. call # NoCall
      BY <1>1, CallInProgress
    <3>2. {"pc", "kernels", "ids", "allocation"} \subseteq DOMAIN call
      BY <2>1, <3>1 DEF CallInv
    <3>3. /\ DOMAIN call' = DOMAIN call /\ call'.kernels = call.kernels
          /\ call'.ids = call.ids /\ call'.allocation = call.allocation
          /\ call'.pc = call.pc
      BY <1>1, <3>2
    <3>4. call.pc # "submit" /\ call'.pc # "submit"
      BY <1>1, <3>3
    <3> QED BY <2>1, <3>1, <3>3, <3>4, CallGoesOn, Zenon
  <2> QED BY <1>1, <1>2, <1>3, <2>1, <2>3, <2>4, HeapMoves, Zenon
<1> QED BY <1>3, <1>4, <1>5

\* A call begins with all its kernels to load.
LEMMA BeginCall ==
  ASSUME NEW t \in Tasks, Begin(t)
  PROVE  CallInv' /\ UNCHANGED <<heap, mem, nextTag>>
<1>1. PICK c \in Calls :
        call' = [pc |-> "media", task |-> t, kernels |-> c.kernels,
                 walker |-> c.walker, dirty |-> c.dirty, mask |-> c.mask,
                 media |-> None,
                 ids |-> <<>>, allocation |-> [d \in MediaIds |-> NoEntry],
                 buffer |-> None, write |-> FALSE, doubt |-> {}]
  BY DEF Begin
<1>2. /\ c.kernels \in Seq(Kernels) /\ c.kernels # <<>>
      /\ Len(c.kernels) <= Cardinality(MediaIds)
  BY CallsAssumption, MediaIdsFacts
<1>3. 0 < Len(c.kernels) /\ Len(c.kernels) \in Nat
  BY <1>2, EmptySeq, LenProperties
<1>4. /\ {"pc", "kernels", "ids", "allocation"} \subseteq DOMAIN call'
      /\ call'.pc = "media" /\ call'.kernels = c.kernels /\ call'.ids = <<>>
      /\ call'.allocation = [d \in MediaIds |-> NoEntry]
  BY <1>1
<1>5. Cardinality({d \in MediaIds : call'.allocation[d] # NoEntry}) = 0
  <2>1. {d \in MediaIds : call'.allocation[d] # NoEntry} = {}
    BY <1>4
  <2> QED BY <2>1, FS_EmptySet
<1>6. call'.ids \in Seq(MediaIds) /\ Len(call'.ids) = 0
  BY <1>4
<1>7. call'.allocation \in [MediaIds -> Entries \cup {NoEntry}]
  BY <1>4
<1>8. UNCHANGED <<heap, mem, nextTag>>
  BY DEF Begin
<1> QED BY <1>2, <1>3, <1>4, <1>5, <1>6, <1>7, <1>8 DEF CallInv

LEMMA StepHeap ==
  ASSUME HeapInv, [Next]_vars
  PROVE  HeapInv'
<1>0. nextTag \in Nat /\ (~heap.phantom => CallInv)
  BY DEF HeapInv
<1>1. ASSUME NEW t \in Tasks, Begin(t) PROVE HeapInv'
  BY <1>0, <1>1, BeginCall, HeapAlone
<1>2. CASE QuietHeapStep
  <2>1. UNCHANGED <<heap, mem, nextTag>>
    BY <1>2 DEF QuietHeapStep, IntelGen_HwAssignMediaState, WaitForMediaState,
       ReuseBatchBuffer, TakeBatchBuffer, IntelGen_HwLockBB, AlreadyLocked,
       NothingToEvict, Fails
  <2> QED BY <1>0, <1>2, <2>1, QuietHeapCall, HeapAlone
<1>3. CASE LoadedKernel
  BY <1>3, UseStep
<1>4. CASE HalCm_LoadKernel
  BY <1>4, LoadStep
<1>5. CASE EvictKernel
  BY <1>5, EvictStep
<1>6. CASE Submit
  <2>1. call' = NoCall /\ UNCHANGED <<heap, mem>> /\ nextTag' = nextTag + 1
    BY <1>6, Zenon DEF Submit, TakeTag
  <2> QED BY <1>0, <2>1, IdleCall, HeapAlone
<1>7. CASE SubmitFails
  <2>1. call' = NoCall /\ UNCHANGED <<heap, mem>>
        /\ (nextTag' = nextTag \/ nextTag' = nextTag + 1)
    BY <1>7, Zenon DEF SubmitFails, CallFails, TakeTag
  <2> QED BY <1>0, <2>1, IdleCall, HeapAlone
<1>8. CASE GpuBegin \/ GpuFinish \/ (\E id \in TaskIds : QueryTask(id))
           \/ UNCHANGED vars
  <2>1. UNCHANGED <<heap, mem, nextTag, call>>
    BY <1>8 DEF GpuBegin, GpuFinish, QueryTask, heapVars, vars
  <2> QED BY <1>0, <2>1, HeapAlone DEF CallInv
<1> QED BY <1>1, <1>2, <1>3, <1>4, <1>5, <1>6, <1>7, <1>8 DEF Next, QuietHeapStep

\* The whole heap in one free region.
LEMMA InitHeapInv == Init => HeapInv
<1> SUFFICES ASSUME Init PROVE HeapInv
  OBVIOUS
<1>1. /\ heap = InitHeap /\ mem = [a \in 0 .. HeapSize - 1 |-> NoKernel]
      /\ nextTag = 0 /\ call = NoCall
  BY DEF Init
<1>2. /\ MaxEntries \in Nat \ {0} /\ Entries = 0 .. MaxEntries - 1 /\ HeapSize \in Nat
  BY HeapAssumption DEF Entries
<1>3. /\ DOMAIN heap = HeapFields /\ heap.n = 1 /\ heap.used = <<>> /\ heap.phantom = FALSE
      /\ heap.alloc = [i \in Entries |-> FreshEntry]
      /\ heap.total = [i \in Entries |-> IF i = 0 THEN HeapSize ELSE 0]
  BY <1>1 DEF InitHeap, HeapFields
<1>4. FreshEntry \in EntryType
  BY DEF FreshEntry, EntryType
<1>5. heap \in HeapType
  <2>1. heap.alloc \in [Entries -> EntryType] /\ heap.total \in [Entries -> Nat]
        /\ heap.n \in 1 .. MaxEntries /\ heap.used \in Seq(Kernels)
        /\ heap.phantom \in BOOLEAN
    <3>1. heap.alloc \in [Entries -> EntryType]
      BY <1>3, <1>4
    <3>2. heap.total \in [Entries -> Nat]
      BY <1>2, <1>3
    <3>3. heap.n \in 1 .. MaxEntries /\ heap.used \in Seq(Kernels)
      BY ONLY <1>2, <1>3, EmptySeq
    <3> QED BY <1>3, <3>1, <3>2, <3>3
  <2> QED BY <1>1, <2>1 DEF InitHeap, HeapType
<1>6. 0 \in Entries /\ \A i \in Entries : i < heap.n => i = 0
  BY <1>2, <1>3
<1>7. /\ heap.alloc[0].offset = 0 /\ heap.total[0] = HeapSize
      /\ \A i \in Entries : heap.alloc[i].kernel = NoKernel /\ heap.alloc[i].size = 0
  BY <1>3, <1>6 DEF FreshEntry
<1>8. Used(heap) = {}
  BY <1>7 DEF Used, bIsFree
<1>9. Sized(heap)
  BY <1>2, <1>6, <1>7 DEF Sized, bIsFree
<1>10. Tiled(heap)
  <2>1. \A i \in Entries : ~(i + 1 < heap.n)
    BY <1>2, <1>3
  <2>2. heap.n - 1 = 0
    BY <1>3
  <2>3. heap.alloc[0].offset + heap.total[0] <= HeapSize /\ 0 <= heap.alloc[0].offset
    BY <1>2, <1>7
  <2> QED BY ONLY <2>1, <2>2, <2>3 DEF Tiled
<1>11. Known(heap)
  BY <1>8 DEF Known
<1>12. mem \in [0 .. HeapSize - 1 -> Kernels \cup {NoKernel}]
  BY <1>1
<1> QED BY <1>1, <1>3, <1>5, <1>8, <1>9, <1>10, <1>11, <1>12 DEF HeapInv, TableInv, CallInv

-----------------------------------------------------------------------------
\* The regions of the heap are where the table says, and what is loaded is there.
THEOREM AlwaysHeap == Spec => []HeapInv
<1> QED BY InitHeapInv, StepHeap, PTL DEF Spec

\* Nothing is loaded over a kernel the table still names: a call that finds its
\* kernel there need not copy it again.
THEOREM LoadedKernelsStayIntact == Spec => []LoadedKernelsAreIntact
<1>1. HeapInv => LoadedKernelsAreIntact
  BY DEF HeapInv, LoadedKernelsAreIntact, Intact, Holds
<1> QED BY <1>1, AlwaysHeap, PTL

-----------------------------------------------------------------------------
(***************************************************************************)
(* The media states and the sync tags.                                     *)
(***************************************************************************)
\* The state behind the last one is the first.
LEMMA NextInTurn ==
  ASSUME NEW m \in States
  PROVE  /\ (m + 1) % (MaxTasks + 1) = IF m = MaxTasks THEN 0 ELSE m + 1
         /\ (m + 1) % (MaxTasks + 1) \in States
         /\ Since(m, (m + 1) % (MaxTasks + 1)) = 0
<1>1. MaxTasks \in Nat /\ States = 0 .. MaxTasks /\ m \in 0 .. MaxTasks
  BY MaxTasksAssumption DEF States
<1>2. (m + 1) % (MaxTasks + 1) = IF m = MaxTasks THEN 0 ELSE m + 1
  <2>1. CASE m = MaxTasks
    BY <1>1, <2>1
  <2>2. CASE m # MaxTasks
    BY <1>1, <2>2
  <2> QED BY <2>1, <2>2
<1> QED BY <1>1, <1>2 DEF Since

\* One more state is taken: all others have aged by one.
LEMMA OneMoreTaken ==
  ASSUME NEW m \in States, NEW n \in States, m # n
  PROVE  Since(m, (n + 1) % (MaxTasks + 1)) = Since(m, n) + 1
<1>1. MaxTasks \in Nat /\ m \in 0 .. MaxTasks /\ n \in 0 .. MaxTasks
  BY MaxTasksAssumption DEF States
<1>2. (n + 1) % (MaxTasks + 1) = IF n = MaxTasks THEN 0 ELSE n + 1
  BY NextInTurn
<1> QED BY <1>1, <1>2 DEF Since

\* The next state was taken as long ago as there are others.
LEMMA SinceFacts ==
  ASSUME NEW m \in States, NEW n \in States
  PROVE  Since(m, n) \in Nat /\ Since(n, n) = MaxTasks
<1>1. MaxTasks \in Nat /\ m \in 0 .. MaxTasks /\ n \in 0 .. MaxTasks
  BY MaxTasksAssumption DEF States
<1> QED BY <1>1 DEF Since

\* Batches that write a tag have slots of their own: there are no more of them
\* than slots, and fewer while there is a free one.
LEMMA LaterFits ==
  ASSUME HalInv, TagInv, NEW tag
  PROVE  /\ IsFiniteSet(Later(job, tag))
         /\ Cardinality(Later(job, tag)) \in Nat
         /\ FreeIds # {} => Cardinality(Later(job, tag)) <= MaxTasks - 1
<1> DEFINE L == Later(job, tag)
           Busy == TaskIds \ FreeIds
<1>1. MaxTasks \in Nat /\ TaskIds = 0 .. MaxTasks - 1
  BY MaxTasksAssumption DEF TaskIds
<1>2. /\ IsFiniteSet(TaskIds) /\ Cardinality(TaskIds) = MaxTasks
  BY <1>1, FS_Interval
<1>3. \A t \in L : \E i \in Busy : taskStatusTable[i] = t
  <2> SUFFICES ASSUME NEW t \in L PROVE \E i \in Busy : taskStatusTable[i] = t
    OBVIOUS
  <2>1. t \in Tasks /\ job[t] # NoCall
    BY DEF Later
  <2>2. PICK n \in DOMAIN ring : ring[n].task = t
    BY <2>1 DEF TagInv
  <2>3. ring[n].id \in TaskIds /\ taskStatusTable[ring[n].id] = t
    BY <2>2, RingMembers DEF HalInv, RingOwnsItsSlots
  <2>4. ring[n].id \notin FreeIds
    BY <2>1, <2>3, TasksAssumption DEF FreeIds
  <2> QED BY <2>3, <2>4
<1> DEFINE f == [t \in L |-> CHOOSE i \in Busy : taskStatusTable[i] = t]
<1>4. f \in Injection(L, Busy)
  <2>1. \A t \in L : f[t] \in Busy /\ taskStatusTable[f[t]] = t
    BY <1>3
  <2>2. f \in [L -> Busy]
    BY <2>1
  <2>3. \A a, b \in L : f[a] = f[b] => a = b
    BY <2>1
  <2> HIDE DEF f, L, Busy
  <2> QED BY <2>2, <2>3 DEF Injection, IsInjective
<1>5. Busy \subseteq TaskIds /\ IsFiniteSet(Busy) /\ Cardinality(Busy) \in Nat
      /\ Cardinality(Busy) <= MaxTasks
  <2>1. Busy \subseteq TaskIds
    OBVIOUS
  <2> HIDE DEF Busy
  <2> QED BY <1>2, <2>1, FS_Subset, FS_CardinalityType
<1>6. IsFiniteSet(L) /\ Cardinality(L) \in Nat /\ Cardinality(L) <= Cardinality(Busy)
  <2> HIDE DEF L, Busy, f
  <2>1. IsFiniteSet(L) /\ Cardinality(L) <= Cardinality(Busy)
    BY <1>4, <1>5, FS_Injection
  <2> QED BY <2>1, FS_CardinalityType
<1>7. ASSUME FreeIds # {} PROVE Cardinality(Busy) <= MaxTasks - 1
  <2>1. PICK i \in TaskIds : i \notin Busy
    BY <1>7 DEF FreeIds
  <2> HIDE DEF Busy
  <2>2. Busy # TaskIds
    BY <2>1
  <2>3. Cardinality(TaskIds) # Cardinality(Busy)
    BY <1>2, <1>5, <2>2, FS_Subset
  <2> QED BY <1>1, <1>2, <1>5, <2>3
<1> HIDE DEF Busy
<1> QED BY <1>1, <1>5, <1>6, <1>7

-----------------------------------------------------------------------------
\* The jobs are those there were, with all but their buffers.
SameJobs ==
    /\ DOMAIN job' = Tasks
    /\ \A t \in Tasks : (job[t] = NoCall) <=> (job'[t] = NoCall)
    /\ \A t \in Tasks : job[t] # NoCall =>
         /\ DOMAIN job'[t] = JobFields
         /\ job'[t].tag = job[t].tag /\ job'[t].media = job[t].media
         /\ job'[t].kernels = job[t].kernels /\ job'[t].ids = job[t].ids
         /\ job'[t].doubt = job[t].doubt

\* The ring is as it was, with its words.
SameRing ==
    /\ ring' = ring
    /\ \A n \in DOMAIN ring : sync'[ring[n].id] = sync[ring[n].id]

\* States that are free may no longer be marked as busy.
SameStates(states) ==
    /\ DOMAIN states = States
    /\ \A m \in States :
         /\ DOMAIN states[m] = MediaFields
         /\ states[m].busy \in BOOLEAN
         /\ states[m].tag = media[m].tag
         /\ DOMAIN states[m].offset = MediaIds
         /\ states[m].busy => media[m].busy
         /\ media[m].busy /\ media[m].tag >= gpuTag => states[m].busy

\* A refresh clears the mark of no state whose tag is still to be written.
LEMMA RefreshedStates ==
  ASSUME MediaInv, TagInv
  PROVE  /\ SameStates(Refreshed(media)) /\ SameStates(media)
         /\ \A m \in States : Refreshed(media)[m].busy = StillBusy(media[m])
         /\ \A m \in States : StillBusy(media[m]) <=> media[m].busy /\ media[m].tag >= gpuTag
<1> DEFINE r == Refreshed(media)
<1>0. gpuTag \in Nat
  BY DEF TagInv
<1>1. ASSUME NEW m \in States
      PROVE  /\ DOMAIN r[m] = MediaFields /\ r[m].tag = media[m].tag
             /\ r[m].offset = media[m].offset
             /\ r[m].busy = StillBusy(media[m])
  <2>1. DOMAIN media[m] = MediaFields
    BY DEF MediaInv
  <2>2. r[m] = [media[m] EXCEPT !.busy = StillBusy(media[m])]
    BY DEF Refreshed
  <2> HIDE DEF r
  <2> QED BY <2>1, <2>2 DEF MediaFields
<1>2. DOMAIN r = States
  BY DEF Refreshed
<1> HIDE DEF r
<1>3. ASSUME NEW m \in States
      PROVE  /\ StillBusy(media[m]) \in BOOLEAN
             /\ StillBusy(media[m]) <=> media[m].busy /\ media[m].tag >= gpuTag
             /\ StillBusy(media[m]) => media[m].busy
  <2>1. media[m].tag \in Nat /\ media[m].busy \in BOOLEAN
    BY DEF MediaInv
  <2> QED BY <1>0, <2>1 DEF StillBusy
<1>4. \A m \in States : DOMAIN media[m] = MediaFields /\ media[m].busy \in BOOLEAN
                        /\ DOMAIN media[m].offset = MediaIds
  BY DEF MediaInv
<1>5. DOMAIN media = States
  BY DEF MediaInv
<1>6. SameStates(r)
  BY <1>1, <1>2, <1>3, <1>4 DEF SameStates
<1>7. SameStates(media)
  BY <1>4, <1>5 DEF SameStates
<1> QED BY <1>1, <1>3, <1>6, <1>7 DEF r

\* The tags as they are after a step that changes neither ring nor jobs.
LEMMA TagSame ==
  ASSUME TagInv, HalInv, SameJobs, SameRing, gpuTag' = gpuTag,
         nextTag' \in Nat, nextTag <= nextTag'
  PROVE  /\ TagInv'
         /\ \A tag : Later(job', tag) = Later(job, tag)
         /\ \A n \in DOMAIN ring : /\ JobOf(n)'.tag = JobOf(n).tag
                                   /\ JobOf(n)'.media = JobOf(n).media
<1>1. \A n \in DOMAIN ring : ring[n].task \in Tasks /\ JobOf(n) # NoCall
                             /\ JobOf(n).tag \in Nat
  BY RingMembers DEF HalInv, TagInv, JobOf
<1>2. \A n \in DOMAIN ring : /\ JobOf(n)' # NoCall
                             /\ JobOf(n)'.tag = JobOf(n).tag
                             /\ JobOf(n)'.media = JobOf(n).media
  BY <1>1 DEF SameJobs, SameRing, JobOf
<1>3. \A tag : Later(job', tag) = Later(job, tag)
  BY DEF Later, SameJobs
<1>4. TagInv'
  <2>1. gpuTag' \in Nat /\ nextTag' \in Nat /\ gpuTag' <= nextTag' /\ DOMAIN job' = Tasks
    BY DEF TagInv, SameJobs
  <2>2. ASSUME NEW t \in Tasks, job'[t] # NoCall
        PROVE  /\ DOMAIN job'[t] = JobFields
               /\ job'[t].tag \in Nat /\ job'[t].tag <= nextTag'
               /\ \E n \in DOMAIN ring' : ring'[n].task = t
    BY <2>2 DEF TagInv, SameJobs, SameRing
  <2>3. \A n \in DOMAIN ring' :
          IF sync'[ring'[n].id] = "reset" THEN JobOf(n)'.tag > gpuTag'
                                         ELSE n = 1 /\ JobOf(n)'.tag <= gpuTag'
    BY <1>2 DEF TagInv, SameRing
  <2>4. \A m, n \in DOMAIN ring' : m < n => JobOf(m)'.tag < JobOf(n)'.tag
    BY <1>2 DEF TagInv, SameRing
  <2>5. \A n \in DOMAIN ring' : JobOf(n)' # NoCall
    BY <1>2 DEF SameRing
  <2> QED BY <2>1, <2>2, <2>3, <2>4, <2>5 DEF TagInv
<1> QED BY <1>2, <1>3, <1>4

\* A batch the GPU has still to begin keeps its state busy, with its tag.
LEMMA UnbegunStates ==
  ASSUME HalInv, TagInv, MediaInv, NEW n \in DOMAIN ring, sync[ring[n].id] = "reset"
  PROVE  LET m == JobOf(n).media IN
         /\ m \in States /\ media[m].busy /\ media[m].tag >= gpuTag
         /\ media[m].tag + 1 = JobOf(n).tag
<1>1. JobOf(n) # NoCall /\ JobOf(n).tag > gpuTag /\ ring[n].task \in Tasks
  BY RingMembers DEF TagInv, HalInv
<1>2. gpuTag \in Nat /\ JobOf(n).tag \in Nat
  BY <1>1 DEF TagInv, JobOf
<1>3. /\ JobOf(n).media \in States
      /\ media[JobOf(n).media].busy
      /\ media[JobOf(n).media].tag + 1 = JobOf(n).tag
      /\ media[JobOf(n).media].tag \in Nat
  BY DEF MediaInv, RingStates
<1> QED BY <1>1, <1>2, <1>3

\* So its batches have the same states.
LEMMA SameRingStates ==
  ASSUME HalInv, TagInv, MediaInv, SameJobs, SameRing, SameStates(media'),
         gpuTag' = gpuTag
  PROVE  RingStates'
<1> SUFFICES ASSUME NEW n \in DOMAIN ring', sync'[ring'[n].id] = "reset"
             PROVE  /\ JobOf(n)'.media \in States
                    /\ media'[JobOf(n)'.media].busy
                    /\ media'[JobOf(n)'.media].tag + 1 = JobOf(n)'.tag
  BY DEF RingStates
<1>1. n \in DOMAIN ring /\ sync[ring[n].id] = "reset"
  BY DEF SameRing
<1>2. JobOf(n)'.media = JobOf(n).media /\ JobOf(n)'.tag = JobOf(n).tag
  <2>1. ring[n].task \in Tasks /\ JobOf(n) # NoCall
    BY <1>1, RingMembers DEF HalInv, TagInv
  <2> QED BY <2>1 DEF SameJobs, SameRing, JobOf
<1>3. LET m == JobOf(n).media IN
      /\ m \in States /\ media[m].busy /\ media[m].tag >= gpuTag
      /\ media[m].tag + 1 = JobOf(n).tag
  BY <1>1, UnbegunStates
<1> QED BY <1>2, <1>3 DEF SameStates

\* MediaInv and TurnInv for a step that takes no state and ends no call.
LEMMA StatesGoOn ==
  ASSUME HalInv, TurnsInv, SameJobs, SameRing, SameStates(media'),
         UNCHANGED <<gpuTag, nextTag, nextMedia, fails>>,
         Taken' <=> Taken,
         Taken => call'.media = call.media,
         call' # NoCall /\ call'.pc = "wait" => fails >= 2
  PROVE  TagInv' /\ MediaInv' /\ TurnInv'
<1>1. /\ TagInv'
      /\ \A tag : Later(job', tag) = Later(job, tag)
  BY TagSame DEF TurnsInv, TagInv
<1>2. RingStates'
  BY SameRingStates DEF TurnsInv
<1>3. MediaInv'
  <2>1. nextMedia' \in States /\ DOMAIN media' = States
    BY DEF SameStates, TurnsInv, MediaInv
  <2>2. \A m \in States : /\ DOMAIN media'[m] = MediaFields
                          /\ media'[m].busy \in BOOLEAN
                          /\ media'[m].tag \in Nat /\ media'[m].tag <= nextTag'
                          /\ DOMAIN media'[m].offset = MediaIds
    BY DEF SameStates, TurnsInv, MediaInv
  <2>3. Taken' => call'.media \in States /\ media'[call'.media].tag = nextTag'
    BY DEF SameStates, TurnsInv, MediaInv
  <2> QED BY <1>2, <2>1, <2>2, <2>3 DEF MediaInv, RingStates
<1>4. TurnInv'
  <2>1. fails' \in Nat /\ (call' # NoCall /\ call'.pc = "wait" => fails' >= 2)
    BY DEF TurnsInv, TurnInv
  <2>2. ASSUME NEW m \in States,
               media'[m].busy \/ (Taken' /\ m = call'.media), media'[m].tag >= gpuTag'
        PROVE  Ended(m, nextMedia', Taken') <= Cardinality(Later(job', media'[m].tag)) + fails'
    <3>1. media'[m].tag = media[m].tag /\ (media'[m].busy => media[m].busy)
      BY DEF SameStates
    <3>2. (media[m].busy \/ (Taken /\ m = call.media)) /\ media[m].tag >= gpuTag
      BY <2>2, <3>1
    <3>3. Ended(m, nextMedia, Taken) <= Cardinality(Later(job, media[m].tag)) + fails
      BY <3>2 DEF TurnsInv, TurnInv
    <3>4. Ended(m, nextMedia', Taken') = Ended(m, nextMedia, Taken)
      BY DEF Ended
    <3> QED BY <1>1, <3>1, <3>3, <3>4
  <2>3. ASSUME NEW m \in States, media'[m].busy, media'[m].tag = nextTag'
        PROVE  Ended(m, nextMedia', Taken') + 2 <= fails'
    <3>1. media'[m].tag = media[m].tag /\ (media'[m].busy => media[m].busy)
      BY DEF SameStates
    <3>2. Ended(m, nextMedia', Taken') = Ended(m, nextMedia, Taken)
      BY DEF Ended
    <3> QED BY <2>3, <3>1, <3>2 DEF TurnsInv, TurnInv
  <2>4. Taken' => Since(call'.media, nextMedia') = 0
    BY DEF TurnsInv, TurnInv
  <2> QED BY <2>1, <2>2, <2>3, <2>4 DEF TurnInv
<1> QED BY <1>1, <1>3, <1>4

\* A call that fails: the states taken since are one ended call older.
LEMMA FailedTurns ==
  ASSUME HalInv, TurnsInv, SameJobs, SameRing,
         UNCHANGED <<gpuTag, nextMedia, media>>,
         nextTag' = nextTag \/ nextTag' = nextTag + 1,
         call # NoCall, call' = NoCall, fails' = fails + 1
  PROVE  TurnsInv'
<1>0. nextTag \in Nat /\ fails \in Nat /\ nextTag' \in Nat /\ nextTag <= nextTag'
      /\ TagInv /\ MediaInv
  BY DEF TurnsInv, TagInv, TurnInv
<1>1. /\ TagInv'
      /\ \A tag : Later(job', tag) = Later(job, tag)
  BY <1>0, TagSame
<1>2. ~Taken'
  BY DEF Taken, NoCall
<1>3. SameStates(media)
  BY <1>0, RefreshedStates
<1>4. RingStates'
  <2>1. SameStates(media')
    BY <1>3
  <2> QED BY <1>0, <2>1, SameRingStates
<1>5. MediaInv'
  <2>1. \A m \in States : /\ DOMAIN media[m] = MediaFields
                          /\ media[m].busy \in BOOLEAN
                          /\ media[m].tag \in Nat /\ media[m].tag <= nextTag
                          /\ DOMAIN media[m].offset = MediaIds
    BY <1>0 DEF MediaInv
  <2>2. \A m \in States : media[m].tag <= nextTag'
    BY <1>0, <2>1
  <2> QED BY <1>0, <1>2, <1>4, <2>1, <2>2 DEF MediaInv, RingStates
<1>6. TurnInv'
  <2>1. ASSUME NEW m \in States, media[m].busy, media[m].tag >= gpuTag
        PROVE  Ended(m, nextMedia, FALSE) <= Cardinality(Later(job, media[m].tag)) + fails + 1
    <3>1. Ended(m, nextMedia, Taken) <= Cardinality(Later(job, media[m].tag)) + fails
      BY <2>1 DEF TurnsInv, TurnInv
    <3>2. Cardinality(Later(job, media[m].tag)) \in Nat
      BY <1>0, LaterFits
    <3>3. Since(m, nextMedia) \in Nat
      BY <1>0, SinceFacts DEF MediaInv
    <3> QED BY <1>0, <3>1, <3>2, <3>3 DEF Ended
  <2>2. ASSUME NEW m \in States, media[m].busy, media[m].tag = nextTag'
        PROVE  Ended(m, nextMedia, FALSE) + 2 <= fails + 1
    <3>1. media[m].tag \in Nat /\ media[m].tag <= nextTag
      BY <1>0 DEF MediaInv
    <3>2. media[m].tag = nextTag
      BY <1>0, <2>2, <3>1
    <3>3. Ended(m, nextMedia, Taken) + 2 <= fails
      BY <2>2, <3>2 DEF TurnsInv, TurnInv
    <3>4. Since(m, nextMedia) \in Nat
      BY <1>0, SinceFacts DEF MediaInv
    <3> QED BY <1>0, <3>3, <3>4 DEF Ended
  <2>3. fails' \in Nat
    BY <1>0
  <2>4. \A m \in States : Ended(m, nextMedia', Taken') = Ended(m, nextMedia, FALSE)
    BY <1>2 DEF Ended
  <2>5. ASSUME NEW m \in States,
               media'[m].busy \/ (Taken' /\ m = call'.media), media'[m].tag >= gpuTag'
        PROVE  Ended(m, nextMedia', Taken') <= Cardinality(Later(job', media'[m].tag)) + fails'
    <3>1. Ended(m, nextMedia, FALSE) <= Cardinality(Later(job, media[m].tag)) + fails + 1
      BY <1>2, <2>1, <2>5
    <3>2. Cardinality(Later(job, media[m].tag)) \in Nat
      BY <1>0, LaterFits
    <3>3. Later(job', media'[m].tag) = Later(job, media[m].tag)
      BY <1>1
    <3>4. Ended(m, nextMedia', Taken') = Ended(m, nextMedia, FALSE)
      BY <2>4
    <3>5. Since(m, nextMedia) \in Nat
      BY <1>0, SinceFacts DEF MediaInv
    <3>6. Ended(m, nextMedia, FALSE) \in Nat
      BY <3>5 DEF Ended
    <3>7. Cardinality(Later(job', media'[m].tag)) = Cardinality(Later(job, media[m].tag))
      BY <3>3
    <3>8. Ended(m, nextMedia, FALSE) <= Cardinality(Later(job, media[m].tag)) + fails'
      <4>1. ASSUME NEW e \in Nat, NEW c \in Nat, e <= c + fails + 1 PROVE e <= c + fails'
        BY <1>0, <4>1
      <4> QED BY <3>1, <3>2, <3>6, <4>1
    <3> QED BY ONLY <3>4, <3>7, <3>8
  <2>6. ASSUME NEW m \in States, media'[m].busy, media'[m].tag = nextTag'
        PROVE  Ended(m, nextMedia', Taken') + 2 <= fails'
    BY <2>2, <2>4, <2>6
  <2> QED BY <1>2, <2>3, <2>5, <2>6 DEF TurnInv
<1>7. FreshInv'
  BY DEF FreshInv
<1> QED BY <1>1, <1>5, <1>6, <1>7 DEF TurnsInv

-----------------------------------------------------------------------------
(***************************************************************************)
(* Every step keeps TurnsInv.                                              *)
(***************************************************************************)
\* A call that has a state is in progress.
LEMMA TakenInProgress ==
  ASSUME Taken
  PROVE  call # NoCall
  BY CallInProgress DEF Taken

\* Nothing happens to the jobs.
LEMMA SameJobsKept ==
  ASSUME TagInv, job' = job
  PROVE  SameJobs
  BY DEF TagInv, SameJobs

\* A call that begins has no state yet.
LEMMA BeginTurns ==
  ASSUME HalInv, TurnsInv, NEW t \in Tasks, Begin(t)
  PROVE  TurnsInv'
<1>1. PICK c \in Calls :
        call' = [pc |-> "media", task |-> t, kernels |-> c.kernels,
                 walker |-> c.walker, dirty |-> c.dirty, mask |-> c.mask,
                 media |-> None,
                 ids |-> <<>>, allocation |-> [d \in MediaIds |-> NoEntry],
                 buffer |-> None, write |-> FALSE, doubt |-> {}]
  BY DEF Begin
<1>2. DOMAIN call' = CallFields /\ call'.pc = "media"
  BY <1>1 DEF CallFields
<1>3. /\ call = NoCall /\ FreeIds # {}
      /\ UNCHANGED <<halVars, media, nextMedia, nextTag, gpuTag, job, fails>>
  BY DEF Begin
<1>4. ~Taken /\ ~Taken'
  BY <1>2, <1>3 DEF Taken, NoCall
<1>5. SameJobs /\ SameRing /\ SameStates(media')
  BY <1>3, SameJobsKept, RefreshedStates DEF TurnsInv, SameRing, halVars
<1>6. TagInv' /\ MediaInv' /\ TurnInv'
  BY <1>2, <1>3, <1>4, <1>5, StatesGoOn
<1>7. FreeIds' # {}
  BY <1>3 DEF FreeIds, halVars
<1>8. FreshInv'
  BY <1>2, <1>7 DEF FreshInv
<1> QED BY <1>6, <1>8 DEF TurnsInv

\* The next state is taken, free or not; if not, two calls have failed.
LEMMA TakeTurns ==
  ASSUME HalInv, TurnsInv, NEW states, SameStates(states), TakeMediaState(states),
         UNCHANGED <<halVars, nextTag, gpuTag, job, fails>>,
         call # NoCall, call.pc \in {"media", "wait"},
         ~(media[nextMedia].busy /\ media[nextMedia].tag >= gpuTag),
         states[nextMedia].busy => fails >= 2,
         syncTag' \in Int /\ syncTag' < gpuTag
  PROVE  TurnsInv'
<1> DEFINE next == (nextMedia + 1) % (MaxTasks + 1)
<1>0. /\ TagInv /\ MediaInv /\ nextMedia \in States /\ nextTag \in Nat /\ fails \in Nat
      /\ gpuTag \in Nat /\ gpuTag <= nextTag
  BY DEF TurnsInv, TagInv, MediaInv, TurnInv
<1>1. /\ call' = [call EXCEPT !.media = nextMedia,
                              !.pc = IF call.walker THEN "kernel" ELSE "buffer"]
      /\ media' = [states EXCEPT ![nextMedia].tag = nextTag]
      /\ nextMedia' = next
  BY DEF TakeMediaState
<1>2. /\ DOMAIN call' = CallFields /\ call'.pc \in {"kernel", "buffer"}
      /\ call'.media = nextMedia
  <2>1. DOMAIN call = CallFields
    BY DEF TurnsInv, FreshInv
  <2> QED BY <1>1, <2>1 DEF CallFields
<1>3. Taken' /\ ~Taken /\ call' # NoCall
  BY <1>2 DEF Taken, NoCall
<1>4. /\ DOMAIN media' = States
      /\ \A m \in States : /\ DOMAIN media'[m] = MediaFields
                           /\ media'[m].busy = states[m].busy
                           /\ media'[m].offset = states[m].offset
                           /\ media'[m].tag = IF m = nextMedia THEN nextTag ELSE media[m].tag
  BY <1>0, <1>1 DEF SameStates, MediaFields
<1>5. SameJobs /\ SameRing
  BY <1>0, SameJobsKept DEF SameRing, halVars
<1>6. /\ TagInv'
      /\ \A tag : Later(job', tag) = Later(job, tag)
  BY <1>0, <1>5, TagSame
<1>7. next \in States /\ Since(nextMedia, next) = 0
      /\ \A m \in States : m # nextMedia => Since(m, next) = Since(m, nextMedia) + 1
  BY <1>0, NextInTurn, OneMoreTaken
<1> HIDE DEF next
<1>8. MediaInv'
  <2>1. ASSUME NEW n \in DOMAIN ring', sync'[ring'[n].id] = "reset"
        PROVE  /\ JobOf(n)'.media \in States
               /\ media'[JobOf(n)'.media].busy
               /\ media'[JobOf(n)'.media].tag + 1 = JobOf(n)'.tag
    <3>1. n \in DOMAIN ring /\ sync[ring[n].id] = "reset" /\ JobOf(n)' = JobOf(n)
      BY <2>1 DEF halVars, JobOf
    <3>2. LET m == JobOf(n).media IN
          /\ m \in States /\ media[m].busy /\ media[m].tag >= gpuTag
          /\ media[m].tag + 1 = JobOf(n).tag
      BY <1>0, <3>1, UnbegunStates
    <3>3. JobOf(n).media # nextMedia
      BY <3>2
    <3> QED BY <1>4, <3>1, <3>2, <3>3 DEF SameStates
  <2>2. ASSUME NEW m \in States
        PROVE  /\ DOMAIN media'[m] = MediaFields
               /\ media'[m].busy \in BOOLEAN
               /\ media'[m].tag \in Nat /\ media'[m].tag <= nextTag'
               /\ DOMAIN media'[m].offset = MediaIds
    <3>1. media[m].tag \in Nat /\ media[m].tag <= nextTag
      BY <1>0 DEF MediaInv
    <3> QED BY <1>0, <1>4, <3>1 DEF SameStates
  <2>3. nextMedia' \in States /\ (call'.media \in States /\ media'[call'.media].tag = nextTag')
    BY <1>0, <1>1, <1>2, <1>4, <1>7
  <2> QED BY <1>4, <2>1, <2>2, <2>3 DEF MediaInv, RingStates
<1>9. TurnInv'
  <2>1. \A m \in States : Since(m, nextMedia) \in Nat /\ Ended(m, nextMedia, Taken) = Since(m, nextMedia) + 1
                          /\ Ended(m, nextMedia', Taken') = Since(m, next)
    BY <1>0, <1>1, <1>3, SinceFacts DEF Ended
  <2>2. \A tag : Cardinality(Later(job', tag)) \in Nat
    BY <1>0, <1>6, LaterFits
  <2>3. ASSUME NEW m \in States,
               media'[m].busy \/ (Taken' /\ m = call'.media), media'[m].tag >= gpuTag'
        PROVE  Ended(m, nextMedia', Taken') <= Cardinality(Later(job', media'[m].tag)) + fails'
    <3>1. CASE m = nextMedia
      <4>1. Ended(m, nextMedia', Taken') = 0
        BY <1>7, <2>1, <3>1
      <4> QED BY <1>0, <2>2, <4>1
    <3>2. CASE m # nextMedia
      <4>1. media[m].busy /\ media'[m].tag = media[m].tag /\ media[m].tag >= gpuTag
        BY <1>2, <1>4, <2>3, <3>2 DEF SameStates
      <4>2. Ended(m, nextMedia, Taken) <= Cardinality(Later(job, media[m].tag)) + fails
        BY <4>1 DEF TurnsInv, TurnInv
      <4>3. Ended(m, nextMedia', Taken') = Ended(m, nextMedia, Taken)
        BY <1>7, <2>1, <3>2
      <4> QED BY <1>6, <4>1, <4>2, <4>3
    <3> QED BY <3>1, <3>2
  <2>4. ASSUME NEW m \in States, media'[m].busy, media'[m].tag = nextTag'
        PROVE  Ended(m, nextMedia', Taken') + 2 <= fails'
    <3>1. CASE m = nextMedia
      <4>1. Ended(m, nextMedia', Taken') = 0
        BY <1>7, <2>1, <3>1
      <4>2. fails >= 2
        BY <1>4, <2>4, <3>1
      <4> QED BY <1>0, <4>1, <4>2
    <3>2. CASE m # nextMedia
      <4>1. media[m].busy /\ media[m].tag = nextTag
        BY <1>4, <2>4, <3>2 DEF SameStates
      <4>2. Ended(m, nextMedia, Taken) + 2 <= fails
        BY <4>1 DEF TurnsInv, TurnInv
      <4>3. Ended(m, nextMedia', Taken') = Ended(m, nextMedia, Taken)
        BY <1>7, <2>1, <3>2
      <4> QED BY <4>2, <4>3
    <3> QED BY <3>1, <3>2
  <2>5. fails' \in Nat /\ ~(call' # NoCall /\ call'.pc = "wait")
    BY <1>0, <1>2
  <2>6. Since(call'.media, nextMedia') = 0
    BY <1>1, <1>2, <1>7
  <2> QED BY <2>3, <2>4, <2>5, <2>6 DEF TurnInv
<1>10. FreshInv'
  <2>1. FreeIds' = FreeIds /\ FreeIds # {}
    BY DEF TurnsInv, FreshInv, FreeIds, halVars
  <2> QED BY <1>2, <2>1 DEF FreshInv
<1> QED BY <1>6, <1>8, <1>9, <1>10 DEF TurnsInv
\* A call that finds the state busy begins to wait; two have failed then.
LEMMA AssignTurns ==
  ASSUME HalInv, TurnsInv, IntelGen_HwAssignMediaState
  PROVE  TurnsInv'
<1>0. /\ TagInv /\ MediaInv /\ nextMedia \in States /\ gpuTag \in Nat /\ fails \in Nat
      /\ MaxTasks \in Nat
  BY MaxTasksAssumption DEF TurnsInv, TagInv, MediaInv, TurnInv
<1>1. /\ call.pc = "media" /\ syncTag' = gpuTag - 1
      /\ UNCHANGED <<halVars, nextTag, gpuTag, job, fails>>
  BY DEF IntelGen_HwAssignMediaState, IntelGen_HwRefreshSync
<1>2. call # NoCall /\ ~Taken
  BY <1>1, CallInProgress DEF Taken
<1>3. syncTag' \in Int /\ syncTag' < gpuTag
  BY <1>0, <1>1
<1>4. /\ SameStates(Refreshed(media))
      /\ Refreshed(media)[nextMedia].busy = StillBusy(media[nextMedia])
      /\ StillBusy(media[nextMedia]) <=> media[nextMedia].busy /\ media[nextMedia].tag >= gpuTag
  BY <1>0, RefreshedStates
<1>5. CASE ~StillBusy(media[nextMedia]) /\ TakeMediaState(Refreshed(media))
  BY <1>1, <1>2, <1>3, <1>4, <1>5, TakeTurns
<1>6. CASE StillBusy(media[nextMedia]) /\ call' = [call EXCEPT !.pc = "wait"]
           /\ media' = Refreshed(media) /\ UNCHANGED nextMedia
  <2>1. DOMAIN call = CallFields /\ FreeIds # {}
    BY <1>2 DEF TurnsInv, FreshInv
  <2>2. DOMAIN call' = CallFields /\ call'.pc = "wait"
    BY <1>6, <2>1 DEF CallFields
  <2>3. ~Taken'
    BY <2>2 DEF Taken
  <2>4. SameJobs /\ SameRing /\ SameStates(media')
    BY <1>0, <1>1, <1>4, <1>6, SameJobsKept DEF SameRing, halVars
  <2>5. fails >= 2
    <3> DEFINE c == Cardinality(Later(job, media[nextMedia].tag))
    <3>1. Ended(nextMedia, nextMedia, Taken) <= c + fails
      BY <1>0, <1>4, <1>6 DEF TurnsInv, TurnInv
    <3>2. Ended(nextMedia, nextMedia, Taken) = MaxTasks + 1
      BY <1>0, <1>2, SinceFacts DEF Ended
    <3>3. c \in Nat /\ c <= MaxTasks - 1
      BY <1>0, <2>1, LaterFits
    <3> HIDE DEF c
    <3> QED BY <1>0, <3>1, <3>2, <3>3
  <2>6. TagInv' /\ MediaInv' /\ TurnInv'
    BY <1>1, <1>2, <1>6, <2>3, <2>4, <2>5, StatesGoOn
  <2>7. FreshInv'
    <3>1. FreeIds' = FreeIds
      BY <1>1 DEF FreeIds, halVars
    <3>2. gpuTag' = gpuTag
      BY <1>1
    <3> QED BY <1>3, <2>1, <2>2, <3>1, <3>2 DEF FreshInv
  <2> QED BY <2>6, <2>7 DEF TurnsInv
<1> QED BY <1>5, <1>6 DEF IntelGen_HwAssignMediaState

\* The spin ends when the tag has been written.
LEMMA WaitTurns ==
  ASSUME HalInv, TurnsInv, WaitForMediaState
  PROVE  TurnsInv'
<1>0. /\ TagInv /\ MediaInv /\ nextMedia \in States /\ gpuTag \in Nat
  BY DEF TurnsInv, TagInv, MediaInv
<1>1. /\ call.pc = "wait" /\ gpuTag - media[nextMedia].tag > 0
      /\ TakeMediaState(media)
      /\ UNCHANGED <<halVars, nextTag, gpuTag, syncTag, job, fails>>
  BY DEF WaitForMediaState
<1>2. call # NoCall
  BY <1>1, CallInProgress
<1>3. SameStates(media)
  BY <1>0, RefreshedStates
<1>4. media[nextMedia].tag \in Nat
  BY <1>0 DEF MediaInv
<1>5. ~(media[nextMedia].tag >= gpuTag)
  BY <1>0, <1>1, <1>4
<1>6. fails >= 2
  BY <1>1, <1>2 DEF TurnsInv, TurnInv
<1>7. syncTag' \in Int /\ syncTag' < gpuTag
  BY <1>1, <1>2 DEF TurnsInv, FreshInv
<1> QED BY <1>1, <1>2, <1>3, <1>5, <1>6, <1>7, TakeTurns

\* A call that has its state and goes on with it.
InnerStep ==
    /\ Taken /\ Taken'
    /\ DOMAIN call' = CallFields /\ call'.media = call.media
    /\ SameStates(media') /\ SameJobs
    /\ syncTag' = syncTag \/ syncTag' = gpuTag - 1
    /\ UNCHANGED <<halVars, gpuTag, nextTag, nextMedia, fails>>

\* Such a step leaves all of TurnsInv alone.
LEMMA InnerTurns ==
  ASSUME HalInv, TurnsInv, InnerStep
  PROVE  TurnsInv'
<1>1. SameRing
  BY DEF InnerStep, SameRing, halVars
<1>2. ~(call' # NoCall /\ call'.pc = "wait")
  BY DEF InnerStep, Taken
<1>3. TagInv' /\ MediaInv' /\ TurnInv'
  BY <1>1, <1>2, StatesGoOn DEF InnerStep
<1>4. FreshInv'
  <2>1. gpuTag \in Nat /\ gpuTag' = gpuTag
    BY DEF TurnsInv, TagInv, InnerStep
  <2>2. call # NoCall /\ call.pc # "media"
    BY TakenInProgress DEF InnerStep, Taken
  <2>3. FreeIds # {} /\ syncTag \in Int /\ syncTag < gpuTag
    BY <2>2 DEF TurnsInv, FreshInv
  <2>4. syncTag' \in Int /\ syncTag' < gpuTag'
    BY <2>1, <2>3 DEF InnerStep
  <2>5. FreeIds' = FreeIds
    BY DEF InnerStep, FreeIds, halVars
  <2>6. DOMAIN call' = CallFields /\ call'.pc # "idle"
    BY DEF InnerStep, Taken
  <2> QED BY <2>3, <2>4, <2>5, <2>6 DEF FreshInv
<1> QED BY <1>3, <1>4 DEF TurnsInv

\* The memory of a job's buffer goes back to the driver: nothing else of it.
LEMMA JobsKeepTheirTags ==
  ASSUME TagInv, TakeBatchBuffer
  PROVE  SameJobs
<1>0. /\ DOMAIN job' = Tasks
      /\ \A t \in Tasks :
           job'[t] = job[t] \/ (job[t] # NoCall /\ job'[t] = [job[t] EXCEPT !.buffer = None])
  <2> DEFINE b == ChosenBuffer
             keeps == b \in Fitting /\ Unallocated = {}
  <2>1. job' = [t \in Tasks |->
                  IF ~keeps /\ job[t] # NoCall /\ job[t].buffer = b
                    THEN [job[t] EXCEPT !.buffer = None] ELSE job[t]]
    BY Zenon DEF TakeBatchBuffer
  <2> HIDE DEF keeps, b
  <2> QED BY <2>1
<1>1. DOMAIN job' = Tasks
  BY <1>0
<1>2. ASSUME NEW t \in Tasks, job[t] # NoCall
      PROVE  /\ DOMAIN job'[t] = JobFields
             /\ job'[t].tag = job[t].tag /\ job'[t].media = job[t].media
             /\ job'[t].kernels = job[t].kernels /\ job'[t].ids = job[t].ids
             /\ job'[t].doubt = job[t].doubt
             /\ job'[t] # NoCall
  <2>1. DOMAIN job[t] = JobFields
    BY <1>2 DEF TagInv
  <2>2. job'[t] = job[t] \/ job'[t] = [job[t] EXCEPT !.buffer = None]
    BY <1>0
  <2>3. "tag" \notin DOMAIN NoCall
    BY DEF NoCall
  <2>4. DOMAIN job'[t] = JobFields
    BY <2>1, <2>2
  <2>5. /\ job'[t].tag = job[t].tag /\ job'[t].media = job[t].media
        /\ job'[t].kernels = job[t].kernels /\ job'[t].ids = job[t].ids
        /\ job'[t].doubt = job[t].doubt
    BY <2>1, <2>2 DEF JobFields
  <2> QED BY <2>3, <2>4, <2>5 DEF JobFields
<1>3. ASSUME NEW t \in Tasks, job[t] = NoCall PROVE job'[t] = NoCall
  BY <1>0, <1>3
<1> QED BY <1>1, <1>2, <1>3 DEF SameJobs

\* The descriptor of a state points to another kernel.
LEMMA OffsetChanged ==
  ASSUME MediaInv, TagInv, Taken, NEW id, NEW o,
         media' = [media EXCEPT ![call.media].offset[id] = o]
  PROVE  SameStates(media')
<1>1. SameStates(media) /\ call.media \in States
  BY RefreshedStates DEF MediaInv
<1>2. DOMAIN media = States /\ \A m \in States : DOMAIN media[m] = MediaFields
  BY DEF MediaInv
<1>3. \A m \in States : m # call.media => media'[m] = media[m]
  BY <1>2
<1>4. media'[call.media] = [media[call.media] EXCEPT !.offset[id] = o]
  BY <1>1, <1>2
<1>5. /\ DOMAIN media'[call.media] = MediaFields
      /\ media'[call.media].busy = media[call.media].busy
      /\ media'[call.media].tag = media[call.media].tag
      /\ DOMAIN media'[call.media].offset = DOMAIN media[call.media].offset
  BY <1>1, <1>2, <1>4 DEF MediaFields
<1>6. DOMAIN media' = States
  BY <1>2
<1> QED BY <1>1, <1>3, <1>5, <1>6 DEF SameStates

\* The batch buffer and the kernels: the call keeps its state.
LEMMA InnerSteps ==
  ASSUME HalInv, TurnsInv,
         \/ ReuseBatchBuffer \/ (TakeBatchBuffer /\ call' # NoCall)
         \/ IntelGen_HwLockBB \/ LoadedKernel \/ HalCm_LoadKernel \/ EvictKernel
  PROVE  InnerStep
<1>0. /\ TagInv /\ MediaInv
      /\ SameStates(media) /\ SameStates(Refreshed(media))
  BY RefreshedStates DEF TurnsInv
<1>1. Taken
  BY DEF ReuseBatchBuffer, TakeBatchBuffer, IntelGen_HwLockBB, LoadedKernel,
         HalCm_LoadKernel, EvictKernel, NoRoom, Taken
<1>2. DOMAIN call = CallFields
  BY <1>1, TakenInProgress DEF TurnsInv, FreshInv
<1>3. CASE ReuseBatchBuffer
  <2>1. /\ call' = [call EXCEPT !.pc = IF call.mask THEN "lock" ELSE "kernel",
                                !.buffer = Min(Reusable), !.write = FALSE,
                                !.doubt = buffers[Min(Reusable)].doubt]
        /\ UNCHANGED <<halVars, media, nextMedia, nextTag, gpuTag, syncTag, job, fails>>
    BY <1>3 DEF ReuseBatchBuffer
  <2>2. /\ DOMAIN call' = CallFields /\ call'.media = call.media
        /\ call'.pc \in {"lock", "kernel"}
    BY <1>2, <2>1 DEF CallFields
  <2> QED BY <1>0, <1>1, <2>1, <2>2, SameJobsKept DEF InnerStep, Taken
<1>4. CASE (TakeBatchBuffer /\ call' # NoCall)
  <2>1. /\ \E b : call' = [call EXCEPT !.pc = "lock", !.buffer = b, !.write = TRUE]
        /\ UNCHANGED fails
    BY <1>4, Zenon DEF TakeBatchBuffer, CallFails
  <2>2. UNCHANGED <<halVars, media, nextMedia, nextTag, gpuTag, syncTag>>
    BY <1>4, Zenon DEF TakeBatchBuffer
  <2>3. PICK b : call' = [call EXCEPT !.pc = "lock", !.buffer = b, !.write = TRUE]
    BY <2>1
  <2>4. /\ DOMAIN call' = CallFields /\ call'.media = call.media
        /\ call'.pc = "lock"
    BY <1>2, <2>3 DEF CallFields
  <2>5. SameJobs
    BY <1>0, <1>4, JobsKeepTheirTags
  <2> QED BY <1>0, <1>1, <2>1, <2>2, <2>4, <2>5 DEF InnerStep, Taken
<1>5. CASE IntelGen_HwLockBB
  <2>1. /\ call' = [call EXCEPT !.pc = "kernel"]
        /\ UNCHANGED <<halVars, media, nextMedia, nextTag, gpuTag, syncTag, job, fails>>
    BY <1>5 DEF IntelGen_HwLockBB
  <2>2. DOMAIN call' = CallFields /\ call'.media = call.media /\ call'.pc = "kernel"
    BY <1>2, <2>1 DEF CallFields
  <2> QED BY <1>0, <1>1, <2>1, <2>2, SameJobsKept DEF InnerStep, Taken
<1>6. ASSUME NEW h, NEW i, HalCm_AllocateMediaID(h, i),
             UNCHANGED <<halVars, nextMedia, nextTag, gpuTag, syncTag, job, fails>>
      PROVE  InnerStep
  <2> DEFINE id == MediaId(h, i)
  <2>1. /\ media' = [media EXCEPT ![call.media].offset[id] = h.alloc[i].offset]
        /\ call' = [call EXCEPT
                     !.ids = Append(@, id), !.allocation[id] = i,
                     !.doubt = DoubtAfter(h),
                     !.pc = IF Len(call.ids) + 1 = Len(call.kernels)
                              THEN "submit" ELSE "kernel"]
    BY <1>6, Zenon DEF HalCm_AllocateMediaID
  <2> HIDE DEF id
  <2>2. /\ DOMAIN call' = CallFields /\ call'.media = call.media
        /\ call'.pc \in {"kernel", "submit"}
    BY <1>2, <2>1 DEF CallFields
  <2>3. SameStates(media')
    BY <1>0, <1>1, <2>1, OffsetChanged
  <2> QED BY <1>0, <1>1, <1>6, <2>2, <2>3, SameJobsKept DEF InnerStep, Taken
<1>7. CASE LoadedKernel
  <2>1. /\ \E h, i : HalCm_AllocateMediaID(h, i)
        /\ UNCHANGED <<halVars, nextMedia, nextTag, gpuTag, syncTag, job, fails>>
    BY <1>7, Zenon DEF LoadedKernel
  <2> QED BY <1>6, <2>1
<1>8. CASE HalCm_LoadKernel
  <2>1. /\ \E h, i : HalCm_AllocateMediaID(h, i)
        /\ UNCHANGED <<halVars, nextMedia, nextTag, gpuTag, syncTag, job, fails>>
    BY <1>8, Zenon DEF HalCm_LoadKernel
  <2> QED BY <1>6, <2>1
<1>9. CASE EvictKernel
  <2>1. /\ \E d : call' = [call EXCEPT !.doubt = d]
        /\ call.pc = "kernel" /\ media' = Refreshed(media) /\ syncTag' = gpuTag - 1
        /\ UNCHANGED <<halVars, nextMedia, nextTag, gpuTag, job, fails>>
    BY <1>9, Zenon DEF EvictKernel, NoRoom
  <2>2. PICK d : call' = [call EXCEPT !.doubt = d]
    BY <2>1
  <2>3. DOMAIN call' = CallFields /\ call'.media = call.media /\ call'.pc = "kernel"
    BY <1>2, <2>1, <2>2 DEF CallFields
  <2> QED BY <1>0, <1>1, <2>1, <2>3, SameJobsKept DEF InnerStep, Taken
<1> QED BY <1>3, <1>4, <1>5, <1>7, <1>8, <1>9

\* A submission that fails resets at most the words of a free slot.
LEMMA FailedSubmission ==
  ASSUME HalInv, HalCm_ExecuteTaskFails
  PROVE  SameRing
<1>1. /\ ring' = ring
      /\ \/ sync' = sync
         \/ FreeIds # {} /\ sync' = [sync EXCEPT ![HalCm_GetNewTaskId] = "reset"]
  BY SMT DEF HalCm_ExecuteTaskFails
<1>2. ASSUME NEW n \in DOMAIN ring PROVE sync'[ring[n].id] = sync[ring[n].id]
  <2>1. ring[n].id \in TaskIds /\ ring[n].id \notin FreeIds
    BY RingMembers, TasksAssumption DEF HalInv, RingOwnsItsSlots, FreeIds
  <2>2. FreeIds # {} => HalCm_GetNewTaskId \in FreeIds
    BY NewTaskIdIsFree
  <2> QED BY <1>1, <2>1, <2>2 DEF HalInv, HalTypeOK
<1> QED BY <1>1, <1>2 DEF SameRing

\* The calls that fail, at whichever step.
LEMMA FailingSteps ==
  ASSUME HalInv, TurnsInv,
         \/ (TakeBatchBuffer /\ call' = NoCall)
         \/ AlreadyLocked \/ NothingToEvict \/ SubmitFails \/ Fails
  PROVE  TurnsInv'
<1>0. TagInv /\ MediaInv /\ DOMAIN call = CallFields
  BY CallInProgress DEF TurnsInv, FreshInv, TakeBatchBuffer, AlreadyLocked,
     NothingToEvict, NoRoom, SubmitFails, Fails
<1>1. call # NoCall
  BY CallInProgress DEF TakeBatchBuffer, AlreadyLocked,
     NothingToEvict, NoRoom, SubmitFails, Fails
<1>2. CASE TakeBatchBuffer /\ call' = NoCall
  <2>1. fails' = fails + 1
    <3>1. CallFails \/ \E b : call' = [call EXCEPT !.pc = "lock", !.buffer = b,
                                                   !.write = TRUE]
      BY <1>2, Zenon DEF TakeBatchBuffer
    <3>2. ASSUME NEW b, call' = [call EXCEPT !.pc = "lock", !.buffer = b, !.write = TRUE]
          PROVE  FALSE
      <4>1. call'.pc = "lock"
        BY <1>0, <3>2 DEF CallFields
      <4> QED BY <1>2, <4>1 DEF NoCall
    <3> QED BY <3>1, <3>2 DEF CallFails
  <2>2. UNCHANGED <<halVars, media, nextMedia, nextTag, gpuTag, syncTag>>
    BY <1>2, Zenon DEF TakeBatchBuffer
  <2>3. SameJobs
    BY <1>0, <1>2, JobsKeepTheirTags
  <2> QED BY <1>1, <1>2, <2>1, <2>2, <2>3, FailedTurns DEF SameRing, halVars
<1>3. CASE AlreadyLocked \/ NothingToEvict \/ Fails
  <2>1. /\ call' = NoCall /\ fails' = fails + 1
        /\ UNCHANGED <<halVars, media, nextMedia, nextTag, gpuTag, job>>
    BY <1>3, Zenon DEF AlreadyLocked, NothingToEvict, Fails, CallFails
  <2> QED BY <1>0, <1>1, <2>1, SameJobsKept, FailedTurns DEF SameRing, halVars
<1>4. CASE SubmitFails
  <2>1. /\ call' = NoCall /\ fails' = fails + 1 /\ HalCm_ExecuteTaskFails
        /\ nextTag' = nextTag \/ nextTag' = nextTag + 1
        /\ UNCHANGED <<media, nextMedia, gpuTag, job>>
    BY <1>4, Zenon DEF SubmitFails, CallFails, TakeTag
  <2>2. SameRing
    BY <2>1, FailedSubmission
  <2> QED BY <1>0, <1>1, <2>1, <2>2, SameJobsKept, FailedTurns
<1> QED BY <1>2, <1>3, <1>4

\* A batch reaches the ring: behind those that are there, with a job.
LEMMA SubmittedRing ==
  ASSUME HalInv, TaskInv, TurnsInv, Submit
  PROVE  \E last \in Nat :
           /\ last = Len(ring) + 1 /\ DOMAIN ring = 1 .. Len(ring) /\ Len(ring) \in Nat
           /\ last \in DOMAIN ring' /\ ring'[last].task = call.task
           /\ call.task \in Tasks /\ DOMAIN job' = Tasks
           /\ DOMAIN job'[call.task] = JobFields
           /\ \A t \in Tasks : t # call.task => job'[t] = job[t]
           /\ JobOf(last)' = job'[call.task] /\ sync'[ring'[last].id] = "reset"
           /\ \A n \in DOMAIN ring' : n = last \/ n \in DOMAIN ring
           /\ \A n \in DOMAIN ring :
                /\ n \in DOMAIN ring' /\ ring'[n] = ring[n] /\ JobOf(n)' = JobOf(n)
                /\ ring[n].task \in Tasks /\ ring[n].task # call.task
                /\ JobOf(n) # NoCall /\ JobOf(n).tag \in Nat /\ JobOf(n).tag <= nextTag
                /\ sync'[ring'[n].id] = sync[ring[n].id]
           /\ job'[call.task].kernels = call.kernels /\ job'[call.task].media = call.media
           /\ job'[call.task].tag = nextTag + 1 /\ job'[call.task].doubt = call.doubt
           /\ job'[call.task].ids = IF call.walker THEN call.ids ELSE buffers[call.buffer].ids
<1> DEFINE id == HalCm_GetNewTaskId
           b == [task |-> call.task, id |-> id]
<1>1. PICK last \in Nat : last = Len(ring) + 1
  BY LenProperties DEF HalInv, HalTypeOK
<1>2. TagInv /\ HalTypeOK
  BY DEF TurnsInv, TagInv, HalInv
<1>3. /\ call.pc = "submit" /\ FreeIds # {}
      /\ ring' = Append(ring, b) /\ sync' = [sync EXCEPT ![id] = "reset"]
  BY Zenon DEF Submit, HalCm_ExecuteTask, HalCm_SubmitCommands
<1>4. call # NoCall
  BY <1>3, CallInProgress
<1>5. id \in FreeIds /\ id \in TaskIds
  BY <1>3, NewTaskIdIsFree DEF FreeIds
<1>6. call.task \in Tasks /\ ~Owned(call.task)
  BY <1>4 DEF TaskInv
<1>7. /\ DOMAIN job' = Tasks
      /\ \A t \in Tasks : t # call.task => job'[t] = job[t]
      /\ DOMAIN job'[call.task] = JobFields
      /\ job'[call.task].kernels = call.kernels /\ job'[call.task].media = call.media
      /\ job'[call.task].tag = nextTag + 1 /\ job'[call.task].doubt = call.doubt
      /\ job'[call.task].ids = IF call.walker THEN call.ids ELSE buffers[call.buffer].ids
  <2>1. PICK i : /\ i = IF call.walker THEN call.ids ELSE buffers[call.buffer].ids
                 /\ job' = [job EXCEPT ![call.task] =
                      [kernels |-> call.kernels, media |-> call.media,
                       buffer |-> call.buffer, tag |-> nextTag + 1,
                       ids |-> i, doubt |-> call.doubt]]
    BY Zenon DEF Submit
  <2>2. DOMAIN job = Tasks
    BY <1>2 DEF TagInv
  <2> QED BY <1>6, <2>1, <2>2 DEF JobFields
<1> HIDE DEF id
<1>8. /\ DOMAIN ring' = 1 .. Len(ring) + 1
      /\ DOMAIN ring = 1 .. Len(ring) /\ Len(ring) \in Nat
      /\ \A n \in DOMAIN ring : ring'[n] = ring[n] /\ ring[n] \in Batches
      /\ ring'[last] = b /\ last \in DOMAIN ring'
  <2>1. b \in Batches
    BY <1>5, <1>6 DEF Batches
  <2> HIDE DEF b
  <2> QED BY <1>2, <1>3, <1>1, <2>1, RingAppend
<1>9. ASSUME NEW n \in DOMAIN ring
      PROVE  /\ ring[n].task \in Tasks /\ ring[n].task # call.task
             /\ JobOf(n)' = JobOf(n) /\ JobOf(n) # NoCall
             /\ JobOf(n).tag \in Nat /\ JobOf(n).tag <= nextTag
             /\ sync'[ring'[n].id] = sync[ring[n].id]
  <2>1. /\ ring[n].id \in TaskIds /\ ring[n].task \in Tasks
        /\ taskStatusTable[ring[n].id] = ring[n].task
    BY <1>2, RingMembers DEF HalInv, RingOwnsItsSlots
  <2>2. ring[n].task # call.task
    BY <1>6, <2>1 DEF Owned
  <2>3. ring[n].id # id
    BY <1>5, <2>1, TasksAssumption DEF FreeIds
  <2>4. sync'[ring'[n].id] = sync[ring[n].id]
    BY <1>2, <1>3, <1>8, <2>1, <2>3 DEF HalTypeOK
  <2>5. JobOf(n)' = JobOf(n)
    BY <1>7, <1>8, <2>1, <2>2 DEF JobOf
  <2> QED BY <1>2, <2>1, <2>2, <2>4, <2>5 DEF TagInv, JobOf
<1>10. /\ JobOf(last)' = job'[call.task] /\ sync'[ring'[last].id] = "reset"
      /\ ring'[last].task = call.task
  <2>1. JobOf(last)' = job'[call.task]
    BY <1>8 DEF JobOf
  <2>2. sync'[id] = "reset"
    BY <1>2, <1>3, <1>5 DEF HalTypeOK
  <2> QED BY <1>8, <2>1, <2>2
<1>11. \A n \in DOMAIN ring' : n = last \/ n \in DOMAIN ring
  BY <1>8, <1>1
<1>12. \A n \in DOMAIN ring : n \in DOMAIN ring' /\ ring'[n] = ring[n]
  BY <1>8
<1> HIDE DEF b
<1> QED BY <1>6, <1>7, <1>8, <1>9, <1>10, <1>11, <1>12, <1>1

\* It writes a tag no batch before it has written.
LEMMA SubmitTurns ==
  ASSUME HalInv, TaskInv, TurnsInv, Submit
  PROVE  TurnsInv'
<1>0. /\ TagInv /\ MediaInv /\ nextTag \in Nat /\ gpuTag \in Nat /\ gpuTag <= nextTag
      /\ fails \in Nat /\ HalTypeOK
  BY DEF TurnsInv, TagInv, TurnInv, HalInv
<1>1. /\ Taken /\ call.pc = "submit" /\ call' = NoCall
      /\ nextTag' = nextTag + 1
      /\ media' = [media EXCEPT ![call.media].busy = TRUE]
      /\ UNCHANGED <<nextMedia, gpuTag, syncTag, fails>>
  BY Zenon DEF Submit, Taken, TakeTag
<1>2. call # NoCall /\ call.media \in States /\ media[call.media].tag = nextTag
  BY <1>0, <1>1, TakenInProgress DEF MediaInv
<1>3. PICK last \in Nat :
         /\ last = Len(ring) + 1 /\ DOMAIN ring = 1 .. Len(ring) /\ Len(ring) \in Nat
         /\ last \in DOMAIN ring' /\ ring'[last].task = call.task
         /\ call.task \in Tasks /\ DOMAIN job' = Tasks
         /\ DOMAIN job'[call.task] = JobFields
         /\ \A t \in Tasks : t # call.task => job'[t] = job[t]
         /\ JobOf(last)' = job'[call.task] /\ sync'[ring'[last].id] = "reset"
         /\ \A n \in DOMAIN ring' : n = last \/ n \in DOMAIN ring
         /\ \A n \in DOMAIN ring :
              /\ n \in DOMAIN ring' /\ ring'[n] = ring[n] /\ JobOf(n)' = JobOf(n)
              /\ ring[n].task \in Tasks /\ ring[n].task # call.task
              /\ JobOf(n) # NoCall /\ JobOf(n).tag \in Nat /\ JobOf(n).tag <= nextTag
              /\ sync'[ring'[n].id] = sync[ring[n].id]
         /\ job'[call.task].media = call.media /\ job'[call.task].tag = nextTag + 1
  BY SubmittedRing, Zenon
<1>4. call.task \in Tasks /\ ~Owned(call.task)
  BY <1>2 DEF TaskInv
<1>5. /\ DOMAIN job' = Tasks /\ DOMAIN job'[call.task] = JobFields
      /\ \A t \in Tasks : t # call.task => job'[t] = job[t]
      /\ job'[call.task].media = call.media /\ job'[call.task].tag = nextTag + 1
  BY <1>3
<1>6. /\ DOMAIN ring = 1 .. Len(ring) /\ Len(ring) \in Nat /\ last \in DOMAIN ring'
      /\ \A n \in DOMAIN ring : n \in DOMAIN ring' /\ ring'[n] = ring[n]
  BY <1>3
<1>7. \A n \in DOMAIN ring :
        /\ ring[n].task \in Tasks /\ ring[n].task # call.task
        /\ JobOf(n)' = JobOf(n) /\ JobOf(n) # NoCall
        /\ JobOf(n).tag \in Nat /\ JobOf(n).tag <= nextTag
        /\ sync'[ring'[n].id] = sync[ring[n].id]
  BY <1>3
<1>8. /\ JobOf(last)'.tag = nextTag + 1 /\ JobOf(last)'.media = call.media
      /\ JobOf(last)' # NoCall /\ sync'[ring'[last].id] = "reset"
      /\ ring'[last].task = call.task
  <2>1. "tag" \notin DOMAIN NoCall
    BY DEF NoCall
  <2> QED BY <1>3, <2>1 DEF JobFields
<1>9. \A n \in DOMAIN ring' : n = last \/ n \in DOMAIN ring
  BY <1>3
<1>10. job[call.task] = NoCall
  BY <1>0, <1>4, <1>7 DEF TagInv
<1>11. TagInv'
  <2>1. gpuTag' \in Nat /\ nextTag' \in Nat /\ gpuTag' <= nextTag' /\ DOMAIN job' = Tasks
    BY <1>0, <1>1, <1>5
  <2>2. ASSUME NEW t \in Tasks, job'[t] # NoCall
        PROVE  /\ DOMAIN job'[t] = JobFields
               /\ job'[t].tag \in Nat /\ job'[t].tag <= nextTag'
               /\ \E n \in DOMAIN ring' : ring'[n].task = t
    <3>1. CASE t = call.task
      BY <1>0, <1>1, <1>5, <1>6, <1>8, <3>1
    <3>2. CASE t # call.task
      <4>1. /\ job'[t] = job[t] /\ DOMAIN job[t] = JobFields
            /\ job[t].tag \in Nat /\ job[t].tag <= nextTag
            /\ \E n \in DOMAIN ring : ring[n].task = t
        BY <1>0, <1>5, <2>2, <3>2 DEF TagInv
      <4>2. PICK n \in DOMAIN ring : ring[n].task = t
        BY <4>1
      <4>3. n \in DOMAIN ring' /\ ring'[n].task = t
        BY <1>6, <4>2
      <4> QED BY <1>0, <1>1, <4>1, <4>3
    <3> QED BY <3>1, <3>2
  <2>3. ASSUME NEW n \in DOMAIN ring'
        PROVE  /\ JobOf(n)' # NoCall
               /\ IF sync'[ring'[n].id] = "reset" THEN JobOf(n)'.tag > gpuTag'
                                                 ELSE n = 1 /\ JobOf(n)'.tag <= gpuTag'
    <3>1. CASE n = last
      BY <1>0, <1>1, <1>8, <3>1
    <3>2. CASE n \in DOMAIN ring
      BY <1>0, <1>1, <1>7, <3>2 DEF TagInv
    <3> QED BY <1>9, <3>1, <3>2
  <2>4. ASSUME NEW m \in DOMAIN ring', NEW n \in DOMAIN ring', m < n
        PROVE  JobOf(m)'.tag < JobOf(n)'.tag
    <3>1. m \in DOMAIN ring
      BY <1>6, <1>3, <2>4
    <3>2. CASE n = last
      BY <1>0, <1>7, <1>8, <3>1, <3>2
    <3>3. CASE n \in DOMAIN ring
      BY <1>0, <1>7, <2>4, <3>1, <3>3 DEF TagInv
    <3> QED BY <1>9, <3>2, <3>3
  <2> QED BY <2>1, <2>2, <2>3, <2>4 DEF TagInv
<1>12. /\ DOMAIN media' = States
       /\ \A m \in States : /\ DOMAIN media'[m] = MediaFields
                            /\ media'[m].busy = (media[m].busy \/ m = call.media)
                            /\ media'[m].tag = media[m].tag
                            /\ media'[m].offset = media[m].offset
                            /\ media[m].tag \in Nat /\ media[m].tag <= nextTag
  <2>1. DOMAIN media = States
        /\ \A m \in States : /\ DOMAIN media[m] = MediaFields
                             /\ media[m].tag \in Nat /\ media[m].tag <= nextTag
                             /\ media[m].busy \in BOOLEAN
    BY <1>0 DEF MediaInv
  <2>2. \A m \in States : m # call.media => media'[m] = media[m]
    BY <1>1, <2>1
  <2>3. media'[call.media] = [media[call.media] EXCEPT !.busy = TRUE]
    BY <1>1, <1>2, <2>1
  <2>4. /\ DOMAIN media'[call.media] = MediaFields
        /\ media'[call.media].busy = TRUE
        /\ media'[call.media].tag = media[call.media].tag
        /\ media'[call.media].offset = media[call.media].offset
    BY <1>2, <2>1, <2>3 DEF MediaFields
  <2>5. DOMAIN media' = States
    BY <1>1, <2>1
  <2> QED BY <2>1, <2>2, <2>4, <2>5
<1>13. ~Taken'
  BY <1>1 DEF Taken, NoCall
<1>14. \A m \in States : /\ media'[m].tag \in Nat /\ media'[m].tag <= nextTag
                        /\ media'[m].busy \in BOOLEAN
                        /\ DOMAIN media'[m].offset = MediaIds
  <2> TAKE m \in States
  <2>1. media'[m].tag = media[m].tag /\ media[m].tag \in Nat /\ media[m].tag <= nextTag
    BY <1>12
  <2>2. media[m].busy \in BOOLEAN /\ DOMAIN media[m].offset = MediaIds
    BY <1>0 DEF MediaInv
  <2>3. media'[m].busy \in BOOLEAN /\ media'[m].offset = media[m].offset
    BY <1>12, <2>2, Zenon
  <2> QED BY <2>1, <2>2, <2>3
<1>15. nextTag' = nextTag + 1
  BY <1>1
<1>16. MediaInv'
  <2>1. ASSUME NEW n \in DOMAIN ring', sync'[ring'[n].id] = "reset"
        PROVE  /\ JobOf(n)'.media \in States
               /\ media'[JobOf(n)'.media].busy
               /\ media'[JobOf(n)'.media].tag + 1 = JobOf(n)'.tag
    <3>1. CASE n = last
      BY <1>2, <1>8, <1>12, <3>1
    <3>2. CASE n \in DOMAIN ring
      <4>1. sync[ring[n].id] = "reset" /\ JobOf(n)' = JobOf(n)
        BY <1>7, <2>1, <3>2
      <4>2. /\ JobOf(n).media \in States /\ media[JobOf(n).media].busy
            /\ media[JobOf(n).media].tag + 1 = JobOf(n).tag
        BY <1>0, <3>2, <4>1 DEF MediaInv, RingStates
      <4>3. media'[JobOf(n).media].busy
        BY <1>12, <4>2, Zenon
      <4>4. media'[JobOf(n).media].tag = media[JobOf(n).media].tag
        BY <1>12, <4>2
      <4> QED BY <4>1, <4>2, <4>3, <4>4
    <3> QED BY <1>9, <3>1, <3>2
  <2>2. \A m \in States : /\ media'[m].busy \in BOOLEAN
                          /\ media'[m].tag \in Nat /\ media'[m].tag <= nextTag'
                          /\ DOMAIN media'[m].offset = MediaIds
    BY <1>0, <1>14, <1>15
  <2>3. nextMedia' \in States
    BY <1>0, <1>1 DEF MediaInv
  <2> QED BY <1>12, <1>13, <2>1, <2>2, <2>3 DEF MediaInv, RingStates
<1>17. TurnInv'
  <2>1. ASSUME NEW tag \in Nat, tag <= nextTag
        PROVE  /\ Cardinality(Later(job', tag)) = Cardinality(Later(job, tag)) + 1
               /\ Cardinality(Later(job, tag)) \in Nat
    <3>1. IsFiniteSet(Later(job, tag)) /\ Cardinality(Later(job, tag)) \in Nat
      BY <1>0, LaterFits
    <3>2. call.task \notin Later(job, tag)
      BY <1>10 DEF Later
    <3>3. call.task \in Later(job', tag)
      <4>1. job'[call.task] # NoCall /\ job'[call.task].tag > tag
        <5>1. "tag" \notin DOMAIN NoCall
          BY DEF NoCall
        <5> QED BY <1>0, <1>5, <2>1, <5>1 DEF JobFields
      <4> QED BY <1>4, <4>1 DEF Later
    <3>4. \A t \in Tasks : t # call.task => (t \in Later(job', tag) <=> t \in Later(job, tag))
      BY <1>5 DEF Later
    <3>5. Later(job', tag) \subseteq Tasks /\ Later(job, tag) \subseteq Tasks
      BY DEF Later
    <3>6. Later(job', tag) = Later(job, tag) \cup {call.task}
      BY <3>2, <3>3, <3>4, <3>5
    <3> QED BY <3>1, <3>2, <3>6, FS_AddElement
  <2>2. ASSUME NEW m \in States,
               media'[m].busy \/ (Taken' /\ m = call'.media), media'[m].tag >= gpuTag'
        PROVE  Ended(m, nextMedia', Taken') <= Cardinality(Later(job', media'[m].tag)) + fails'
    <3>1. (media[m].busy \/ (Taken /\ m = call.media)) /\ media[m].tag >= gpuTag
      BY <1>1, <1>12, <1>13, <2>2
    <3>2. Ended(m, nextMedia, Taken) <= Cardinality(Later(job, media[m].tag)) + fails
      BY <3>1 DEF TurnsInv, TurnInv
    <3>3. /\ Cardinality(Later(job', media[m].tag)) = Cardinality(Later(job, media[m].tag)) + 1
          /\ Cardinality(Later(job, media[m].tag)) \in Nat
      BY <1>12, <2>1
    <3>4. Since(m, nextMedia) \in Nat
      BY <1>0, SinceFacts DEF MediaInv
    <3>5. Ended(m, nextMedia, Taken) = Since(m, nextMedia)
          /\ Ended(m, nextMedia', Taken') = Since(m, nextMedia) + 1
      BY <1>1, <1>13 DEF Ended
    <3>6. Later(job', media'[m].tag) = Later(job', media[m].tag) /\ fails' = fails
      BY <1>1, <1>12
    <3>7. Cardinality(Later(job', media'[m].tag)) = Cardinality(Later(job, media[m].tag)) + 1
      BY <3>3, <3>6
    <3> HIDE <1>1, <1>12
    <3> QED BY <1>0, <3>2, <3>3, <3>4, <3>5, <3>6, <3>7
  <2>3. ASSUME NEW m \in States, media'[m].busy, media'[m].tag = nextTag'
        PROVE  FALSE
    BY <1>0, <1>14, <1>15, <2>3
  <2>4. fails' \in Nat /\ call' = NoCall
    BY <1>0, <1>1
  <2> QED BY <1>13, <2>2, <2>3, <2>4 DEF TurnInv
<1>18. FreshInv'
  BY <1>1 DEF FreshInv
<1> QED BY <1>11, <1>16, <1>17, <1>18 DEF TurnsInv

\* The GPU writes the tag of the first batch of the ring.
LEMMA GpuBeginTurns ==
  ASSUME HalInv, TurnsInv, GpuBegin
  PROVE  TurnsInv'
<1>0. /\ TagInv /\ MediaInv /\ gpuTag \in Nat /\ nextTag \in Nat /\ HalTypeOK
      /\ FreshInv /\ TurnInv
  BY DEF TurnsInv, TagInv, HalInv
<1>1. /\ ring # <<>> /\ sync[Head(ring).id] = "reset"
      /\ sync' = [sync EXCEPT ![Head(ring).id] = "start"]
      /\ gpuTag' = job[Head(ring).task].tag
      /\ UNCHANGED <<taskStatusTable, ring, media, nextMedia, nextTag, syncTag, call,
                     job, fails>>
  BY DEF GpuBegin, GpuStart
<1>2. Head(ring) = ring[1] /\ 1 \in DOMAIN ring
  BY <1>0, <1>1 DEF HalTypeOK
<1>3. /\ JobOf(1) # NoCall /\ gpuTag' = JobOf(1).tag
      /\ JobOf(1).tag \in Nat /\ JobOf(1).tag <= nextTag /\ JobOf(1).tag > gpuTag
  <2>1. ring[1].task \in Tasks /\ JobOf(1) # NoCall
    BY <1>0, <1>2, RingMembers DEF TagInv
  <2> QED BY <1>0, <1>1, <1>2, <2>1 DEF TagInv, JobOf
<1>4. \A n \in DOMAIN ring : JobOf(n)' = JobOf(n)
  BY <1>1 DEF JobOf
<1>5. ASSUME NEW n \in DOMAIN ring
      PROVE  IF n = 1 THEN sync'[ring[n].id] = "start"
             ELSE sync'[ring[n].id] = "reset" /\ sync[ring[n].id] = "reset"
  <2>1. ring[n].id \in TaskIds /\ ring[1].id \in TaskIds
    BY <1>0, <1>2, RingMembers
  <2>2. ring[n].id = ring[1].id => n = 1
    BY <1>2 DEF HalInv, RingOwnsItsSlots
  <2>3. n # 1 => sync[ring[n].id] = "reset"
    BY <1>0 DEF TagInv
  <2> QED BY <1>0, <1>1, <1>2, <2>1, <2>2, <2>3 DEF HalTypeOK
<1>6. ASSUME NEW n \in DOMAIN ring, n # 1 PROVE JobOf(n).tag > gpuTag'
  <2>1. 1 < n
    BY <1>0, <1>6 DEF HalTypeOK
  <2>2. JobOf(1).tag < JobOf(n).tag
    BY <1>0, <1>2, <2>1 DEF TagInv
  <2>3. JobOf(n).tag \in Nat
    BY <1>0, <1>6, RingMembers DEF TagInv, JobOf
  <2> QED BY <1>3, <2>2, <2>3
<1>7. TagInv'
  <2>1. gpuTag' \in Nat /\ nextTag' \in Nat /\ gpuTag' <= nextTag' /\ DOMAIN job' = Tasks
    BY <1>0, <1>1, <1>3 DEF TagInv
  <2>2. ASSUME NEW t \in Tasks, job'[t] # NoCall
        PROVE  /\ DOMAIN job'[t] = JobFields
               /\ job'[t].tag \in Nat /\ job'[t].tag <= nextTag'
               /\ \E n \in DOMAIN ring' : ring'[n].task = t
    BY <1>0, <1>1, <2>2 DEF TagInv
  <2>3. ASSUME NEW n \in DOMAIN ring'
        PROVE  /\ JobOf(n)' # NoCall
               /\ IF sync'[ring'[n].id] = "reset" THEN JobOf(n)'.tag > gpuTag'
                                                 ELSE n = 1 /\ JobOf(n)'.tag <= gpuTag'
    <3>1. n \in DOMAIN ring /\ ring' = ring
      BY <1>1
    <3>2. CASE n = 1
      <4>1. sync'[ring'[n].id] = "start"
        BY <1>5, <3>1, <3>2
      <4> QED BY <1>3, <1>4, <3>1, <3>2, <4>1
    <3>3. CASE n # 1
      <4>1. sync'[ring'[n].id] = "reset"
        BY <1>5, <3>1, <3>3
      <4>2. JobOf(n) # NoCall
        BY <1>0, <3>1 DEF TagInv
      <4> QED BY <1>4, <1>6, <3>1, <3>3, <4>1, <4>2
    <3> QED BY <3>2, <3>3
  <2>4. \A m, n \in DOMAIN ring' : m < n => JobOf(m)'.tag < JobOf(n)'.tag
    BY <1>0, <1>1, <1>4 DEF TagInv
  <2> QED BY <2>1, <2>2, <2>3, <2>4 DEF TagInv
<1>8. MediaInv'
  <2>1. ASSUME NEW n \in DOMAIN ring', sync'[ring'[n].id] = "reset"
        PROVE  /\ JobOf(n)'.media \in States
               /\ media'[JobOf(n)'.media].busy
               /\ media'[JobOf(n)'.media].tag + 1 = JobOf(n)'.tag
    <3>1. n \in DOMAIN ring /\ sync[ring[n].id] = "reset"
      BY <1>1, <1>5, <2>1
    <3> QED BY <1>0, <1>1, <1>4, <3>1 DEF MediaInv, RingStates
  <2>2. Taken' <=> Taken
    BY <1>1 DEF Taken
  <2> QED BY <1>0, <1>1, <2>1, <2>2 DEF MediaInv, RingStates
<1>9. TurnInv'
  <2>1. Taken' <=> Taken
    BY <1>1 DEF Taken
  <2>2. ASSUME NEW m \in States,
               media'[m].busy \/ (Taken' /\ m = call'.media), media'[m].tag >= gpuTag'
        PROVE  Ended(m, nextMedia', Taken') <= Cardinality(Later(job', media'[m].tag)) + fails'
    <3>1. media[m].tag >= gpuTag
      <4>1. media[m].tag \in Nat
        BY <1>0 DEF MediaInv
      <4> QED BY <1>0, <1>1, <1>3, <2>2, <4>1
    <3>2. media[m].busy \/ (Taken /\ m = call.media)
      BY <1>1, <2>1, <2>2
    <3>3. Ended(m, nextMedia, Taken) <= Cardinality(Later(job, media[m].tag)) + fails
      BY <1>0, <3>1, <3>2 DEF TurnInv
    <3>4. Ended(m, nextMedia', Taken') = Ended(m, nextMedia, Taken)
      BY <1>1, <2>1 DEF Ended
    <3> QED BY <1>1, <3>3, <3>4
  <2>3. ASSUME NEW m \in States, media'[m].busy, media'[m].tag = nextTag'
        PROVE  Ended(m, nextMedia', Taken') + 2 <= fails'
    <3>1. Ended(m, nextMedia, Taken) + 2 <= fails
      BY <1>0, <1>1, <2>3 DEF TurnInv
    <3>2. Ended(m, nextMedia', Taken') = Ended(m, nextMedia, Taken)
      BY <1>1, <2>1 DEF Ended
    <3> QED BY <1>1, <3>1, <3>2
  <2>4. /\ fails' \in Nat /\ (call' # NoCall /\ call'.pc = "wait" => fails' >= 2)
        /\ Taken' => Since(call'.media, nextMedia') = 0
    BY <1>0, <1>1, <2>1 DEF TurnInv
  <2> QED BY <2>2, <2>3, <2>4 DEF TurnInv
<1>10. FreshInv'
  <2>1. FreeIds' = FreeIds
    BY <1>1 DEF FreeIds
  <2>2. syncTag \in Int /\ syncTag < gpuTag => syncTag < gpuTag'
    BY <1>0, <1>3
  <2> QED BY <1>0, <1>1, <2>1, <2>2 DEF FreshInv
<1> QED BY <1>7, <1>8, <1>9, <1>10 DEF TurnsInv

\* The first batch of the ring ends; the others move up.
LEMMA FinishedRing ==
  ASSUME HalInv, TurnsInv, GpuFinish
  PROVE  /\ JobOf(1) # NoCall /\ ring[1].task \in Tasks /\ 1 \in DOMAIN ring
         /\ JobOf(1).tag \in Nat /\ JobOf(1).tag <= gpuTag
         /\ job' = [job EXCEPT ![ring[1].task] = NoCall]
         /\ DOMAIN ring = 1 .. Len(ring) /\ Len(ring) \in Nat
         /\ DOMAIN ring' = 1 .. Len(ring) - 1
         /\ \A n \in DOMAIN ring' :
              /\ n + 1 \in DOMAIN ring /\ ring'[n] = ring[n + 1]
              /\ ring[n + 1].task # ring[1].task
              /\ JobOf(n)' = JobOf(n + 1)
              /\ sync'[ring'[n].id] = sync[ring[n + 1].id]
              /\ sync[ring[n + 1].id] = "reset"
<1>0. TagInv /\ HalTypeOK /\ gpuTag \in Nat
  BY DEF TurnsInv, TagInv, HalInv
<1>1. /\ ring # <<>> /\ sync[Head(ring).id] = "start"
      /\ sync' = [sync EXCEPT ![Head(ring).id] = "end"]
      /\ ring' = Tail(ring)
      /\ job' = [job EXCEPT ![Head(ring).task] = NoCall]
  BY DEF GpuFinish, GpuEnd
<1>2. /\ Head(ring) = ring[1] /\ 1 \in DOMAIN ring
      /\ DOMAIN ring = 1 .. Len(ring) /\ Len(ring) \in Nat
      /\ DOMAIN ring' = 1 .. Len(ring) - 1
      /\ \A n \in DOMAIN ring' : ring'[n] = ring[n + 1]
  BY <1>0, <1>1 DEF HalTypeOK
<1>3. /\ JobOf(1) # NoCall /\ ring[1].task \in Tasks /\ ring[1].id \in TaskIds
      /\ JobOf(1).tag \in Nat /\ JobOf(1).tag <= gpuTag
  <2>1. ring[1].task \in Tasks /\ ring[1].id \in TaskIds /\ JobOf(1) # NoCall
    BY <1>0, <1>2, RingMembers DEF TagInv
  <2>2. sync[ring[1].id] # "reset"
    BY <1>1, <1>2
  <2>3. JobOf(1).tag <= gpuTag
    BY <1>0, <1>2, <2>2 DEF TagInv
  <2> QED BY <1>0, <2>1, <2>3 DEF TagInv, JobOf
<1>4. ASSUME NEW n \in DOMAIN ring'
      PROVE  /\ n + 1 \in DOMAIN ring /\ ring'[n] = ring[n + 1]
             /\ ring[n + 1].task # ring[1].task
             /\ JobOf(n)' = JobOf(n + 1)
             /\ sync'[ring'[n].id] = sync[ring[n + 1].id]
             /\ sync[ring[n + 1].id] = "reset"
  <2>1. n + 1 \in DOMAIN ring /\ 1 < n + 1 /\ n + 1 # 1 /\ n \in 1 .. Len(ring) - 1
    BY <1>2
  <2>2. ring'[n] = ring[n + 1]
    BY <1>2
  <2>3. ring[n + 1].id \in TaskIds /\ ring[n + 1].task \in Tasks
    BY <1>0, <2>1, RingMembers
  <2>4. JobOf(1).tag < JobOf(n + 1).tag
    BY <1>0, <1>2, <2>1 DEF TagInv
  <2>5. ring[n + 1].task # ring[1].task
    BY <1>3, <2>4 DEF JobOf
  <2>6. ring[n + 1].id # ring[1].id
    BY <1>2, <2>1 DEF HalInv, RingOwnsItsSlots
  <2>7. sync[ring[n + 1].id] = "reset"
    BY <1>0, <2>1 DEF TagInv
  <2>8. job'[ring'[n].task] = job[ring[n + 1].task]
    BY <1>0, <1>1, <1>2, <2>2, <2>3, <2>5 DEF TagInv
  <2>9. sync'[ring'[n].id] = sync[ring[n + 1].id]
    BY <1>0, <1>1, <1>2, <2>2, <2>3, <2>6 DEF HalTypeOK
  <2> QED BY <2>1, <2>2, <2>5, <2>7, <2>8, <2>9 DEF JobOf
<1> QED BY <1>1, <1>2, <1>3, <1>4

\* The GPU has written its tag.
LEMMA GpuFinishTurns ==
  ASSUME HalInv, TurnsInv, GpuFinish
  PROVE  TurnsInv'
<1>0. /\ TagInv /\ MediaInv /\ gpuTag \in Nat /\ nextTag \in Nat /\ HalTypeOK
      /\ FreshInv /\ TurnInv
  BY DEF TurnsInv, TagInv, HalInv
<1>1. UNCHANGED <<taskStatusTable, media, nextMedia, nextTag, gpuTag, syncTag, call, fails>>
  BY DEF GpuFinish, GpuEnd
<1>2. /\ 1 \in DOMAIN ring /\ DOMAIN ring = 1 .. Len(ring) /\ Len(ring) \in Nat
      /\ DOMAIN ring' = 1 .. Len(ring) - 1
      /\ \A n \in DOMAIN ring' : ring'[n] = ring[n + 1]
      /\ job' = [job EXCEPT ![ring[1].task] = NoCall]
  BY FinishedRing
<1>3. /\ JobOf(1) # NoCall /\ ring[1].task \in Tasks
      /\ JobOf(1).tag \in Nat /\ JobOf(1).tag <= gpuTag
  BY FinishedRing
<1>4. \A n \in DOMAIN ring' :
        /\ n + 1 \in DOMAIN ring /\ JobOf(n)' = JobOf(n + 1)
        /\ sync'[ring'[n].id] = sync[ring[n + 1].id]
        /\ sync[ring[n + 1].id] = "reset"
  BY FinishedRing
<1>5. /\ DOMAIN job' = Tasks /\ job'[ring[1].task] = NoCall
      /\ \A t \in Tasks : t # ring[1].task => job'[t] = job[t]
  BY <1>0, <1>2, <1>3 DEF TagInv
<1>6. TagInv'
  <2>1. gpuTag' \in Nat /\ nextTag' \in Nat /\ gpuTag' <= nextTag' /\ DOMAIN job' = Tasks
    BY <1>0, <1>1, <1>5 DEF TagInv
  <2>2. ASSUME NEW t \in Tasks, job'[t] # NoCall
        PROVE  /\ DOMAIN job'[t] = JobFields
               /\ job'[t].tag \in Nat /\ job'[t].tag <= nextTag'
               /\ \E n \in DOMAIN ring' : ring'[n].task = t
    <3>1. t # ring[1].task /\ job'[t] = job[t]
      BY <1>5, <2>2
    <3>2. /\ DOMAIN job[t] = JobFields
          /\ job[t].tag \in Nat /\ job[t].tag <= nextTag
          /\ \E n \in DOMAIN ring : ring[n].task = t
      BY <1>0, <2>2, <3>1 DEF TagInv
    <3>3. PICK n \in DOMAIN ring : ring[n].task = t
      BY <3>2
    <3>4. n # 1
      BY <3>1, <3>3
    <3>5. n - 1 \in DOMAIN ring' /\ ring'[n - 1] = ring[n]
      BY <1>2, <3>4
    <3> QED BY <1>1, <3>1, <3>2, <3>3, <3>5
  <2>3. ASSUME NEW n \in DOMAIN ring'
        PROVE  /\ JobOf(n)' # NoCall
               /\ IF sync'[ring'[n].id] = "reset" THEN JobOf(n)'.tag > gpuTag'
                                                 ELSE n = 1 /\ JobOf(n)'.tag <= gpuTag'
    <3>1. JobOf(n)' = JobOf(n + 1) /\ n + 1 \in DOMAIN ring
          /\ sync'[ring'[n].id] = "reset" /\ sync[ring[n + 1].id] = "reset"
      BY <1>4 DEF JobOf
    <3> QED BY <1>0, <1>1, <3>1 DEF TagInv
  <2>4. ASSUME NEW m \in DOMAIN ring', NEW n \in DOMAIN ring', m < n
        PROVE  JobOf(m)'.tag < JobOf(n)'.tag
    <3>1. /\ JobOf(m)' = JobOf(m + 1) /\ m + 1 \in DOMAIN ring
          /\ JobOf(n)' = JobOf(n + 1) /\ n + 1 \in DOMAIN ring
      BY <1>4 DEF JobOf
    <3>2. m + 1 < n + 1
      BY <1>2, <2>4
    <3> QED BY <1>0, <3>1, <3>2 DEF TagInv
  <2> QED BY <2>1, <2>2, <2>3, <2>4 DEF TagInv
<1>7. Taken' <=> Taken
  BY <1>1 DEF Taken
<1>8. MediaInv'
  <2>1. ASSUME NEW n \in DOMAIN ring', sync'[ring'[n].id] = "reset"
        PROVE  /\ JobOf(n)'.media \in States
               /\ media'[JobOf(n)'.media].busy
               /\ media'[JobOf(n)'.media].tag + 1 = JobOf(n)'.tag
    <3>1. JobOf(n)' = JobOf(n + 1) /\ n + 1 \in DOMAIN ring
          /\ sync[ring[n + 1].id] = "reset"
      BY <1>4 DEF JobOf
    <3> QED BY <1>0, <1>1, <3>1 DEF MediaInv, RingStates
  <2> QED BY <1>0, <1>1, <1>7, <2>1 DEF MediaInv, RingStates
<1>9. TurnInv'
  <2>1. \A m \in States : Ended(m, nextMedia', Taken') = Ended(m, nextMedia, Taken)
    BY <1>1, <1>7 DEF Ended
  <2>2. ASSUME NEW m \in States,
               media'[m].busy \/ (Taken' /\ m = call'.media), media'[m].tag >= gpuTag'
        PROVE  Ended(m, nextMedia', Taken') <= Cardinality(Later(job', media'[m].tag)) + fails'
    <3>1. /\ media[m].busy \/ (Taken /\ m = call.media)
          /\ media[m].tag >= gpuTag /\ media[m].tag \in Nat
      BY <1>0, <1>1, <1>7, <2>2 DEF MediaInv
    <3>2. Ended(m, nextMedia, Taken) <= Cardinality(Later(job, media[m].tag)) + fails
      BY <1>0, <3>1 DEF TurnInv
    <3>3. ring[1].task \notin Later(job, media[m].tag)
      BY <1>0, <1>3, <3>1 DEF Later, JobOf
    <3>4. Later(job', media[m].tag) = Later(job, media[m].tag)
      BY <1>5, <3>3 DEF Later
    <3> QED BY <1>1, <2>1, <3>2, <3>4
  <2>3. ASSUME NEW m \in States, media'[m].busy, media'[m].tag = nextTag'
        PROVE  Ended(m, nextMedia', Taken') + 2 <= fails'
    BY <1>0, <1>1, <2>1, <2>3 DEF TurnInv
  <2>4. /\ fails' \in Nat /\ (call' # NoCall /\ call'.pc = "wait" => fails' >= 2)
        /\ Taken' => Since(call'.media, nextMedia') = 0
    BY <1>0, <1>1, <1>7 DEF TurnInv
  <2> QED BY <2>2, <2>3, <2>4 DEF TurnInv
<1>10. FreshInv'
  <2>1. FreeIds' = FreeIds
    BY <1>1 DEF FreeIds
  <2> QED BY <1>0, <1>1, <2>1 DEF FreshInv
<1> QED BY <1>6, <1>8, <1>9, <1>10 DEF TurnsInv

\* All steps.
LEMMA StepTurns ==
  ASSUME HalInv, TaskInv, TurnsInv, [Next]_vars
  PROVE  TurnsInv'
<1>1. ASSUME NEW t \in Tasks, Begin(t) PROVE TurnsInv'
  BY <1>1, BeginTurns
<1>2. CASE IntelGen_HwAssignMediaState
  BY <1>2, AssignTurns
<1>3. CASE WaitForMediaState
  BY <1>3, WaitTurns
<1>4. CASE \/ ReuseBatchBuffer \/ (TakeBatchBuffer /\ call' # NoCall)
           \/ IntelGen_HwLockBB \/ LoadedKernel \/ HalCm_LoadKernel \/ EvictKernel
  BY <1>4, InnerSteps, InnerTurns, Zenon
<1>5. CASE \/ (TakeBatchBuffer /\ call' = NoCall)
           \/ AlreadyLocked \/ NothingToEvict \/ SubmitFails \/ Fails
  BY <1>5, FailingSteps, Zenon
<1>6. CASE Submit
  BY <1>6, SubmitTurns
<1>7. CASE GpuBegin
  BY <1>7, GpuBeginTurns
<1>8. CASE GpuFinish
  BY <1>8, GpuFinishTurns
<1>9. CASE (\E id \in TaskIds : QueryTask(id)) \/ UNCHANGED vars
  <2>1. /\ UNCHANGED <<sync, ring, media, nextMedia, nextTag, gpuTag, syncTag, call, job, fails>>
        /\ call = NoCall \/ taskStatusTable' = taskStatusTable
    BY <1>9 DEF QueryTask, HalCm_QueryTask, heapVars, vars, halVars
  <2>2. SameJobs /\ SameRing /\ SameStates(media')
    BY <2>1, SameJobsKept, RefreshedStates DEF TurnsInv, SameRing
  <2>3. Taken' <=> Taken
    BY <2>1 DEF Taken
  <2>4. call # NoCall /\ call.pc = "wait" => fails >= 2
    BY DEF TurnsInv, TurnInv
  <2>5. TagInv' /\ MediaInv' /\ TurnInv'
    BY <2>1, <2>2, <2>3, <2>4, StatesGoOn
  <2>6. FreshInv'
    BY <2>1 DEF TurnsInv, FreshInv, FreeIds
  <2> QED BY <2>5, <2>6 DEF TurnsInv
<1>10. CASE TakeBatchBuffer
  BY <1>4, <1>5, <1>10
<1> QED BY <1>1, <1>2, <1>3, <1>4, <1>5, <1>6, <1>7, <1>8, <1>9, <1>10 DEF Next

\* No state has been taken.
LEMMA InitTurns == Init => TurnsInv
<1> SUFFICES ASSUME Init PROVE TurnsInv
  OBVIOUS
<1>1. /\ ring = <<>> /\ nextMedia = 0 /\ nextTag = 0 /\ gpuTag = 0 /\ call = NoCall
      /\ job = [t \in Tasks |-> NoCall] /\ fails = 0
      /\ media = [m \in States |-> [busy |-> FALSE, tag |-> 0,
                                    offset |-> [d \in MediaIds |-> None]]]
  BY DEF Init, HalInit
<1>2. 0 \in States /\ DOMAIN ring = {} /\ ~Taken
  BY <1>1, MaxTasksAssumption DEF States, Taken, NoCall
<1>3. TagInv
  BY <1>1, <1>2 DEF TagInv
<1>4. DOMAIN media = States
      /\ \A m \in States : /\ DOMAIN media[m] = MediaFields
                           /\ media[m].busy = FALSE /\ media[m].tag = 0
                           /\ DOMAIN media[m].offset = MediaIds
  BY <1>1 DEF MediaFields
<1>5. MediaInv
  <2>1. ASSUME NEW m \in States
        PROVE  /\ media[m].busy \in BOOLEAN
               /\ media[m].tag \in Nat /\ media[m].tag <= nextTag
    <3>1. media[m].busy \in BOOLEAN
      BY <1>4, Zenon
    <3>2. nextTag = 0 /\ media[m].tag = 0
      BY <1>1, <1>4
    <3> QED BY <3>1, <3>2
  <2> QED BY <1>1, <1>2, <1>4, <2>1 DEF MediaInv, RingStates
<1>6. TurnInv
  BY <1>1, <1>2, <1>4 DEF TurnInv
<1> QED BY <1>1, <1>3, <1>5, <1>6 DEF TurnsInv, FreshInv

\* The sync tags, and whose turn the media states are.
THEOREM AlwaysTurns == Spec => []TurnsInv
<1>1. (HalInv /\ TaskInv) /\ TurnsInv /\ [Next]_vars => TurnsInv'
  BY StepTurns
<1> QED BY <1>1, InitTurns, AlwaysTask, PTL DEF Spec

\* A call that has to wait waits for a batch that will be written, as long as
\* no more than MaxTasks + 2 calls have failed: the state to take next was taken
\* MaxTasks calls ago, and they have not all failed.
THEOREM WaitsForASubmittedBatch == Spec => []MediaStateWillBeFree
<1>1. TurnsInv => MediaStateWillBeFree
  <2> SUFFICES ASSUME TurnsInv, fails <= MaxTasks + 2, call.pc \in {"idle", "wait"},
                      StillBusy(media[nextMedia])
               PROVE  media[nextMedia].tag < nextTag
    BY DEF MediaStateWillBeFree
  <2>1. /\ nextMedia \in States /\ nextTag \in Nat /\ fails \in Nat /\ MaxTasks \in Nat
        /\ media[nextMedia].tag \in Nat /\ media[nextMedia].tag <= nextTag
    BY MaxTasksAssumption DEF TurnsInv, MediaInv, TagInv, TurnInv
  <2>2. media[nextMedia].busy
    BY DEF StillBusy
  <2>3. ~Taken
    BY DEF Taken
  <2>4. Ended(nextMedia, nextMedia, Taken) = MaxTasks + 1
    BY <2>1, <2>3, SinceFacts DEF Ended
  <2>5. media[nextMedia].tag = nextTag => MaxTasks + 1 + 2 <= fails
    BY <2>1, <2>2, <2>4 DEF TurnsInv, TurnInv
  <2> QED BY <2>1, <2>5
<1> QED BY <1>1, AlwaysTurns, PTL

-----------------------------------------------------------------------------
(***************************************************************************)
(* What a batch runs: the kernels of a table after a step.                 *)
(***************************************************************************)
\* The kernel of entry x is still loaded: it prefers the same descriptor and its
\* tag is the one it had, or tag.
Keeps(h, g, x, tag) ==
    \E y \in Used(g) : /\ g.alloc[y].kernel = h.alloc[x].kernel
                       /\ g.alloc[y].offset = h.alloc[x].offset
                       /\ g.alloc[y].kid = h.alloc[x].kid
                       /\ g.alloc[y].sync \in {h.alloc[x].sync, tag}

\* Table h has the kernel the call is at in entry i, with the tag of its batch,
\* and besides it those of the heap.
Places(h, i) ==
    /\ TableInv(h) /\ DOMAIN h = HeapFields /\ i \in Used(h)
    /\ h.alloc[i].kernel = Kernel /\ h.alloc[i].sync = nextTag
    /\ \A x \in Used(heap) : Keeps(heap, h, x, nextTag)
    /\ \A y \in Used(h) : y # i =>
         \E x \in Used(heap) : heap.alloc[x].kernel = h.alloc[y].kernel

LEMMA TouchPlaces ==
  ASSUME TableInv(heap), nextTag \in Int, NEW i \in Used(heap),
         heap.alloc[i].kernel = Kernel
  PROVE  Places(HalCm_TouchKernel(heap, i, nextTag), i)
<1> DEFINE g == HalCm_TouchKernel(heap, i, nextTag)
<1>1. /\ TableInv(g) /\ Used(g) = Used(heap) /\ g.phantom = heap.phantom
      /\ \A j \in Entries : /\ g.alloc[j].kernel = heap.alloc[j].kernel
                            /\ g.alloc[j].offset = heap.alloc[j].offset
  BY TouchTable, Zenon
<1>2. /\ DOMAIN heap = HeapFields /\ heap.alloc \in [Entries -> EntryType]
      /\ \A j \in Used(heap) : j \in Entries
  BY UsedTyped
<1>3. PICK s : g = [heap EXCEPT !.used = s, !.alloc[i].sync = nextTag]
  BY Zenon DEF HalCm_TouchKernel
<1> HIDE DEF g
<1>4. g.alloc = [heap.alloc EXCEPT ![i].sync = nextTag] /\ DOMAIN g = HeapFields
  BY <1>2, <1>3 DEF HeapFields
<1>5. /\ g.alloc[i].sync = nextTag
      /\ \A j \in Used(heap) : /\ g.alloc[j].kid = heap.alloc[j].kid
                               /\ g.alloc[j].sync \in {heap.alloc[j].sync, nextTag}
  BY <1>2, <1>4 DEF EntryType
<1>6. \A x \in Used(heap) : Keeps(heap, g, x, nextTag)
  BY <1>1, <1>2, <1>5 DEF Keeps
<1>7. \A y \in Used(g) : \E x \in Used(heap) : heap.alloc[x].kernel = g.alloc[y].kernel
  BY <1>1, <1>2
<1>8. g.alloc[i].kernel = Kernel /\ i \in Used(g)
  BY <1>1, <1>2
<1>9. Places(g, i)
  BY <1>1, <1>4, <1>5, <1>6, <1>7, <1>8 DEF Places
<1> QED BY <1>9 DEF g

LEMMA LoadPlaces ==
  ASSUME TableInv(heap), nextTag \in Int, Kernel \in Kernels,
         LoadedAt(heap, Kernel) = {}, CmSearchFreeSlotSize(heap, Kernel) # NoEntry
  PROVE  LET slot == CmSearchFreeSlotSize(heap, Kernel) IN
         Places(CmAddCurrentKerenelToFreeSlot(heap, slot, Kernel, nextTag), slot)
<1> DEFINE slot == CmSearchFreeSlotSize(heap, Kernel)
           g == CmAddCurrentKerenelToFreeSlot(heap, slot, Kernel, nextTag)
<1>1. /\ slot \in Entries /\ TableInv(g) /\ LoadedInto(heap, g, slot, Kernel)
      /\ g.alloc[slot].sync = nextTag /\ g.alloc[slot].kid = NoEntry
      /\ AllStay(heap, g)
  BY LoadTable, Zenon
<1> HIDE DEF g, slot
<1>2. DOMAIN g = HeapFields
  BY <1>1, UsedTyped
<1>3. \A x \in Used(heap) : Keeps(heap, g, x, nextTag)
  BY <1>1 DEF AllStay, Keeps
<1>4. \A y \in Used(g) : y # slot =>
        \E x \in Used(heap) : heap.alloc[x].kernel = g.alloc[y].kernel
  BY <1>1 DEF LoadedInto
<1>5. Places(g, slot)
  BY <1>1, <1>2, <1>3, <1>4 DEF Places, LoadedInto
<1> QED BY <1>5 DEF g, slot

\* A kernel that is found or loaded.
Found(h, i) == call.pc = "kernel" /\ Places(h, i) /\ HalCm_AllocateMediaID(h, i)

LEMMA FoundOne ==
  ASSUME TableInv(heap), CallInv, nextTag \in Int, LoadedKernel \/ HalCm_LoadKernel
  PROVE  \E h : \E i \in Used(h) : Found(h, i)
<1>1. CASE LoadedKernel
  <2> DEFINE i == Min(LoadedAt(heap, Kernel))
             g == HalCm_TouchKernel(heap, i, nextTag)
  <2>1. call.pc = "kernel" /\ LoadedAt(heap, Kernel) # {} /\ HalCm_AllocateMediaID(g, i)
    BY <1>1 DEF LoadedKernel
  <2>2. i \in LoadedAt(heap, Kernel)
    <3>1. LoadedAt(heap, Kernel) \in SUBSET Nat
      BY DEF LoadedAt, Entries
    <3> QED BY <2>1, <3>1, MinFacts
  <2> HIDE DEF i
  <2>3. i \in Used(heap) /\ heap.alloc[i].kernel = Kernel
    <3>1. Kernel \in Kernels
      BY <2>1, KernelTyped
    <3> QED BY <2>2, <3>1, KernelsAssumption DEF LoadedAt, Used, bIsFree
  <2>4. Places(g, i)
    BY <2>3, TouchPlaces, Zenon
  <2>5. i \in Used(g)
    BY <2>4 DEF Places
  <2> QED BY <2>1, <2>4, <2>5, Zenon DEF Found
<1>2. CASE HalCm_LoadKernel
  <2> DEFINE slot == CmSearchFreeSlotSize(heap, Kernel)
             g == CmAddCurrentKerenelToFreeSlot(heap, slot, Kernel, nextTag)
  <2>1. /\ call.pc = "kernel" /\ LoadedAt(heap, Kernel) = {} /\ slot # NoEntry
        /\ HalCm_AllocateMediaID(g, slot)
    BY <1>2, Zenon DEF HalCm_LoadKernel
  <2>2. Kernel \in Kernels
    BY <2>1, KernelTyped
  <2>3. Places(g, slot)
    BY <2>1, <2>2, LoadPlaces, Zenon
  <2>4. slot \in Used(g)
    BY <2>3, Zenon DEF Places
  <2> QED BY <2>1, <2>3, <2>4, Zenon DEF Found
<1> QED BY <1>1, <1>2

\* The kernels of the heap after it has got its descriptor.
LEMMA FoundKeeps ==
  ASSUME TableInv(heap), CallInv, KidInv, NEW h, NEW i \in Used(h), Found(h, i)
  PROVE  /\ TableInv(heap') /\ Used(heap') = Used(h) /\ KidInv' /\ heap'.n = h.n
         /\ \A x \in Used(heap) : Keeps(heap, heap', x, nextTag)
         /\ \A j \in Entries : /\ heap'.alloc[j].kernel = h.alloc[j].kernel
                               /\ heap'.alloc[j].offset = h.alloc[j].offset
         /\ heap'.alloc[i].sync = nextTag
         /\ heap'.alloc[i].kid = IF h.alloc[i].kid = NoEntry THEN MediaId(h, i)
                                 ELSE h.alloc[i].kid
         /\ MediaId(h, i) \in MediaIds
<1>0. /\ call.pc = "kernel" /\ Places(h, i) /\ HalCm_AllocateMediaID(h, i)
      /\ TableInv(h) /\ DOMAIN h = HeapFields
  BY DEF Found, Places
<1>1. /\ h.alloc \in [Entries -> EntryType] /\ \A j \in Used(h) : j \in Entries
  BY <1>0, UsedTyped
<1>2. PICK id : /\ id = MediaId(h, i)
                /\ heap' = [h EXCEPT !.alloc[i].kid = IF @ = NoEntry THEN id ELSE @]
  BY <1>0, Zenon DEF HalCm_AllocateMediaID
<1>3. id \in MediaIds
  <2>1. call # NoCall /\ call.pc # "submit" /\ i \in Entries
    BY <1>0, <1>1, CallInProgress
  <2> QED BY <1>0, <1>2, <2>1, MediaIdFree, Zenon
<1>4. id # NoEntry
  BY <1>3, MediaIdsFacts DEF NoEntry
<1>5. TableInv(heap') /\ Used(heap') = Used(h)
  <2>1. LET k == [h EXCEPT !.alloc[i].kid = IF @ = NoEntry THEN id ELSE @] IN
        TableInv(k) /\ Used(k) = Used(h)
    BY <1>0, <1>3, KidTable, Zenon
  <2> QED BY <1>2, <2>1
<1>6. /\ heap'.n = h.n
      /\ heap'.alloc = [h.alloc EXCEPT ![i].kid = IF @ = NoEntry THEN id ELSE @]
  BY <1>0, <1>2 DEF HeapFields
<1>7. /\ \A j \in Entries : /\ heap'.alloc[j].kernel = h.alloc[j].kernel
                            /\ heap'.alloc[j].offset = h.alloc[j].offset
                            /\ heap'.alloc[j].sync = h.alloc[j].sync
                            /\ j # i => heap'.alloc[j].kid = h.alloc[j].kid
      /\ heap'.alloc[i].kid = IF h.alloc[i].kid = NoEntry THEN id ELSE h.alloc[i].kid
  BY <1>1, <1>6 DEF EntryType
<1>8. ASSUME NEW x \in Used(heap)
      PROVE  Keeps(heap, heap', x, nextTag)
  <2>1. heap.alloc[x].kid # NoEntry
    BY DEF KidInv
  <2>2. PICK y \in Used(h) : /\ h.alloc[y].kernel = heap.alloc[x].kernel
                             /\ h.alloc[y].offset = heap.alloc[x].offset
                             /\ h.alloc[y].kid = heap.alloc[x].kid
                             /\ h.alloc[y].sync \in {heap.alloc[x].sync, nextTag}
    BY <1>0 DEF Places, Keeps
  <2>3. heap'.alloc[y].kid = h.alloc[y].kid
    BY <1>1, <1>7, <2>1, <2>2
  <2> QED BY <1>1, <1>5, <1>7, <2>2, <2>3 DEF Keeps
<1>9. ASSUME NEW y \in Used(h)
      PROVE  heap'.alloc[y].kid # NoEntry
  <2>1. CASE y = i
    BY <1>4, <1>7, <2>1
  <2>2. CASE y # i
    <3>1. PICK x \in Used(heap) : heap.alloc[x].kernel = h.alloc[y].kernel
      BY <1>0, <2>2 DEF Places
    <3>2. PICK z \in Used(heap') : /\ heap'.alloc[z].kernel = heap.alloc[x].kernel
                                   /\ heap'.alloc[z].kid = heap.alloc[x].kid
      BY <1>8 DEF Keeps
    <3>3. z = y
      BY <1>1, <1>5, <1>7, <3>1, <3>2 DEF TableInv, Known
    <3> QED BY <3>2, <3>3 DEF KidInv
  <2> QED BY <2>1, <2>2
<1>10. KidInv'
  BY <1>5, <1>9 DEF KidInv
<1>11. heap'.alloc[i].sync = nextTag
  BY <1>0, <1>1, <1>7 DEF Places
<1> QED BY <1>2, <1>3, <1>5, <1>6, <1>7, <1>8, <1>10, <1>11

\* The oldest kernel is one that no batch still to begin has.
LEMMA EvictKeeps ==
  ASSUME TableInv(heap), TagInv, syncTag \in Int, syncTag < gpuTag,
         EvictKernel, ~heap'.phantom
  PROVE  LET i == Oldest(heap, Unloadable(heap, syncTag)) IN
         /\ i \in Used(heap) /\ heap.alloc[i].sync < gpuTag
         /\ TableInv(heap') /\ AllBut(heap, heap', i)
         /\ \A x \in Used(heap) : x # i => Keeps(heap, heap', x, nextTag)
<1> DEFINE i == Oldest(heap, Unloadable(heap, syncTag))
<1>1. Unloadable(heap, syncTag) # {} /\ heap' = CmDeleteOldestKernel(heap, i)
  BY Zenon DEF EvictKernel
<1>2. i \in Unloadable(heap, syncTag) /\ i \in Used(heap)
  <2>1. Unloadable(heap, syncTag) \in SUBSET Used(heap)
    BY DEF Unloadable, Used
  <2>2. i \in Unloadable(heap, syncTag)
    BY <1>1, <2>1, OldestIsOne, Zenon
  <2> QED BY <2>1, <2>2
<1> HIDE DEF i
<1>3. syncTag - heap.alloc[i].sync >= 0
  BY <1>2 DEF Unloadable
<1>4. heap.alloc[i].sync < gpuTag
  <2>1. heap.alloc[i].sync \in Int
    BY <1>2, UsedTyped DEF EntryType
  <2>2. gpuTag \in Nat
    BY DEF TagInv
  <2> QED BY <1>3, <2>1, <2>2
<1>5. TableInv(heap') /\ AllBut(heap, heap', i)
  BY <1>1, <1>2, DeleteTable, Zenon
<1>6. \A x \in Used(heap) : x # i => Keeps(heap, heap', x, nextTag)
  BY <1>5 DEF AllBut, Keeps
<1> QED BY <1>2, <1>4, <1>5, <1>6, Zenon DEF i

\* What is known of a kernel goes over to a table that keeps it.
LEMMA PrefersStays ==
  ASSUME NEW h, NEW g, NEW k, NEW tag,
         \A x \in Used(h) : h.alloc[x].kernel = k => Keeps(h, g, x, tag)
  PROVE  \A d : Prefers(h, k, d) => Prefers(g, k, d)
  BY DEF Prefers, Keeps

LEMMA LoadedUntilStays ==
  ASSUME NEW h, NEW g, NEW tag \in Int, NEW t \in Int, t <= tag,
         \A x \in Used(h) : h.alloc[x].sync >= t => Keeps(h, g, x, tag)
  PROVE  \A k, o : LoadedUntil(h, k, o, t) => LoadedUntil(g, k, o, t)
<1> SUFFICES ASSUME NEW k, NEW o, LoadedUntil(h, k, o, t)
             PROVE  LoadedUntil(g, k, o, t)
  OBVIOUS
<1>1. PICK x \in Used(h) : /\ h.alloc[x].kernel = k /\ h.alloc[x].offset = o
                           /\ h.alloc[x].sync >= t
  BY DEF LoadedUntil
<1>2. PICK y \in Used(g) : /\ g.alloc[y].kernel = h.alloc[x].kernel
                           /\ g.alloc[y].offset = h.alloc[x].offset
                           /\ g.alloc[y].sync \in {h.alloc[x].sync, tag}
  BY <1>1 DEF Keeps
<1>3. g.alloc[y].sync >= t
  BY <1>1, <1>2
<1> QED BY <1>1, <1>2, <1>3 DEF LoadedUntil

LEMMA AssignedStays ==
  ASSUME NEW h, NEW g, NEW ids, NEW ks, AsAssigned(h, ids, ks),
         \A n \in DOMAIN ids : \A d : Prefers(h, ks[n], d) => Prefers(g, ks[n], d)
  PROVE  AsAssigned(g, ids, ks)
  BY DEF AsAssigned

\* A kernel that is kept and is found at its index has not moved.
LEMMA SameIndex ==
  ASSUME NEW h, NEW g, TableInv(h), TableInv(g), NEW x \in Used(h), NEW tag,
         Keeps(h, g, x, tag), x < g.n, g.alloc[x].kernel = h.alloc[x].kernel
  PROVE  /\ x \in Used(g) /\ g.alloc[x].offset = h.alloc[x].offset
         /\ g.alloc[x].kid = h.alloc[x].kid
         /\ g.alloc[x].sync \in {h.alloc[x].sync, tag}
<1>1. PICK y \in Used(g) : /\ g.alloc[y].kernel = h.alloc[x].kernel
                           /\ g.alloc[y].offset = h.alloc[x].offset
                           /\ g.alloc[y].kid = h.alloc[x].kid
                           /\ g.alloc[y].sync \in {h.alloc[x].sync, tag}
  BY DEF Keeps
<1>2. x \in Used(g)
  <2>1. x \in Entries /\ h.alloc[x].kernel # NoKernel
    BY DEF Used, bIsFree
  <2> QED BY <2>1 DEF Used, bIsFree
<1>3. y = x
  BY <1>1, <1>2 DEF TableInv, Known
<1> QED BY <1>1, <1>2, <1>3

\* No descriptor of a call without doubt has moved.
LEMMA NothingMoved ==
  ASSUME NEW h, DoubtAfter(h) = {}
  PROVE  /\ call.doubt = {}
         /\ \A d \in MediaIds : call.allocation[d] # NoEntry =>
              /\ ~(call.allocation[d] >= h.n)
              /\ h.alloc[call.allocation[d]].kernel = heap.alloc[call.allocation[d]].kernel
<1>1. call.doubt = {}
  BY DEF DoubtAfter
<1>2. ~(\E d \in MediaIds : LET i == call.allocation[d] IN
          i # NoEntry /\ (i >= h.n \/ h.alloc[i].kernel # heap.alloc[i].kernel))
  <2>1. "moved" \notin DoubtAfter(h)
    OBVIOUS
  <2> QED BY <2>1, Zenon DEF DoubtAfter
<1> QED BY <1>1, <1>2, Zenon

-----------------------------------------------------------------------------
(***************************************************************************)
(* The descriptors.                                                        *)
(***************************************************************************)
\* Which descriptor a kernel gets depends on those before alone.
LEMMA AssignedAlike ==
  ASSUME NEW ids, NEW ids2, NEW ks, NEW n \in Nat \ {0}, NEW d,
         \A m \in 1 .. n : ids2[m] = ids[m], Assigned(ids, ks, n, d)
  PROVE  Assigned(ids2, ks, n, d)
<1>1. \A m \in 1 .. n - 1 : ids2[m] = ids[m]
  OBVIOUS
<1>2. ids2[n] = ids[n]
  OBVIOUS
<1>3. {e \in MediaIds : \A m \in 1 .. n - 1 : ids2[m] # e}
        = {e \in MediaIds : \A m \in 1 .. n - 1 : ids[m] # e}
  BY <1>1
<1>4. (\A m \in 1 .. n - 1 : ids2[m] = d => ks[m] = ks[n])
        <=> \A m \in 1 .. n - 1 : ids[m] = d => ks[m] = ks[n]
  BY <1>1
<1> QED BY <1>2, <1>3, <1>4 DEF Assigned

LEMMA AssignedOnce ==
  ASSUME NEW a, NEW b, NEW ks, NEW n \in Nat, NEW d,
         \A m \in 1 .. n - 1 : a[m] = b[m],
         Assigned(a, ks, n, d), Assigned(b, ks, n, d)
  PROVE  a[n] = b[n]
<1>3. {e \in MediaIds : \A m \in 1 .. n - 1 : a[m] # e}
        = {e \in MediaIds : \A m \in 1 .. n - 1 : b[m] # e}
  OBVIOUS
<1>4. (\A m \in 1 .. n - 1 : a[m] = d => ks[m] = ks[n])
        <=> \A m \in 1 .. n - 1 : b[m] = d => ks[m] = ks[n]
  OBVIOUS
<1> QED BY <1>3, <1>4 DEF Assigned

\* The kernel the call is at gets a descriptor no other kernel of the call has:
\* the one it prefers, which is recorded with it if it had none.
LEMMA DescriptorFits ==
  ASSUME TableInv(heap), CallInv, CallRuns, NEW h, NEW i \in Used(h), Found(h, i),
         DoubtAfter(h) = {}
  PROVE  LET id == MediaId(h, i)
             kid == h.alloc[i].kid IN
         /\ call.allocation[id] \in {NoEntry, i}
         /\ Assigned(Append(call.ids, id), call.kernels, Len(call.ids) + 1,
                     IF kid = NoEntry THEN id ELSE kid)
<1> DEFINE al == call.allocation
           ids == call.ids
           ks == call.kernels
           n == Len(ids) + 1
           id == MediaId(h, i)
           kid == h.alloc[i].kid
           more == Append(ids, id)
           F == {d \in MediaIds : al[d] = NoEntry}
           Other(d) == \E m \in 1 .. n - 1 : ids[m] = d /\ ks[m] # ks[n]
<1>0. /\ call.pc = "kernel" /\ TableInv(h) /\ h.alloc[i].kernel = Kernel
      /\ call # NoCall /\ Taken
  BY CallInProgress DEF Found, Places, Taken
<1>1. /\ ids \in Seq(MediaIds) /\ al \in [MediaIds -> Entries \cup {NoEntry}]
      /\ Len(ids) \in Nat /\ DOMAIN ids = 1 .. Len(ids) /\ n \in Nat /\ n - 1 = Len(ids)
      /\ \A m \in 1 .. n - 1 : m \in DOMAIN ids /\ ids[m] \in MediaIds
  <2>1. ids \in Seq(MediaIds) /\ al \in [MediaIds -> Entries \cup {NoEntry}]
    BY <1>0 DEF CallInv
  <2>2. Len(ids) \in Nat /\ DOMAIN ids = 1 .. Len(ids)
    BY <2>1, LenProperties
  <2>3. n \in Nat /\ n - 1 = Len(ids)
    BY <2>2
  <2>4. \A m \in DOMAIN ids : ids[m] \in MediaIds
    BY <2>1, <2>2
  <2> QED BY <2>1, <2>2, <2>3, <2>4
<1>2. /\ call.doubt = {}
      /\ \A d \in MediaIds : al[d] # NoEntry =>
           ~(al[d] >= h.n) /\ h.alloc[al[d]].kernel = heap.alloc[al[d]].kernel
  BY NothingMoved
<1>3. /\ \A m \in DOMAIN ids : al[ids[m]] \in Used(heap)
                               /\ heap.alloc[al[ids[m]]].kernel = ks[m]
      /\ \A d \in MediaIds : al[d] # NoEntry => \E m \in DOMAIN ids : ids[m] = d
  BY <1>0, <1>2 DEF CallRuns
<1>4. Kernel = ks[n] /\ Kernel \in Kernels
  BY <1>0, KernelTyped DEF Kernel
<1>5. NoEntry \notin Used(heap) /\ \A x \in Used(heap) : x \in Nat
  BY UsedTyped DEF NoEntry
<1> HIDE DEF al, ids, ks, n
<1>6. \A m \in 1 .. n - 1 : /\ al[ids[m]] \in Used(h) /\ al[ids[m]] # NoEntry
                            /\ h.alloc[al[ids[m]]].kernel = ks[m]
  <2> SUFFICES ASSUME NEW m \in 1 .. n - 1
               PROVE  /\ al[ids[m]] \in Used(h) /\ al[ids[m]] # NoEntry
                      /\ h.alloc[al[ids[m]]].kernel = ks[m]
    OBVIOUS
  <2>1. al[ids[m]] \in Used(heap) /\ heap.alloc[al[ids[m]]].kernel = ks[m]
    BY <1>1, <1>3
  <2>2. al[ids[m]] # NoEntry /\ al[ids[m]] \in Nat /\ h.n \in Nat
    BY <1>0, <1>5, <2>1, UsedTyped
  <2>3. ~(al[ids[m]] >= h.n) /\ h.alloc[al[ids[m]]].kernel = heap.alloc[al[ids[m]]].kernel
    BY <1>1, <1>2, <2>2
  <2>4. al[ids[m]] < h.n
    BY <2>2, <2>3
  <2>5. al[ids[m]] \in Entries /\ heap.alloc[al[ids[m]]].kernel # NoKernel
    BY <2>1 DEF Used, bIsFree
  <2> QED BY <2>1, <2>2, <2>3, <2>4, <2>5 DEF Used, bIsFree
<1>7. ASSUME NEW d \in MediaIds
      PROVE  al[d] \in {NoEntry, i} <=> ~Other(d)
  <2>1. ASSUME al[d] \in {NoEntry, i}, NEW m \in 1 .. n - 1, ids[m] = d
        PROVE  ks[m] = ks[n]
    <3>1. al[d] = i /\ h.alloc[i].kernel = ks[m]
      BY <1>6, <2>1
    <3> QED BY <1>0, <1>4, <3>1
  <2>2. ASSUME al[d] # NoEntry, ~Other(d)
        PROVE  al[d] = i
    <3>1. PICK m \in DOMAIN ids : ids[m] = d
      BY <1>3, <2>2
    <3>2. m \in 1 .. n - 1
      BY <1>1, <3>1
    <3>3. ks[m] = ks[n]
      BY <2>2, <3>1, <3>2
    <3>4. al[d] \in Used(h) /\ h.alloc[al[d]].kernel = h.alloc[i].kernel
      BY <1>0, <1>4, <1>6, <3>1, <3>2, <3>3
    <3> QED BY <1>0, <3>4 DEF TableInv, Known
  <2> QED BY <2>1, <2>2
<1>8. F = {e \in MediaIds : \A m \in 1 .. n - 1 : ids[m] # e}
  <2>1. ASSUME NEW e \in MediaIds, al[e] = NoEntry, NEW m \in 1 .. n - 1
        PROVE  ids[m] # e
    BY <1>6, <2>1
  <2>2. ASSUME NEW e \in MediaIds, \A m \in 1 .. n - 1 : ids[m] # e
        PROVE  al[e] = NoEntry
    BY <1>1, <1>3, <2>2
  <2> QED BY <2>1, <2>2
<1>9. id \in MediaIds
  <2>1. call.pc # "submit" /\ i \in Entries
    BY <1>0, UsedTyped
  <2> QED BY <1>0, <2>1, MediaIdFree, Zenon
<1>10. F # {} => Min(F) \in F
  BY MediaIdsFacts, MinFacts
<1>11. id = IF kid # NoEntry /\ al[kid] \in {NoEntry, i} THEN kid ELSE Min(F)
  BY DEF MediaId, al
<1>12. F # {}
  <2>1. DOMAIN al = MediaIds /\ Cardinality({d \in MediaIds : al[d] # NoEntry}) <= Len(ids)
        /\ Len(ids) < Len(call.kernels) /\ Len(call.kernels) <= Cardinality(MediaIds)
    BY <1>0 DEF CallInv, al, ids
  <2>2. Len(call.kernels) \in Nat
    BY <1>0, LenProperties DEF CallInv
  <2>3. IsFiniteSet(MediaIds) /\ Cardinality(MediaIds) \in Nat
    BY MediaIdsFacts
  <2>4. {d \in MediaIds : al[d] # NoEntry} # MediaIds
    <3>1. Cardinality(MediaIds) <= Len(ids) => FALSE
      BY ONLY <1>1, <2>1, <2>2, <2>3
    <3> QED BY ONLY <2>1, <3>1, Zenon
  <2> QED BY <2>4
<1>13. /\ \A m \in 1 .. n - 1 : more[m] = ids[m]
       /\ more[n] = id
  BY <1>1, <1>9, AppendProperties DEF n
<1> HIDE DEF id, more, F, Other
<1>14. {e \in MediaIds : \A m \in 1 .. n - 1 : more[m] # e} = F
  BY <1>8, <1>13
<1>15. \A d : (\A m \in 1 .. n - 1 : more[m] = d => ks[m] = ks[n]) <=> ~Other(d)
  BY <1>13 DEF Other
<1>16. kid \in MediaIds \cup {NoEntry}
  BY <1>0, UsedTyped DEF EntryType
<1>17. CASE kid # NoEntry /\ al[kid] \in {NoEntry, i}
  <2>1. id = kid /\ kid \in MediaIds /\ ~Other(kid)
    BY <1>7, <1>11, <1>16, <1>17
  <2>2. Assigned(more, ks, n, kid)
    BY <1>13, <1>15, <2>1 DEF Assigned
  <2> QED BY <1>17, <2>1, <2>2 DEF id, more, al, ids, ks, n
<1>18. CASE kid = NoEntry
  <2>1. id = Min(F) /\ id \in F
    BY <1>10, <1>11, <1>12, <1>18
  <2>2. al[id] = NoEntry /\ id \in MediaIds
    BY <2>1 DEF F
  <2>3. ~Other(id)
    BY <1>7, <2>2
  <2>4. Assigned(more, ks, n, id)
    BY <1>13, <1>15, <2>3 DEF Assigned
  <2> QED BY <1>18, <2>2, <2>4 DEF id, more, al, ids, ks, n
<1>19. CASE kid # NoEntry /\ al[kid] \notin {NoEntry, i}
  <2>1. id = Min(F) /\ id \in F /\ kid \in MediaIds
    BY <1>10, <1>11, <1>12, <1>16, <1>19
  <2>2. al[id] = NoEntry
    BY <2>1 DEF F
  <2>3. Other(kid)
    BY <1>7, <1>19, <2>1
  <2>4. Assigned(more, ks, n, kid)
    BY <1>13, <1>14, <1>15, <2>1, <2>3 DEF Assigned
  <2> QED BY <1>19, <2>2, <2>4 DEF id, more, al, ids, ks, n
<1> QED BY <1>17, <1>18, <1>19

-----------------------------------------------------------------------------
(***************************************************************************)
(* A kernel is found or loaded.                                            *)
(***************************************************************************)
\* All that is known between two steps, as long as the table is one.
Whole ==
    /\ HalInv /\ TurnsInv /\ HeapInv /\ ~heap.phantom
    /\ StartInv /\ KidInv /\ CallRuns /\ CallWrites /\ BufferInv /\ BatchRuns

LEMMA WholeFacts ==
  ASSUME Whole
  PROVE  /\ TableInv(heap) /\ CallInv /\ TagInv /\ MediaInv /\ FreshInv
         /\ nextTag \in Nat /\ gpuTag \in Nat /\ gpuTag <= nextTag
         /\ call # NoCall => DOMAIN call = CallFields
         /\ Taken => call # NoCall /\ syncTag \in Int /\ syncTag < gpuTag
         /\ \A n \in DOMAIN ring : sync[ring[n].id] = "reset" =>
              /\ JobOf(n).media \in States
              /\ Taken => JobOf(n).media # call.media
              /\ JobOf(n).tag \in Nat /\ gpuTag <= JobOf(n).tag - 1
              /\ JobOf(n).tag - 1 <= nextTag
<1>1. /\ TableInv(heap) /\ CallInv /\ TagInv /\ MediaInv /\ FreshInv
      /\ nextTag \in Nat /\ gpuTag \in Nat /\ gpuTag <= nextTag
      /\ HalInv
  BY DEF Whole, HeapInv, TurnsInv, TagInv
<1>2. call # NoCall => DOMAIN call = CallFields
  BY <1>1 DEF FreshInv
<1>3. Taken => call # NoCall /\ syncTag \in Int /\ syncTag < gpuTag
  BY <1>1, TakenInProgress DEF FreshInv, Taken
<1>4. ASSUME NEW n \in DOMAIN ring, sync[ring[n].id] = "reset"
      PROVE  /\ JobOf(n).media \in States
             /\ Taken => JobOf(n).media # call.media
             /\ JobOf(n).tag \in Nat /\ gpuTag <= JobOf(n).tag - 1
             /\ JobOf(n).tag - 1 <= nextTag
  <2>1. JobOf(n) # NoCall /\ JobOf(n).tag > gpuTag /\ ring[n].task \in Tasks
    BY <1>1, <1>4, RingMembers DEF TagInv, HalInv
  <2>2. JobOf(n).tag \in Nat /\ JobOf(n).tag <= nextTag
    BY <1>1, <2>1 DEF TagInv, JobOf
  <2>3. /\ JobOf(n).media \in States
        /\ media[JobOf(n).media].tag + 1 = JobOf(n).tag
        /\ media[JobOf(n).media].tag \in Nat
    BY <1>1, <1>4 DEF MediaInv, RingStates
  <2>4. Taken => media[call.media].tag = nextTag
    BY <1>1 DEF MediaInv
  <2> QED BY <1>1, <2>1, <2>2, <2>3, <2>4
<1> QED BY <1>1, <1>2, <1>3, <1>4

\* Descriptor d of state c now leads to offset o.
LeadsTo(c, d, o) == media' = [media EXCEPT ![c].offset[d] = o]

\* What the call notes of it.
Noted(h, i, id) ==
    /\ id = MediaId(h, i) /\ id \in MediaIds
    /\ call # NoCall /\ Taken /\ Taken' /\ call.pc # "buffer" /\ call'.pc # "buffer"
    /\ call' # NoCall /\ DOMAIN call' = CallFields
    /\ call'.kernels = call.kernels /\ call'.walker = call.walker
    /\ call'.write = call.write /\ call'.buffer = call.buffer
    /\ call'.media = call.media
    /\ call'.ids = Append(call.ids, id)
    /\ call'.allocation = [call.allocation EXCEPT ![id] = i]
    /\ call'.doubt = DoubtAfter(h)
    /\ call'.pc \in {"kernel", "submit"}
    /\ \E o : o = h.alloc[i].offset /\ LeadsTo(call.media, id, o)
    /\ buffers' = IF call.write
                    THEN [buffers EXCEPT ![call.buffer].ids = Append(@, id)]
                    ELSE buffers

LEMMA FoundFields ==
  ASSUME Whole, NEW h, NEW i \in Used(h), Found(h, i)
  PROVE  \E id : Noted(h, i, id)
<1>0. call.pc = "kernel" /\ HalCm_AllocateMediaID(h, i) /\ Places(h, i)
  BY DEF Found
<1>1. call # NoCall /\ call.pc # "submit" /\ Taken
  BY <1>0, CallInProgress DEF Taken
<1>2. DOMAIN call = CallFields
  BY <1>1, WholeFacts
<1>3. PICK id : /\ id = MediaId(h, i)
                /\ media' = [media EXCEPT ![call.media].offset[id] = h.alloc[i].offset]
                /\ buffers' = IF call.write
                         THEN [buffers EXCEPT ![call.buffer].ids = Append(@, id)]
                         ELSE buffers
                /\ call' = [call EXCEPT
                              !.ids = Append(@, id), !.allocation[id] = i,
                              !.doubt = DoubtAfter(h),
                              !.pc = IF Len(call.ids) + 1 = Len(call.kernels)
                                       THEN "submit" ELSE "kernel"]
  BY <1>0, Zenon DEF HalCm_AllocateMediaID
<1>4. /\ DOMAIN call' = CallFields
      /\ call'.kernels = call.kernels /\ call'.walker = call.walker
      /\ call'.write = call.write /\ call'.buffer = call.buffer
      /\ call'.media = call.media
      /\ call'.ids = Append(call.ids, id)
      /\ call'.allocation = [call.allocation EXCEPT ![id] = i]
      /\ call'.doubt = DoubtAfter(h)
      /\ call'.pc \in {"kernel", "submit"}
  BY <1>2, <1>3 DEF CallFields
<1>5. call' # NoCall
  BY <1>4 DEF NoCall, CallFields
<1>6. id \in MediaIds
  <2>1. CallInv /\ TableInv(h) /\ i \in Entries
    BY <1>0, WholeFacts, UsedTyped DEF Places
  <2> QED BY <1>1, <1>3, <2>1, MediaIdFree, Zenon
<1>7. Taken' /\ call'.pc # "buffer" /\ call.pc # "buffer"
  BY <1>0, <1>4 DEF Taken
<1>8. Noted(h, i, id)
  BY <1>1, <1>3, <1>4, <1>5, <1>6, <1>7, Zenon DEF Noted, LeadsTo
<1> QED BY <1>8

\* What the media states lead to.
LEMMA OffsetsAfter ==
  ASSUME MediaInv, NEW c \in States, NEW d \in MediaIds, NEW o,
         LeadsTo(c, d, o)
  PROVE  /\ media'[c].offset[d] = o
         /\ \A e \in MediaIds : e # d => media'[c].offset[e] = media[c].offset[e]
         /\ \A m \in States : m # c => media'[m] = media[m]
<1>1. /\ DOMAIN media = States
      /\ DOMAIN media[c] = MediaFields /\ DOMAIN media[c].offset = MediaIds
  BY DEF MediaInv
<1>2. media'[c] = [media[c] EXCEPT !.offset = [media[c].offset EXCEPT ![d] = o]]
  BY <1>1 DEF LeadsTo
<1>3. media'[c].offset = [media[c].offset EXCEPT ![d] = o]
  BY <1>1, <1>2 DEF MediaFields
<1> QED BY <1>1, <1>3 DEF LeadsTo

\* The batches are not disturbed as long as what they have is kept.
LEMMA BatchesRunOn ==
  ASSUME Whole, UNCHANGED <<ring, sync, job>>,
         \A m \in States : ~Taken \/ m # call.media => media'[m].offset = media[m].offset,
         \A x \in Used(heap) : ~(heap.alloc[x].sync < gpuTag) => Keeps(heap, heap', x, nextTag)
  PROVE  BatchRuns'
<1> SUFFICES ASSUME NEW n \in DOMAIN ring, sync[ring[n].id] = "reset", JobOf(n).doubt = {}
             PROVE  LET j == JobOf(n) IN
                    /\ j.kernels \in Seq(Kernels) /\ j.ids \in Seq(MediaIds)
                    /\ Len(j.ids) = Len(j.kernels)
                    /\ \A m \in DOMAIN j.ids :
                         LoadedUntil(heap', j.kernels[m],
                                     media'[j.media].offset[j.ids[m]], j.tag - 1)
  BY DEF BatchRuns, JobOf
<1> DEFINE j == JobOf(n)
<1>1. /\ j.kernels \in Seq(Kernels) /\ j.ids \in Seq(MediaIds)
      /\ Len(j.ids) = Len(j.kernels)
      /\ \A m \in DOMAIN j.ids :
           LoadedUntil(heap, j.kernels[m], media[j.media].offset[j.ids[m]], j.tag - 1)
  BY DEF Whole, BatchRuns
<1>2. /\ j.media \in States /\ (Taken => j.media # call.media)
      /\ j.tag \in Nat /\ gpuTag <= j.tag - 1 /\ j.tag - 1 <= nextTag
      /\ nextTag \in Nat /\ gpuTag \in Nat /\ TableInv(heap)
  BY WholeFacts
<1>3. media'[j.media].offset = media[j.media].offset
  BY <1>2
<1> HIDE DEF j
<1>4. \A x \in Used(heap) : heap.alloc[x].sync >= j.tag - 1 =>
        Keeps(heap, heap', x, nextTag)
  <2> SUFFICES ASSUME NEW x \in Used(heap), heap.alloc[x].sync >= j.tag - 1
               PROVE  ~(heap.alloc[x].sync < gpuTag)
    OBVIOUS
  <2>1. heap.alloc[x].sync \in Int
    BY <1>2, UsedTyped DEF EntryType
  <2> QED BY <1>2, <2>1
<1>5. PICK t \in Int : t = j.tag - 1
  BY <1>2
<1>6. \A k, o : LoadedUntil(heap, k, o, t) => LoadedUntil(heap', k, o, t)
  BY <1>2, <1>4, <1>5, LoadedUntilStays
<1> QED BY <1>1, <1>3, <1>5, <1>6 DEF j

\* The call goes on: the descriptors it has given lead where they did.
LEMMA FoundCall ==
  ASSUME Whole, NEW h, NEW i \in Used(h), Found(h, i), nextTag' = nextTag
  PROVE  CallRuns'
<1> SUFFICES ASSUME call'.doubt = {}
             PROVE  /\ \A n \in DOMAIN call'.ids :
                         LET x == call'.allocation[call'.ids[n]] IN
                         /\ x \in Used(heap') /\ heap'.alloc[x].kernel = call'.kernels[n]
                         /\ heap'.alloc[x].offset = media'[call'.media].offset[call'.ids[n]]
                         /\ heap'.alloc[x].sync >= nextTag'
                    /\ \A d \in MediaIds : call'.allocation[d] # NoEntry =>
                         \E n \in DOMAIN call'.ids : call'.ids[n] = d
                    /\ AsAssigned(heap', call'.ids, call'.kernels)
  BY DEF CallRuns
<1> DEFINE al == call.allocation
           ids == call.ids
           ks == call.kernels
           c == call.media
           n == Len(ids) + 1
<1>0. PICK id : Noted(h, i, id)
  BY FoundFields
<1>1. /\ id = MediaId(h, i)
      /\ id \in MediaIds /\ Taken /\ call # NoCall
      /\ call'.kernels = ks /\ call'.media = c
      /\ call'.ids = Append(ids, id)
      /\ call'.allocation = [al EXCEPT ![id] = i]
      /\ DoubtAfter(h) = {}
  BY <1>0 DEF Noted
<1>2. /\ TableInv(heap) /\ CallInv /\ MediaInv /\ KidInv /\ CallRuns /\ nextTag \in Nat
      /\ TableInv(h) /\ h.alloc[i].kernel = Kernel /\ call.pc = "kernel"
      /\ i \in Entries /\ i # NoEntry
  BY WholeFacts, UsedTyped DEF Whole, Found, Places, NoEntry
<1>3. /\ c \in States
      /\ media'[c].offset[id] = h.alloc[i].offset
      /\ \A e \in MediaIds : e # id => media'[c].offset[e] = media[c].offset[e]
  <2>1. c \in States
    BY <1>1, <1>2 DEF MediaInv
  <2>2. PICK o : o = h.alloc[i].offset /\ LeadsTo(c, id, o)
    BY <1>0, Zenon DEF Noted
  <2>3. PICK q \in States : q = c
    BY <2>1
  <2> HIDE DEF c
  <2>4. MediaInv /\ id \in MediaIds
    BY <1>1, <1>2
  <2>5. LeadsTo(q, id, o)
    BY <2>2, <2>3
  <2>6. /\ media'[q].offset[id] = o
        /\ \A e \in MediaIds : e # id => media'[q].offset[e] = media[q].offset[e]
    BY ONLY q \in States, <2>4, <2>5, OffsetsAfter
  <2> QED BY <2>1, <2>2, <2>6, <2>3
<1>4. /\ ids \in Seq(MediaIds) /\ Len(ids) \in Nat /\ DOMAIN ids = 1 .. Len(ids)
      /\ al \in [MediaIds -> Entries \cup {NoEntry}]
      /\ \A m \in DOMAIN ids : ids[m] \in MediaIds
  <2>1. ids \in Seq(MediaIds) /\ al \in [MediaIds -> Entries \cup {NoEntry}]
    BY <1>1, <1>2 DEF CallInv
  <2>2. Len(ids) \in Nat /\ DOMAIN ids = 1 .. Len(ids)
    BY <2>1, LenProperties
  <2> QED BY <2>1, <2>2
<1>5. /\ TableInv(heap') /\ Used(heap') = Used(h) /\ heap'.n = h.n
      /\ \A x \in Used(heap) : Keeps(heap, heap', x, nextTag)
      /\ \A j \in Entries : /\ heap'.alloc[j].kernel = h.alloc[j].kernel
                            /\ heap'.alloc[j].offset = h.alloc[j].offset
      /\ heap'.alloc[i].sync = nextTag
      /\ heap'.alloc[i].kid = IF h.alloc[i].kid = NoEntry THEN id ELSE h.alloc[i].kid
  BY <1>1, <1>2, FoundKeeps
<1>6. /\ al[id] \in {NoEntry, i}
      /\ Assigned(Append(ids, id), ks, n, heap'.alloc[i].kid)
  BY <1>1, <1>2, <1>5, DescriptorFits
<1>7. /\ call.doubt = {}
      /\ \A d \in MediaIds : al[d] # NoEntry =>
           /\ ~(al[d] >= h.n) /\ h.alloc[al[d]].kernel = heap.alloc[al[d]].kernel
  BY <1>1, NothingMoved
<1>8. /\ \A m \in DOMAIN ids : /\ al[ids[m]] \in Used(heap)
                               /\ heap.alloc[al[ids[m]]].kernel = ks[m]
                               /\ heap.alloc[al[ids[m]]].offset = media[c].offset[ids[m]]
                               /\ heap.alloc[al[ids[m]]].sync >= nextTag
      /\ \A d \in MediaIds : al[d] # NoEntry => \E m \in DOMAIN ids : ids[m] = d
      /\ AsAssigned(heap, ids, ks)
  BY <1>1, <1>2, <1>7 DEF CallRuns
<1> DEFINE more == Append(ids, id)
           al2 == [al EXCEPT ![id] = i]
<1>9. /\ DOMAIN more = 1 .. n /\ more[n] = id /\ n \in Nat \ {0}
      /\ \A m \in DOMAIN ids : m \in 1 .. n /\ more[m] = ids[m]
      /\ \A m \in 1 .. n : m = n \/ m \in DOMAIN ids
  <2>1. more \in Seq(MediaIds) /\ Len(more) = n
    BY <1>1, <1>4, AppendProperties
  <2>2. DOMAIN more = 1 .. n
    BY <2>1, LenProperties
  <2>3. \A m \in DOMAIN ids : more[m] = ids[m]
    BY <1>1, <1>4, AppendProperties
  <2>4. more[n] = id
    BY <1>1, <1>4, AppendProperties
  <2> QED BY <1>4, <2>2, <2>3, <2>4
<1>10. /\ al2[id] = i /\ DOMAIN al2 = MediaIds
       /\ \A d \in MediaIds : d # id => al2[d] = al[d]
  BY <1>1, <1>4
<1>11. ks[n] = Kernel
  BY DEF Kernel
<1> HIDE DEF al, ids, ks, c, n, more, al2
<1>12. /\ i \in Used(heap') /\ heap'.alloc[i].kernel = ks[n]
       /\ heap'.alloc[i].offset = media'[c].offset[id]
       /\ heap'.alloc[i].sync >= nextTag
  BY <1>2, <1>3, <1>5, <1>11
<1>13. ASSUME NEW m \in DOMAIN ids
       PROVE  LET x == al2[ids[m]] IN
              /\ x \in Used(heap') /\ heap'.alloc[x].kernel = ks[m]
              /\ heap'.alloc[x].offset = media'[c].offset[ids[m]]
              /\ heap'.alloc[x].sync >= nextTag
  <2> DEFINE x == al[ids[m]]
  <2>1. /\ x \in Used(heap) /\ heap.alloc[x].kernel = ks[m]
        /\ heap.alloc[x].offset = media[c].offset[ids[m]]
        /\ heap.alloc[x].sync >= nextTag /\ ids[m] \in MediaIds
    BY <1>4, <1>8
  <2>2. x \in Entries /\ x \in Nat /\ x # NoEntry /\ h.n \in Nat
    BY <1>2, <2>1, UsedTyped DEF NoEntry
  <2>3. ~(x >= h.n) /\ h.alloc[x].kernel = heap.alloc[x].kernel
    BY <1>7, <2>1, <2>2
  <2>4. x < heap'.n /\ heap'.alloc[x].kernel = heap.alloc[x].kernel
    BY <1>5, <2>2, <2>3
  <2> HIDE DEF x
  <2>5. /\ x \in Used(heap') /\ heap'.alloc[x].offset = heap.alloc[x].offset
        /\ heap'.alloc[x].sync \in {heap.alloc[x].sync, nextTag}
    BY <1>2, <1>5, <2>1, <2>4, SameIndex
  <2>6. heap'.alloc[x].sync >= nextTag
    BY <1>2, <2>1, <2>5
  <2>7. CASE ids[m] # id
    <3>1. al2[ids[m]] = x /\ media'[c].offset[ids[m]] = media[c].offset[ids[m]]
      BY <1>3, <1>10, <2>1, <2>7 DEF x
    <3> QED BY <2>1, <2>4, <2>5, <2>6, <3>1
  <2>8. CASE ids[m] = id
    <3>1. x = i /\ al2[ids[m]] = x
      BY <1>6, <1>10, <2>2, <2>8 DEF x
    <3>2. heap'.alloc[x].offset = media'[c].offset[ids[m]]
      BY <1>12, <2>8, <3>1
    <3> QED BY <2>1, <2>4, <2>5, <2>6, <3>1, <3>2
  <2> QED BY <2>7, <2>8
<1>14. ASSUME NEW m \in 1 .. n
       PROVE  LET x == al2[more[m]] IN
              /\ x \in Used(heap') /\ heap'.alloc[x].kernel = ks[m]
              /\ heap'.alloc[x].offset = media'[c].offset[more[m]]
              /\ heap'.alloc[x].sync >= nextTag
  <2>1. CASE m = n
    BY <1>9, <1>10, <1>12, <2>1
  <2>2. CASE m \in DOMAIN ids
    BY <1>9, <1>13, <2>2
  <2> QED BY <1>9, <2>1, <2>2
<1>15. ASSUME NEW d \in MediaIds, al2[d] # NoEntry
       PROVE  \E m \in DOMAIN more : more[m] = d
  <2>1. CASE d = id
    BY <1>9, <2>1
  <2>2. CASE d # id
    <3>1. PICK m \in DOMAIN ids : ids[m] = d
      BY <1>8, <1>10, <1>15, <2>2
    <3> QED BY <1>9, <3>1
  <2> QED BY <2>1, <2>2
<1>16. AsAssigned(heap', more, ks)
  <2> SUFFICES ASSUME NEW m \in 1 .. n
               PROVE  \E d \in MediaIds : Prefers(heap', ks[m], d) /\ Assigned(more, ks, m, d)
    BY <1>9 DEF AsAssigned
  <2>1. CASE m = n
    <3>1. h.alloc[i].kid \in MediaIds \cup {NoEntry}
      BY <1>2, UsedTyped DEF EntryType
    <3>2. heap'.alloc[i].kid \in MediaIds
      BY <1>1, <1>5, <3>1
    <3>3. Prefers(heap', ks[m], heap'.alloc[i].kid)
      BY <1>12, <2>1 DEF Prefers
    <3>4. Assigned(more, ks, m, heap'.alloc[i].kid)
      BY <1>6, <2>1 DEF more
    <3> QED BY <3>2, <3>3, <3>4
  <2>2. CASE m \in DOMAIN ids
    <3>1. PICK d \in MediaIds : Prefers(heap, ks[m], d) /\ Assigned(ids, ks, m, d)
      BY <1>8, <2>2 DEF AsAssigned
    <3>2. Prefers(heap', ks[m], d)
      BY <1>5, <3>1, PrefersStays
    <3>3. m \in Nat \ {0} /\ \A e \in 1 .. m : more[e] = ids[e]
      BY <1>4, <1>9, <2>2
    <3>4. Assigned(more, ks, m, d)
      BY <3>1, <3>3, AssignedAlike
    <3> QED BY <3>2, <3>4
  <2> QED BY <1>9, <2>1, <2>2
<1>17. /\ call'.ids = more /\ call'.allocation = al2 /\ call'.kernels = ks
       /\ call'.media = c /\ nextTag' = nextTag
  BY <1>1 DEF more, al2, ids, al, ks, c
<1>18. DOMAIN call'.ids = 1 .. n
  BY <1>9, <1>17
<1>19. ASSUME NEW m \in DOMAIN call'.ids
       PROVE  LET x == call'.allocation[call'.ids[m]] IN
              /\ x \in Used(heap') /\ heap'.alloc[x].kernel = call'.kernels[m]
              /\ heap'.alloc[x].offset = media'[call'.media].offset[call'.ids[m]]
              /\ heap'.alloc[x].sync >= nextTag'
  BY <1>14, <1>17, <1>18
<1> QED BY <1>15, <1>16, <1>17, <1>19

\* The buffers after a call has written one more command, or none.
LEMMA BuffersNoted ==
  ASSUME Whole, NEW h, NEW i, NEW id, Noted(h, i, id)
  PROVE  /\ DOMAIN buffers' = States
         /\ \A b \in States :
              /\ DOMAIN buffers'[b] = BufferFields
              /\ buffers'[b].size = buffers[b].size /\ buffers'[b].key = buffers[b].key
              /\ buffers'[b].doubt = buffers[b].doubt
              /\ buffers'[b].ids = IF call.write /\ b = call.buffer
                                     THEN Append(buffers[b].ids, id) ELSE buffers[b].ids
<1>1. /\ DOMAIN buffers = States
      /\ \A b \in States : DOMAIN buffers[b] = BufferFields
  BY DEF Whole, StartInv
<1>2. buffers' = IF call.write
                   THEN [buffers EXCEPT ![call.buffer].ids = Append(@, id)]
                   ELSE buffers
  BY DEF Noted
<1>3. CASE call.write
  <2>1. buffers' = [buffers EXCEPT ![call.buffer].ids = Append(@, id)]
    BY <1>2, <1>3
  <2> QED BY <1>1, <1>3, <2>1 DEF BufferFields
<1>4. CASE ~call.write
  BY <1>1, <1>2, <1>4
<1> QED BY <1>3, <1>4

LEMMA FoundStart ==
  ASSUME Whole, NEW h, NEW i, NEW id, Noted(h, i, id)
  PROVE  StartInv'
<1>1. /\ id \in MediaIds /\ call # NoCall /\ call'.walker = call.walker
      /\ call'.write = call.write /\ call'.pc \in {"kernel", "submit"}
  BY DEF Noted
<1>2. /\ DOMAIN buffers' = States
      /\ \A b \in States :
           /\ DOMAIN buffers'[b] = BufferFields /\ buffers'[b].key = buffers[b].key
           /\ \/ buffers'[b].ids = Append(buffers[b].ids, id)
              \/ buffers'[b].ids = buffers[b].ids
  <2>1. ASSUME NEW b \in States
        PROVE  /\ DOMAIN buffers'[b] = BufferFields /\ buffers'[b].key = buffers[b].key
               /\ buffers'[b].ids = IF call.write /\ b = call.buffer
                                      THEN Append(buffers[b].ids, id) ELSE buffers[b].ids
    BY BuffersNoted
  <2>2. DOMAIN buffers' = States
    BY BuffersNoted
  <2> QED BY <2>1, <2>2
<1>3. \A b \in States : buffers[b].key \in Seq(Kernels) /\ buffers[b].ids \in Seq(MediaIds)
  BY DEF Whole, StartInv
<1>4. ASSUME NEW b \in States
      PROVE  buffers'[b].key \in Seq(Kernels) /\ buffers'[b].ids \in Seq(MediaIds)
  <2>1. Append(buffers[b].ids, id) \in Seq(MediaIds)
    BY <1>1, <1>3, AppendProperties
  <2> QED BY <1>2, <1>3, <2>1
<1>5. /\ {call'.walker, call'.write} \subseteq BOOLEAN
      /\ call'.write => ~call'.walker
  BY <1>1 DEF Whole, StartInv
<1> QED BY <1>1, <1>2, <1>4, <1>5 DEF StartInv

\* It writes the command, or finds it: a buffer that is reused names the
\* descriptor the kernel is given.
LEMMA FoundWrites ==
  ASSUME Whole, NEW h, NEW i \in Used(h), Found(h, i)
  PROVE  CallWrites'
<1>0. PICK id : Noted(h, i, id)
  BY FoundFields
<1> DEFINE ids == call.ids
           ks == call.kernels
           b == call.buffer
           n == Len(ids) + 1
<1>1. /\ id = MediaId(h, i) /\ id \in MediaIds /\ Taken /\ call # NoCall
      /\ call.pc # "buffer" /\ call'.kernels = ks /\ call'.walker = call.walker
      /\ call'.write = call.write /\ call'.buffer = b
      /\ call'.ids = Append(ids, id) /\ call'.doubt = DoubtAfter(h)
  BY <1>0 DEF Noted
<1> SUFFICES ASSUME ~call.walker
             PROVE  /\ b \in States
                    /\ call.write => /\ buffers'[b].ids = Append(ids, id)
                                     /\ buffers'[b].doubt = {} => buffers'[b].key = ks
                    /\ ~call.write /\ DoubtAfter(h) = {} =>
                         /\ buffers'[b].key = ks /\ buffers'[b].doubt = {}
                         /\ buffers'[b].size # 0
                         /\ \A m \in DOMAIN Append(ids, id) :
                              buffers'[b].ids[m] = Append(ids, id)[m]
  <2> HIDE DEF ids, ks, b, n
  <2> QED BY <1>1 DEF CallWrites
<1>2. /\ b \in States
      /\ call.write => /\ buffers[b].ids = ids
                       /\ buffers[b].doubt = {} => buffers[b].key = ks
      /\ ~call.write /\ call.doubt = {} =>
           /\ buffers[b].key = ks /\ buffers[b].doubt = {} /\ buffers[b].size # 0
           /\ \A m \in DOMAIN ids : buffers[b].ids[m] = ids[m]
  BY <1>1 DEF Whole, CallWrites
<1>3. /\ buffers'[b].size = buffers[b].size /\ buffers'[b].key = buffers[b].key
      /\ buffers'[b].doubt = buffers[b].doubt
      /\ buffers'[b].ids = IF call.write THEN Append(buffers[b].ids, id)
                                         ELSE buffers[b].ids
  BY <1>0, <1>2, BuffersNoted
<1>4. CASE call.write
  BY <1>2, <1>3, <1>4
<1>5. CASE ~call.write /\ DoubtAfter(h) = {}
  <2>1. /\ TableInv(heap) /\ CallInv /\ KidInv /\ CallRuns /\ TableInv(h)
        /\ h.alloc[i].kernel = Kernel /\ call.pc = "kernel"
        /\ \A x \in Used(heap) : Keeps(heap, h, x, nextTag)
    BY WholeFacts DEF Whole, Found, Places
  <2>2. call.doubt = {}
    BY <1>5, NothingMoved
  <2>3. /\ buffers[b].key = ks /\ buffers[b].doubt = {} /\ buffers[b].size # 0
        /\ \A m \in DOMAIN ids : buffers[b].ids[m] = ids[m]
    BY <1>2, <1>5, <2>2
  <2>4. /\ Len(buffers[b].ids) = Len(buffers[b].key)
        /\ AsAssigned(heap, buffers[b].ids, buffers[b].key)
    BY <1>2, <1>5, <2>3 DEF Whole, BufferInv, Writing
  <2>5. /\ ids \in Seq(MediaIds) /\ ks \in Seq(Kernels) /\ Len(ids) < Len(ks)
        /\ buffers[b].ids \in Seq(MediaIds)
    <3>1. call.pc # "submit"
      BY <2>1
    <3> QED BY <1>1, <1>2, <2>1, <3>1 DEF CallInv, Whole, StartInv
  <2>6. /\ Len(ids) \in Nat /\ DOMAIN ids = 1 .. Len(ids) /\ n \in Nat
        /\ Len(ks) \in Nat /\ DOMAIN buffers[b].ids = 1 .. Len(ks)
    BY <2>3, <2>4, <2>5, LenProperties
  <2>7. n \in DOMAIN buffers[b].ids
    BY <2>5, <2>6
  <2>8. ks[n] = Kernel
    BY DEF Kernel
  <2> DEFINE old == buffers[b].ids
             more == Append(ids, id)
  <2> HIDE DEF ids, ks, n
  <2>9. PICK d \in MediaIds : Prefers(heap, ks[n], d) /\ Assigned(old, ks, n, d)
    BY <2>3, <2>4, <2>7 DEF AsAssigned
  <2>10. h.alloc[i].kid = d
    <3>1. Prefers(h, ks[n], d)
      BY <2>1, <2>9, PrefersStays
    <3>2. PICK y \in Used(h) : h.alloc[y].kernel = ks[n] /\ h.alloc[y].kid = d
      BY <3>1 DEF Prefers
    <3>3. y = i
      BY <2>1, <2>8, <3>2 DEF TableInv, Known
    <3> QED BY <3>2, <3>3
  <2>11. Assigned(more, ks, n, d)
    <3>1. d # NoEntry
      BY <2>9, MediaIdsFacts DEF NoEntry
    <3>2. Assigned(more, ks, n,
                   IF h.alloc[i].kid = NoEntry THEN id ELSE h.alloc[i].kid)
      BY <1>1, <1>5, <2>1, DescriptorFits DEF ids, ks, n
    <3> QED BY <2>10, <3>1, <3>2
  <2>12. /\ DOMAIN more = 1 .. n /\ more[n] = id
         /\ \A m \in DOMAIN ids : more[m] = ids[m]
         /\ \A m \in 1 .. n - 1 : m \in DOMAIN ids
         /\ \A m \in 1 .. n : m = n \/ m \in DOMAIN ids
    <3>1. more \in Seq(MediaIds) /\ Len(more) = n
      BY <1>1, <2>5, AppendProperties DEF n
    <3>2. \A m \in 1 .. Len(ids) : more[m] = ids[m]
      BY <1>1, <2>5, AppendProperties
    <3>3. more[n] = id
      BY <1>1, <2>5, AppendProperties DEF n
    <3>4. n = Len(ids) + 1
      BY DEF n
    <3>5. DOMAIN more = 1 .. n
      BY <3>1, LenProperties
    <3> HIDE DEF more
    <3> QED BY <2>6, <3>2, <3>3, <3>4, <3>5
  <2>13. \A m \in 1 .. n - 1 : old[m] = more[m]
    BY <2>3, <2>12
  <2>14. old[n] = more[n]
    <3> HIDE DEF old, more
    <3> QED BY <2>6, <2>9, <2>11, <2>13, AssignedOnce
  <2>15. \A m \in DOMAIN more : old[m] = more[m]
    BY <2>3, <2>12, <2>14
  <2> QED BY <1>2, <1>3, <1>5, <2>3, <2>15
<1> QED BY <1>2, <1>4, <1>5

\* The commands of the other buffers do not change, nor what their kernels
\* prefer.
LEMMA FoundBuffers ==
  ASSUME Whole, NEW h, NEW i \in Used(h), Found(h, i)
  PROVE  BufferInv'
<1>0. PICK id : Noted(h, i, id)
  BY FoundFields
<1>1. /\ Taken /\ Taken' /\ call'.write = call.write /\ call'.buffer = call.buffer
  BY <1>0 DEF Noted
<1>2. \A x \in Used(heap) : Keeps(heap, heap', x, nextTag)
  BY FoundKeeps, WholeFacts DEF Whole
<1> SUFFICES ASSUME NEW b \in States, buffers'[b].size # 0, buffers'[b].doubt = {},
                    ~(call.write /\ call.buffer = b)
             PROVE  /\ Len(buffers'[b].ids) = Len(buffers'[b].key)
                    /\ AsAssigned(heap', buffers'[b].ids, buffers'[b].key)
  BY <1>1 DEF BufferInv, Writing
<1>3. /\ buffers'[b].size = buffers[b].size /\ buffers'[b].key = buffers[b].key
      /\ buffers'[b].doubt = buffers[b].doubt /\ buffers'[b].ids = buffers[b].ids
  BY <1>0, BuffersNoted
<1>4. /\ Len(buffers[b].ids) = Len(buffers[b].key)
      /\ AsAssigned(heap, buffers[b].ids, buffers[b].key)
  BY <1>3 DEF Whole, BufferInv, Writing
<1>5. \A k, d : Prefers(heap, k, d) => Prefers(heap', k, d)
  BY <1>2, PrefersStays
<1> QED BY <1>3, <1>4, <1>5, AssignedStays

\* All together.
LEMMA FoundRuns ==
  ASSUME Whole, LoadedKernel \/ HalCm_LoadKernel
  PROVE  StartInv' /\ KidInv' /\ CallRuns' /\ CallWrites' /\ BufferInv' /\ BatchRuns'
<1>1. /\ TableInv(heap) /\ CallInv /\ nextTag \in Int /\ MediaInv /\ KidInv
  BY WholeFacts DEF Whole
<1>2. UNCHANGED <<ring, sync, job, nextTag>>
  BY DEF LoadedKernel, HalCm_LoadKernel, halVars
<1>3. PICK h : \E i \in Used(h) : Found(h, i)
  BY <1>1, FoundOne
<1>4. PICK i \in Used(h) : Found(h, i)
  BY <1>3
<1>5. PICK id : Noted(h, i, id)
  BY <1>4, FoundFields
<1>6. StartInv' /\ CallRuns' /\ CallWrites' /\ BufferInv'
  BY <1>2, <1>4, <1>5, FoundStart, FoundCall, FoundWrites, FoundBuffers
<1>7. KidInv' /\ \A x \in Used(heap) : Keeps(heap, heap', x, nextTag)
  BY <1>1, <1>4, FoundKeeps
<1>8. \A m \in States : ~Taken \/ m # call.media => media'[m].offset = media[m].offset
  <2>1. Taken /\ id \in MediaIds
    BY <1>5 DEF Noted
  <2>2. PICK c \in States : c = call.media
    BY <1>1, <2>1 DEF MediaInv
  <2>3. \E o : LeadsTo(c, id, o)
    BY <1>5, <2>2, Zenon DEF Noted
  <2>4. \A m \in States : m # c => media'[m] = media[m]
    BY ONLY <1>1, <2>1, <2>3, c \in States, OffsetsAfter
  <2> QED BY <2>1, <2>2, <2>4
<1>9. BatchRuns'
  BY <1>2, <1>7, <1>8, BatchesRunOn
<1> QED BY <1>6, <1>7, <1>9

-----------------------------------------------------------------------------
(***************************************************************************)
(* The steps that leave the heap alone.                                    *)
(***************************************************************************)
\* Batch n has the work of one that was in the ring, to begin still.
OldWork(n) ==
    \E o \in DOMAIN ring :
      /\ sync[ring[o].id] = "reset"
      /\ JobOf(n)'.kernels = JobOf(o).kernels /\ JobOf(n)'.ids = JobOf(o).ids
      /\ JobOf(n)'.media = JobOf(o).media /\ JobOf(n)'.tag = JobOf(o).tag
      /\ JobOf(n)'.doubt = JobOf(o).doubt

OldBatches == \A n \in DOMAIN ring' : sync'[ring'[n].id] = "reset" => OldWork(n)

\* The descriptors lead where they did.
SameOffsets == \A m \in States : media'[m].offset = media[m].offset

\* The commands of the buffer name the descriptors every call will give.
Sound(b) ==
    /\ Len(buffers[b].ids) = Len(buffers[b].key)
    /\ AsAssigned(heap, buffers[b].ids, buffers[b].key)

\* If they are without doubt they are those there were, and were sound.
SameCommands(b) ==
    /\ DOMAIN buffers'[b] = BufferFields
    /\ buffers'[b].key \in Seq(Kernels) /\ buffers'[b].ids \in Seq(MediaIds)
    /\ buffers'[b].size # 0 /\ buffers'[b].doubt = {} /\ ~Writing(b)' =>
         /\ buffers'[b].key = buffers[b].key /\ buffers'[b].ids = buffers[b].ids
         /\ \/ Sound(b)
            \/ buffers[b].size # 0 /\ buffers[b].doubt = {} /\ ~Writing(b)

AllCommands == DOMAIN buffers' = States /\ \A b \in States : SameCommands(b)

LEMMA OldWorkRuns ==
  ASSUME Whole, heap' = heap, SameOffsets, NEW n, OldWork(n), JobOf(n)'.doubt = {}
  PROVE  /\ JobOf(n)'.kernels \in Seq(Kernels) /\ JobOf(n)'.ids \in Seq(MediaIds)
         /\ Len(JobOf(n)'.ids) = Len(JobOf(n)'.kernels)
         /\ \A m \in DOMAIN JobOf(n)'.ids :
              LoadedUntil(heap', JobOf(n)'.kernels[m],
                          media'[JobOf(n)'.media].offset[JobOf(n)'.ids[m]],
                          JobOf(n)'.tag - 1)
<1> DEFINE j == JobOf(n)'
<1>1. PICK o \in DOMAIN ring :
        /\ sync[ring[o].id] = "reset"
        /\ j.kernels = JobOf(o).kernels /\ j.ids = JobOf(o).ids
        /\ j.media = JobOf(o).media /\ j.tag = JobOf(o).tag
        /\ j.doubt = JobOf(o).doubt
  BY DEF OldWork
<1>2. /\ JobOf(o).kernels \in Seq(Kernels) /\ JobOf(o).ids \in Seq(MediaIds)
      /\ Len(JobOf(o).ids) = Len(JobOf(o).kernels)
      /\ \A m \in DOMAIN JobOf(o).ids :
           LoadedUntil(heap, JobOf(o).kernels[m],
                       media[JobOf(o).media].offset[JobOf(o).ids[m]], JobOf(o).tag - 1)
  BY <1>1 DEF Whole, BatchRuns
<1>3. JobOf(o).media \in States
  BY <1>1, WholeFacts
<1>4. media'[j.media].offset = media[JobOf(o).media].offset
  BY <1>1, <1>3 DEF SameOffsets
<1> HIDE DEF j
<1>5. /\ j.kernels \in Seq(Kernels) /\ j.ids \in Seq(MediaIds)
      /\ Len(j.ids) = Len(j.kernels)
      /\ \A m \in DOMAIN j.ids :
           LoadedUntil(heap', j.kernels[m], media'[j.media].offset[j.ids[m]], j.tag - 1)
  BY <1>1, <1>2, <1>4
<1> QED BY <1>5 DEF j

\* What such a step leaves alone.
LEMMA QuietBuffers ==
  ASSUME Whole, heap' = heap, AllCommands
  PROVE  /\ KidInv' /\ BufferInv'
         /\ DOMAIN buffers' = States
         /\ \A b \in States : /\ DOMAIN buffers'[b] = BufferFields
                              /\ buffers'[b].key \in Seq(Kernels)
                              /\ buffers'[b].ids \in Seq(MediaIds)
<1>1. KidInv'
  BY DEF Whole, KidInv, Used, bIsFree
<1>2. ASSUME NEW b \in States, buffers'[b].size # 0, buffers'[b].doubt = {}, ~Writing(b)'
      PROVE  /\ Len(buffers'[b].ids) = Len(buffers'[b].key)
             /\ AsAssigned(heap', buffers'[b].ids, buffers'[b].key)
  <2>1. /\ buffers'[b].key = buffers[b].key /\ buffers'[b].ids = buffers[b].ids
        /\ \/ Sound(b)
           \/ buffers[b].size # 0 /\ buffers[b].doubt = {} /\ ~Writing(b)
    BY <1>2 DEF AllCommands, SameCommands
  <2>2. Sound(b)
    BY <2>1 DEF Whole, BufferInv, Sound
  <2> QED BY <2>1, <2>2 DEF Sound
<1>3. BufferInv'
  BY <1>2 DEF BufferInv
<1>4. DOMAIN buffers' = States
  BY DEF AllCommands
<1>5. ASSUME NEW b \in States
      PROVE  /\ DOMAIN buffers'[b] = BufferFields
             /\ buffers'[b].key \in Seq(Kernels) /\ buffers'[b].ids \in Seq(MediaIds)
  BY DEF AllCommands, SameCommands
<1> QED BY <1>1, <1>3, <1>4, <1>5

LEMMA QuietBatches ==
  ASSUME Whole, heap' = heap, SameOffsets, OldBatches
  PROVE  BatchRuns'
<1>1. ASSUME NEW n \in DOMAIN ring', sync'[ring'[n].id] = "reset", JobOf(n)'.doubt = {}
      PROVE  /\ JobOf(n)'.kernels \in Seq(Kernels) /\ JobOf(n)'.ids \in Seq(MediaIds)
             /\ Len(JobOf(n)'.ids) = Len(JobOf(n)'.kernels)
             /\ \A m \in DOMAIN JobOf(n)'.ids :
                  LoadedUntil(heap', JobOf(n)'.kernels[m],
                              media'[JobOf(n)'.media].offset[JobOf(n)'.ids[m]],
                              JobOf(n)'.tag - 1)
  <2>1. OldWork(n)
    BY <1>1 DEF OldBatches
  <2> QED BY <1>1, <2>1, OldWorkRuns
<1> QED BY <1>1 DEF BatchRuns

\* Nothing happens to the ring, nor to the jobs but for their buffers.
LEMMA SameBatches ==
  ASSUME HalInv, TagInv, SameJobs, SameRing
  PROVE  OldBatches
<1> SUFFICES ASSUME NEW n \in DOMAIN ring', sync'[ring'[n].id] = "reset"
             PROVE  OldWork(n)
  BY DEF OldBatches
<1>1. n \in DOMAIN ring /\ sync[ring[n].id] = "reset"
  BY DEF SameRing
<1>2. ring[n].task \in Tasks /\ JobOf(n) # NoCall
  BY <1>1, RingMembers DEF HalInv, TagInv
<1>3. /\ JobOf(n)'.kernels = JobOf(n).kernels /\ JobOf(n)'.ids = JobOf(n).ids
      /\ JobOf(n)'.media = JobOf(n).media /\ JobOf(n)'.tag = JobOf(n).tag
      /\ JobOf(n)'.doubt = JobOf(n).doubt
  BY <1>2 DEF SameJobs, SameRing, JobOf
<1> QED BY <1>1, <1>3 DEF OldWork

LEMMA KeptBatches ==
  ASSUME Whole, UNCHANGED <<ring, sync, job>>
  PROVE  OldBatches
<1>1. HalInv /\ TagInv
  BY WholeFacts DEF Whole
<1> QED BY <1>1, SameBatches, SameJobsKept DEF SameRing

\* Nothing happens to the buffers, and what is written is written still.
LEMMA SameBuffers ==
  ASSUME Whole, buffers' = buffers, \A b \in States : Writing(b) => Writing(b)'
  PROVE  AllCommands
BY DEF AllCommands, SameCommands, Whole, StartInv

RunsNext == StartInv' /\ KidInv' /\ CallRuns' /\ CallWrites' /\ BufferInv' /\ BatchRuns'

\* The call ends.
LEMMA IdleRuns ==
  ASSUME Whole, heap' = heap, SameOffsets, OldBatches, AllCommands, call' = NoCall
  PROVE  RunsNext
<1>1. ~Taken'
  BY DEF Taken, NoCall
<1>2. CallRuns' /\ CallWrites'
  BY <1>1 DEF CallRuns, CallWrites
<1>3. StartInv'
  BY QuietBuffers DEF StartInv
<1> QED BY <1>2, <1>3, QuietBuffers, QuietBatches DEF RunsNext

\* The call goes on and has given no descriptor yet.
LEMMA EmptyRuns ==
  ASSUME Whole, call'.ids = <<>>, \A d \in MediaIds : call'.allocation[d] = NoEntry
  PROVE  CallRuns'
<1>1. DOMAIN call'.ids = {}
  OBVIOUS
<1>2. AsAssigned(heap', call'.ids, call'.kernels)
  BY <1>1 DEF AsAssigned
<1> QED BY <1>1, <1>2 DEF CallRuns

\* The GPU's steps and queries, that leave the call alone.
LEMMA ElsewhereRuns ==
  ASSUME Whole, UNCHANGED <<heap, media, buffers, call, nextTag>>, OldBatches
  PROVE  RunsNext
<1>1. (Taken' <=> Taken) /\ \A b : Writing(b)' <=> Writing(b)
  BY DEF Taken, Writing
<1>2. AllCommands /\ SameOffsets
  BY <1>1, SameBuffers DEF SameOffsets
<1>3. KidInv' /\ BufferInv' /\ BatchRuns'
  BY <1>2, QuietBuffers, QuietBatches
<1>4. StartInv'
  BY DEF Whole, StartInv
<1>5. CallWrites'
  BY <1>1 DEF Whole, CallWrites
<1>6. CallRuns'
  <2>1. Used(heap)' = Used(heap)
    OBVIOUS
  <2>2. CallRuns
    BY DEF Whole
  <2> QED BY <1>1, <2>2 DEF CallRuns
<1> QED BY <1>3, <1>4, <1>5, <1>6 DEF RunsNext

\* The buffers a call has looked at.
LEMMA LookedBuffers ==
  ASSUME Whole, NEW b
  PROVE  /\ DOMAIN Looked(b) = States
         /\ \A c \in States :
              /\ DOMAIN Looked(b)[c] = BufferFields
              /\ Looked(b)[c].key = buffers[c].key /\ Looked(b)[c].ids = buffers[c].ids
              /\ Looked(b)[c].size = buffers[c].size
              /\ Looked(b)[c].doubt = buffers[c].doubt
<1>1. DOMAIN Looked(b) = States
  BY DEF Looked
<1>2. ASSUME NEW c \in States
      PROVE  /\ DOMAIN Looked(b)[c] = BufferFields
             /\ Looked(b)[c].key = buffers[c].key /\ Looked(b)[c].ids = buffers[c].ids
             /\ Looked(b)[c].size = buffers[c].size
             /\ Looked(b)[c].doubt = buffers[c].doubt
  <2>1. DOMAIN buffers[c] = BufferFields
    BY DEF Whole, StartInv
  <2>2. PICK l : l = Looked(b)[c]
    OBVIOUS
  <2>3. l = buffers[c] \/ l = [buffers[c] EXCEPT !.latest = FALSE]
    BY <2>2, Zenon DEF Looked
  <2>4. /\ DOMAIN l = BufferFields
        /\ l.key = buffers[c].key /\ l.ids = buffers[c].ids
        /\ l.size = buffers[c].size /\ l.doubt = buffers[c].doubt
    BY <2>1, <2>3 DEF BufferFields
  <2> QED BY <2>2, <2>4
<1> QED BY <1>1, <1>2

\* A call begins.
LEMMA BeginRuns ==
  ASSUME Whole, NEW t \in Tasks, Begin(t)
  PROVE  RunsNext
<1>1. PICK c \in Calls :
        call' = [pc |-> "media", task |-> t, kernels |-> c.kernels,
                 walker |-> c.walker, dirty |-> c.dirty, mask |-> c.mask,
                 media |-> None,
                 ids |-> <<>>, allocation |-> [d \in MediaIds |-> NoEntry],
                 buffer |-> None, write |-> FALSE, doubt |-> {}]
  BY DEF Begin
<1>2. /\ call'.pc = "media" /\ call'.ids = <<>> /\ call'.write = FALSE
      /\ call'.walker = c.walker /\ \A d \in MediaIds : call'.allocation[d] = NoEntry
  BY <1>1
<1>3. call = NoCall /\ UNCHANGED <<ring, sync, job, heap, media, buffers>>
  BY DEF Begin, halVars
<1>4. ~Taken /\ ~Taken'
  BY <1>2, <1>3 DEF Taken, NoCall
<1>5. OldBatches /\ SameOffsets /\ AllCommands
  BY <1>3, <1>4, KeptBatches, SameBuffers DEF SameOffsets, Writing
<1>6. KidInv' /\ BufferInv' /\ BatchRuns'
  BY <1>3, <1>5, QuietBuffers, QuietBatches
<1>7. CallRuns' /\ CallWrites'
  BY <1>4 DEF CallRuns, CallWrites
<1>8. c.walker \in BOOLEAN
  BY CallsAssumption
<1>9. StartInv'
  BY <1>2, <1>3, <1>8 DEF Whole, StartInv
<1> QED BY <1>6, <1>7, <1>9 DEF RunsNext

\* The call has no state, waits for one, or takes one.
LEMMA MediaRuns ==
  ASSUME Whole, IntelGen_HwAssignMediaState \/ WaitForMediaState
  PROVE  RunsNext
<1>0. /\ TagInv /\ MediaInv /\ nextMedia \in States
  BY WholeFacts DEF MediaInv
<1>1. /\ call.pc \in {"media", "wait"} /\ UNCHANGED <<ring, sync, job, heap, nextTag>>
      /\ buffers' = Refreshed(buffers) \/ buffers' = buffers
      /\ \/ \E states : states \in {media, Refreshed(media)} /\ TakeMediaState(states)
         \/ call' = [call EXCEPT !.pc = "wait"] /\ media' = Refreshed(media)
  BY Zenon DEF IntelGen_HwAssignMediaState, WaitForMediaState, IntelGen_HwRefreshSync,
        halVars
<1>2. call # NoCall /\ DOMAIN call = CallFields
  BY <1>1, CallInProgress, WholeFacts
<1>3. \A m \in States : /\ Refreshed(media)[m].offset = media[m].offset
                        /\ DOMAIN Refreshed(media)[m] = MediaFields
                        /\ DOMAIN media[m] = MediaFields
  <2> TAKE m \in States
  <2>1. DOMAIN media[m] = MediaFields
    BY <1>0 DEF MediaInv
  <2>2. Refreshed(media)[m] = [media[m] EXCEPT !.busy = StillBusy(media[m])]
    BY DEF Refreshed
  <2> QED BY <2>1, <2>2 DEF MediaFields
<1>4. DOMAIN media = States /\ DOMAIN Refreshed(media) = States
  BY <1>0 DEF MediaInv, Refreshed
<1>5. /\ call'.ids = call.ids /\ call'.allocation = call.allocation
      /\ call'.walker = call.walker /\ call'.write = call.write
      /\ \/ call'.pc = "wait"
         \/ call'.pc = IF call.walker THEN "kernel" ELSE "buffer"
      /\ SameOffsets
  <2>1. CASE call' = [call EXCEPT !.pc = "wait"] /\ media' = Refreshed(media)
    BY <1>2, <1>3, <2>1 DEF CallFields, SameOffsets
  <2>2. ASSUME NEW states, states \in {media, Refreshed(media)}, TakeMediaState(states)
        PROVE  /\ call'.ids = call.ids /\ call'.allocation = call.allocation
               /\ call'.walker = call.walker /\ call'.write = call.write
               /\ call'.pc = IF call.walker THEN "kernel" ELSE "buffer"
               /\ SameOffsets
    <3>1. /\ media' = [states EXCEPT ![nextMedia].tag = nextTag]
          /\ call' = [call EXCEPT !.media = nextMedia,
                                  !.pc = IF call.walker THEN "kernel" ELSE "buffer"]
      BY <2>2 DEF TakeMediaState
    <3>2. /\ call'.ids = call.ids /\ call'.allocation = call.allocation
          /\ call'.walker = call.walker /\ call'.write = call.write
          /\ call'.pc = IF call.walker THEN "kernel" ELSE "buffer"
      BY <1>2, <3>1 DEF CallFields
    <3>3. /\ DOMAIN states = States
          /\ \A m \in States : /\ states[m].offset = media[m].offset
                               /\ DOMAIN states[m] = MediaFields
      BY <1>3, <1>4, <2>2
    <3>4. \A m \in States : media'[m].offset = states[m].offset
      BY <1>0, <3>1, <3>3 DEF MediaFields
    <3> QED BY <3>2, <3>3, <3>4 DEF SameOffsets
  <2> QED BY <1>1, <2>1, <2>2
<1>6. /\ call.ids = <<>> /\ \A d \in MediaIds : call.allocation[d] = NoEntry
      /\ ~call.write /\ {call.walker, call.write} \subseteq BOOLEAN
  BY <1>1, <1>2 DEF Whole, StartInv
<1>7. \A b : ~Writing(b)' /\ ~Writing(b)
  BY <1>5, <1>6 DEF Writing
<1>8. AllCommands
  <2>1. CASE buffers' = buffers
    BY <1>7, <2>1, SameBuffers
  <2>2. CASE buffers' = Refreshed(buffers)
    <3>1. DOMAIN buffers' = States
      BY <2>2 DEF Refreshed
    <3>2. ASSUME NEW b \in States PROVE SameCommands(b)
      <4>1. DOMAIN buffers[b] = BufferFields
        BY DEF Whole, StartInv
      <4>2. buffers'[b] = [buffers[b] EXCEPT !.busy = StillBusy(buffers[b])]
        BY <2>2 DEF Refreshed
      <4>3. /\ DOMAIN buffers'[b] = BufferFields
            /\ buffers'[b].key = buffers[b].key /\ buffers'[b].ids = buffers[b].ids
            /\ buffers'[b].size = buffers[b].size /\ buffers'[b].doubt = buffers[b].doubt
        BY <4>1, <4>2 DEF BufferFields
      <4> QED BY <1>7, <4>3 DEF SameCommands, Whole, StartInv
    <3> QED BY <3>1, <3>2 DEF AllCommands
  <2> QED BY <1>1, <2>1, <2>2
<1>9. /\ KidInv' /\ BufferInv' /\ BatchRuns' /\ DOMAIN buffers' = States
      /\ \A b \in States : /\ DOMAIN buffers'[b] = BufferFields
                           /\ buffers'[b].key \in Seq(Kernels)
                           /\ buffers'[b].ids \in Seq(MediaIds)
  BY <1>1, <1>5, <1>8, KeptBatches, QuietBuffers, QuietBatches
<1>10. CallRuns'
  BY <1>5, <1>6, EmptyRuns
<1>11. CallWrites'
  BY <1>5, <1>6 DEF CallWrites, Taken
<1>12. StartInv'
  BY <1>5, <1>6, <1>9 DEF StartInv
<1> QED BY <1>9, <1>10, <1>11, <1>12 DEF RunsNext

\* The commands of an earlier call are found.
LEMMA ReuseRuns ==
  ASSUME Whole, ReuseBatchBuffer
  PROVE  RunsNext
<1>1. PICK b : b = Min(Reusable)
  OBVIOUS
<1>2. /\ call.pc = "buffer" /\ Reusable # {}
      /\ buffers' = [Looked(b) EXCEPT ![b].reused = TRUE, ![b].tag = 0]
      /\ call' = [call EXCEPT !.pc = IF call.mask THEN "lock" ELSE "kernel",
                              !.buffer = b, !.write = FALSE,
                              !.doubt = buffers[b].doubt]
      /\ UNCHANGED <<ring, sync, job, heap, media>>
  BY <1>1 DEF ReuseBatchBuffer, halVars
<1>3. b \in States /\ buffers[b].size # 0 /\ buffers[b].key = call.kernels
  <2>1. Reusable \in SUBSET Nat
    BY MaxTasksAssumption DEF Reusable, SameKernels, States
  <2>2. b \in Reusable
    BY <1>1, <1>2, <2>1, MinFacts
  <2> QED BY <2>2 DEF Reusable, SameKernels
<1>4. call # NoCall /\ DOMAIN call = CallFields
  BY <1>2, CallInProgress, WholeFacts
<1>5. /\ call.ids = <<>> /\ \A d \in MediaIds : call.allocation[d] = NoEntry
      /\ ~call.write /\ call.walker = FALSE
  BY <1>2, <1>4 DEF Whole, StartInv
<1>6. /\ call'.ids = call.ids /\ call'.allocation = call.allocation
      /\ call'.walker = call.walker /\ call'.write = FALSE
      /\ call'.kernels = call.kernels
      /\ call'.buffer = b /\ call'.doubt = buffers[b].doubt
      /\ call'.pc \in {"lock", "kernel"}
  BY <1>2, <1>4 DEF CallFields
<1>7. \A c : ~Writing(c)' /\ ~Writing(c)
  BY <1>5, <1>6 DEF Writing
<1>8. /\ DOMAIN buffers' = States
      /\ \A c \in States :
           /\ DOMAIN buffers'[c] = BufferFields
           /\ buffers'[c].key = buffers[c].key /\ buffers'[c].ids = buffers[c].ids
           /\ buffers'[c].size = buffers[c].size /\ buffers'[c].doubt = buffers[c].doubt
  <2> DEFINE l == Looked(b)
  <2>1. /\ DOMAIN l = States
        /\ \A c \in States :
             /\ DOMAIN l[c] = BufferFields
             /\ l[c].key = buffers[c].key /\ l[c].ids = buffers[c].ids
             /\ l[c].size = buffers[c].size /\ l[c].doubt = buffers[c].doubt
    BY LookedBuffers
  <2> HIDE DEF l
  <2>2. buffers' = [l EXCEPT ![b].reused = TRUE, ![b].tag = 0]
    BY <1>2 DEF l
  <2>3. DOMAIN buffers' = States /\ \A c \in States : c # b => buffers'[c] = l[c]
    BY <1>3, <2>1, <2>2
  <2>4. buffers'[b] = [l[b] EXCEPT !.reused = TRUE, !.tag = 0]
    BY <1>3, <2>1, <2>2
  <2>5. /\ DOMAIN buffers'[b] = BufferFields
        /\ buffers'[b].key = l[b].key /\ buffers'[b].ids = l[b].ids
        /\ buffers'[b].size = l[b].size /\ buffers'[b].doubt = l[b].doubt
    BY <1>3, <2>1, <2>4 DEF BufferFields
  <2> QED BY <2>1, <2>3, <2>5
<1>9. AllCommands
  BY <1>7, <1>8 DEF AllCommands, SameCommands, Whole, StartInv
<1>10. SameOffsets
  BY <1>2 DEF SameOffsets
<1>11. KidInv' /\ BufferInv' /\ BatchRuns'
  BY <1>2, <1>9, <1>10, KeptBatches, QuietBuffers, QuietBatches
<1>12. CallRuns'
  BY <1>5, <1>6, EmptyRuns
<1>13. CallWrites'
  <2>1. /\ buffers'[b].key = call'.kernels /\ buffers'[b].size # 0
        /\ buffers'[b].doubt = call'.doubt /\ DOMAIN call'.ids = {}
    BY <1>3, <1>5, <1>6, <1>8
  <2> QED BY <1>3, <1>6, <2>1 DEF CallWrites
<1>14. StartInv'
  BY <1>5, <1>6, <1>8 DEF Whole, StartInv
<1> QED BY <1>11, <1>12, <1>13, <1>14 DEF RunsNext

\* What a buffer is keyed with that is taken for the kernels of the call.
LEMMA KeyTaken ==
  ASSUME NEW old \in Seq(Kernels), call.kernels \in Seq(Kernels)
  PROVE  /\ KeyAfter(old) \in Seq(Kernels)
         /\ ~(Len(old) > Len(call.kernels)) => KeyAfter(old) = call.kernels
<1> DEFINE m == Len(call.kernels) + 1
           rest == SubSeq(old, m, Len(old))
<1>1. Len(old) \in Nat /\ Len(call.kernels) \in Nat
  BY LenProperties
<1>2. m \in Int /\ Len(old) \in Int /\ 1 <= m /\ Len(old) <= Len(old)
  BY <1>1
<1>3. rest \in Seq(Kernels)
  <2>1. \A a, b \in Int : 1 <= a /\ b <= Len(old) => SubSeq(old, a, b) \in Seq(Kernels)
    <3> TAKE a, b \in Int
    <3> HAVE 1 <= a /\ b <= Len(old)
    <3> QED BY SubSeqFacts, ZenonT(40)
  <2> HIDE DEF m
  <2> QED BY <1>2, <2>1
<1>4. KeyAfter(old) = call.kernels \o rest
  BY DEF KeyAfter
<1> HIDE DEF rest
<1>5. KeyAfter(old) \in Seq(Kernels)
  BY <1>3, <1>4, ConcatProperties
<1>6. ASSUME ~(Len(old) > Len(call.kernels))
      PROVE  KeyAfter(old) = call.kernels
  <2>1. Len(old) < m
    BY <1>1, <1>6
  <2>2. rest = <<>>
    BY <1>2, <2>1, SubSeqEmpty DEF rest
  <2> QED BY <1>4, <2>2, ConcatEmptySeq
<1> QED BY <1>5, <1>6

\* The buffer that is taken.
Taking(b, size) ==
    LET keeps == b \in Fitting /\ Unallocated = {}
        old == buffers[b] IN
    /\ keeps => size # 0
    /\ buffers' = [Looked(MaxTasks + 1) EXCEPT
         ![b] = [size |-> IF keeps THEN old.size ELSE size,
                 busy |-> FALSE, tag |-> 0, key |-> KeyAfter(old.key),
                 reused |-> FALSE, latest |-> TRUE,
                 locked |-> keeps /\ old.locked, ids |-> <<>>,
                 doubt |-> IF Len(old.key) > Len(call.kernels)
                             THEN {"longer"} ELSE {}]]
    /\ IF size = 0 THEN call' = NoCall
       ELSE call' = [call EXCEPT !.pc = "lock", !.buffer = b, !.write = TRUE]

LEMMA TakenFields ==
  ASSUME Whole, TakeBatchBuffer
  PROVE  \E b \in States : \E size : Taking(b, size)
<1> DEFINE b == ChosenBuffer
<1>1. Unallocated # {} \/ Idle # {}
  BY Zenon DEF TakeBatchBuffer
<1>2. Unallocated \in SUBSET Nat /\ Fitting \in SUBSET Nat /\ Idle \in SUBSET Nat
  BY MaxTasksAssumption DEF Unallocated, Fitting, Idle, States
<1>3. \/ Unallocated # {} /\ b = Min(Unallocated)
      \/ Fitting # {} /\ b = Min(Fitting)
      \/ Idle # {} /\ b = Min(Idle)
  BY <1>1 DEF ChosenBuffer
<1>4. b \in Unallocated \cup Fitting \cup Idle
  <2> HIDE DEF b
  <2> QED BY <1>2, <1>3, MinFacts
<1>5. b \in States
  <2> HIDE DEF b
  <2> QED BY <1>4 DEF Unallocated, Fitting, Idle
<1>6. \E size : Taking(b, size)
  <2>1. PICK size :
         LET keeps == b \in Fitting /\ Unallocated = {}
             old == buffers[b] IN
         /\ keeps => size # 0
         /\ buffers' = [Looked(MaxTasks + 1) EXCEPT
              ![b] = [size |-> IF keeps THEN old.size ELSE size,
                      busy |-> FALSE, tag |-> 0, key |-> KeyAfter(old.key),
                      reused |-> FALSE, latest |-> TRUE,
                      locked |-> keeps /\ old.locked, ids |-> <<>>,
                      doubt |-> IF Len(old.key) > Len(call.kernels)
                                  THEN {"longer"} ELSE {}]]
         /\ IF size = 0
              THEN CallFails
              ELSE /\ call' = [call EXCEPT !.pc = "lock", !.buffer = b,
                                           !.write = TRUE]
                   /\ UNCHANGED fails
    BY Zenon DEF TakeBatchBuffer
  <2> HIDE DEF b
  <2>2. Taking(b, size)
    BY <2>1, Zenon DEF Taking, CallFails
  <2> QED BY <2>2
<1> QED BY <1>5, <1>6

LEMMA TakeRuns ==
  ASSUME Whole, TakeBatchBuffer
  PROVE  RunsNext
<1>1. /\ call.pc = "buffer" /\ UNCHANGED <<ring, sync, heap, media>>
  BY Zenon DEF TakeBatchBuffer, halVars
<1>2. call # NoCall /\ DOMAIN call = CallFields /\ TagInv /\ CallInv /\ HalInv
  BY <1>1, CallInProgress, WholeFacts DEF Whole
<1>3. /\ call.ids = <<>> /\ \A d \in MediaIds : call.allocation[d] = NoEntry
      /\ ~call.write /\ call.walker = FALSE /\ call.kernels \in Seq(Kernels)
  BY <1>1, <1>2 DEF Whole, StartInv, CallInv
<1>4. PICK b \in States : \E size : Taking(b, size)
  BY TakenFields
<1>5. PICK size : Taking(b, size)
  BY <1>4
<1>6. /\ DOMAIN buffers[b] = BufferFields /\ buffers[b].key \in Seq(Kernels)
  BY DEF Whole, StartInv
<1> DEFINE l == Looked(MaxTasks + 1)
           keeps == b \in Fitting /\ Unallocated = {}
           key == KeyAfter(buffers[b].key)
<1>7. /\ DOMAIN l = States
      /\ \A c \in States :
           /\ DOMAIN l[c] = BufferFields
           /\ l[c].key = buffers[c].key /\ l[c].ids = buffers[c].ids
           /\ l[c].size = buffers[c].size /\ l[c].doubt = buffers[c].doubt
  BY LookedBuffers
<1>8. key \in Seq(Kernels) /\ (~(Len(buffers[b].key) > Len(call.kernels)) => key = call.kernels)
  BY <1>3, <1>6, KeyTaken
<1> HIDE DEF l, keeps, key
<1>9. /\ \E locked :
           buffers' = [l EXCEPT ![b] =
              [size |-> IF keeps THEN buffers[b].size ELSE size,
               busy |-> FALSE, tag |-> 0, key |-> key,
               reused |-> FALSE, latest |-> TRUE, locked |-> locked, ids |-> <<>>,
               doubt |-> IF Len(buffers[b].key) > Len(call.kernels) THEN {"longer"} ELSE {}]]
      /\ keeps => size # 0
      /\ IF size = 0 THEN call' = NoCall
         ELSE call' = [call EXCEPT !.pc = "lock", !.buffer = b, !.write = TRUE]
  BY <1>5, Zenon DEF Taking, l, keeps, key
<1>10. /\ DOMAIN buffers' = States /\ \A c \in States : c # b => buffers'[c] = l[c]
       /\ DOMAIN buffers'[b] = BufferFields /\ buffers'[b].key = key
       /\ buffers'[b].ids = <<>> /\ (size = 0 => buffers'[b].size = 0)
       /\ buffers'[b].doubt = {} => key = call.kernels
  <2>1. PICK locked :
           buffers' = [l EXCEPT ![b] =
              [size |-> IF keeps THEN buffers[b].size ELSE size,
               busy |-> FALSE, tag |-> 0, key |-> key,
               reused |-> FALSE, latest |-> TRUE, locked |-> locked, ids |-> <<>>,
               doubt |-> IF Len(buffers[b].key) > Len(call.kernels) THEN {"longer"} ELSE {}]]
    BY <1>9
  <2>2. /\ DOMAIN buffers' = States /\ \A c \in States : c # b => buffers'[c] = l[c]
        /\ buffers'[b] =
              [size |-> IF keeps THEN buffers[b].size ELSE size,
               busy |-> FALSE, tag |-> 0, key |-> key,
               reused |-> FALSE, latest |-> TRUE, locked |-> locked, ids |-> <<>>,
               doubt |-> IF Len(buffers[b].key) > Len(call.kernels) THEN {"longer"} ELSE {}]
    BY <1>7, <2>1
  <2>3. /\ DOMAIN buffers'[b] = BufferFields /\ buffers'[b].key = key
        /\ buffers'[b].ids = <<>>
        /\ buffers'[b].size = IF keeps THEN buffers[b].size ELSE size
        /\ buffers'[b].doubt = IF Len(buffers[b].key) > Len(call.kernels)
                                 THEN {"longer"} ELSE {}
    BY <2>2 DEF BufferFields
  <2> QED BY <1>8, <1>9, <2>2, <2>3
<1>11. size # 0 =>
         /\ call'.pc = "lock" /\ call'.buffer = b /\ call'.write = TRUE
         /\ call'.ids = call.ids /\ call'.allocation = call.allocation
         /\ call'.kernels = call.kernels /\ call'.walker = call.walker
         /\ call' # NoCall
  <2> SUFFICES ASSUME call' = [call EXCEPT !.pc = "lock", !.buffer = b, !.write = TRUE]
               PROVE  /\ call'.pc = "lock" /\ call'.buffer = b /\ call'.write = TRUE
                      /\ call'.ids = call.ids /\ call'.allocation = call.allocation
                      /\ call'.kernels = call.kernels /\ call'.walker = call.walker
                      /\ call' # NoCall
    BY <1>9
  <2>1. /\ call'.pc = "lock" /\ call'.buffer = b /\ call'.write = TRUE
        /\ call'.ids = call.ids /\ call'.allocation = call.allocation
        /\ call'.kernels = call.kernels /\ call'.walker = call.walker
    BY <1>2 DEF CallFields
  <2> QED BY <2>1 DEF NoCall
<1>12. size = 0 => call' = NoCall
  BY <1>9
<1>13. AllCommands
  <2>1. ASSUME NEW c \in States, c # b PROVE SameCommands(c)
    <3>1. /\ DOMAIN buffers'[c] = BufferFields
          /\ buffers'[c].key = buffers[c].key /\ buffers'[c].ids = buffers[c].ids
          /\ buffers'[c].size = buffers[c].size /\ buffers'[c].doubt = buffers[c].doubt
      BY <1>7, <1>10, <2>1
    <3>2. ~Writing(c)
      BY <1>3 DEF Writing
    <3> QED BY <3>1, <3>2 DEF SameCommands, Whole, StartInv
  <2>2. SameCommands(b)
    <3>1. <<>> \in Seq(MediaIds)
      BY EmptySeq
    <3>2. size # 0 => Writing(b)'
      BY <1>11 DEF Writing, Taken
    <3>3. ~(buffers'[b].size # 0 /\ buffers'[b].doubt = {} /\ ~Writing(b)')
      BY <1>10, <3>2
    <3> QED BY <1>8, <1>10, <3>1, <3>3 DEF SameCommands
  <2> QED BY <1>10, <2>1, <2>2 DEF AllCommands
<1>14. OldBatches
  BY <1>1, <1>2, JobsKeepTheirTags, SameBatches DEF SameRing
<1>15. SameOffsets
  BY <1>1 DEF SameOffsets
<1>16. CASE size = 0
  BY <1>1, <1>12, <1>13, <1>14, <1>15, <1>16, IdleRuns
<1>17. CASE size # 0
  <2>1. /\ KidInv' /\ BufferInv' /\ BatchRuns' /\ DOMAIN buffers' = States
        /\ \A c \in States : /\ DOMAIN buffers'[c] = BufferFields
                             /\ buffers'[c].key \in Seq(Kernels)
                             /\ buffers'[c].ids \in Seq(MediaIds)
    BY <1>1, <1>13, <1>14, <1>15, QuietBuffers, QuietBatches
  <2>2. CallRuns'
    BY <1>3, <1>11, <1>17, EmptyRuns
  <2>3. CallWrites'
    BY <1>3, <1>10, <1>11, <1>17 DEF CallWrites
  <2>4. StartInv'
    BY <1>3, <1>11, <1>17, <2>1 DEF StartInv
  <2> QED BY <2>1, <2>2, <2>3, <2>4 DEF RunsNext
<1> QED BY <1>16, <1>17

\* The memory of the buffer is mapped.
LEMMA LockRuns ==
  ASSUME Whole, IntelGen_HwLockBB
  PROVE  RunsNext
<1>1. /\ call.pc = "lock" /\ UNCHANGED <<ring, sync, job, heap, media>>
      /\ buffers' = [buffers EXCEPT ![call.buffer].locked = TRUE]
      /\ call' = [call EXCEPT !.pc = "kernel"]
  BY DEF IntelGen_HwLockBB, halVars
<1>2. call # NoCall /\ DOMAIN call = CallFields /\ Taken
  BY <1>1, CallInProgress, WholeFacts DEF Taken
<1>3. /\ call.ids = <<>> /\ \A d \in MediaIds : call.allocation[d] = NoEntry
      /\ ~call.walker /\ {call.walker, call.write} \subseteq BOOLEAN
  BY <1>1, <1>2 DEF Whole, StartInv
<1>4. /\ call'.ids = call.ids /\ call'.allocation = call.allocation
      /\ call'.walker = call.walker /\ call'.write = call.write
      /\ call'.kernels = call.kernels /\ call'.buffer = call.buffer
      /\ call'.doubt = call.doubt /\ call'.pc = "kernel"
  BY <1>1, <1>2 DEF CallFields
<1>5. \A b : Writing(b)' <=> Writing(b)
  BY <1>2, <1>4 DEF Writing, Taken
<1>6. /\ DOMAIN buffers' = States
      /\ \A b \in States :
           /\ DOMAIN buffers'[b] = BufferFields
           /\ buffers'[b].key = buffers[b].key /\ buffers'[b].ids = buffers[b].ids
           /\ buffers'[b].size = buffers[b].size /\ buffers'[b].doubt = buffers[b].doubt
  <2>1. DOMAIN buffers = States /\ \A b \in States : DOMAIN buffers[b] = BufferFields
    BY DEF Whole, StartInv
  <2> QED BY <1>1, <2>1 DEF BufferFields
<1>7. AllCommands
  BY <1>5, <1>6 DEF AllCommands, SameCommands, Whole, StartInv
<1>8. SameOffsets
  BY <1>1 DEF SameOffsets
<1>9. KidInv' /\ BufferInv' /\ BatchRuns'
  BY <1>1, <1>7, <1>8, KeptBatches, QuietBuffers, QuietBatches
<1>10. CallRuns'
  BY <1>3, <1>4, EmptyRuns
<1>11. CallWrites'
  <2>1. /\ call.buffer \in States
        /\ call.write => /\ buffers[call.buffer].ids = call.ids
                         /\ buffers[call.buffer].doubt = {}
                              => buffers[call.buffer].key = call.kernels
        /\ ~call.write /\ call.doubt = {} =>
             /\ buffers[call.buffer].key = call.kernels
             /\ buffers[call.buffer].doubt = {} /\ buffers[call.buffer].size # 0
    BY <1>1, <1>2, <1>3 DEF Whole, CallWrites
  <2>2. DOMAIN call'.ids = {}
    BY <1>3, <1>4
  <2> QED BY <1>4, <1>6, <2>1, <2>2 DEF CallWrites
<1>12. StartInv'
  BY <1>3, <1>4, <1>6 DEF Whole, StartInv
<1> QED BY <1>9, <1>10, <1>11, <1>12 DEF RunsNext

\* The buffer of a call that fails.
FailedBuffers(g) ==
    /\ DOMAIN g = States
    /\ \A b \in States :
         /\ DOMAIN g[b] = BufferFields
         /\ g[b].key = buffers[b].key /\ g[b].ids = buffers[b].ids
         /\ g[b].size = buffers[b].size
         /\ g[b].doubt = IF Writing(b) THEN {"failed"} ELSE buffers[b].doubt

MarkedFailed(d, x) ==
    [buffers EXCEPT ![call.buffer].doubt = d, ![call.buffer].locked = x]

LEMMA AfterFailure ==
  ASSUME Whole, call # NoCall, call.write => Taken
  PROVE  /\ FailedBuffers(BuffersAfterFailure)
         /\ \A c, x : FailedBuffers([BuffersAfterFailure EXCEPT ![c].locked = x])
<1>1. /\ DOMAIN buffers = States /\ \A b \in States : DOMAIN buffers[b] = BufferFields
      /\ call.write \in BOOLEAN
  BY DEF Whole, StartInv
<1>2. \A b : Writing(b) <=> call.write /\ call.buffer = b
  BY <1>1 DEF Writing
<1>3. None \notin States
  BY MaxTasksAssumption DEF None, States
<1>4. FailedBuffers(BuffersAfterFailure)
  <2>1. PICK g : g = BuffersAfterFailure
    OBVIOUS
  <2>2. CASE call.buffer = None
    <3>1. g = buffers
      BY <2>1, <2>2 DEF BuffersAfterFailure
    <3>2. \A b \in States : ~Writing(b)
      BY <1>2, <1>3, <2>2
    <3> QED BY <1>1, <2>1, <3>1, <3>2 DEF FailedBuffers
  <2>3. CASE call.buffer # None
    <3>1. g = MarkedFailed(IF call.write THEN {"failed"} ELSE buffers[call.buffer].doubt,
                           buffers[call.buffer].locked /\ buffers[call.buffer].reused)
      BY <2>1, <2>3, Zenon DEF BuffersAfterFailure, MarkedFailed
    <3>2. PICK d : \E x : /\ g = MarkedFailed(d, x)
                          /\ d = IF call.write THEN {"failed"} ELSE buffers[call.buffer].doubt
      BY <3>1, Zenon
    <3>3. PICK x : g = MarkedFailed(d, x)
      BY <3>2
    <3>4. d = IF call.write THEN {"failed"} ELSE buffers[call.buffer].doubt
      BY <3>2
    <3>5. DOMAIN g = States /\ \A b \in States : b # call.buffer => g[b] = buffers[b]
      BY <1>1, <3>3 DEF MarkedFailed
    <3>6. ASSUME NEW b \in States, b = call.buffer
          PROVE  /\ DOMAIN g[b] = BufferFields
                 /\ g[b].key = buffers[b].key /\ g[b].ids = buffers[b].ids
                 /\ g[b].size = buffers[b].size
                 /\ g[b].doubt = d
      <4>1. g[b] = [buffers[b] EXCEPT !.doubt = d, !.locked = x]
        BY <1>1, <3>3, <3>6 DEF MarkedFailed
      <4> QED BY <1>1, <4>1 DEF BufferFields
    <3>7. ASSUME NEW b \in States
          PROVE  /\ DOMAIN g[b] = BufferFields
                 /\ g[b].key = buffers[b].key /\ g[b].ids = buffers[b].ids
                 /\ g[b].size = buffers[b].size
                 /\ g[b].doubt = IF Writing(b) THEN {"failed"} ELSE buffers[b].doubt
      <4>1. CASE b = call.buffer
        BY <1>2, <3>4, <3>6, <4>1
      <4>2. CASE b # call.buffer
        BY <1>1, <1>2, <3>5, <4>2
      <4> QED BY <4>1, <4>2
    <3> QED BY <2>1, <3>5, <3>7 DEF FailedBuffers
  <2> QED BY <2>2, <2>3
<1>5. ASSUME NEW c, NEW x
      PROVE  FailedBuffers([BuffersAfterFailure EXCEPT ![c].locked = x])
  <2>1. PICK f : f = BuffersAfterFailure
    OBVIOUS
  <2>2. PICK g : g = [f EXCEPT ![c].locked = x]
    OBVIOUS
  <2>3. DOMAIN g = States
        /\ \A b \in States : g[b] = f[b] \/ g[b] = [f[b] EXCEPT !.locked = x]
    BY <1>4, <2>1, <2>2 DEF FailedBuffers
  <2>4. \A b \in States :
          /\ DOMAIN g[b] = BufferFields
          /\ g[b].key = f[b].key /\ g[b].ids = f[b].ids
          /\ g[b].size = f[b].size /\ g[b].doubt = f[b].doubt
    BY <1>4, <2>1, <2>3 DEF FailedBuffers, BufferFields
  <2>5. FailedBuffers(g)
    BY <1>4, <2>1, <2>3, <2>4 DEF FailedBuffers
  <2> QED BY <2>1, <2>2, <2>5
<1> QED BY <1>4, <1>5

\* What a call that fails has written is in doubt.
LEMMA FailedCommands ==
  ASSUME Whole, FailedBuffers(buffers')
  PROVE  AllCommands
<1> SUFFICES ASSUME NEW b \in States PROVE SameCommands(b)
  BY DEF AllCommands, FailedBuffers
<1>1. /\ DOMAIN buffers'[b] = BufferFields
      /\ buffers'[b].key = buffers[b].key /\ buffers'[b].ids = buffers[b].ids
      /\ buffers'[b].size = buffers[b].size
      /\ buffers'[b].doubt = IF Writing(b) THEN {"failed"} ELSE buffers[b].doubt
  BY DEF FailedBuffers
<1>2. buffers'[b].doubt = {} => ~Writing(b) /\ buffers[b].doubt = {}
  BY <1>1
<1> QED BY <1>1, <1>2 DEF SameCommands, Whole, StartInv

LEMMA FailRuns ==
  ASSUME Whole, AlreadyLocked \/ NothingToEvict \/ Fails \/ SubmitFails
  PROVE  RunsNext
<1>0. HalInv /\ TagInv
  BY WholeFacts DEF Whole
<1>1. call.pc \in {"wait", "buffer", "lock", "kernel", "submit"}
  BY DEF AlreadyLocked, NothingToEvict, NoRoom, Fails, SubmitFails
<1>2. call # NoCall
  BY <1>1, CallInProgress
<1>3. call.write => Taken
  BY <1>1, <1>2 DEF Taken, Whole, StartInv
<1>4. call' = NoCall /\ heap' = heap /\ media' = media /\ job' = job
  BY Zenon DEF AlreadyLocked, NothingToEvict, Fails, SubmitFails, CallFails
<1>5. SameRing
  <2>1. CASE AlreadyLocked \/ NothingToEvict \/ Fails
    BY <2>1, Zenon DEF AlreadyLocked, NothingToEvict, Fails, SameRing, halVars
  <2>2. CASE SubmitFails
    <3>1. HalCm_ExecuteTaskFails
      BY <2>2, Zenon DEF SubmitFails
    <3> QED BY <1>0, <3>1, FailedSubmission
  <2> QED BY <2>1, <2>2
<1>6. \/ buffers' = BuffersAfterFailure
      \/ \E c, x : buffers' = [BuffersAfterFailure EXCEPT ![c].locked = x]
  BY Zenon DEF AlreadyLocked, NothingToEvict, Fails, SubmitFails
<1>7. FailedBuffers(buffers')
  <2>1. CASE buffers' = BuffersAfterFailure
    BY <1>2, <1>3, <2>1, AfterFailure
  <2>2. ASSUME NEW c, NEW x, buffers' = [BuffersAfterFailure EXCEPT ![c].locked = x]
        PROVE  FailedBuffers(buffers')
    <3>1. PICK g : g = [BuffersAfterFailure EXCEPT ![c].locked = x]
      OBVIOUS
    <3>2. FailedBuffers(g)
      BY <1>2, <1>3, <3>1, AfterFailure, Zenon
    <3>3. buffers' = g
      BY <2>2, <3>1, Zenon
    <3> QED BY <3>2, <3>3
  <2> QED BY <1>6, <2>1, <2>2, Zenon
<1>8. OldBatches
  BY <1>0, <1>4, <1>5, SameJobsKept, SameBatches
<1>9. SameOffsets
  BY <1>4 DEF SameOffsets
<1> QED BY <1>4, <1>7, <1>8, <1>9, FailedCommands, IdleRuns

\* The GPU begins or ends a batch: those it has still to begin are there as before.
LEMMA GpuRuns ==
  ASSUME Whole, GpuBegin \/ GpuFinish
  PROVE  RunsNext
<1>0. HalInv /\ TurnsInv /\ HalTypeOK
  BY DEF Whole, HalInv
<1>1. UNCHANGED <<heap, media, buffers, call, nextTag>>
  BY DEF GpuBegin, GpuFinish
<1>2. CASE GpuBegin
  <2>1. /\ ring' = ring /\ job' = job /\ ring # <<>>
        /\ sync' = [sync EXCEPT ![Head(ring).id] = "start"]
    BY <1>2 DEF GpuBegin, GpuStart
  <2>2. ASSUME NEW n \in DOMAIN ring', sync'[ring'[n].id] = "reset"
        PROVE  OldWork(n)
    <3>1. ring[n].id \in TaskIds /\ n \in DOMAIN ring
      BY <1>0, <2>1, RingMembers
    <3>2. DOMAIN sync = TaskIds
      BY <1>0 DEF HalTypeOK
    <3>3. sync[ring[n].id] = "reset"
      BY <2>1, <2>2, <3>1, <3>2
    <3> QED BY <2>1, <3>1, <3>3 DEF OldWork, JobOf
  <2>3. OldBatches
    BY <2>2 DEF OldBatches
  <2> QED BY <1>1, <2>3, ElsewhereRuns
<1>3. CASE GpuFinish
  <2>1. \A n \in DOMAIN ring' : OldWork(n)
    BY <1>0, <1>3, FinishedRing DEF OldWork
  <2>2. OldBatches
    BY <2>1 DEF OldBatches
  <2> QED BY <1>1, <2>2, ElsewhereRuns
<1> QED BY <1>2, <1>3

\* The buffer of a batch that is submitted.
MarkedSubmitted(d, x) ==
    [buffers EXCEPT ![call.buffer].busy = TRUE, ![call.buffer].tag = nextTag,
                    ![call.buffer].doubt = d, ![call.buffer].locked = x]

LEMMA SubmittedBuffers ==
  ASSUME Whole, Submit
  PROVE  /\ DOMAIN buffers' = States
         /\ \A b \in States :
              /\ DOMAIN buffers'[b] = BufferFields
              /\ buffers'[b].key = buffers[b].key /\ buffers'[b].ids = buffers[b].ids
              /\ buffers'[b].size = buffers[b].size
              /\ buffers'[b].doubt = IF ~call.walker /\ b = call.buffer
                                       THEN buffers[b].doubt \cup call.doubt
                                       ELSE buffers[b].doubt
<1>1. DOMAIN buffers = States /\ \A b \in States : DOMAIN buffers[b] = BufferFields
  BY DEF Whole, StartInv
<1>2. CASE call.walker
  <2>1. buffers' = buffers
    BY <1>2, Zenon DEF Submit
  <2> QED BY <1>1, <1>2, <2>1
<1>3. CASE ~call.walker
  <2>1. buffers' = MarkedSubmitted(DoubtOfCommands, LockedAfterUnlock)
    BY <1>3, Zenon DEF Submit, MarkedSubmitted
  <2>2. PICK d : \E x : d = DoubtOfCommands /\ buffers' = MarkedSubmitted(d, x)
    BY <2>1, Zenon
  <2>3. PICK x : buffers' = MarkedSubmitted(d, x)
    BY <2>2
  <2>4. d = buffers[call.buffer].doubt \cup call.doubt
    BY <2>2 DEF DoubtOfCommands
  <2>5. DOMAIN buffers' = States /\ \A b \in States : b # call.buffer => buffers'[b] = buffers[b]
    BY <1>1, <2>3 DEF MarkedSubmitted
  <2>6. ASSUME NEW b \in States, b = call.buffer
        PROVE  /\ DOMAIN buffers'[b] = BufferFields
               /\ buffers'[b].key = buffers[b].key /\ buffers'[b].ids = buffers[b].ids
               /\ buffers'[b].size = buffers[b].size /\ buffers'[b].doubt = d
    <3>1. buffers'[b] = [buffers[b] EXCEPT !.busy = TRUE, !.tag = nextTag,
                                           !.doubt = d, !.locked = x]
      BY <1>1, <2>3, <2>6 DEF MarkedSubmitted
    <3> QED BY <1>1, <3>1 DEF BufferFields
  <2>7. ASSUME NEW b \in States
        PROVE  /\ DOMAIN buffers'[b] = BufferFields
               /\ buffers'[b].key = buffers[b].key /\ buffers'[b].ids = buffers[b].ids
               /\ buffers'[b].size = buffers[b].size
               /\ buffers'[b].doubt = IF ~call.walker /\ b = call.buffer
                                        THEN buffers[b].doubt \cup call.doubt
                                        ELSE buffers[b].doubt
    <3>1. CASE b = call.buffer
      BY <1>3, <2>4, <2>6, <3>1
    <3>2. CASE b # call.buffer
      BY <1>1, <2>5, <3>2
    <3> QED BY <3>1, <3>2
  <2> QED BY <2>5, <2>7
<1> QED BY <1>2, <1>3

\* The commands of a call without doubt name the descriptors it has given.
LEMMA SubmittedCommands ==
  ASSUME Whole, Submit, call.doubt = {}
  PROVE  /\ Len(call.ids) = Len(call.kernels)
         /\ ~call.walker =>
              /\ call.buffer \in States
              /\ Len(buffers[call.buffer].ids) = Len(call.kernels)
              /\ \A m \in DOMAIN call.ids : buffers[call.buffer].ids[m] = call.ids[m]
              /\ buffers[call.buffer].doubt = {} =>
                   /\ buffers[call.buffer].key = call.kernels
                   /\ AsAssigned(heap, buffers[call.buffer].ids, call.kernels)
<1>1. call.pc = "submit" /\ call # NoCall /\ Taken
  BY CallInProgress DEF Submit, Taken
<1>2. Len(call.ids) = Len(call.kernels)
  BY <1>1, WholeFacts DEF CallInv
<1>3. AsAssigned(heap, call.ids, call.kernels)
  BY <1>1 DEF Whole, CallRuns
<1>4. ASSUME ~call.walker
      PROVE  /\ call.buffer \in States
             /\ Len(buffers[call.buffer].ids) = Len(call.kernels)
             /\ \A m \in DOMAIN call.ids : buffers[call.buffer].ids[m] = call.ids[m]
             /\ buffers[call.buffer].doubt = {} =>
                  /\ buffers[call.buffer].key = call.kernels
                  /\ AsAssigned(heap, buffers[call.buffer].ids, call.kernels)
  <2>1. /\ call.buffer \in States
        /\ call.write => /\ buffers[call.buffer].ids = call.ids
                         /\ buffers[call.buffer].doubt = {}
                              => buffers[call.buffer].key = call.kernels
        /\ ~call.write =>
             /\ buffers[call.buffer].key = call.kernels /\ buffers[call.buffer].size # 0
             /\ buffers[call.buffer].doubt = {}
             /\ \A n \in DOMAIN call.ids : buffers[call.buffer].ids[n] = call.ids[n]
    BY <1>1, <1>4 DEF Whole, CallWrites
  <2>2. CASE call.write
    BY <1>2, <1>3, <2>1, <2>2
  <2>3. CASE ~call.write
    <3>1. ~Writing(call.buffer)
      BY <2>3 DEF Writing
    <3>2. /\ Len(buffers[call.buffer].ids) = Len(buffers[call.buffer].key)
          /\ AsAssigned(heap, buffers[call.buffer].ids, buffers[call.buffer].key)
      BY <2>1, <2>3, <3>1 DEF Whole, BufferInv
    <3> QED BY <2>1, <2>3, <3>2
  <2> QED BY <2>2, <2>3
<1> QED BY <1>2, <1>4

\* The batch of the call finds the kernels the call has loaded.
LEMMA SubmitRuns ==
  ASSUME Whole, TaskInv, Submit
  PROVE  RunsNext
<1>0. /\ HalInv /\ TurnsInv /\ nextTag \in Nat /\ MediaInv
  BY WholeFacts DEF Whole
<1>1. call.pc = "submit" /\ call # NoCall /\ Taken
  BY CallInProgress DEF Submit, Taken
<1>2. /\ call' = NoCall /\ heap' = heap
      /\ media' = [media EXCEPT ![call.media].busy = TRUE]
  BY Zenon DEF Submit
<1>3. ~Taken' /\ \A b : ~Writing(b)'
  BY <1>2 DEF Taken, Writing, NoCall
<1>4. call.media \in States
  BY <1>0, <1>1 DEF MediaInv
<1>5. SameOffsets
  <2>1. DOMAIN media = States /\ \A m \in States : DOMAIN media[m] = MediaFields
    BY <1>0 DEF MediaInv
  <2> QED BY <1>2, <1>4, <2>1 DEF SameOffsets, MediaFields
<1>6. ASSUME NEW b \in States PROVE SameCommands(b)
  <2>1. /\ DOMAIN buffers'[b] = BufferFields
        /\ buffers'[b].key = buffers[b].key /\ buffers'[b].ids = buffers[b].ids
        /\ buffers'[b].size = buffers[b].size
        /\ buffers'[b].doubt = IF ~call.walker /\ b = call.buffer
                                 THEN buffers[b].doubt \cup call.doubt
                                 ELSE buffers[b].doubt
    BY SubmittedBuffers
  <2>2. buffers[b].key \in Seq(Kernels) /\ buffers[b].ids \in Seq(MediaIds)
    BY DEF Whole, StartInv
  <2>3. ASSUME buffers'[b].size # 0, buffers'[b].doubt = {}
        PROVE  \/ Sound(b)
               \/ buffers[b].size # 0 /\ buffers[b].doubt = {} /\ ~Writing(b)
    <3>1. CASE ~call.walker /\ b = call.buffer
      <4>1. buffers[b].doubt = {} /\ call.doubt = {}
        BY <2>1, <2>3, <3>1
      <4> QED BY <3>1, <4>1, SubmittedCommands DEF Sound
    <3>2. CASE ~(~call.walker /\ b = call.buffer)
      <4>1. buffers[b].doubt = {} /\ buffers[b].size # 0
        BY <2>1, <2>3, <3>2
      <4>2. ~Writing(b)
        BY <1>1, <3>2 DEF Writing, Whole, StartInv
      <4> QED BY <4>1, <4>2
    <3> QED BY <3>1, <3>2
  <2> QED BY <2>1, <2>2, <2>3 DEF SameCommands
<1>7. AllCommands
  BY <1>6, SubmittedBuffers DEF AllCommands
<1>8. /\ KidInv' /\ BufferInv' /\ StartInv' /\ CallRuns' /\ CallWrites'
  <2>1. KidInv' /\ BufferInv'
    BY <1>2, <1>7, QuietBuffers
  <2>2. StartInv'
    BY <1>2, <1>7, QuietBuffers DEF StartInv
  <2> QED BY <1>3, <2>1, <2>2 DEF CallRuns, CallWrites
<1>9. PICK last \in Nat :
        /\ last = Len(ring) + 1 /\ DOMAIN ring = 1 .. Len(ring) /\ Len(ring) \in Nat
        /\ last \in DOMAIN ring' /\ ring'[last].task = call.task
        /\ call.task \in Tasks /\ DOMAIN job' = Tasks
        /\ DOMAIN job'[call.task] = JobFields
        /\ \A t \in Tasks : t # call.task => job'[t] = job[t]
        /\ JobOf(last)' = job'[call.task] /\ sync'[ring'[last].id] = "reset"
        /\ \A n \in DOMAIN ring' : n = last \/ n \in DOMAIN ring
        /\ \A n \in DOMAIN ring :
             /\ n \in DOMAIN ring' /\ ring'[n] = ring[n] /\ JobOf(n)' = JobOf(n)
             /\ ring[n].task \in Tasks /\ ring[n].task # call.task
             /\ JobOf(n) # NoCall /\ JobOf(n).tag \in Nat /\ JobOf(n).tag <= nextTag
             /\ sync'[ring'[n].id] = sync[ring[n].id]
        /\ job'[call.task].kernels = call.kernels /\ job'[call.task].media = call.media
        /\ job'[call.task].tag = nextTag + 1 /\ job'[call.task].doubt = call.doubt
        /\ job'[call.task].ids = IF call.walker THEN call.ids ELSE buffers[call.buffer].ids
  BY <1>0, SubmittedRing, Zenon
<1>10. ASSUME NEW n \in DOMAIN ring', n # last, sync'[ring'[n].id] = "reset"
       PROVE  OldWork(n)
  <2>1. n \in DOMAIN ring /\ JobOf(n)' = JobOf(n) /\ sync[ring[n].id] = "reset"
    BY <1>9, <1>10
  <2> QED BY <2>1 DEF OldWork
<1>11. ASSUME JobOf(last)'.doubt = {}
       PROVE  /\ JobOf(last)'.kernels \in Seq(Kernels)
              /\ JobOf(last)'.ids \in Seq(MediaIds)
              /\ Len(JobOf(last)'.ids) = Len(JobOf(last)'.kernels)
              /\ \A m \in DOMAIN JobOf(last)'.ids :
                   LoadedUntil(heap', JobOf(last)'.kernels[m],
                               media'[JobOf(last)'.media].offset[JobOf(last)'.ids[m]],
                               JobOf(last)'.tag - 1)
  <2>1. call.doubt = {} /\ call.walker \in BOOLEAN
    BY <1>1, <1>9, <1>11 DEF Whole, StartInv
  <2>2. /\ call.kernels \in Seq(Kernels) /\ call.ids \in Seq(MediaIds)
        /\ Len(call.ids) = Len(call.kernels)
    BY <1>1, <2>1, WholeFacts, SubmittedCommands DEF CallInv
  <2>3. PICK ids : ids = IF call.walker THEN call.ids ELSE buffers[call.buffer].ids
    OBVIOUS
  <2>4. /\ ids \in Seq(MediaIds) /\ Len(ids) = Len(call.kernels)
        /\ \A m \in DOMAIN call.ids : ids[m] = call.ids[m]
    <3>1. CASE call.walker
      BY <2>2, <2>3, <3>1
    <3>2. CASE ~call.walker
      <4>1. /\ call.buffer \in States
            /\ Len(buffers[call.buffer].ids) = Len(call.kernels)
            /\ \A m \in DOMAIN call.ids : buffers[call.buffer].ids[m] = call.ids[m]
        BY <2>1, <3>2, SubmittedCommands
      <4>2. buffers[call.buffer].ids \in Seq(MediaIds)
        BY <4>1 DEF Whole, StartInv
      <4> QED BY <2>3, <3>2, <4>1, <4>2
    <3> QED BY <3>1, <3>2
  <2>5. DOMAIN ids = DOMAIN call.ids
    BY <2>2, <2>4, LenProperties
  <2>6. ASSUME NEW m \in DOMAIN ids
        PROVE  LoadedUntil(heap, call.kernels[m], media[call.media].offset[ids[m]], nextTag)
    <3>1. PICK i : i = call.allocation[call.ids[m]]
      OBVIOUS
    <3>2. /\ i \in Used(heap) /\ heap.alloc[i].kernel = call.kernels[m]
          /\ heap.alloc[i].offset = media[call.media].offset[call.ids[m]]
          /\ heap.alloc[i].sync >= nextTag
      BY <1>1, <2>1, <2>5, <3>1 DEF Whole, CallRuns
    <3> QED BY <2>4, <2>5, <3>2 DEF LoadedUntil
  <2>7. media'[call.media].offset = media[call.media].offset
    BY <1>4, <1>5 DEF SameOffsets
  <2>8. PICK j : j = job'[call.task]
    OBVIOUS
  <2>9. /\ j.kernels = call.kernels /\ j.media = call.media /\ j.ids = ids
        /\ j.tag = nextTag + 1
    BY <1>9, <2>3, <2>8
  <2>10. j.tag - 1 = nextTag
    BY <1>0, <2>9
  <2>11. /\ j.kernels \in Seq(Kernels) /\ j.ids \in Seq(MediaIds)
         /\ Len(j.ids) = Len(j.kernels)
         /\ \A m \in DOMAIN j.ids :
              LoadedUntil(heap', j.kernels[m], media'[j.media].offset[j.ids[m]], j.tag - 1)
    BY <1>2, <2>2, <2>4, <2>6, <2>7, <2>9, <2>10
  <2>12. JobOf(last)' = j
    BY <1>9, <2>8
  <2> QED BY <2>11, <2>12
<1>12. BatchRuns'
  <2>1. ASSUME NEW n \in DOMAIN ring', sync'[ring'[n].id] = "reset", JobOf(n)'.doubt = {}
        PROVE  /\ JobOf(n)'.kernels \in Seq(Kernels) /\ JobOf(n)'.ids \in Seq(MediaIds)
               /\ Len(JobOf(n)'.ids) = Len(JobOf(n)'.kernels)
               /\ \A m \in DOMAIN JobOf(n)'.ids :
                    LoadedUntil(heap', JobOf(n)'.kernels[m],
                                media'[JobOf(n)'.media].offset[JobOf(n)'.ids[m]],
                                JobOf(n)'.tag - 1)
    <3>1. CASE n = last
      BY <1>11, <2>1, <3>1
    <3>2. CASE n # last
      <4>1. OldWork(n)
        BY <1>10, <2>1, <3>2
      <4> QED BY <1>2, <1>5, <2>1, <4>1, OldWorkRuns
    <3> QED BY <3>1, <3>2
  <2> QED BY <2>1 DEF BatchRuns
<1> QED BY <1>8, <1>12 DEF RunsNext

-----------------------------------------------------------------------------
(***************************************************************************)
(* The oldest kernel goes.                                                 *)
(***************************************************************************)
\* What the step does, where entry i had the oldest kernel.
Evicts(i) ==
    /\ i \in Used(heap) /\ heap.alloc[i].sync < gpuTag
    /\ TableInv(heap') /\ AllBut(heap, heap', i)
    /\ \A x \in Used(heap) : x # i => Keeps(heap, heap', x, nextTag)
    /\ UNCHANGED <<ring, sync, job, nextTag>>
    /\ call.pc = "kernel" /\ call # NoCall /\ call' # NoCall
    /\ LoadedAt(heap, Kernel) = {}
    /\ DOMAIN call' = CallFields /\ call'.pc = call.pc
    /\ call'.kernels = call.kernels /\ call'.walker = call.walker
    /\ call'.write = call.write /\ call'.buffer = call.buffer
    /\ call'.media = call.media /\ call'.ids = call.ids
    /\ call'.allocation = call.allocation /\ call'.doubt = DoubtAfter(heap')
    /\ \A m \in States : media'[m].offset = media[m].offset
    /\ DOMAIN buffers' = States
    /\ \A b \in States :
         /\ DOMAIN buffers'[b] = BufferFields
         /\ buffers'[b].size = buffers[b].size
         /\ buffers'[b].key = buffers[b].key /\ buffers'[b].ids = buffers[b].ids
         /\ buffers'[b].doubt =
              IF \E n \in DOMAIN buffers[b].key : buffers[b].key[n] = heap.alloc[i].kernel
                THEN buffers[b].doubt \cup {"evicted"} ELSE buffers[b].doubt

LEMMA EvictFields ==
  ASSUME Whole, EvictKernel, ~heap'.phantom
  PROVE  \E i : Evicts(i)
<1>0. call.pc = "kernel" /\ LoadedAt(heap, Kernel) = {}
  BY DEF EvictKernel, NoRoom
<1>1. call # NoCall /\ Taken
  BY <1>0, CallInProgress DEF Taken
<1>2. /\ TableInv(heap) /\ TagInv /\ MediaInv /\ syncTag \in Int /\ syncTag < gpuTag
      /\ DOMAIN call = CallFields
  BY <1>1, WholeFacts
<1>3. PICK i : /\ i = Oldest(heap, Unloadable(heap, syncTag))
               /\ buffers' = BuffersAfterEviction(heap.alloc[i].kernel)
               /\ call' = [call EXCEPT !.doubt = DoubtAfter(heap')]
  BY Zenon DEF EvictKernel
<1>4. /\ i \in Used(heap) /\ heap.alloc[i].sync < gpuTag
      /\ TableInv(heap') /\ AllBut(heap, heap', i)
      /\ \A x \in Used(heap) : x # i => Keeps(heap, heap', x, nextTag)
  BY <1>2, <1>3, EvictKeeps
<1>5. /\ DOMAIN call' = CallFields /\ call'.pc = call.pc
      /\ call'.kernels = call.kernels /\ call'.walker = call.walker
      /\ call'.write = call.write /\ call'.buffer = call.buffer
      /\ call'.media = call.media /\ call'.ids = call.ids
      /\ call'.allocation = call.allocation /\ call'.doubt = DoubtAfter(heap')
      /\ call' # NoCall
  BY <1>2, <1>3 DEF CallFields, NoCall
<1>6. \A m \in States : media'[m].offset = media[m].offset
  <2>1. media' = Refreshed(media)
    BY DEF EvictKernel
  <2>2. \A m \in States : media'[m] = [media[m] EXCEPT !.busy = StillBusy(media[m])]
    BY <2>1 DEF Refreshed
  <2>3. \A m \in States : DOMAIN media[m] = MediaFields
    BY <1>2 DEF MediaInv
  <2>4. ASSUME NEW m \in States PROVE media'[m].offset = media[m].offset
    <3>1. PICK x : x = StillBusy(media[m])
      OBVIOUS
    <3> QED BY <2>2, <2>3, <3>1 DEF MediaFields
  <2> QED BY <2>4
<1>7. PICK k : k = heap.alloc[i].kernel
  OBVIOUS
<1>8. buffers' = BuffersAfterEviction(k)
  BY <1>3, <1>7
<1>9. DOMAIN buffers' = States
  BY <1>8 DEF BuffersAfterEviction
<1>10. ASSUME NEW b \in States
       PROVE  /\ DOMAIN buffers'[b] = BufferFields
              /\ buffers'[b].size = buffers[b].size
              /\ buffers'[b].key = buffers[b].key /\ buffers'[b].ids = buffers[b].ids
              /\ buffers'[b].doubt =
                   IF \E n \in DOMAIN buffers[b].key : buffers[b].key[n] = k
                     THEN buffers[b].doubt \cup {"evicted"} ELSE buffers[b].doubt
  <2>1. DOMAIN buffers[b] = BufferFields
    BY DEF Whole, StartInv
  <2>2. PICK x : x = StillBusy(buffers[b])
    OBVIOUS
  <2>3. PICK r : r = Refreshed(buffers)[b]
    OBVIOUS
  <2>4. r = [buffers[b] EXCEPT !.busy = x]
    BY <2>2, <2>3 DEF Refreshed
  <2>5. /\ DOMAIN r = BufferFields /\ r.size = buffers[b].size
        /\ r.key = buffers[b].key /\ r.ids = buffers[b].ids
        /\ r.doubt = buffers[b].doubt
    BY <2>1, <2>4 DEF BufferFields
  <2>6. PICK g : g = buffers'[b]
    OBVIOUS
  <2>7. k \in {buffers[b].key[n] : n \in DOMAIN buffers[b].key}
          <=> \E n \in DOMAIN buffers[b].key : buffers[b].key[n] = k
    OBVIOUS
  <2>8. g = IF k \in {buffers[b].key[n] : n \in DOMAIN buffers[b].key}
              THEN [r EXCEPT !.doubt = @ \cup {"evicted"}] ELSE r
    BY <1>8, <2>3, <2>6 DEF BuffersAfterEviction
  <2>9. CASE \E n \in DOMAIN buffers[b].key : buffers[b].key[n] = k
    <3>1. g = [r EXCEPT !.doubt = r.doubt \cup {"evicted"}]
      BY <2>7, <2>8, <2>9
    <3> QED BY <2>5, <2>6, <2>9, <3>1 DEF BufferFields
  <2>10. CASE ~\E n \in DOMAIN buffers[b].key : buffers[b].key[n] = k
    <3>1. g = r
      BY <2>7, <2>8, <2>10
    <3> QED BY <2>5, <2>6, <2>10, <3>1
  <2> QED BY <2>9, <2>10
<1>11. UNCHANGED <<ring, sync, job, nextTag>>
  BY DEF EvictKernel, halVars
<1>12. Evicts(i)
  BY <1>0, <1>1, <1>4, <1>5, <1>6, <1>7, <1>9, <1>10, <1>11 DEF Evicts
<1> QED BY <1>12

\* A kernel other than that one is preferred as before.
LEMMA OthersPrefer ==
  ASSUME TableInv(heap), NEW i, Evicts(i), NEW k, k # heap.alloc[i].kernel
  PROVE  \A d : Prefers(heap, k, d) => Prefers(heap', k, d)
<1>1. \A x \in Used(heap) : heap.alloc[x].kernel = k => Keeps(heap, heap', x, nextTag)
  BY DEF Evicts
<1> QED BY <1>1, PrefersStays

LEMMA EvictCall ==
  ASSUME Whole, NEW i, Evicts(i)
  PROVE  CallRuns'
<1> SUFFICES ASSUME call'.doubt = {}
             PROVE  /\ \A n \in DOMAIN call'.ids :
                         LET x == call'.allocation[call'.ids[n]] IN
                         /\ x \in Used(heap') /\ heap'.alloc[x].kernel = call'.kernels[n]
                         /\ heap'.alloc[x].offset = media'[call'.media].offset[call'.ids[n]]
                         /\ heap'.alloc[x].sync >= nextTag'
                    /\ \A d \in MediaIds : call'.allocation[d] # NoEntry =>
                         \E n \in DOMAIN call'.ids : call'.ids[n] = d
                    /\ AsAssigned(heap', call'.ids, call'.kernels)
  BY DEF CallRuns
<1>1. Taken /\ call # NoCall
  BY DEF Evicts, Taken
<1>2. /\ TableInv(heap) /\ TableInv(heap') /\ CallInv /\ MediaInv
      /\ nextTag \in Nat /\ gpuTag \in Nat /\ gpuTag <= nextTag
  BY WholeFacts DEF Evicts
<1>3. /\ call'.kernels = call.kernels /\ call'.ids = call.ids
      /\ call'.allocation = call.allocation /\ nextTag' = nextTag
      /\ DoubtAfter(heap') = {}
      /\ i \in Used(heap) /\ heap.alloc[i].sync < gpuTag
      /\ \A x \in Used(heap) : x # i => Keeps(heap, heap', x, nextTag)
  BY DEF Evicts
<1>4. media'[call'.media].offset = media[call.media].offset
  BY <1>1, <1>2 DEF Evicts, MediaInv
<1>5. /\ call.doubt = {}
      /\ \A d \in MediaIds : call.allocation[d] # NoEntry =>
           /\ ~(call.allocation[d] >= heap'.n)
           /\ heap'.alloc[call.allocation[d]].kernel = heap.alloc[call.allocation[d]].kernel
  BY <1>3, NothingMoved
<1>6. /\ \A n \in DOMAIN call.ids :
           LET x == call.allocation[call.ids[n]] IN
           /\ x \in Used(heap) /\ heap.alloc[x].kernel = call.kernels[n]
           /\ heap.alloc[x].offset = media[call.media].offset[call.ids[n]]
           /\ heap.alloc[x].sync >= nextTag
      /\ \A d \in MediaIds : call.allocation[d] # NoEntry =>
           \E n \in DOMAIN call.ids : call.ids[n] = d
      /\ AsAssigned(heap, call.ids, call.kernels)
  BY <1>1, <1>5 DEF Whole, CallRuns
<1>7. ASSUME NEW n \in DOMAIN call.ids, NEW x, x = call.allocation[call.ids[n]]
      PROVE  /\ x \in Used(heap') /\ heap'.alloc[x].kernel = call.kernels[n]
             /\ heap'.alloc[x].offset = media[call.media].offset[call.ids[n]]
             /\ heap'.alloc[x].sync >= nextTag
             /\ call.kernels[n] # heap.alloc[i].kernel
  <2>1. /\ x \in Used(heap) /\ heap.alloc[x].kernel = call.kernels[n]
        /\ heap.alloc[x].offset = media[call.media].offset[call.ids[n]]
        /\ heap.alloc[x].sync >= nextTag
    BY <1>6, <1>7
  <2>2. /\ x \in Nat /\ x # NoEntry /\ heap.alloc[x].sync \in Int
        /\ heap.alloc[i].sync \in Int /\ heap'.n \in Nat
    <3>1. x \in Entries /\ i \in Entries
      BY <1>2, <1>3, <2>1, UsedTyped
    <3>2. x \in Nat /\ x # NoEntry
      BY <1>2, <3>1, UsedTyped DEF NoEntry
    <3>3. heap.alloc \in [Entries -> EntryType]
      BY <1>2, UsedTyped
    <3>4. heap.alloc[x].sync \in Int /\ heap.alloc[i].sync \in Int
      BY ONLY <3>1, <3>3 DEF EntryType
    <3>5. PICK g : g = heap'
      OBVIOUS
    <3>6. g.n \in Nat
      BY <1>2, <3>5, UsedTyped
    <3> QED BY <3>2, <3>4, <3>5, <3>6
  <2>3. x # i
    BY <1>2, <1>3, <2>1, <2>2
  <2>4. call.ids[n] \in MediaIds
    <3>1. call.ids \in Seq(MediaIds)
      BY <1>1, <1>2 DEF CallInv
    <3> QED BY <3>1, <1>7
  <2>5. ~(x >= heap'.n) /\ heap'.alloc[x].kernel = heap.alloc[x].kernel
    BY <1>5, <1>7, <2>2, <2>4
  <2>6. x < heap'.n
    BY <2>2, <2>5
  <2>7. Keeps(heap, heap', x, nextTag)
    BY <1>3, <2>1, <2>3
  <2>8. /\ x \in Used(heap') /\ heap'.alloc[x].offset = heap.alloc[x].offset
        /\ heap'.alloc[x].sync \in {heap.alloc[x].sync, nextTag}
    BY <1>2, <2>1, <2>5, <2>6, <2>7, SameIndex
  <2>9. call.kernels[n] # heap.alloc[i].kernel
    BY <1>2, <1>3, <2>1, <2>3 DEF TableInv, Known
  <2> QED BY <1>2, <2>1, <2>2, <2>5, <2>8, <2>9
<1>8. AsAssigned(heap', call.ids, call.kernels)
  <2>1. \A n \in DOMAIN call.ids : \A d :
          Prefers(heap, call.kernels[n], d) => Prefers(heap', call.kernels[n], d)
    BY <1>2, <1>7, OthersPrefer
  <2> QED BY <1>6, <2>1, AssignedStays
<1> QED BY <1>3, <1>4, <1>6, <1>7, <1>8

\* A call that finds its commands finds the kernels loaded.
LEMMA EvictWrites ==
  ASSUME Whole, NEW i, Evicts(i)
  PROVE  CallWrites'
<1>1. /\ Taken /\ call # NoCall /\ call.pc = "kernel" /\ CallInv
  BY WholeFacts DEF Evicts, Taken
<1>2. /\ call'.kernels = call.kernels /\ call'.ids = call.ids /\ call'.pc = "kernel"
      /\ call'.write = call.write /\ call'.walker = call.walker
      /\ call'.buffer = call.buffer /\ call'.doubt = DoubtAfter(heap')
      /\ LoadedAt(heap, Kernel) = {}
  BY DEF Evicts
<1> SUFFICES ASSUME ~call.walker
             PROVE  /\ call.buffer \in States
                    /\ call.write =>
                         /\ buffers'[call.buffer].ids = call.ids
                         /\ buffers'[call.buffer].doubt = {}
                              => buffers'[call.buffer].key = call.kernels
                    /\ ~(~call.write /\ call'.doubt = {})
  BY <1>2 DEF CallWrites
<1>3. /\ call.buffer \in States
      /\ call.write => /\ buffers[call.buffer].ids = call.ids
                       /\ buffers[call.buffer].doubt = {}
                            => buffers[call.buffer].key = call.kernels
      /\ ~call.write /\ call.doubt = {} =>
           /\ buffers[call.buffer].key = call.kernels
           /\ buffers[call.buffer].doubt = {} /\ buffers[call.buffer].size # 0
  BY <1>1 DEF Whole, CallWrites
<1>4. /\ buffers'[call.buffer].key = buffers[call.buffer].key
      /\ buffers'[call.buffer].ids = buffers[call.buffer].ids
      /\ buffers'[call.buffer].doubt = {} => buffers[call.buffer].doubt = {}
  BY <1>3 DEF Evicts
<1>5. ASSUME ~call.write, call'.doubt = {}
      PROVE  FALSE
  <2>1. call.doubt = {}
    BY <1>2, <1>5, NothingMoved
  <2>2. ~Writing(call.buffer)
    BY <1>5 DEF Writing
  <2>3. /\ Len(buffers[call.buffer].ids) = Len(call.kernels)
        /\ AsAssigned(heap, buffers[call.buffer].ids, call.kernels)
        /\ buffers[call.buffer].ids \in Seq(MediaIds)
    BY <1>3, <1>5, <2>1, <2>2 DEF Whole, BufferInv, StartInv
  <2>4. /\ call.kernels \in Seq(Kernels) /\ call.ids \in Seq(MediaIds)
        /\ Len(call.ids) < Len(call.kernels)
    BY <1>1 DEF CallInv
  <2>5. PICK n : n = Len(call.ids) + 1
    OBVIOUS
  <2>6. n \in DOMAIN buffers[call.buffer].ids
    <3>1. /\ Len(call.ids) \in Nat /\ Len(call.kernels) \in Nat
          /\ DOMAIN buffers[call.buffer].ids = 1 .. Len(call.kernels)
      BY <2>3, <2>4, LenProperties
    <3> QED BY <2>4, <2>5, <3>1
  <2>7. \E d \in MediaIds : Prefers(heap, call.kernels[n], d)
    BY <2>3, <2>6 DEF AsAssigned
  <2>8. PICK j \in Used(heap) : heap.alloc[j].kernel = Kernel
    BY <2>5, <2>7 DEF Prefers, Kernel
  <2>9. j \in LoadedAt(heap, Kernel)
    BY <2>8 DEF LoadedAt, Used
  <2> QED BY <1>2, <2>9
<1> QED BY <1>3, <1>4, <1>5

LEMMA EvictRuns ==
  ASSUME Whole, EvictKernel, ~heap'.phantom
  PROVE  RunsNext
<1>1. PICK i : Evicts(i)
  BY EvictFields
<1>2. TableInv(heap) /\ TableInv(heap')
  BY <1>1, WholeFacts DEF Evicts
<1>3. KidInv'
  <2>1. \A j \in Used(heap') : \E e \in Used(heap) : heap'.alloc[j] = heap.alloc[e]
    BY <1>1 DEF Evicts, AllBut
  <2>2. \A j \in Used(heap') : heap'.alloc[j].kid # NoEntry
    BY <2>1 DEF Whole, KidInv
  <2> QED BY <2>2 DEF KidInv
<1>4. ASSUME NEW b \in States, buffers'[b].size # 0, buffers'[b].doubt = {}, ~Writing(b)'
      PROVE  /\ Len(buffers'[b].ids) = Len(buffers'[b].key)
             /\ AsAssigned(heap', buffers'[b].ids, buffers'[b].key)
  <2>1. ~Writing(b)
    BY <1>1, <1>4 DEF Evicts, Writing, Taken
  <2>2. /\ buffers'[b].size = buffers[b].size
        /\ buffers'[b].key = buffers[b].key /\ buffers'[b].ids = buffers[b].ids
        /\ buffers[b].doubt = {}
        /\ \A n \in DOMAIN buffers[b].key : buffers[b].key[n] # heap.alloc[i].kernel
    BY <1>1, <1>4 DEF Evicts
  <2>3. /\ Len(buffers[b].ids) = Len(buffers[b].key)
        /\ AsAssigned(heap, buffers[b].ids, buffers[b].key)
    BY <1>4, <2>1, <2>2 DEF Whole, BufferInv
  <2>4. DOMAIN buffers[b].ids = DOMAIN buffers[b].key
    <3>1. buffers[b].key \in Seq(Kernels) /\ buffers[b].ids \in Seq(MediaIds)
      BY DEF Whole, StartInv
    <3> QED BY <2>3, <3>1, LenProperties
  <2>5. \A n \in DOMAIN buffers[b].ids : \A d :
          Prefers(heap, buffers[b].key[n], d) => Prefers(heap', buffers[b].key[n], d)
    BY <1>1, <1>2, <2>2, <2>4, OthersPrefer
  <2>6. AsAssigned(heap', buffers[b].ids, buffers[b].key)
    BY <2>3, <2>5, AssignedStays
  <2> QED BY <2>2, <2>3, <2>6
<1>5. BufferInv'
  BY <1>4 DEF BufferInv
<1>6. StartInv'
  <2>1. \A b \in States : /\ DOMAIN buffers'[b] = BufferFields
                          /\ buffers'[b].key \in Seq(Kernels)
                          /\ buffers'[b].ids \in Seq(MediaIds)
    BY <1>1 DEF Evicts, Whole, StartInv
  <2>2. DOMAIN buffers' = States /\ call'.pc = "kernel" /\ call # NoCall
        /\ call'.walker = call.walker /\ call'.write = call.write
    BY <1>1 DEF Evicts
  <2>3. {call.walker, call.write} \subseteq BOOLEAN /\ (call.write => ~call.walker)
    BY <2>2 DEF Whole, StartInv
  <2> QED BY <2>1, <2>2, <2>3 DEF StartInv
<1>7. BatchRuns'
  <2>1. /\ UNCHANGED <<ring, sync, job>>
        /\ \A m \in States : media'[m].offset = media[m].offset
        /\ \A x \in Used(heap) : ~(heap.alloc[x].sync < gpuTag) =>
             Keeps(heap, heap', x, nextTag)
    BY <1>1 DEF Evicts
  <2> QED BY <2>1, BatchesRunOn
<1> QED BY <1>1, <1>3, <1>5, <1>6, <1>7, EvictCall, EvictWrites DEF RunsNext

-----------------------------------------------------------------------------
(***************************************************************************)
(* Every step keeps RunInv.                                                *)
(***************************************************************************)
\* A table that has taken an entry behind the last one for a free neighbour
\* does not become one again.
LEMMA PhantomStays ==
  ASSUME HeapInv, [Next]_vars, heap.phantom
  PROVE  heap'.phantom
<1>0. DOMAIN heap = HeapFields /\ heap.phantom \in BOOLEAN
  BY DEF HeapInv
<1>1. CASE heap' = heap
  BY <1>1
<1>2. CASE LoadedKernel
  <2>1. PICK h : /\ h = HalCm_TouchKernel(heap, Min(LoadedAt(heap, Kernel)), nextTag)
                 /\ HalCm_AllocateMediaID(h, Min(LoadedAt(heap, Kernel)))
    BY <1>2, Zenon DEF LoadedKernel
  <2>2. DOMAIN h = HeapFields /\ h.phantom = heap.phantom
    BY <1>0, <2>1, TouchFields
  <2>3. heap'.phantom = h.phantom
    BY <2>1, <2>2, AllocateFields
  <2> QED BY <2>2, <2>3
<1>3. CASE HalCm_LoadKernel
  <2>1. PICK slot : \E h : /\ h = CmAddCurrentKerenelToFreeSlot(heap, slot, Kernel, nextTag)
                           /\ HalCm_AllocateMediaID(h, slot)
    BY <1>3, Zenon DEF HalCm_LoadKernel
  <2>2. PICK h : /\ h = CmAddCurrentKerenelToFreeSlot(heap, slot, Kernel, nextTag)
                 /\ HalCm_AllocateMediaID(h, slot)
    BY <2>1
  <2>3. DOMAIN h = HeapFields /\ h.phantom = heap.phantom
    BY <1>0, <2>2, LoadFields
  <2>4. heap'.phantom = h.phantom
    BY <2>2, <2>3, AllocateFields
  <2> QED BY <2>3, <2>4
<1>4. CASE EvictKernel
  <2>1. PICK i : heap' = CmDeleteOldestKernel(heap, i)
    BY <1>4, Zenon DEF EvictKernel
  <2> QED BY <1>0, <2>1, DeleteFields
<1>5. LoadedKernel \/ HalCm_LoadKernel \/ EvictKernel \/ heap' = heap
  BY Zenon DEF Next, vars, heapVars, Begin, IntelGen_HwAssignMediaState, WaitForMediaState,
     ReuseBatchBuffer, TakeBatchBuffer, IntelGen_HwLockBB, AlreadyLocked, NothingToEvict,
     Submit, SubmitFails, Fails, GpuBegin, GpuFinish, QueryTask
<1> QED BY <1>1, <1>2, <1>3, <1>4, <1>5

LEMMA StepRuns ==
  ASSUME HalInv, TaskInv, HeapInv, TurnsInv, RunInv, [Next]_vars
  PROVE  RunInv'
<1> SUFFICES ASSUME ~heap'.phantom PROVE RunsNext
  BY DEF RunInv, RunsNext
<1>0. Whole
  BY PhantomStays DEF Whole, RunInv
<1>1. ASSUME NEW t \in Tasks, Begin(t) PROVE RunsNext
  BY <1>0, <1>1, BeginRuns
<1>2. CASE IntelGen_HwAssignMediaState \/ WaitForMediaState
  BY <1>0, <1>2, MediaRuns
<1>3. CASE ReuseBatchBuffer
  BY <1>0, <1>3, ReuseRuns
<1>4. CASE TakeBatchBuffer
  BY <1>0, <1>4, TakeRuns
<1>5. CASE IntelGen_HwLockBB
  BY <1>0, <1>5, LockRuns
<1>6. CASE LoadedKernel \/ HalCm_LoadKernel
  BY <1>0, <1>6, FoundRuns DEF RunsNext
<1>7. CASE EvictKernel
  BY <1>0, <1>7, EvictRuns
<1>8. CASE AlreadyLocked \/ NothingToEvict \/ SubmitFails \/ Fails
  BY <1>0, <1>8, FailRuns
<1>9. CASE Submit
  BY <1>0, <1>9, SubmitRuns
<1>10. CASE GpuBegin \/ GpuFinish
  BY <1>0, <1>10, GpuRuns
<1>11. CASE (\E id \in TaskIds : QueryTask(id)) \/ UNCHANGED vars
  <2>1. UNCHANGED <<sync, ring, heap, media, buffers, call, nextTag, job>>
    BY <1>11 DEF QueryTask, HalCm_QueryTask, heapVars, vars, halVars
  <2> QED BY <1>0, <2>1, KeptBatches, ElsewhereRuns
<1> QED BY <1>1, <1>2, <1>3, <1>4, <1>5, <1>6, <1>7, <1>8, <1>9, <1>10, <1>11 DEF Next

\* Nothing is loaded, written or in the ring.
LEMMA InitRuns == Init => RunInv
<1> SUFFICES ASSUME Init PROVE RunInv
  OBVIOUS
<1>1. /\ ring = <<>> /\ call = NoCall /\ heap = InitHeap
      /\ buffers = [b \in States |-> FreshBuffer]
  BY DEF Init, HalInit
<1>2. ~Taken /\ DOMAIN ring = {}
  BY <1>1 DEF Taken, NoCall
<1>3. KidInv
  <2>1. \A i \in Entries : heap.alloc[i].kernel = NoKernel
    BY <1>1 DEF InitHeap, FreshEntry
  <2> QED BY <2>1 DEF KidInv, Used, bIsFree
<1>4. ASSUME NEW b \in States
      PROVE  /\ DOMAIN buffers[b] = BufferFields /\ buffers[b].size = 0
             /\ buffers[b].key \in Seq(Kernels) /\ buffers[b].ids \in Seq(MediaIds)
  BY <1>1, EmptySeq DEF FreshBuffer, BufferFields
<1>5. StartInv
  BY <1>1, <1>4 DEF StartInv
<1>6. BufferInv
  BY <1>4 DEF BufferInv
<1> QED BY <1>2, <1>3, <1>5, <1>6 DEF RunInv, CallRuns, CallWrites, BatchRuns

\* The descriptors of calls, buffers and batches, and the kernels they lead to.
THEOREM AlwaysRuns == Spec => []RunInv
<1>1. (HalInv /\ TaskInv) /\ HeapInv /\ TurnsInv /\ RunInv /\ [Next]_vars => RunInv'
  BY StepRuns
<1> QED BY <1>1, InitRuns, AlwaysTask, AlwaysHeap, AlwaysTurns, PTL DEF Spec

-----------------------------------------------------------------------------
\* What the GPU finds where a kernel is loaded.
LEMMA KernelFound ==
  ASSUME HeapInv, ~heap.phantom, NEW i \in Used(heap), NEW k, NEW o,
         k = heap.alloc[i].kernel, o = heap.alloc[i].offset
  PROVE  KernelAt(o) = k
<1> DEFINE At(x) == \A s \in 0 .. Size[x] - 1 : o + s \in DOMAIN mem /\ mem[o + s] = x
<1>1. TableInv(heap) /\ Holds(mem, heap, i) /\ DOMAIN mem = 0 .. HeapSize - 1
  BY DEF HeapInv
<1>2. /\ i \in Entries /\ i < heap.n /\ k \in Kernels
      /\ NoKernel \notin Kernels /\ \A x \in Kernels : Size[x] \in Nat \ {0}
  BY <1>1, UsedTyped
<1>3. heap.alloc[i].size <= heap.total[i] /\ heap.alloc[i].size = Size[k]
  BY <1>1, <1>2 DEF TableInv, Sized, Used, bIsFree
<1>4. /\ o \in Int /\ heap.total[i] \in Nat /\ 0 <= o
      /\ o + heap.total[i] <= HeapSize
  BY <1>1, <1>2, RegionsApart
<1>5. HeapSize \in Nat
  BY HeapAssumption
<1>6. At(k)
  <2> SUFFICES ASSUME NEW s \in 0 .. Size[k] - 1
               PROVE  o + s \in DOMAIN mem /\ mem[o + s] = k
    OBVIOUS
  <2>1. mem[o + s] = k
    BY <1>1 DEF Holds
  <2>2. o + s \in 0 .. HeapSize - 1
    BY <1>2, <1>3, <1>4, <1>5
  <2> QED BY <1>1, <2>1, <2>2
<1>7. \A x \in Kernels : At(x) => mem[o] = x
  <2> SUFFICES ASSUME NEW x \in Kernels, At(x) PROVE mem[o] = x
    OBVIOUS
  <2>1. 0 \in 0 .. Size[x] - 1 /\ o + 0 = o
    BY <1>2, <1>4
  <2>2. mem[o + 0] = x
    BY <2>1
  <2> QED BY <2>1, <2>2
<1>8. o # None
  BY <1>4 DEF None
<1> HIDE DEF At
<1>9. KernelAt(o) = CHOOSE x \in Kernels \cup {NoKernel} :
                      IF o # None /\ \E y \in Kernels : At(y)
                        THEN x \in Kernels /\ At(x) ELSE x = NoKernel
  BY Zenon DEF KernelAt, At
<1>10. KernelAt(o) \in Kernels /\ At(KernelAt(o))
  BY <1>2, <1>6, <1>8, <1>9
<1> QED BY <1>2, <1>6, <1>7, <1>10

\* A batch the GPU has not begun runs the kernels of its task: the media state
\* its tag keeps, the descriptors the call or its batch buffer names, and the
\* regions of the heap they point to are given to nobody else before that.
THEOREM BatchesRunTheirKernels == Spec => []BatchRunsItsKernels
<1>1. HeapInv /\ RunInv => BatchRunsItsKernels
  <2> SUFFICES ASSUME HeapInv, RunInv, NEW n \in DOMAIN ring, NEW j,
                      j = job[ring[n].task], sync[ring[n].id] = "reset",
                      j.doubt = {}, ~heap.phantom
               PROVE  Executes(j) = j.kernels
    BY DEF BatchRunsItsKernels
  <2>1. /\ j.kernels \in Seq(Kernels) /\ j.ids \in Seq(MediaIds)
        /\ Len(j.ids) = Len(j.kernels)
        /\ \A m \in DOMAIN j.ids :
             LoadedUntil(heap, j.kernels[m], media[j.media].offset[j.ids[m]], j.tag - 1)
    BY DEF RunInv, BatchRuns, JobOf
  <2>2. DOMAIN j.kernels = DOMAIN j.ids
    BY <2>1, LenProperties
  <2>3. \A m \in DOMAIN j.ids : KernelAt(media[j.media].offset[j.ids[m]]) = j.kernels[m]
    BY <2>1, KernelFound DEF LoadedUntil
  <2>4. Executes(j) = [m \in DOMAIN j.kernels |-> j.kernels[m]]
    BY <2>2, <2>3 DEF Executes
  <2>5. j.kernels = [m \in DOMAIN j.kernels |-> j.kernels[m]]
    BY <2>1
  <2> QED BY <2>4, <2>5
<1> QED BY <1>1, AlwaysHeap, AlwaysRuns, PTL
==============================================================================
