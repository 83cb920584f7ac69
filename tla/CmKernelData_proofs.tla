-------------------------- MODULE CmKernelData_proofs --------------------------
(***************************************************************************)
(* Proofs about kernel data, for every set of kernels, tasks and thread    *)
(* spaces, every depth of the ring and every number of calls: the counts   *)
(* of references whatever the caller does, and what tasks run with if it   *)
(* keeps the rules.                                                        *)
(***************************************************************************)
EXTENDS CmKernelDataInv, TLAPS, SequenceTheorems, FiniteSetTheorems,
        WellFoundedInduction

LEMMA LeastExists ==
  ASSUME NEW S \in SUBSET Nat, S # {}
  PROVE  \E i \in S : \A j \in S : i <= j
<1> DEFINE R == OpToRel(<, Nat)
<1>1. IsWellFoundedOn(R, Nat)
  BY NatLessThanWellFounded
<1> HIDE DEF R
<1>2. PICK x \in S : \A y \in S : ~ (<<y, x>> \in R)
  BY <1>1, WFMin
<1>3. \A y \in S : ~ (y < x)
  <2> TAKE y \in S
  <2>1. <<y, x>> \notin R
    BY <1>2
  <2> QED BY <2>1 DEF R, OpToRel
<1> QED BY <1>3

LEMMA MinFacts ==
  ASSUME NEW S \in SUBSET Nat, S # {}
  PROVE  Min(S) \in S
  BY LeastExists DEF Min

\* The kernel data there is: one for each task and one for each kernel.
LEMMA DatasFacts ==
  /\ Datas \subseteq Nat \ {0} /\ IsFiniteSet(Datas)
  /\ Cardinality(Tasks) \in Nat /\ Cardinality(Kernels) \in Nat
  /\ Cardinality(Datas) = Cardinality(Tasks) + Cardinality(Kernels)
<1>1. Cardinality(Tasks) \in Nat /\ Cardinality(Kernels) \in Nat
  BY CmKernelDataAssumption, FS_CardinalityType
<1>2. PICK n \in Nat : n = Cardinality(Tasks) + Cardinality(Kernels)
  BY <1>1
<1>3. Datas = 1 .. n
  BY <1>2 DEF Datas
<1>4. IsFiniteSet(1 .. n) /\ Cardinality(1 .. n) = n
  BY FS_Interval
<1> QED BY <1>1, <1>2, <1>3, <1>4

LEMMA UnitsFacts == Cardinality(Units) \in Units /\ Cardinality(Units) \in Nat \ {0}
<1>1. Cardinality(Units) \in Nat /\ Cardinality(Units) # 0
  BY CmKernelDataAssumption, FS_CardinalityType, FS_EmptySet
<1> QED BY <1>1, CmKernelDataAssumption

LEMMA ImageSize ==
  ASSUME NEW S, IsFiniteSet(S), NEW T, NEW f \in [S -> T], T = {f[x] : x \in S}
  PROVE  IsFiniteSet(T) /\ Cardinality(T) <= Cardinality(S)
<1>1. f \in Surjection(S, T)
  BY DEF Surjection
<1> QED BY <1>1, FS_Surjection

-----------------------------------------------------------------------------
(***************************************************************************)
(* Lines of tasks.                                                         *)
(***************************************************************************)
LEMMA AppendLine ==
  ASSUME NEW s \in Seq(Tasks), NEW t \in Tasks, Once(s), t \notin In(s)
  PROVE  /\ Append(s, t) \in Seq(Tasks) /\ Once(Append(s, t))
         /\ In(Append(s, t)) = In(s) \cup {t}
<1> DEFINE r == Append(s, t)
<1>1. /\ Len(r) = Len(s) + 1 /\ r[Len(s) + 1] = t /\ Len(s) \in Nat
      /\ \A k \in 1 .. Len(s) : r[k] = s[k]
      /\ DOMAIN r = 1 .. Len(r) /\ DOMAIN s = 1 .. Len(s) /\ r \in Seq(Tasks)
  BY AppendProperties, LenProperties
<1> HIDE DEF r
<1>2. In(s) \cup {t} \subseteq In(r)
  BY <1>1 DEF In
<1>3. In(r) \subseteq In(s) \cup {t}
  BY <1>1 DEF In
<1>4. \A k \in 1 .. Len(s) : r[k] # t
  BY <1>1 DEF In
<1>5. Once(r)
  BY <1>1, <1>4 DEF Once
<1> QED BY <1>1, <1>2, <1>3, <1>5 DEF r

LEMMA TailLine ==
  ASSUME NEW s \in Seq(Tasks), s # <<>>, Once(s)
  PROVE  /\ Tail(s) \in Seq(Tasks) /\ Once(Tail(s))
         /\ Head(s) \in Tasks /\ Head(s) \in In(s)
         /\ In(Tail(s)) = In(s) \ {Head(s)}
<1> DEFINE r == Tail(s)
<1>1. /\ Len(r) = Len(s) - 1 /\ Len(s) \in Nat /\ Len(s) # 0 /\ Len(r) \in Nat
      /\ \A k \in 1 .. Len(r) : r[k] = s[k + 1]
      /\ DOMAIN r = 1 .. Len(r) /\ DOMAIN s = 1 .. Len(s)
      /\ Head(s) = s[1] /\ r \in Seq(Tasks) /\ Head(s) \in Tasks
  BY HeadTailProperties, EmptySeq, LenProperties
<1> HIDE DEF r
<1>2. In(r) \subseteq In(s) \ {Head(s)}
  <2> SUFFICES ASSUME NEW k \in 1 .. Len(r) PROVE  r[k] \in In(s) \ {Head(s)}
    BY <1>1 DEF In
  <2>1. r[k] = s[k + 1] /\ k + 1 \in DOMAIN s /\ 1 \in DOMAIN s /\ k + 1 # 1
    BY <1>1
  <2> QED BY <1>1, <2>1 DEF In, Once
<1>3. In(s) \ {Head(s)} \subseteq In(r)
  <2> SUFFICES ASSUME NEW k \in DOMAIN s, s[k] # Head(s)
               PROVE  \E j \in DOMAIN r : r[j] = s[k]
    BY DEF In
  <2>1. k - 1 \in 1 .. Len(r)
    BY <1>1
  <2> QED BY <1>1, <2>1
<1>4. Once(r)
  <2> SUFFICES ASSUME NEW i \in DOMAIN r, NEW j \in DOMAIN r, r[i] = r[j]  PROVE  i = j
    BY DEF Once
  <2>1. /\ i + 1 \in DOMAIN s /\ j + 1 \in DOMAIN s
        /\ s[i + 1] = s[j + 1] /\ i \in Int /\ j \in Int
    BY <1>1
  <2>2. i + 1 = j + 1
    BY <2>1 DEF Once
  <2> QED BY <2>1, <2>2
<1>5. Head(s) \in In(s)
  BY <1>1 DEF In
<1> QED BY <1>1, <1>2, <1>3, <1>4, <1>5 DEF r

-----------------------------------------------------------------------------
(***************************************************************************)
(* SharingInv.                                                             *)
(***************************************************************************)
LEMMA InitSharing == Init => SharingInv
<1> SUFFICES ASSUME Init  PROVE SharingInv
  OBVIOUS
<1>0. /\ data = [d \in Datas |-> NoData]
      /\ space = [s \in Spaces |-> [units |-> NoUnits, status |-> "clean", calls |-> 0]]
      /\ task = [t \in Tasks |-> [state |-> "new"]]
      /\ queue = <<>> /\ ring = <<>> /\ batch = <<>> /\ sets = 0
  BY DEF Init
<1>1. /\ kernel \in [Kernels -> KernelType]
      /\ \A k \in Kernels : kernel[k].last = 0
      /\ OwnInv
  <2>1. PICK n \in Counts, v \in Values, owned \in SUBSET Spaces :
         kernel = [k \in Kernels |->
           [NewKernel EXCEPT
              !.count = n, !.dirty = {"arg"}, !.argDirty = {"arg"},
              !.val = [f \in Fields |-> IF f = "arg" \/ (f = "targ" /\ k \notin Grouped)
                                        THEN v ELSE None],
              !.own = IF k \notin Grouped /\ \E s \in owned : Serves[s] = k
                      THEN CHOOSE s \in owned : Serves[s] = k ELSE NoSpace]]
    BY DEF Init
  <2>2. ASSUME NEW k \in Kernels
        PROVE  /\ kernel[k] \in KernelType /\ kernel[k].last = 0
               /\ kernel[k].own # NoSpace => k \notin Grouped /\ Serves[kernel[k].own] = k
    <3> DEFINE own == IF k \notin Grouped /\ \E s \in owned : Serves[s] = k
                      THEN CHOOSE s \in owned : Serves[s] = k ELSE NoSpace
               val == [f \in Fields |-> IF f = "arg" \/ (f = "targ" /\ k \notin Grouped)
                                        THEN v ELSE None]
    <3>1. /\ own \in Spaces \cup {NoSpace}
          /\ own # NoSpace => k \notin Grouped /\ Serves[own] = k
      OBVIOUS
    <3>2. val \in Arguments
      BY DEF Arguments
    <3>3. kernel[k] = [count |-> n, val |-> val, dirty |-> {"arg"},
                       argDirty |-> {"arg"}, own |-> own, last |-> 0, id |-> 0,
                       used |-> None]
      BY <2>1 DEF NewKernel
    <3> HIDE DEF own, val
    <3> QED BY <3>1, <3>2, <3>3 DEF KernelType, Fields
  <2> QED BY <2>1, <2>2 DEF OwnInv
<1>2. /\ data \in [Datas -> {NoData} \cup DataType]
      /\ task \in [Tasks -> {[state |-> "new"]} \cup TaskType]
      /\ queue \in Seq(Tasks) /\ ring \in Seq(Tasks) /\ sets \in Nat
      /\ DOMAIN batch = {}
  BY <1>0, EmptySeq
<1>7. space \in [Spaces -> SpaceType]
  BY <1>0 DEF SpaceType, Placings
<1>3. TypeOK
  BY <1>1, <1>2, <1>7 DEF TypeOK
<1>4. LinesInv
  BY <1>0, EmptySeq DEF LinesInv, In, Once
<1>5. LastInv
  BY <1>1 DEF LastInv
<1>6. DataReferences
  <2>1. ASSUME NEW d \in Datas
        PROVE  data[d].ref = 0 /\ Holders(d) = {} /\ Owners(d) = {}
    BY <1>0, <1>1, DatasFacts DEF Holders, Owners, NoData
  <2> QED BY <2>1, FS_EmptySet DEF DataReferences
<1> QED BY <1>1, <1>3, <1>4, <1>5, <1>6 DEF SharingInv

\* A step of the caller before the Enqueue counts nothing.
LEMMA QuietSharing ==
  ASSUME SharingInv, UNCHANGED <<data, task, queue, ring>>,
         \A k \in Kernels : kernel'[k].last = kernel[k].last,
         TypeOK', OwnInv'
  PROVE  SharingInv'
<1>1. LinesInv' /\ LastInv'
  BY DEF SharingInv, LinesInv, LastInv, In, Once
<1>2. ASSUME NEW d \in Datas
      PROVE  /\ Holders(d)' = Holders(d) /\ Owners(d)' = Owners(d)
             /\ QueuedWith(d)' = QueuedWith(d)
  BY DEF Holders, Owners, QueuedWith
<1>3. DataReferences'
  BY <1>2 DEF DataReferences, SharingInv
<1> QED BY <1>1, <1>3 DEF SharingInv

LEMMA SetThreadCountSharing ==
  ASSUME SharingInv, NEW k \in Kernels, NEW n \in Counts, SetThreadCount(k, n)
  PROVE  SharingInv'
<1>1. /\ kernel[k] \in KernelType /\ kernel \in [Kernels -> KernelType]
      /\ kernel' = [kernel EXCEPT ![k] =
           [Reset(k) EXCEPT !.count = n, !.dirty = kernel[k].dirty \cup {"count"}]]
      /\ UNCHANGED <<data, space, task, queue, ring, batch>>
      /\ sets' = sets + 1
  BY DEF SharingInv, TypeOK, SetThreadCount, Setting
<1>2. /\ Reset(k) \in KernelType /\ Reset(k).last = kernel[k].last
      /\ Reset(k).own = NoSpace
  BY <1>1 DEF Reset, KernelType, Arguments
<1>3. kernel' \in [Kernels -> KernelType]
  BY <1>1, <1>2 DEF KernelType
<1>4. \A j \in Kernels : kernel'[j].last = kernel[j].last
                         /\ kernel'[j].own \in {kernel[j].own, NoSpace}
  BY <1>1, <1>2 DEF KernelType
<1>5. OwnInv'
  BY <1>4 DEF SharingInv, OwnInv
<1>6. TypeOK'
  BY <1>1, <1>3 DEF SharingInv, TypeOK
<1> QED BY <1>1, <1>4, <1>5, <1>6, QuietSharing

LEMMA SetArgSharing ==
  ASSUME SharingInv, NEW k \in Kernels, NEW f \in Fields, NEW v \in Values,
         SetArg(k, f, v)
  PROVE  SharingInv'
<1>1. /\ kernel[k] \in KernelType /\ kernel \in [Kernels -> KernelType]
      /\ kernel' = [kernel EXCEPT ![k] = Stored(k, f, v)]
      /\ UNCHANGED <<data, space, task, queue, ring, batch>>
      /\ sets' = sets + 1
  BY DEF SharingInv, TypeOK, SetArg, Setting
<1>2. /\ Stored(k, f, v) \in KernelType
      /\ Stored(k, f, v).last = kernel[k].last
      /\ Stored(k, f, v).own = kernel[k].own
  BY <1>1 DEF Stored, KernelType, Arguments, Fields
<1>3. TypeOK'
  BY <1>1, <1>2 DEF SharingInv, TypeOK
<1>4. \A j \in Kernels : kernel'[j].last = kernel[j].last
                         /\ kernel'[j].own = kernel[j].own
  BY <1>1, <1>2
<1>5. OwnInv'
  BY <1>4 DEF SharingInv, OwnInv
<1> QED BY <1>1, <1>3, <1>4, <1>5, QuietSharing

LEMMA AssociateThreadSpaceSharing ==
  ASSUME SharingInv, NEW k \in Kernels, NEW s \in Spaces, AssociateThreadSpace(k, s)
  PROVE  SharingInv'
<1>1. /\ kernel[k] \in KernelType /\ kernel \in [Kernels -> KernelType]
      /\ kernel' = [kernel EXCEPT ![k].own = s]
      /\ space \in [Spaces -> SpaceType] /\ space[s] \in SpaceType
      /\ space' = space \/ space' = [space EXCEPT ![s].status = "data"]
      /\ UNCHANGED <<data, task, queue, ring, batch>>
      /\ sets' = sets + 1 /\ Serves[s] = k /\ k \notin Grouped
  BY DEF SharingInv, TypeOK, AssociateThreadSpace, Setting
<1>2. kernel' \in [Kernels -> KernelType] /\ space' \in [Spaces -> SpaceType]
  <2>1. [kernel[k] EXCEPT !.own = s] \in KernelType
    BY <1>1 DEF KernelType
  <2>2. [space[s] EXCEPT !.status = "data"] \in SpaceType
    BY <1>1 DEF SpaceType
  <2>3. kernel' = [kernel EXCEPT ![k] = [kernel[k] EXCEPT !.own = s]]
    BY <1>1
  <2>4. kernel' \in [Kernels -> KernelType]
    BY ONLY <1>1, <2>1, <2>3
  <2>5. space' = space \/ space' = [space EXCEPT ![s] = [space[s] EXCEPT !.status = "data"]]
    BY <1>1
  <2>6. space' \in [Spaces -> SpaceType]
    BY ONLY <1>1, <2>2, <2>5
  <2> QED BY <2>4, <2>6
<1>3. TypeOK'
  BY <1>1, <1>2 DEF SharingInv, TypeOK
<1>4. \A j \in Kernels : kernel'[j].last = kernel[j].last
                         /\ kernel'[j].own = IF j = k THEN s ELSE kernel[j].own
  BY <1>1 DEF KernelType
<1>5. OwnInv'
  BY <1>1, <1>4 DEF SharingInv, OwnInv
<1> QED BY <1>1, <1>3, <1>4, <1>5, QuietSharing

LEMMA AssociateThreadsSharing ==
  ASSUME SharingInv, NEW s \in Spaces, NEW us \in SUBSET Units, NEW tids \in ThreadIds,
         AssociateThreads(s, us, tids)
  PROVE  SharingInv'
<1> DEFINE units == IF space[s].units = NoUnits THEN FreshUnits ELSE space[s].units
           after == [u \in Units |-> IF u \in us THEN tids[u] ELSE units[u]]
<1>1. /\ space \in [Spaces -> SpaceType] /\ space[s] \in SpaceType
      /\ space' = [space EXCEPT ![s] =
           [units |-> after, status |-> LastStatus(units, us, tids), calls |-> 1]]
      /\ UNCHANGED <<kernel, data, task, queue, ring, batch>>
      /\ sets' = sets + 1
  BY DEF SharingInv, TypeOK, AssociateThreads, Setting
<1>2. units \in [Units -> {0} \cup Units]
  BY <1>1 DEF SpaceType, Placings, FreshUnits
<1>3. tids \in [Units -> Units]
  BY CmKernelDataAssumption
<1>4. after \in Placings
  BY <1>2, <1>3 DEF Placings
<1>5. LastStatus(units, us, tids) \in {"clean", "mask", "data"}
  BY DEF LastStatus
<1> HIDE DEF units, after
<1>6. space' \in [Spaces -> SpaceType]
  BY <1>1, <1>4, <1>5 DEF SpaceType
<1>7. TypeOK'
  BY <1>1, <1>6 DEF SharingInv, TypeOK
<1>8. OwnInv'
  BY <1>1 DEF SharingInv, OwnInv
<1> QED BY <1>1, <1>7, <1>8, QuietSharing

LEMMA EvictSharing ==
  ASSUME SharingInv, NEW x \in DOMAIN batch, Evict(x)
  PROVE  SharingInv'
<1>1. /\ batch' = [y \in DOMAIN batch \ {x} |-> batch[y]]
      /\ UNCHANGED <<kernel, data, space, task, queue, ring, sets>>
      /\ DOMAIN batch \subseteq Kernels \X Nat /\ batch \in [DOMAIN batch -> BatchType]
  BY DEF Evict, SharingInv, TypeOK
<1>2. DOMAIN batch' \subseteq Kernels \X Nat /\ batch' \in [DOMAIN batch' -> BatchType]
  BY <1>1
<1>3. TypeOK' /\ OwnInv'
  BY <1>1, <1>2 DEF SharingInv, TypeOK, OwnInv
<1> QED BY <1>1, <1>3, QuietSharing

LEMMA StutterSharing ==
  ASSUME SharingInv, UNCHANGED vars
  PROVE  SharingInv'
<1>1. TypeOK' /\ OwnInv'
  BY DEF SharingInv, TypeOK, OwnInv, vars
<1> QED BY <1>1, QuietSharing DEF vars

\* The counts of data are those of its holders.
LEMMA Counted ==
  ASSUME SharingInv, NEW d \in Datas
  PROVE  /\ IsFiniteSet(Holders(d)) /\ IsFiniteSet(Owners(d)) /\ IsFiniteSet(QueuedWith(d))
         /\ Cardinality(Holders(d)) \in Nat /\ Cardinality(Owners(d)) \in Nat
         /\ Cardinality(QueuedWith(d)) \in Nat
         /\ QueuedWith(d) \subseteq Holders(d)
         /\ data[d] \in {NoData} \cup DataType
         /\ data[d].ref \in Nat /\ (data[d].ref = 0 <=> data[d] = NoData)
         /\ data[d].ref # 0 => data[d] \in DataType
         /\ (data[d].ref = 0 <=> Holders(d) = {} /\ Owners(d) = {})
<1>1. /\ Holders(d) \subseteq Tasks /\ Owners(d) \subseteq Kernels
      /\ QueuedWith(d) \subseteq Tasks /\ QueuedWith(d) \subseteq Holders(d)
  BY DEF Holders, Owners, QueuedWith
<1>2. /\ IsFiniteSet(Holders(d)) /\ IsFiniteSet(Owners(d)) /\ IsFiniteSet(QueuedWith(d))
      /\ Cardinality(Holders(d)) \in Nat /\ Cardinality(Owners(d)) \in Nat
      /\ Cardinality(QueuedWith(d)) \in Nat
  BY <1>1, CmKernelDataAssumption, FS_Subset, FS_CardinalityType
<1>3. /\ data[d] \in {NoData} \cup DataType
      /\ data[d].ref = Cardinality(Holders(d)) + Cardinality(Owners(d))
  BY DEF SharingInv, TypeOK, DataReferences
<1>4. data[d].ref \in Nat /\ (data[d].ref = 0 <=> data[d] = NoData)
  BY <1>3 DEF NoData, DataType
<1>5. /\ Cardinality(Holders(d)) = 0 <=> Holders(d) = {}
      /\ Cardinality(Owners(d)) = 0 <=> Owners(d) = {}
  BY <1>2, FS_EmptySet
<1>6. data[d].ref = 0 <=> Holders(d) = {} /\ Owners(d) = {}
  BY <1>2, <1>3, <1>5
<1> QED BY <1>1, <1>2, <1>3, <1>4, <1>6

\* What a flush leaves, of the data but for the kernel that is not held any more.
SameBut(a, c) ==
    /\ a \in DataType /\ c \in DataType
    /\ a.ref = c.ref /\ a.count = c.count /\ a.val = c.val /\ a.order = c.order
    /\ a.tids = c.tids /\ a.bb = c.bb /\ a.id = c.id

LEMMA KernelLet ==
  ASSUME NEW r \in DataType, NEW n \in Nat, NEW c, c = [r EXCEPT !.kref = n, !.inUse = FALSE]
  PROVE  SameBut(c, r) /\ c.kref = n /\ ~c.inUse
<1>1. c \in DataType
  BY DEF DataType
<1>2. c.kref = n /\ c.inUse = FALSE
  BY DEF DataType
<1> QED BY <1>1, <1>2 DEF SameBut, DataType

LEMMA MoreUsers ==
  ASSUME NEW r \in BatchType, NEW t \in Tasks, NEW b, b = [r EXCEPT !.users = @ \cup {t}]
  PROVE  b \in BatchType
  BY DEF BatchType

LEMMA TaskTyped ==
  ASSUME SharingInv, NEW t \in Tasks, task[t].state # "new"
  PROVE  /\ task[t] \in TaskType /\ task[t].data \in Datas /\ task[t].kernel \in Kernels
         /\ task[t].wanted \in Runs /\ task[t].units \in Placings
         /\ task[t].ran \subseteq Runs /\ task[t].updates \subseteq Tasks
<1>1. task[t] \in TaskType
  BY DEF SharingInv, TypeOK
<1> QED BY <1>1 DEF TaskType

LEMMA FlushedTask ==
  ASSUME SharingInv, Flush, NEW t, t = Head(queue)
  PROVE  /\ t \in Tasks /\ t \in In(queue) /\ task[t].state = "queued"
         /\ task[t].data \in Datas
         /\ data[task[t].data] \in DataType /\ data[task[t].data].ref # 0
         /\ data[task[t].data].kref = Cardinality(QueuedWith(task[t].data))
         /\ data[task[t].data].kref \in Nat \ {0}
<1>1. queue \in Seq(Tasks) /\ queue # <<>> /\ Once(queue)
  BY DEF SharingInv, TypeOK, LinesInv, Flush
<1>2. t \in Tasks /\ t \in In(queue)
  BY <1>1, TailLine
<1>3. task[t].state = "queued"
  BY <1>2 DEF SharingInv, LinesInv
<1>4. task[t].data \in Datas
  BY <1>2, <1>3, TaskTyped
<1>5. t \in QueuedWith(task[t].data) /\ t \in Holders(task[t].data)
  BY <1>2, <1>3 DEF QueuedWith, Holders
<1>6. data[task[t].data].ref # 0 /\ data[task[t].data] \in DataType
  BY <1>4, <1>5, Counted
<1>7. data[task[t].data].kref = Cardinality(QueuedWith(task[t].data))
  BY <1>4, <1>6 DEF SharingInv, DataReferences
<1>8. Cardinality(QueuedWith(task[t].data)) \in Nat \ {0}
  BY <1>4, <1>5, Counted, FS_EmptySet
<1> QED BY <1>2, <1>3, <1>4, <1>6, <1>7, <1>8

LEMMA FlushedBatch ==
  ASSUME SharingInv, Flush, NEW t, t = Head(queue),
         NEW b, b = Batch(t)
  PROVE  b \in BatchType /\ Key(t) \in Kernels \X Nat /\ Ran(t, b) \subseteq Runs
<1>1. /\ t \in Tasks /\ task[t].state = "queued" /\ data[task[t].data] \in DataType
      /\ task[t].kernel \in Kernels /\ task[t].units \in Placings
  BY FlushedTask, TaskTyped
<1>2. Key(t) \in Kernels \X Nat
  BY <1>1 DEF Key, DataType
<1>3. ASSUME Reuses(t)  PROVE b \in BatchType
  <2>1. b = Refreshed(t) /\ Key(t) \in DOMAIN batch
    BY <1>3 DEF Reuses, Batch
  <2>2. batch[Key(t)] \in BatchType
    BY <2>1 DEF SharingInv, TypeOK
  <2>3. PICK r \in BatchType : r = batch[Key(t)]
    BY <2>2
  <2>4. b = [r EXCEPT !.users = @ \cup {t}]
    BY <2>1, <2>3 DEF Refreshed
  <2> QED BY <1>1, <2>4, MoreUsers
<1>4. ASSUME ~Reuses(t)  PROVE b \in BatchType
  <2>1. b = Generated(t)
    BY <1>4 DEF Batch
  <2>2. data[task[t].data].val["targ"] \in Values \cup {None}
    BY <1>1 DEF DataType, Arguments, Fields
  <2>3. PICK r \in DataType : r = data[task[t].data]
    BY <1>1
  <2>4. PICK p \in Placings : p = IF task[t].units # NoUnits THEN task[t].units ELSE r.tids
    BY <1>1 DEF DataType
  <2>5. b = [targ |-> r.val["targ"], order |-> r.order, count |-> r.count,
             users |-> {t}, tids |-> p]
    BY <2>1, <2>3, <2>4 DEF Generated
  <2>6. r.order \in Placings /\ r.count \in Counts /\ r.val["targ"] \in Values \cup {None}
    BY <2>2, <2>3 DEF DataType
  <2>7. {t} \in SUBSET Tasks
    BY <1>1
  <2> QED BY ONLY <2>5, <2>6, <2>7, p \in Placings DEF BatchType
<1>5. b \in BatchType
  BY <1>3, <1>4
<1>6. Ran(t, b) \subseteq Runs
  BY <1>1, <1>5 DEF Ran, Runs, DataType, BatchType, Arguments
<1> QED BY <1>2, <1>5, <1>6

LEMMA FlushSteps ==
  ASSUME SharingInv, Flush, NEW t, t = Head(queue)
  PROVE  /\ SameBut(data'[task[t].data], data[task[t].data])
         /\ data'[task[t].data].kref = data[task[t].data].kref - 1 /\ ~data'[task[t].data].inUse
         /\ \A e \in Datas : e # task[t].data => data'[e] = data[e]
         /\ task'[t] \in TaskType /\ task'[t].state = "flushed"
         /\ task'[t].ran = Ran(t, Batch(t)) /\ task'[t].data = task[t].data
         /\ task'[t].kernel = task[t].kernel /\ task'[t].wanted = task[t].wanted
         /\ task'[t].updates = task[t].updates
         /\ \A u \in Tasks : u # t => task'[u] = task[u]
         /\ task[t].kernel \in Grouped => batch' = batch
         /\ task[t].kernel \notin Grouped =>
              /\ DOMAIN batch' = DOMAIN batch \cup {Key(t)} /\ batch'[Key(t)] = Batch(t)
              /\ \A x \in DOMAIN batch : x # Key(t) => batch'[x] = batch[x]
         /\ queue' = Tail(queue) /\ ring' = Append(ring, t)
         /\ UNCHANGED <<kernel, space, sets>>
         /\ TypeOK'
<1>0. PICK d : d = task[t].data
  OBVIOUS
<1>00. PICK b : b = Batch(t)
  OBVIOUS
<1>1. /\ t \in Tasks /\ task[t].state = "queued" /\ d \in Datas /\ data[d] \in DataType
      /\ data[d].kref \in Nat \ {0} /\ task[t] \in TaskType
  BY <1>0, FlushedTask, TaskTyped
<1>2. b \in BatchType /\ Key(t) \in Kernels \X Nat /\ Ran(t, b) \subseteq Runs
  BY <1>00, FlushedBatch
<1>3. /\ batch' = IF task[t].kernel \in Grouped THEN batch
                  ELSE [x \in DOMAIN batch \cup {Key(t)} |->
                           IF x = Key(t) THEN b ELSE batch[x]]
      /\ task' = [task EXCEPT ![t].state = "flushed", ![t].ran = Ran(t, b)]
      /\ data' = KernelReleased(d) /\ ring' = Append(ring, t)
      /\ queue' = Tail(queue) /\ UNCHANGED <<kernel, space, sets>>
  BY <1>0, <1>00 DEF Flush
<1>4. data \in [Datas -> {NoData} \cup DataType]
  BY DEF SharingInv, TypeOK
<1>5. data' = [data EXCEPT ![d] = [data[d] EXCEPT !.kref = @ - 1, !.inUse = FALSE]]
  BY <1>1, <1>3 DEF KernelReleased
<1>6. /\ data'[d] = [data[d] EXCEPT !.kref = @ - 1, !.inUse = FALSE]
      /\ \A e \in Datas : e # d => data'[e] = data[e]
      /\ DOMAIN data' = Datas /\ data' = [e \in Datas |-> data'[e]]
  BY <1>1, <1>4, <1>5
<1>7. /\ data'[d] \in DataType /\ SameBut(data'[d], data[d])
      /\ data'[d].kref = data[d].kref - 1 /\ ~data'[d].inUse
  <2>1. PICK r \in DataType : r = data[d]
    BY <1>1
  <2>2. PICK n \in Nat : n = r.kref - 1
    BY <1>1, <2>1
  <2>3. data'[d] = [r EXCEPT !.kref = n, !.inUse = FALSE]
    BY <1>6, <2>1, <2>2
  <2>4. SameBut(data'[d], r) /\ data'[d].kref = n /\ ~data'[d].inUse
    BY <2>3, KernelLet
  <2>5. data'[d] \in DataType
    BY <2>4 DEF SameBut
  <2> QED BY <2>1, <2>2, <2>4, <2>5
<1>8. data' \in [Datas -> {NoData} \cup DataType]
  BY <1>4, <1>6, <1>7
<1>9. task \in [Tasks -> {[state |-> "new"]} \cup TaskType]
  BY DEF SharingInv, TypeOK
<1>10. /\ task'[t] = [task[t] EXCEPT !.state = "flushed", !.ran = Ran(t, b)]
       /\ \A u \in Tasks : u # t => task'[u] = task[u]
       /\ task' = [u \in Tasks |-> task'[u]]
  BY <1>1, <1>3, <1>9
<1>11. /\ task'[t] \in TaskType /\ task'[t].state = "flushed"
       /\ task'[t].ran = Ran(t, b) /\ task'[t].data = d
       /\ task'[t].kernel = task[t].kernel /\ task'[t].wanted = task[t].wanted
       /\ task'[t].updates = task[t].updates
  BY <1>0, <1>1, <1>2, <1>10 DEF TaskType
<1>12. task' \in [Tasks -> {[state |-> "new"]} \cup TaskType]
  BY <1>9, <1>10, <1>11
<1>13. queue' \in Seq(Tasks) /\ ring' \in Seq(Tasks)
  <2>1. queue \in Seq(Tasks) /\ ring \in Seq(Tasks) /\ queue # <<>>
    BY DEF SharingInv, TypeOK, Flush
  <2> QED BY <1>1, <1>3, <2>1, AppendProperties, HeadTailProperties
<1>14. DOMAIN batch' \subseteq Kernels \X Nat /\ batch' \in [DOMAIN batch' -> BatchType]
  BY <1>2, <1>3 DEF SharingInv, TypeOK
<1>15. TypeOK'
  BY <1>3, <1>8, <1>12, <1>13, <1>14 DEF SharingInv, TypeOK
<1>16. /\ task[t].kernel \in Grouped => batch' = batch
       /\ task[t].kernel \notin Grouped =>
            /\ DOMAIN batch' = DOMAIN batch \cup {Key(t)} /\ batch'[Key(t)] = b
            /\ \A x \in DOMAIN batch : x # Key(t) => batch'[x] = batch[x]
  BY <1>3
<1>17. /\ SameBut(data'[task[t].data], data[task[t].data])
       /\ data'[task[t].data].kref = data[task[t].data].kref - 1
       /\ ~data'[task[t].data].inUse
       /\ \A e \in Datas : e # task[t].data => data'[e] = data[e]
  BY <1>0, <1>6, <1>7
<1>18. /\ task'[t] \in TaskType /\ task'[t].state = "flushed"
       /\ task'[t].ran = Ran(t, Batch(t)) /\ task'[t].data = task[t].data
       /\ task'[t].kernel = task[t].kernel /\ task'[t].wanted = task[t].wanted
       /\ task'[t].updates = task[t].updates
       /\ \A u \in Tasks : u # t => task'[u] = task[u]
  BY <1>0, <1>00, <1>10, <1>11
<1>19. task[t].kernel \notin Grouped =>
         /\ DOMAIN batch' = DOMAIN batch \cup {Key(t)} /\ batch'[Key(t)] = Batch(t)
         /\ \A x \in DOMAIN batch : x # Key(t) => batch'[x] = batch[x]
  BY <1>00, <1>16
<1> QED BY <1>3, <1>15, <1>16, <1>17, <1>18, <1>19

LEMMA FlushSharing ==
  ASSUME SharingInv, Flush
  PROVE  SharingInv'
<1>0. PICK t \in Tasks : t = Head(queue)
  BY FlushedTask
<1>1. PICK d \in Datas : d = task[t].data
  BY <1>0, FlushedTask
<1>2. PICK b \in BatchType : b = Batch(t)
  BY <1>0, FlushedBatch
<1>3. /\ SameBut(data'[d], data[d]) /\ data'[d].kref = data[d].kref - 1
      /\ \A e \in Datas : e # d => data'[e] = data[e]
      /\ task'[t].state = "flushed" /\ task'[t].data = d
      /\ \A u \in Tasks : u # t => task'[u] = task[u]
      /\ queue' = Tail(queue) /\ ring' = Append(ring, t)
      /\ UNCHANGED <<kernel, space, sets>> /\ TypeOK'
  BY <1>0, <1>1, FlushSteps
<1>4. /\ t \in In(queue) /\ task[t].state = "queued"
      /\ data[d].kref = Cardinality(QueuedWith(d)) /\ data[d].ref # 0
  BY <1>0, <1>1, FlushedTask
<1>5. LinesInv'
  <2>1. /\ queue \in Seq(Tasks) /\ ring \in Seq(Tasks) /\ queue # <<>>
        /\ Once(queue) /\ Once(ring)
        /\ \A u \in In(queue) : task[u].state = "queued"
        /\ \A u \in In(ring) : task[u].state = "flushed"
    BY DEF SharingInv, TypeOK, LinesInv, Flush
  <2>2. t \notin In(ring)
    BY <1>4, <2>1
  <2>3. Once(queue') /\ In(queue') = In(queue) \ {t} /\ queue' \in Seq(Tasks)
    BY <1>0, <1>3, <2>1, TailLine
  <2>4. Once(ring') /\ In(ring') = In(ring) \cup {t} /\ ring' \in Seq(Tasks)
    BY <1>3, <2>1, <2>2, AppendLine
  <2>5. In(queue) \subseteq Tasks /\ In(ring) \subseteq Tasks
    BY <2>1, ElementOfSeq, LenProperties DEF In
  <2>6. \A u \in In(queue') : task'[u].state = "queued"
    BY <1>3, <2>1, <2>3, <2>5
  <2>7. \A u \in In(ring') : task'[u].state = "flushed"
    BY <1>3, <2>1, <2>4, <2>5
  <2> QED BY <2>3, <2>4, <2>6, <2>7 DEF LinesInv, In, Once
<1>6. LastInv' /\ OwnInv'
  BY <1>3 DEF SharingInv, LastInv, OwnInv
<1>7. DataReferences'
  <2>1. ASSUME NEW e \in Datas
        PROVE  /\ Holders(e)' = Holders(e) /\ Owners(e)' = Owners(e)
               /\ QueuedWith(e)' = QueuedWith(e) \ {t}
    BY <1>1, <1>3, <1>4 DEF Holders, Owners, QueuedWith
  <2>2. t \in QueuedWith(d) /\ \A e \in Datas : e # d => t \notin QueuedWith(e)
    BY <1>1, <1>4 DEF QueuedWith
  <2>3. Cardinality(QueuedWith(d) \ {t}) = Cardinality(QueuedWith(d)) - 1
    BY <2>2, Counted, FS_RemoveElement
  <2>4. ASSUME NEW e \in Datas, e # d
        PROVE  QueuedWith(e)' = QueuedWith(e) /\ data'[e] = data[e]
    BY <1>3, <2>1, <2>2, <2>4
  <2>5. ASSUME NEW e \in Datas
        PROVE  data'[e].ref = Cardinality(Holders(e)') + Cardinality(Owners(e)')
    BY <1>3, <2>1, <2>4 DEF SharingInv, DataReferences, SameBut
  <2>6. ASSUME NEW e \in Datas, data'[e].ref # 0
        PROVE  data'[e].kref = Cardinality(QueuedWith(e)')
    <3>1. CASE e = d
      BY <1>3, <1>4, <2>1, <2>3, <3>1
    <3>2. CASE e # d
      BY <2>4, <2>6, <3>2 DEF SharingInv, DataReferences
    <3> QED BY <3>1, <3>2
  <2> QED BY <2>5, <2>6 DEF DataReferences
<1> QED BY <1>3, <1>5, <1>6, <1>7 DEF SharingInv

\* One reference less, and no data without a reference.
Less(a, c) ==
    /\ a.ref = c.ref - 1
    /\ a.ref # 0 =>
         /\ a.kref = c.kref /\ a.inUse = c.inUse /\ a.count = c.count /\ a.val = c.val
         /\ a.order = c.order /\ a.tids = c.tids /\ a.bb = c.bb /\ a.id = c.id

LEMMA ReleasedData ==
  ASSUME SharingInv, NEW d \in Datas, data[d].ref # 0, NEW r, r = Released(d)
  PROVE  /\ r \in [Datas -> {NoData} \cup DataType]
         /\ \A e \in Datas : e # d => r[e] = data[e]
         /\ Less(r[d], data[d])
<1>1. data \in [Datas -> {NoData} \cup DataType] /\ data[d] \in DataType
  BY Counted DEF SharingInv, TypeOK
<1>2. PICK o \in DataType : o = data[d]
  BY <1>1
<1>3. PICK n \in Nat : n = o.ref - 1
  BY DEF DataType
<1>4. r = [data EXCEPT ![d] = IF o.ref = 1 THEN NoData ELSE [o EXCEPT !.ref = @ - 1]]
  BY <1>2 DEF Released
<1>5. CASE o.ref = 1
  <2>1. r[d] = NoData /\ n = 0 /\ NoData.ref = 0
    BY <1>1, <1>3, <1>4, <1>5 DEF NoData
  <2>2. \A e \in Datas : e # d => r[e] = data[e]
    BY <1>1, <1>4
  <2>3. r \in [Datas -> {NoData} \cup DataType]
    BY <1>1, <1>4, <1>5
  <2> QED BY <1>2, <1>3, <2>1, <2>2, <2>3 DEF Less
<1>6. CASE o.ref # 1
  <2>1. n # 0 /\ n \in Nat \ {0}
    BY <1>3, <1>6 DEF DataType
  <2>2. PICK c : c = [o EXCEPT !.ref = n]
    OBVIOUS
  <2>3. [o EXCEPT !.ref = @ - 1] = c
    BY <1>3, <2>2
  <2>4. r = [data EXCEPT ![d] = c]
    BY <1>4, <1>6, <2>3
  <2>5. /\ c \in DataType /\ c.ref = n
        /\ c.kref = o.kref /\ c.inUse = o.inUse /\ c.count = o.count /\ c.val = o.val
        /\ c.order = o.order /\ c.tids = o.tids /\ c.bb = o.bb /\ c.id = o.id
    BY ONLY <2>1, <2>2, o \in DataType DEF DataType
  <2>6. r[d] = c /\ \A e \in Datas : e # d => r[e] = data[e]
    BY <1>1, <2>4
  <2>7. r \in [Datas -> {NoData} \cup DataType]
    BY <1>1, <2>4, <2>5
  <2> QED BY <1>2, <1>3, <2>5, <2>6, <2>7 DEF Less
<1> QED BY <1>5, <1>6

LEMMA FinishSteps ==
  ASSUME SharingInv, Finish, NEW t, t = Head(ring)
  PROVE  /\ t \in Tasks /\ t \in In(ring) /\ task[t].state = "flushed"
         /\ task[t].data \in Datas /\ data[task[t].data].ref # 0
         /\ task'[t] \in TaskType /\ task'[t].state = "done"
         /\ task'[t].data = task[t].data /\ task'[t].ran = task[t].ran
         /\ task'[t].wanted = task[t].wanted /\ task'[t].updates = task[t].updates
         /\ task'[t].kernel = task[t].kernel
         /\ \A u \in Tasks : u # t => task'[u] = task[u]
         /\ data' = Released(task[t].data) /\ ring' = Tail(ring)
         /\ UNCHANGED <<kernel, space, queue, batch, sets>>
         /\ TypeOK'
<1>1. ring \in Seq(Tasks) /\ ring # <<>> /\ Once(ring)
  BY DEF SharingInv, TypeOK, LinesInv, Finish
<1>2. t \in Tasks /\ t \in In(ring) /\ Tail(ring) \in Seq(Tasks)
  BY <1>1, TailLine
<1>3. task[t].state = "flushed"
  BY <1>2 DEF SharingInv, LinesInv
<1>4. task[t] \in TaskType /\ task[t].data \in Datas
  BY <1>2, <1>3, TaskTyped
<1>5. t \in Holders(task[t].data)
  BY <1>2, <1>3 DEF Holders
<1>6. data[task[t].data].ref # 0
  BY <1>4, <1>5, Counted
<1>7. /\ task' = [task EXCEPT ![t].state = "done"]
      /\ data' = Released(task[t].data) /\ ring' = Tail(ring)
      /\ UNCHANGED <<kernel, space, queue, batch, sets>>
  BY DEF Finish
<1>8. task \in [Tasks -> {[state |-> "new"]} \cup TaskType]
  BY DEF SharingInv, TypeOK
<1>9. /\ task'[t] = [task[t] EXCEPT !.state = "done"]
      /\ \A u \in Tasks : u # t => task'[u] = task[u]
      /\ task' = [u \in Tasks |-> task'[u]]
  BY <1>2, <1>7, <1>8
<1>10. /\ task'[t] \in TaskType /\ task'[t].state = "done"
       /\ task'[t].data = task[t].data /\ task'[t].ran = task[t].ran
       /\ task'[t].wanted = task[t].wanted /\ task'[t].updates = task[t].updates
       /\ task'[t].kernel = task[t].kernel
  BY <1>4, <1>9 DEF TaskType
<1>11. task' \in [Tasks -> {[state |-> "new"]} \cup TaskType]
  BY <1>8, <1>9, <1>10
<1>12. data' \in [Datas -> {NoData} \cup DataType]
  BY <1>4, <1>6, <1>7, ReleasedData
<1>13. TypeOK'
  BY <1>2, <1>7, <1>11, <1>12 DEF SharingInv, TypeOK
<1> QED BY <1>2, <1>3, <1>4, <1>6, <1>7, <1>9, <1>10, <1>13

LEMMA FinishSharing ==
  ASSUME SharingInv, Finish
  PROVE  SharingInv'
<1>0. PICK t : t = Head(ring)
  OBVIOUS
<1>1. PICK d \in Datas : d = task[t].data
  BY <1>0, FinishSteps
<1>2. /\ t \in Tasks /\ t \in In(ring) /\ task[t].state = "flushed" /\ data[d].ref # 0
      /\ task'[t].state = "done"
      /\ \A u \in Tasks : u # t => task'[u] = task[u]
      /\ data' = Released(d) /\ ring' = Tail(ring)
      /\ UNCHANGED <<kernel, queue>> /\ TypeOK'
  BY <1>0, <1>1, FinishSteps
<1>3. /\ \A e \in Datas : e # d => data'[e] = data[e]
      /\ data'[d].ref = data[d].ref - 1
      /\ data'[d].ref # 0 => data'[d].kref = data[d].kref
  BY <1>2, ReleasedData DEF Less
<1>4. LinesInv'
  <2>1. /\ queue \in Seq(Tasks) /\ ring \in Seq(Tasks) /\ ring # <<>>
        /\ Once(queue) /\ Once(ring)
        /\ \A u \in In(queue) : task[u].state = "queued"
        /\ \A u \in In(ring) : task[u].state = "flushed"
    BY DEF SharingInv, TypeOK, LinesInv, Finish
  <2>2. t \notin In(queue)
    BY <1>2, <2>1
  <2>3. Once(ring') /\ In(ring') = In(ring) \ {t} /\ ring' \in Seq(Tasks)
    BY <1>0, <1>2, <2>1, TailLine
  <2>4. In(queue) \subseteq Tasks /\ In(ring) \subseteq Tasks
    BY <2>1, ElementOfSeq, LenProperties DEF In
  <2>5. \A u \in In(queue) : task'[u].state = "queued"
    BY <1>2, <2>1, <2>2, <2>4
  <2>6. \A u \in In(ring') : task'[u].state = "flushed"
    BY <1>2, <2>1, <2>3, <2>4
  <2> QED BY <1>2, <2>1, <2>3, <2>5, <2>6 DEF LinesInv, In, Once
<1>5. LastInv' /\ OwnInv'
  BY <1>2 DEF SharingInv, LastInv, OwnInv
<1>6. DataReferences'
  <2>1. ASSUME NEW e \in Datas
        PROVE  /\ Holders(e)' = Holders(e) \ {t} /\ Owners(e)' = Owners(e)
               /\ QueuedWith(e)' = QueuedWith(e)
    BY <1>2 DEF Holders, Owners, QueuedWith
  <2>2. t \in Holders(d) /\ \A e \in Datas : e # d => t \notin Holders(e)
    BY <1>1, <1>2 DEF Holders
  <2>3. Cardinality(Holders(d) \ {t}) = Cardinality(Holders(d)) - 1
    BY <2>2, Counted, FS_RemoveElement
  <2>4. ASSUME NEW e \in Datas, e # d
        PROVE  Holders(e)' = Holders(e) /\ data'[e] = data[e]
    BY <1>3, <2>1, <2>2, <2>4
  <2>5. ASSUME NEW e \in Datas
        PROVE  data'[e].ref = Cardinality(Holders(e)') + Cardinality(Owners(e)')
    <3>1. CASE e = d
      <4>1. /\ data[d].ref = Cardinality(Holders(d)) + Cardinality(Owners(d))
            /\ Cardinality(Holders(d)) \in Nat /\ Cardinality(Owners(d)) \in Nat
        BY Counted DEF SharingInv, DataReferences
      <4>2. Holders(d)' = Holders(d) \ {t} /\ Owners(d)' = Owners(d)
        BY <2>1
      <4>3. data'[d].ref = Cardinality(Holders(d)') + Cardinality(Owners(d)')
        BY <1>3, <2>3, <4>1, <4>2
      <4> QED BY <3>1, <4>3
    <3>2. CASE e # d
      BY <2>1, <2>4, <3>2 DEF SharingInv, DataReferences
    <3> QED BY <3>1, <3>2
  <2>6. ASSUME NEW e \in Datas, data'[e].ref # 0
        PROVE  data'[e].kref = Cardinality(QueuedWith(e)')
    <3>1. CASE e = d
      BY <1>2, <1>3, <2>1, <2>6, <3>1 DEF SharingInv, DataReferences
    <3>2. CASE e # d
      BY <2>1, <2>4, <2>6, <3>2 DEF SharingInv, DataReferences
    <3> QED BY <3>1, <3>2
  <2> QED BY <2>5, <2>6 DEF DataReferences
<1> QED BY <1>2, <1>4, <1>5, <1>6 DEF SharingInv

-----------------------------------------------------------------------------
(***************************************************************************)
(* Enqueue.                                                                *)
(***************************************************************************)
\* There is free data as long as there is a task to hold it.
LEMMA FreedExists ==
  ASSUME SharingInv, NEW t \in Tasks, task[t].state = "new"
  PROVE  Min(Freed) \in Freed
<1> DEFINE S == {u \in Tasks : task[u].state \in {"queued", "flushed"}}
           f == [u \in S |-> task[u].data]
           g == [k \in Kernels |-> kernel[k].last]
           A == {f[u] : u \in S}
           B == {g[k] : k \in Kernels}
<1>1. Freed \subseteq Nat
  BY DatasFacts DEF Freed
<1>2. Freed # {}
  <2> SUFFICES ASSUME Freed = {}  PROVE FALSE
    OBVIOUS
  <2>1. \A d \in Datas : d \in A \cup B
    <3> TAKE d \in Datas
    <3>1. Holders(d) # {} \/ Owners(d) # {}
      BY Counted DEF Freed
    <3> QED BY <3>1 DEF Holders, Owners
  <2>2. S \subseteq Tasks \ {t}
    OBVIOUS
  <2>3. /\ IsFiniteSet(Tasks \ {t}) /\ Cardinality(Tasks \ {t}) = Cardinality(Tasks) - 1
        /\ Cardinality(Tasks) \in Nat /\ Cardinality(Kernels) \in Nat
    BY CmKernelDataAssumption, FS_RemoveElement, FS_CardinalityType
  <2>4. IsFiniteSet(S) /\ Cardinality(S) <= Cardinality(Tasks \ {t})
    BY <2>2, <2>3, FS_Subset
  <2>5. f \in [S -> A] /\ g \in [Kernels -> B]
    OBVIOUS
  <2> HIDE DEF f, g
  <2>6. IsFiniteSet(A) /\ Cardinality(A) <= Cardinality(S)
    BY <2>4, <2>5, ImageSize
  <2>7. IsFiniteSet(B) /\ Cardinality(B) <= Cardinality(Kernels)
    BY <2>5, CmKernelDataAssumption, ImageSize
  <2> HIDE DEF A, B, S
  <2>8. /\ IsFiniteSet(A \cup B)
        /\ Cardinality(A \cup B) = Cardinality(A) + Cardinality(B) - Cardinality(A \cap B)
        /\ Cardinality(A \cap B) \in Nat
    BY <2>6, <2>7, FS_Union, FS_Intersection, FS_CardinalityType
  <2>9. Cardinality(Datas) <= Cardinality(A \cup B)
    BY <2>1, <2>8, FS_Subset
  <2>10. /\ Cardinality(A) \in Nat /\ Cardinality(B) \in Nat /\ Cardinality(S) \in Nat
         /\ Cardinality(Datas) = Cardinality(Tasks) + Cardinality(Kernels)
    BY <2>4, <2>6, <2>7, DatasFacts, FS_CardinalityType
  <2> QED BY <2>3, <2>4, <2>6, <2>7, <2>8, <2>9, <2>10
<1> QED BY <1>1, <1>2, MinFacts

LEMMA ChoiceFacts ==
  ASSUME NEW k, NEW s
  PROVE  /\ Choice(k, s) \in {"create", "update", "reuse"}
         /\ kernel[k].last = 0 => Choice(k, s) = "create"
  BY DEF Choice, GroupChoice

LEMMA TidsTyped ==
  ASSUME SharingInv, NEW p \in Spaces \cup {NoSpace}
  PROVE  Tids(p) \in Placings
  BY DEF SharingInv, TypeOK, SpaceType, Placings, Tids, Associated

LEMMA HeldFacts ==
  ASSUME NEW o \in DataType, NEW c, c = Held(o)
  PROVE  /\ c \in DataType
         /\ c.ref = o.ref + 1 /\ c.kref = o.kref + 1 /\ c.inUse = TRUE
         /\ c.count = o.count /\ c.val = o.val /\ c.order = o.order /\ c.tids = o.tids
         /\ c.bb = o.bb /\ c.id = o.id
<1>1. PICK m \in Nat \ {0} : m = o.ref + 1
  BY DEF DataType
<1>2. PICK n \in Nat : n = o.kref + 1
  BY DEF DataType
<1>3. c = [o EXCEPT !.ref = m, !.kref = n, !.inUse = TRUE]
  BY <1>1, <1>2 DEF Held
<1>4. /\ c \in DataType
      /\ c.ref = m /\ c.kref = n /\ c.inUse = TRUE
      /\ c.count = o.count /\ c.val = o.val /\ c.order = o.order /\ c.tids = o.tids
      /\ c.bb = o.bb /\ c.id = o.id
  BY ONLY <1>3, o \in DataType, m \in Nat \ {0}, n \in Nat DEF DataType
<1> QED BY <1>1, <1>2, <1>4

LEMMA KernelTyped ==
  ASSUME SharingInv, NEW k \in Kernels
  PROVE  /\ kernel[k] \in KernelType
         /\ kernel[k].count \in Counts /\ kernel[k].val \in Arguments
         /\ kernel[k].dirty \subseteq Fields \cup {"count"}
         /\ kernel[k].argDirty \subseteq {"arg", "targ"}
         /\ kernel[k].own \in Spaces \cup {NoSpace}
         /\ kernel[k].last \in {0} \cup Datas /\ kernel[k].id \in Nat
         /\ kernel[k].used \in Spaces \cup {NoSpace, None}
<1>1. kernel[k] \in KernelType
  BY DEF SharingInv, TypeOK
<1> QED BY <1>1 DEF KernelType

LEMMA IdTyped ==
  ASSUME SharingInv, NEW k \in Kernels, NEW s
  PROVE  IdAfter(k, s) \in Nat
  BY KernelTyped DEF IdAfter

LEMMA CreatedTyped ==
  ASSUME SharingInv, NEW k \in Kernels, NEW s \in Spaces \cup {NoSpace}
  PROVE  /\ Created(k, s) \in DataType
         /\ Created(k, s).ref = 2 /\ Created(k, s).kref = 1 /\ Created(k, s).inUse = TRUE
         /\ Created(k, s).count = kernel[k].count /\ Created(k, s).val = kernel[k].val
         /\ Created(k, s).order = Tids(Placing(k, s))
         /\ Created(k, s).tids = Tids(kernel[k].own) /\ Created(k, s).id = IdAfter(k, s)
<1>1. Placing(k, s) \in Spaces \cup {NoSpace}
  BY KernelTyped DEF Placing
<1>2. /\ kernel[k].count \in Counts /\ kernel[k].val \in Arguments
      /\ Tids(Placing(k, s)) \in Placings /\ Tids(kernel[k].own) \in Placings
      /\ IdAfter(k, s) \in Nat
  BY <1>1, KernelTyped, TidsTyped, IdTyped
<1>3. PICK bb \in {"clean", "dirty"} : bb = IF Dirty(kernel[k].own) THEN "dirty" ELSE "clean"
  OBVIOUS
<1>4. Created(k, s) =
        [ref |-> 2, kref |-> 1, inUse |-> TRUE, count |-> kernel[k].count,
         val |-> kernel[k].val, order |-> Tids(Placing(k, s)),
         tids |-> Tids(kernel[k].own), bb |-> bb, id |-> IdAfter(k, s)]
  BY <1>3 DEF Created, ThreadArgOrder, ThreadSpaceParam
<1> QED BY <1>2, <1>4 DEF DataType

LEMMA GroupUpdated ==
  ASSUME SharingInv, NEW k \in Kernels, NEW o \in DataType, o = data[kernel[k].last],
         NEW c, c = UpdatedInGroup(k)
  PROVE  /\ c \in DataType
         /\ c.ref = o.ref /\ c.kref = o.kref /\ c.inUse = o.inUse /\ c.count = o.count
         /\ c.order = o.order /\ c.tids = o.tids /\ c.bb = o.bb /\ c.id = o.id
         /\ \A f \in Fields : c.val[f] = IF f = "static" \/ f \in kernel[k].argDirty
                                         THEN kernel[k].val[f] ELSE o.val[f]
<1>1. PICK w : w = [f \in Fields |-> IF f = "static" \/ f \in kernel[k].argDirty
                                     THEN kernel[k].val[f] ELSE o.val[f]]
  OBVIOUS
<1>2. c = [o EXCEPT !.val = w]
  BY <1>1 DEF UpdatedInGroup
<1>3. o.val \in Arguments /\ kernel[k].val \in Arguments
  BY KernelTyped DEF DataType
<1>4. w \in Arguments
  BY <1>1, <1>3 DEF Arguments
<1>5. /\ c \in DataType /\ c.val = w
      /\ c.ref = o.ref /\ c.kref = o.kref /\ c.inUse = o.inUse /\ c.count = o.count
      /\ c.order = o.order /\ c.tids = o.tids /\ c.bb = o.bb /\ c.id = o.id
  BY ONLY <1>2, <1>4, o \in DataType DEF DataType
<1> QED BY <1>1, <1>5

LEMMA AllUpdated ==
  ASSUME SharingInv, NEW k \in Kernels, NEW s \in Spaces \cup {NoSpace},
         NEW o \in DataType, o = data[kernel[k].last], NEW c, c = Updated(k, s)
  PROVE  /\ c \in DataType
         /\ c.ref = o.ref /\ c.kref = o.kref /\ c.inUse = o.inUse /\ c.count = o.count
         /\ c.bb = o.bb /\ c.id = IdAfter(k, s)
         /\ \A f \in Fields : c.val[f] = IF f = "static" \/ f \in kernel[k].argDirty
                                         THEN kernel[k].val[f] ELSE o.val[f]
         /\ c.order = IF "targ" \in kernel[k].argDirty THEN Tids(Placing(k, s)) ELSE o.order
         /\ c.tids = IF Dirty(kernel[k].own) THEN Tids(kernel[k].own) ELSE o.tids
<1>1. PICK e : e = UpdatedInGroup(k)
  OBVIOUS
<1>2. /\ e \in DataType
      /\ e.ref = o.ref /\ e.kref = o.kref /\ e.inUse = o.inUse /\ e.count = o.count
      /\ e.order = o.order /\ e.tids = o.tids /\ e.bb = o.bb /\ e.id = o.id
      /\ \A f \in Fields : e.val[f] = IF f = "static" \/ f \in kernel[k].argDirty
                                      THEN kernel[k].val[f] ELSE o.val[f]
  BY <1>1, GroupUpdated
<1>3. Placing(k, s) \in Spaces \cup {NoSpace}
  BY KernelTyped DEF Placing
<1>4. /\ Tids(Placing(k, s)) \in Placings /\ Tids(kernel[k].own) \in Placings
      /\ e.order \in Placings /\ e.tids \in Placings
  BY <1>2, <1>3, KernelTyped, TidsTyped DEF DataType
<1>5. PICK p \in Placings : p = IF "targ" \in kernel[k].argDirty THEN Tids(Placing(k, s))
                                ELSE e.order
  BY <1>4
<1>6. PICK q \in Placings : q = IF Dirty(kernel[k].own) THEN Tids(kernel[k].own) ELSE e.tids
  BY <1>4
<1>7. PICK i \in Nat : i = IdAfter(k, s)
  BY IdTyped
<1>8. c = [e EXCEPT !.order = p, !.tids = q, !.id = i]
  BY <1>1, <1>5, <1>6, <1>7 DEF Updated, ThreadArgOrder
<1>9. /\ c \in DataType
      /\ c.ref = e.ref /\ c.kref = e.kref /\ c.inUse = e.inUse /\ c.count = e.count
      /\ c.val = e.val /\ c.order = p /\ c.tids = q /\ c.bb = e.bb /\ c.id = i
  BY ONLY <1>2, <1>8, p \in Placings, q \in Placings, i \in Nat DEF DataType
<1> QED BY <1>2, <1>5, <1>6, <1>7, <1>9

\* What Enqueue makes of the data: it gives the kernel new data, or updates
\* the last, or takes the last as it is.
Renews(k, s, d) ==
    /\ Choice(k, s) = "create"
    /\ data[d].ref = 0 /\ kernel[k].last # d
    /\ data'[d] = Created(k, s)
    /\ kernel[k].last # 0 => Less(data'[kernel[k].last], data[kernel[k].last])
    /\ \A e \in Datas : e # d /\ e # kernel[k].last => data'[e] = data[e]

Another(a, c) ==
    /\ a \in DataType
    /\ a.ref = c.ref + 1 /\ a.kref = c.kref + 1 /\ a.inUse = TRUE
    /\ a.count = c.count /\ a.val = c.val /\ a.order = c.order /\ a.tids = c.tids
    /\ a.id = c.id

Takes(k, s, d) ==
    /\ d = kernel[k].last /\ data[d] \in DataType
    /\ Choice(k, s) \in {"update", "reuse"}
    /\ Choice(k, s) = "reuse" => Another(data'[d], data[d])
    /\ Choice(k, s) = "update" /\ k \in Grouped => Another(data'[d], UpdatedInGroup(k))
    /\ Choice(k, s) = "update" /\ k \notin Grouped => Another(data'[d], Updated(k, s))
    /\ \A e \in Datas : e # d => data'[e] = data[e]

LEMMA LastHeld ==
  ASSUME SharingInv, NEW k \in Kernels, kernel[k].last # 0
  PROVE  /\ kernel[k].last \in Datas /\ data[kernel[k].last].ref # 0
         /\ data[kernel[k].last] \in DataType
<1>1. kernel[k].last \in Datas
  BY KernelTyped
<1>2. k \in Owners(kernel[k].last)
  BY DEF Owners
<1> QED BY <1>1, <1>2, Counted

LEMMA EnqueueData ==
  ASSUME SharingInv, NEW t \in Tasks, NEW k \in Kernels, NEW s \in Spaces \cup {NoSpace},
         Enqueue(t, k, s)
  PROVE  /\ DataFor(k, s) \in Datas
         /\ data' \in [Datas -> {NoData} \cup DataType]
         /\ Renews(k, s, DataFor(k, s)) \/ Takes(k, s, DataFor(k, s))
<1>1. PICK d : d = DataFor(k, s)
  OBVIOUS
<1>2. data' = DataAfter(k, s, d) /\ task[t].state = "new"
  BY <1>1 DEF Enqueue
<1>3. data \in [Datas -> {NoData} \cup DataType]
  BY DEF SharingInv, TypeOK
<1>4. PICK last : last = kernel[k].last
  OBVIOUS
<1>5. last # 0 => last \in Datas /\ data[last].ref # 0 /\ data[last] \in DataType
  BY <1>4, LastHeld
<1>6. ASSUME Choice(k, s) = "create"
      PROVE  d \in Datas /\ data' \in [Datas -> {NoData} \cup DataType] /\ Renews(k, s, d)
  <2>1. d \in Datas /\ data[d].ref = 0
    BY <1>1, <1>2, <1>6, FreedExists DEF DataFor, Freed
  <2>2. last # d
    BY <1>5, <2>1, DatasFacts
  <2>3. PICK r : r = IF last = 0 THEN data ELSE Released(last)
    OBVIOUS
  <2>4. /\ r \in [Datas -> {NoData} \cup DataType]
        /\ \A e \in Datas : e # last => r[e] = data[e]
        /\ last # 0 => Less(r[last], data[last])
    <3>1. CASE last = 0
      BY <1>3, <2>3, <3>1
    <3>2. CASE last # 0
      BY <1>5, <2>3, <3>2, ReleasedData
    <3> QED BY <3>1, <3>2
  <2>5. PICK c \in DataType : c = Created(k, s)
    BY CreatedTyped
  <2>6. data' = [r EXCEPT ![d] = c]
    BY <1>2, <1>4, <1>6, <2>3, <2>5 DEF DataAfter, LastReplaced
  <2>7. /\ data'[d] = c /\ \A e \in Datas : e # d => data'[e] = r[e]
        /\ data' \in [Datas -> {NoData} \cup DataType]
    BY <2>1, <2>4, <2>6
  <2>8. last # 0 => Less(data'[last], data[last])
    BY <1>5, <2>2, <2>4, <2>7
  <2> QED BY <1>4, <1>6, <2>1, <2>2, <2>4, <2>5, <2>7, <2>8 DEF Renews
<1>7. ASSUME Choice(k, s) # "create"
      PROVE  d \in Datas /\ data' \in [Datas -> {NoData} \cup DataType] /\ Takes(k, s, d)
  <2>1. /\ last # 0 /\ d = last /\ Choice(k, s) \in {"update", "reuse"}
        /\ d \in Datas /\ data[d] \in DataType
    BY <1>1, <1>4, <1>5, <1>7, ChoiceFacts DEF DataFor
  <2>2. PICK o \in DataType : o = data[d]
    BY <2>1
  <2>3. ASSUME NEW x, NEW c \in DataType, x = Held(c)  PROVE Another(x, c)
    BY <2>3, HeldFacts DEF Another
  <2>4. ASSUME Choice(k, s) = "reuse"
        PROVE  \E x : data' = [data EXCEPT ![d] = x] /\ Another(x, o)
    <3>1. PICK h : h = Held(o)
      OBVIOUS
    <3>2. Another(h, o)
      BY <2>3, <3>1
    <3>3. PICK x : x = IF kernel[k].own # NoSpace THEN [h EXCEPT !.bb = "clean"] ELSE h
      OBVIOUS
    <3>4. data' = [data EXCEPT ![d] = x]
      BY <1>2, <1>4, <2>1, <2>2, <2>4, <3>1, <3>3 DEF DataAfter
    <3>5. h \in DataType
      BY <3>2 DEF Another
    <3>6. CASE kernel[k].own = NoSpace
      BY <3>2, <3>3, <3>4, <3>6
    <3>7. CASE kernel[k].own # NoSpace
      <4>1. x = [h EXCEPT !.bb = "clean"]
        BY <3>3, <3>7
      <4>2. /\ x \in DataType /\ x.ref = h.ref /\ x.kref = h.kref /\ x.inUse = h.inUse
            /\ x.count = h.count /\ x.val = h.val /\ x.order = h.order
            /\ x.tids = h.tids /\ x.id = h.id
        BY ONLY <3>5, <4>1 DEF DataType
      <4>3. Another(x, o)
        BY <3>2, <4>2 DEF Another
      <4> QED BY <3>4, <4>3
    <3> QED BY <3>6, <3>7
  <2>5. ASSUME Choice(k, s) = "update", k \in Grouped
        PROVE  \E x : data' = [data EXCEPT ![d] = x] /\ Another(x, UpdatedInGroup(k))
    <3>1. PICK c : c = UpdatedInGroup(k)
      OBVIOUS
    <3>2. c \in DataType
      BY <1>4, <2>1, <2>2, <3>1, GroupUpdated
    <3>3. PICK x : x = Held(c)
      OBVIOUS
    <3>4. Another(x, c)
      BY <2>3, <3>2, <3>3
    <3>5. data' = [data EXCEPT ![d] = x]
      BY <1>2, <1>4, <2>1, <2>5, <3>1, <3>3 DEF DataAfter
    <3> QED BY <3>1, <3>4, <3>5
  <2>6. ASSUME Choice(k, s) = "update", k \notin Grouped
        PROVE  \E x : data' = [data EXCEPT ![d] = x] /\ Another(x, Updated(k, s))
    <3>1. PICK c : c = Updated(k, s)
      OBVIOUS
    <3>2. c \in DataType
      BY <1>4, <2>1, <2>2, <3>1, AllUpdated
    <3>3. PICK x : x = Held(c)
      OBVIOUS
    <3>4. Another(x, c)
      BY <2>3, <3>2, <3>3
    <3>5. data' = [data EXCEPT ![d] = x]
      BY <1>2, <1>4, <2>1, <2>6, <3>1, <3>3 DEF DataAfter
    <3> QED BY <3>1, <3>4, <3>5
  <2>7. PICK x : /\ data' = [data EXCEPT ![d] = x] /\ x \in DataType
                 /\ Choice(k, s) = "reuse" => Another(x, data[d])
                 /\ Choice(k, s) = "update" /\ k \in Grouped => Another(x, UpdatedInGroup(k))
                 /\ Choice(k, s) = "update" /\ k \notin Grouped => Another(x, Updated(k, s))
    <3>1. CASE Choice(k, s) = "reuse"
      <4>1. PICK x : data' = [data EXCEPT ![d] = x] /\ Another(x, o)
        BY <2>4, <3>1
      <4> QED BY <2>2, <3>1, <4>1 DEF Another
    <3>2. CASE Choice(k, s) = "update" /\ k \in Grouped
      <4>1. PICK x : data' = [data EXCEPT ![d] = x] /\ Another(x, UpdatedInGroup(k))
        BY <2>5, <3>2
      <4> QED BY <3>2, <4>1 DEF Another
    <3>3. CASE Choice(k, s) = "update" /\ k \notin Grouped
      <4>1. PICK x : data' = [data EXCEPT ![d] = x] /\ Another(x, Updated(k, s))
        BY <2>6, <3>3
      <4> QED BY <3>3, <4>1 DEF Another
    <3> QED BY <2>1, <3>1, <3>2, <3>3
  <2>8. /\ data'[d] = x /\ \A e \in Datas : e # d => data'[e] = data[e]
        /\ data' \in [Datas -> {NoData} \cup DataType]
    BY <1>3, <2>1, <2>7
  <2> QED BY <1>4, <2>1, <2>7, <2>8 DEF Takes
<1> QED BY <1>1, <1>6, <1>7

LEMMA EnqueueKernel ==
  ASSUME SharingInv, NEW t \in Tasks, NEW k \in Kernels, NEW s \in Spaces \cup {NoSpace},
         Enqueue(t, k, s)
  PROVE  /\ kernel' \in [Kernels -> KernelType]
         /\ \A j \in Kernels : j # k => kernel'[j] = kernel[j]
         /\ kernel'[k].last = DataFor(k, s) /\ kernel'[k].used = s
         /\ kernel'[k].dirty = {} /\ kernel'[k].argDirty = {}
         /\ kernel'[k].count = kernel[k].count /\ kernel'[k].val = kernel[k].val
         /\ kernel'[k].own = kernel[k].own
         /\ kernel'[k].id = IF Choice(k, s) = "reuse" \/ (Choice(k, s) = "update" /\ k \in Grouped)
                            THEN kernel[k].id ELSE IdAfter(k, s)
<1>1. PICK d \in Datas : d = DataFor(k, s)
  BY EnqueueData
<1>2. PICK o \in KernelType : o = kernel[k]
  BY KernelTyped
<1>3. PICK i \in Nat : i = IF Choice(k, s) = "reuse" \/ (Choice(k, s) = "update" /\ k \in Grouped)
                           THEN kernel[k].id ELSE IdAfter(k, s)
  BY KernelTyped, IdTyped
<1>4. PICK c : c = [o EXCEPT !.dirty = {}, !.argDirty = {}]
  OBVIOUS
<1>5. /\ c \in KernelType /\ c.dirty = {} /\ c.argDirty = {} /\ c.count = o.count
      /\ c.val = o.val /\ c.own = o.own
  BY ONLY <1>4, o \in KernelType DEF KernelType
<1>6. PICK e : e = [c EXCEPT !.last = d, !.used = s, !.id = i]
  OBVIOUS
<1>7. /\ e \in KernelType /\ e.dirty = {} /\ e.argDirty = {} /\ e.count = o.count
      /\ e.val = o.val /\ e.own = o.own /\ e.last = d /\ e.used = s /\ e.id = i
  BY ONLY <1>5, <1>6, d \in Datas, i \in Nat, s \in Spaces \cup {NoSpace} DEF KernelType
<1>8. kernel' = [kernel EXCEPT ![k] = KernelAfter(k, s, d)]
  BY <1>1 DEF Enqueue
<1>9. KernelAfter(k, s, d) = e
  BY <1>2, <1>3, <1>4, <1>6 DEF KernelAfter, CleanArgDirtyFlag
<1>10. kernel \in [Kernels -> KernelType]
  BY DEF SharingInv, TypeOK
<1>11. /\ kernel'[k] = e /\ \A j \in Kernels : j # k => kernel'[j] = kernel[j]
       /\ kernel' \in [Kernels -> KernelType]
  BY <1>7, <1>8, <1>9, <1>10
<1> QED BY <1>1, <1>2, <1>3, <1>7, <1>11

LEMMA EnqueueTask ==
  ASSUME SharingInv, NEW t \in Tasks, NEW k \in Kernels, NEW s \in Spaces \cup {NoSpace},
         Enqueue(t, k, s)
  PROVE  /\ task[t].state = "new"
         /\ task'[t] = TaskFor(k, s, DataFor(k, s)) /\ task'[t] \in TaskType
         /\ \A u \in Tasks : u # t => task'[u] = task[u]
         /\ TypeOK'
<1>1. PICK d \in Datas : d = DataFor(k, s)
  BY EnqueueData
<1>2. /\ task[t].state = "new" /\ task' = [task EXCEPT ![t] = TaskFor(k, s, d)]
      /\ space' = [p \in Spaces |-> IF p \in {s, kernel[k].own}
                                    THEN [space[p] EXCEPT !.status = "clean", !.calls = 0]
                                    ELSE space[p]]
      /\ queue' = Append(queue, t) /\ UNCHANGED <<ring, batch, sets>>
  BY <1>1 DEF Enqueue
<1>3. TaskFor(k, s, d) \in TaskType
  <2>1. Placing(k, s) \in Spaces \cup {NoSpace}
    BY KernelTyped DEF Placing
  <2>2. Wanted(k, s) \in Runs
    BY <2>1, KernelTyped, TidsTyped DEF Wanted, Runs
  <2>3. TaskUnits(s) \in Placings
    BY TidsTyped DEF TaskUnits
  <2>4. PICK U \in SUBSET Tasks : U = IF Choice(k, s) = "update" THEN QueuedWith(d) ELSE {}
    BY DEF QueuedWith
  <2>5. TaskFor(k, s, d) =
          [state |-> "queued", kernel |-> k, data |-> d, wanted |-> Wanted(k, s),
           ran |-> {}, units |-> TaskUnits(s), updates |-> U]
    BY <2>4 DEF TaskFor
  <2> QED BY <2>2, <2>3, <2>5 DEF TaskType
<1>4. task \in [Tasks -> {[state |-> "new"]} \cup TaskType]
  BY DEF SharingInv, TypeOK
<1>5. /\ task'[t] = TaskFor(k, s, d) /\ \A u \in Tasks : u # t => task'[u] = task[u]
      /\ task' \in [Tasks -> {[state |-> "new"]} \cup TaskType]
  BY <1>2, <1>3, <1>4
<1>6. space' \in [Spaces -> SpaceType]
  BY <1>2 DEF SharingInv, TypeOK, SpaceType
<1>7. queue' \in Seq(Tasks)
  BY <1>2, AppendProperties DEF SharingInv, TypeOK
<1>8. TypeOK'
  BY <1>2, <1>5, <1>6, <1>7, EnqueueKernel, EnqueueData DEF SharingInv, TypeOK
<1> QED BY <1>1, <1>2, <1>3, <1>5, <1>8

LEMMA EnqueueSharing ==
  ASSUME SharingInv, NEW t \in Tasks, NEW k \in Kernels, NEW s \in Spaces \cup {NoSpace},
         Enqueue(t, k, s)
  PROVE  SharingInv'
<1>1. PICK d \in Datas : d = DataFor(k, s)
  BY EnqueueData
<1>2. /\ task[t].state = "new" /\ task'[t].state = "queued" /\ task'[t].data = d
      /\ \A u \in Tasks : u # t => task'[u] = task[u]
      /\ TypeOK'
  <2>1. /\ task[t].state = "new" /\ task'[t] = TaskFor(k, s, d)
        /\ \A u \in Tasks : u # t => task'[u] = task[u]
        /\ TypeOK'
    BY <1>1, EnqueueTask
  <2>2. TaskFor(k, s, d).state = "queued" /\ TaskFor(k, s, d).data = d
    BY DEF TaskFor
  <2> QED BY <2>1, <2>2
<1>3. /\ \A j \in Kernels : j # k => kernel'[j] = kernel[j]
      /\ kernel'[k].last = d /\ kernel'[k].own = kernel[k].own
  BY <1>1, EnqueueKernel
<1>4. queue' = Append(queue, t) /\ ring' = ring
  BY DEF Enqueue
<1>5. PICK last : last = kernel[k].last
  OBVIOUS
<1>6. last # 0 => last \in Datas /\ data[last].ref # 0 /\ data[last] \in DataType
  BY <1>5, LastHeld
<1>7. LinesInv'
  <2>1. /\ queue \in Seq(Tasks) /\ ring \in Seq(Tasks)
        /\ Once(queue) /\ Once(ring)
        /\ \A u \in In(queue) : task[u].state = "queued"
        /\ \A u \in In(ring) : task[u].state = "flushed"
    BY DEF SharingInv, TypeOK, LinesInv
  <2>2. t \notin In(queue) /\ t \notin In(ring)
    BY <1>2, <2>1
  <2>3. Once(queue') /\ In(queue') = In(queue) \cup {t}
    BY <1>4, <2>1, <2>2, AppendLine
  <2>4. In(queue) \subseteq Tasks /\ In(ring) \subseteq Tasks
    BY <2>1, ElementOfSeq, LenProperties DEF In
  <2>5. \A u \in In(queue') : task'[u].state = "queued"
    BY <1>2, <2>1, <2>3, <2>4
  <2>6. \A u \in In(ring') : task'[u].state = "flushed"
    BY <1>2, <1>4, <2>1, <2>2, <2>4
  <2> QED BY <1>4, <2>1, <2>3, <2>5, <2>6 DEF LinesInv, In, Once
<1>8. OwnInv'
  BY <1>3 DEF SharingInv, OwnInv
<1>9. ASSUME NEW e \in Datas
      PROVE  /\ Holders(e)' = IF e = d THEN Holders(e) \cup {t} ELSE Holders(e)
             /\ QueuedWith(e)' = IF e = d THEN QueuedWith(e) \cup {t} ELSE QueuedWith(e)
             /\ t \notin Holders(e) /\ t \notin QueuedWith(e)
  BY <1>2 DEF Holders, QueuedWith
<1>10. ASSUME NEW e \in Datas
       PROVE  /\ IsFiniteSet(Holders(e)) /\ IsFiniteSet(QueuedWith(e)) /\ IsFiniteSet(Owners(e))
              /\ Cardinality(Holders(e)) \in Nat /\ Cardinality(QueuedWith(e)) \in Nat
              /\ Cardinality(Owners(e)) \in Nat
              /\ data[e].ref = Cardinality(Holders(e)) + Cardinality(Owners(e))
              /\ data[e].ref # 0 => data[e].kref = Cardinality(QueuedWith(e))
  BY Counted DEF SharingInv, DataReferences
<1>11. /\ Cardinality(Holders(d)') = Cardinality(Holders(d)) + 1
       /\ Cardinality(QueuedWith(d)') = Cardinality(QueuedWith(d)) + 1
  <2>1. /\ Holders(d)' = Holders(d) \cup {t} /\ QueuedWith(d)' = QueuedWith(d) \cup {t}
        /\ t \notin Holders(d) /\ t \notin QueuedWith(d)
    BY <1>9
  <2>2. /\ IsFiniteSet(Holders(d)) /\ IsFiniteSet(QueuedWith(d))
    BY <1>10
  <2>3. Cardinality(Holders(d) \cup {t}) = Cardinality(Holders(d)) + 1
    BY <2>1, <2>2, FS_AddElement
  <2>4. Cardinality(QueuedWith(d) \cup {t}) = Cardinality(QueuedWith(d)) + 1
    BY <2>1, <2>2, FS_AddElement
  <2> QED BY <2>1, <2>3, <2>4
<1>12. CASE Renews(k, s, d)
  <2>1. /\ data[d].ref = 0 /\ last # d /\ data'[d].ref = 2 /\ data'[d].kref = 1
        /\ last # 0 => Less(data'[last], data[last])
        /\ \A e \in Datas : e # d /\ e # last => data'[e] = data[e]
    <3>1. Created(k, s).ref = 2 /\ Created(k, s).kref = 1
      BY DEF Created
    <3> QED BY <1>5, <1>12, <3>1 DEF Renews
  <2>2. Holders(d) = {} /\ Owners(d) = {} /\ QueuedWith(d) = {}
    BY <2>1, Counted
  <2>3. \A j \in Kernels : kernel[j].last # d
    BY <2>2 DEF Owners
  <2>4. LastInv'
    BY <1>3, <2>3 DEF SharingInv, LastInv
  <2>5. Owners(d)' = {k}
    BY <1>3, <2>3 DEF Owners
  <2>6. ASSUME last # 0  PROVE Owners(last) = {k} /\ Owners(last)' = {}
    BY <1>3, <1>5, <2>1, <2>6 DEF Owners, SharingInv, LastInv
  <2>7. ASSUME NEW e \in Datas, e # d, e # last  PROVE Owners(e)' = Owners(e)
    BY <1>3, <1>5, <2>7 DEF Owners
  <2>8. Cardinality({k}) = 1 /\ Cardinality({}) = 0
    BY FS_Singleton, FS_EmptySet
  <2>9. ASSUME NEW e \in Datas
        PROVE  /\ data'[e].ref = Cardinality(Holders(e)') + Cardinality(Owners(e)')
               /\ data'[e].ref # 0 => data'[e].kref = Cardinality(QueuedWith(e)')
    <3>1. CASE e = d
      <4>1. Cardinality(Holders(d)) = 0 /\ Cardinality(QueuedWith(d)) = 0
        BY <2>2, <2>8
      <4>2. /\ data'[d].ref = Cardinality(Holders(d)') + Cardinality(Owners(d)')
            /\ data'[d].kref = Cardinality(QueuedWith(d)')
        BY <1>11, <2>1, <2>5, <2>8, <4>1
      <4> QED BY <3>1, <4>2
    <3>2. CASE e = last /\ e # d
      <4>1. e # 0
        BY DatasFacts
      <4>2. /\ Owners(e) = {k} /\ Owners(e)' = {} /\ Less(data'[e], data[e])
            /\ data[e].ref # 0
        BY <1>6, <2>1, <2>6, <3>2, <4>1
      <4>3. Holders(e)' = Holders(e) /\ QueuedWith(e)' = QueuedWith(e)
        BY <1>9, <3>2
      <4>4. /\ Cardinality(Owners(e)) = 1 /\ Cardinality(Owners(e)') = 0
            /\ Cardinality(Holders(e)') = Cardinality(Holders(e))
            /\ Cardinality(QueuedWith(e)') = Cardinality(QueuedWith(e))
        BY <2>8, <4>2, <4>3
      <4>5. /\ data[e].ref = Cardinality(Holders(e)) + Cardinality(Owners(e))
            /\ data[e].kref = Cardinality(QueuedWith(e))
            /\ Cardinality(Holders(e)) \in Nat /\ Cardinality(QueuedWith(e)) \in Nat
        BY <1>10, <4>2
      <4> QED BY <4>2, <4>4, <4>5 DEF Less
    <3>3. CASE e # d /\ e # last
      <4>1. /\ Holders(e)' = Holders(e) /\ QueuedWith(e)' = QueuedWith(e)
            /\ Owners(e)' = Owners(e) /\ data'[e] = data[e]
        BY <1>9, <2>1, <2>7, <3>3
      <4> QED BY <1>10, <4>1
    <3> QED BY <3>1, <3>2, <3>3
  <2>10. DataReferences'
    BY <2>9 DEF DataReferences
  <2> QED BY <1>2, <1>7, <1>8, <2>4, <2>10 DEF SharingInv
<1>13. CASE Takes(k, s, d)
  <2>1. /\ d = last /\ data[d] \in DataType
        /\ \A e \in Datas : e # d => data'[e] = data[e]
    BY <1>5, <1>13 DEF Takes
  <2>2. data'[d].ref = data[d].ref + 1 /\ data'[d].kref = data[d].kref + 1
    <3>1. PICK g : g = UpdatedInGroup(k)
      OBVIOUS
    <3>2. g.ref = data[d].ref /\ g.kref = data[d].kref
      BY <1>5, <2>1, <3>1, GroupUpdated
    <3>3. PICK u : u = Updated(k, s)
      OBVIOUS
    <3>4. u.ref = data[d].ref /\ u.kref = data[d].kref
      BY <1>5, <2>1, <3>3, AllUpdated
    <3> QED BY <1>13, <3>1, <3>2, <3>3, <3>4 DEF Takes, Another
  <2>3. \A j \in Kernels : kernel'[j].last = kernel[j].last
    BY <1>3, <1>5, <2>1
  <2>4. LastInv' /\ \A e \in Datas : Owners(e)' = Owners(e)
    BY <2>3 DEF SharingInv, LastInv, Owners
  <2>5. data[d].ref # 0 /\ data[d].ref \in Nat
    BY <1>6, <2>1, DatasFacts, Counted
  <2>6. ASSUME NEW e \in Datas
        PROVE  /\ data'[e].ref = Cardinality(Holders(e)') + Cardinality(Owners(e)')
               /\ data'[e].ref # 0 => data'[e].kref = Cardinality(QueuedWith(e)')
    <3>1. CASE e = d
      <4>1. /\ data'[d].ref = Cardinality(Holders(d)') + Cardinality(Owners(d)')
            /\ data'[d].kref = Cardinality(QueuedWith(d)')
        BY <1>10, <1>11, <2>2, <2>4, <2>5
      <4> QED BY <3>1, <4>1
    <3>2. CASE e # d
      <4>1. /\ Holders(e)' = Holders(e) /\ QueuedWith(e)' = QueuedWith(e)
            /\ Owners(e)' = Owners(e) /\ data'[e] = data[e]
        BY <1>9, <2>1, <2>4, <3>2
      <4> QED BY <1>10, <4>1
    <3> QED BY <3>1, <3>2
  <2>7. DataReferences'
    BY <2>6 DEF DataReferences
  <2> QED BY <1>2, <1>7, <1>8, <2>4, <2>7 DEF SharingInv
<1> QED BY <1>1, <1>12, <1>13, EnqueueData

LEMMA StepSharing == SharingInv /\ [Next]_vars => SharingInv'
<1> SUFFICES ASSUME SharingInv, [Next]_vars  PROVE SharingInv'
  OBVIOUS
<1> USE DEF Next
<1>1. CASE \E k \in Kernels : \E n \in Counts : SetThreadCount(k, n)
  BY <1>1, SetThreadCountSharing
<1>2. CASE \E k \in Kernels : \E f \in Fields, v \in Values : SetArg(k, f, v)
  BY <1>2, SetArgSharing
<1>3. CASE \E k \in Kernels : \E s \in Spaces : AssociateThreadSpace(k, s)
  BY <1>3, AssociateThreadSpaceSharing
<1>4. CASE \E k \in Kernels : \E t \in Tasks, s \in Spaces \cup {NoSpace} : Enqueue(t, k, s)
  BY <1>4, EnqueueSharing
<1>5. CASE \E s \in Spaces, us \in SUBSET Units, tids \in ThreadIds : AssociateThreads(s, us, tids)
  BY <1>5, AssociateThreadsSharing
<1>6. CASE Flush \/ Finish
  BY <1>6, FlushSharing, FinishSharing
<1>7. CASE \E x \in DOMAIN batch : Evict(x)
  BY <1>7, EvictSharing
<1>8. CASE Stop \/ UNCHANGED vars
  BY <1>8, StutterSharing DEF Stop
<1> QED BY <1>1, <1>2, <1>3, <1>4, <1>5, <1>6, <1>7, <1>8

\* Whatever the caller does, data is counted once for its kernel and once for
\* each task that holds it (CmKernelData::SafeRelease), if it makes one call at
\* a time: the steps of the specification are whole acquisitions and releases.
THEOREM AlwaysSharing == Spec => []SharingInv
BY InitSharing, StepSharing, PTL DEF Spec

\* The same as the run checks it, with the count of waiting tasks (m_KernelRef):
\* one call at a time, no lock protects the counts (cm_kernel_data.cpp:116-153).
THEOREM DataIsCounted == Spec => []DataReferences
<1>1. SharingInv => DataReferences
  BY DEF SharingInv
<1> QED BY AlwaysSharing, <1>1, PTL

-----------------------------------------------------------------------------
(***************************************************************************)
(* Callers that keep the rules.                                            *)
(***************************************************************************)
Alike(a, c) ==
    /\ a.count = c.count /\ a.val = c.val /\ a.order = c.order /\ a.tids = c.tids
    /\ a.id = c.id

LEMMA InitCareful == Init => CarefulInv
<1> SUFFICES ASSUME Init  PROVE CarefulInv
  OBVIOUS
<1>0. /\ data = [d \in Datas |-> NoData]
      /\ space = [s \in Spaces |-> [units |-> NoUnits, status |-> "clean", calls |-> 0]]
      /\ task = [t \in Tasks |-> [state |-> "new"]]
      /\ queue = <<>> /\ ring = <<>> /\ batch = <<>> /\ sets = 0
  BY DEF Init
<1>1. \A t \in Tasks : task[t].state = "new"
  BY <1>0
<1>2. batch = <<>> /\ DOMAIN batch = {}
  BY <1>0
<1>3. ASSUME NEW k \in Kernels
      PROVE  /\ kernel[k].last = 0 /\ kernel[k].used = None
             /\ kernel[k].dirty = {"arg"} /\ kernel[k].argDirty = {"arg"}
  <2>1. PICK n \in Counts, v \in Values, owned \in SUBSET Spaces :
         kernel = [j \in Kernels |->
           [NewKernel EXCEPT
              !.count = n, !.dirty = {"arg"}, !.argDirty = {"arg"},
              !.val = [f \in Fields |-> IF f = "arg" \/ (f = "targ" /\ j \notin Grouped)
                                        THEN v ELSE None],
              !.own = IF j \notin Grouped /\ \E s \in owned : Serves[s] = j
                      THEN CHOOSE s \in owned : Serves[s] = j ELSE NoSpace]]
    BY DEF Init
  <2> QED BY <2>1 DEF NewKernel
<1>4. ExposedInv
  BY <1>3 DEF ExposedInv, Exposed
<1>5. UpdatesUnusedData /\ KeepsInv /\ RunsAsEnqueued
  BY <1>1 DEF UpdatesUnusedData, KeepsInv, Queued, RunsAsEnqueued
<1>6. PlacedInv
  BY <1>3, CmKernelDataAssumption DEF PlacedInv, PlacedKernel
<1>7. FreshInv
  BY <1>3 DEF FreshInv, FreshKernel
<1>8. ASSUME NEW k \in Kernels  PROVE Claims(k) = {}
  <2>1. LastClaims(k) = {}
    BY <1>3 DEF LastClaims
  <2>2. TaskClaims(k) = {}
    BY <1>1 DEF TaskClaims, Queued
  <2>3. BatchClaims(k) = {}
    BY <1>2 DEF BatchClaims
  <2> QED BY <2>1, <2>2, <2>3 DEF Claims
<1>9. ClaimsInv
  BY <1>8 DEF ClaimsInv
<1>10. BatchInv
  BY <1>2 DEF BatchInv
<1> QED BY <1>4, <1>5, <1>6, <1>7, <1>9, <1>10 DEF CarefulInv

\* A step that leaves data, tasks and batch buffers leaves what follows from
\* them.
LEMMA QuietRest ==
  ASSUME CarefulInv, UNCHANGED <<data, task, batch>>,
         \A k \in Kernels : kernel'[k].last = kernel[k].last /\ kernel'[k].id = kernel[k].id
  PROVE  /\ UpdatesUnusedData' /\ KeepsInv' /\ ClaimsInv' /\ BatchInv' /\ RunsAsEnqueued'
         /\ \A k \in Kernels : Exposed(k)' <=> Exposed(k)
<1>1. UpdatesUnusedData' /\ RunsAsEnqueued'
  BY DEF CarefulInv, UpdatesUnusedData, RunsAsEnqueued
<1>2. KeepsInv'
  BY DEF CarefulInv, KeepsInv, Keeps, Queued
<1>3. BatchInv'
  BY DEF CarefulInv, BatchInv
<1>4. ASSUME NEW k \in Kernels  PROVE Claims(k)' = Claims(k)
  <2>1. LastClaims(k)' = LastClaims(k)
    BY DEF LastClaims, Content
  <2>2. TaskClaims(k)' = TaskClaims(k)
    BY DEF TaskClaims, Claim, Content, Queued
  <2>3. BatchClaims(k)' = BatchClaims(k)
    BY DEF BatchClaims, Commands
  <2> QED BY <2>1, <2>2, <2>3 DEF Claims
<1>5. ClaimsInv'
  BY <1>4 DEF CarefulInv, ClaimsInv
<1>6. \A k \in Kernels : Exposed(k)' <=> Exposed(k)
  <2> TAKE k \in Kernels
  <2>1. kernel'[k].last = kernel[k].last /\ data' = data
    OBVIOUS
  <2>2. \A d : QueuedWith(d)' = QueuedWith(d)
    BY DEF QueuedWith
  <2> QED BY ONLY <2>1, <2>2 DEF Exposed
<1> QED BY <1>1, <1>2, <1>3, <1>5, <1>6

\* A kernel a step does not touch, nor its thread space, nor its data.
LEMMA OtherKernel ==
  ASSUME SharingInv, NEW j \in Kernels, kernel'[j] = kernel[j],
         PlacedKernel(j), FreshKernel(j),
         \A p \in Spaces : p = kernel[j].own \/ p = kernel[j].used => space'[p] = space[p],
         kernel[j].last # 0 => Alike(data'[kernel[j].last], data[kernel[j].last])
  PROVE  /\ PlacedKernel(j)' /\ FreshKernel(j)'
         /\ Dirty(kernel[j].own)' <=> Dirty(kernel[j].own)
<1>1. /\ kernel[j].own \in Spaces \cup {NoSpace}
      /\ kernel[j].used \in Spaces \cup {NoSpace, None}
  BY KernelTyped
<1>2. /\ Tids(kernel[j].own)' = Tids(kernel[j].own)
      /\ Dirty(kernel[j].own)' <=> Dirty(kernel[j].own)
  BY <1>1 DEF Tids, Associated, Dirty
<1>3. ASSUME kernel[j].last # 0
      PROVE  /\ Placed(j)' = Placed(j) /\ Placed(j) \in Spaces \cup {NoSpace}
             /\ Placed(j) # NoSpace => space'[Placed(j)] = space[Placed(j)]
             /\ Tids(Placed(j))' = Tids(Placed(j))
             /\ Associated(Placed(j))' <=> Associated(Placed(j))
             /\ Steady(j)' <=> Steady(j)
  <2>1. kernel[j].used # None
    BY <1>3 DEF PlacedKernel
  <2>2. Placed(j)' = Placed(j)
    BY DEF Placed, Placing
  <2>3. Placed(j) \in Spaces \cup {NoSpace}
    BY <1>1, <2>1 DEF Placed, Placing
  <2>4. Placed(j) # NoSpace => space'[Placed(j)] = space[Placed(j)]
    BY <2>3 DEF Placed, Placing
  <2>5. Tids(Placed(j))' = Tids(Placed(j)) /\ (Associated(Placed(j))' <=> Associated(Placed(j)))
    BY <2>2, <2>4 DEF Tids, Associated
  <2>6. Steady(j)' <=> Steady(j)
    BY <2>2, <2>4 DEF Steady
  <2> QED BY <2>2, <2>3, <2>4, <2>5, <2>6
<1>4. PlacedKernel(j)'
  BY <1>3 DEF PlacedKernel
<1>5. FreshKernel(j)'
  <2>1. CASE kernel[j].last = 0
    BY <2>1 DEF FreshKernel
  <2>2. CASE kernel[j].last # 0
    <3>1. PICK a, c : a = data[kernel[j].last] /\ c = data'[kernel[j].last] /\ Alike(c, a)
      BY <2>2
    <3>2. FreshData(j, a) => FreshData(j, c)'
      BY <1>2, <1>3, <2>2, <3>1 DEF FreshData, Alike
    <3> QED BY <2>2, <3>1, <3>2 DEF FreshKernel, Alike
  <2> QED BY <2>1, <2>2
<1> QED BY <1>2, <1>4, <1>5

LEMMA SetThreadCountCareful ==
  ASSUME SharingInv, CarefulInv, Careful, NEW k \in Kernels, NEW n \in Counts,
         SetThreadCount(k, n)
  PROVE  CarefulInv'
<1>1. /\ UNCHANGED <<data, space, task, queue, ring, batch>>
      /\ kernel' = [kernel EXCEPT ![k] =
           [Reset(k) EXCEPT !.count = n, !.dirty = kernel[k].dirty \cup {"count"}]]
      /\ ~Exposed(k) /\ (k \in Grouped => kernel[k].last = 0)
  BY DEF SetThreadCount, Setting
<1>2. kernel \in [Kernels -> KernelType]
  BY DEF SharingInv, TypeOK
<1>3. /\ kernel'[k].last = kernel[k].last /\ kernel'[k].id = kernel[k].id
      /\ kernel'[k].used = kernel[k].used /\ kernel'[k].own = NoSpace
      /\ "count" \in kernel'[k].dirty /\ kernel'[k].argDirty = {"arg", "targ"}
      /\ \A j \in Kernels : j # k => kernel'[j] = kernel[j]
  <2>1. PICK r \in KernelType : r = kernel[k]
    BY <1>2
  <2>2. PICK c : c = [Reset(k) EXCEPT !.count = n, !.dirty = kernel[k].dirty \cup {"count"}]
    OBVIOUS
  <2>3. /\ c.last = r.last /\ c.id = r.id /\ c.used = r.used /\ c.own = NoSpace
        /\ c.dirty = r.dirty \cup {"count"} /\ c.argDirty = {"arg", "targ"}
    BY ONLY <2>1, <2>2 DEF Reset, KernelType
  <2>4. kernel'[k] = c /\ \A j \in Kernels : j # k => kernel'[j] = kernel[j]
    BY <1>1, <1>2, <2>2
  <2> QED BY <2>1, <2>3, <2>4
<1>4. \A j \in Kernels : kernel'[j].last = kernel[j].last /\ kernel'[j].id = kernel[j].id
  BY <1>3
<1>5. /\ UpdatesUnusedData' /\ KeepsInv' /\ ClaimsInv' /\ BatchInv' /\ RunsAsEnqueued'
      /\ \A j \in Kernels : Exposed(j)' <=> Exposed(j)
  BY <1>1, <1>4, QuietRest
<1>6. PlacedKernel(k)'
  <2>1. PlacedKernel(k)
    BY DEF CarefulInv, PlacedInv
  <2>2. ASSUME kernel[k].last # 0, Placed(k)' # NoSpace
        PROVE  Placed(k)' = Placed(k) /\ Placed(k) # NoSpace
    BY <1>3, <2>2 DEF Placed, Placing
  <2> QED BY <1>1, <1>3, <2>1, <2>2 DEF PlacedKernel, Associated
<1>7. FreshKernel(k)'
  <2>1. FreshKernel(k)
    BY DEF CarefulInv, FreshInv
  <2> QED BY <1>1, <1>3, <2>1 DEF FreshKernel
<1>8. ASSUME NEW j \in Kernels, j # k
      PROVE  PlacedKernel(j)' /\ FreshKernel(j)' /\ (Dirty(kernel[j].own)' <=> Dirty(kernel[j].own))
  BY <1>1, <1>3, <1>8, OtherKernel DEF CarefulInv, PlacedInv, FreshInv, Alike
<1>9. ExposedInv'
  <2> SUFFICES ASSUME NEW j \in Kernels, kernel'[j].dirty # {} \/ Dirty(kernel[j].own)'
               PROVE  ~Exposed(j)'
    BY DEF ExposedInv
  <2>1. CASE j = k
    BY <1>1, <1>5, <2>1
  <2>2. CASE j # k
    BY <1>3, <1>5, <1>8, <2>2 DEF CarefulInv, ExposedInv
  <2> QED BY <2>1, <2>2
<1>10. PlacedInv' /\ FreshInv'
  BY <1>6, <1>7, <1>8 DEF PlacedInv, FreshInv
<1> QED BY <1>5, <1>9, <1>10 DEF CarefulInv

LEMMA SetArgCareful ==
  ASSUME SharingInv, CarefulInv, Careful, NEW k \in Kernels, NEW f \in Fields, NEW v \in Values,
         SetArg(k, f, v)
  PROVE  CarefulInv'
<1> DEFINE first == f = "targ" /\ kernel[k].val[f] = None
<1>1. /\ UNCHANGED <<data, space, task, queue, ring, batch>>
      /\ kernel' = [kernel EXCEPT ![k] = Stored(k, f, v)]
      /\ ~Exposed(k) /\ (k \in Grouped => f = "arg" \/ kernel[k].last = 0)
      /\ (f = "targ" => k \notin Grouped)
  BY DEF SetArg, Setting
<1>2. kernel \in [Kernels -> KernelType]
  BY DEF SharingInv, TypeOK
<1>3. /\ kernel'[k].last = kernel[k].last /\ kernel'[k].id = kernel[k].id
      /\ kernel'[k].used = kernel[k].used /\ kernel'[k].own = kernel[k].own
      /\ kernel'[k].count = kernel[k].count
      /\ kernel'[k].dirty = IF first THEN kernel[k].dirty ELSE kernel[k].dirty \cup {f}
      /\ kernel'[k].argDirty = IF first \/ f = "static" THEN kernel[k].argDirty
                               ELSE kernel[k].argDirty \cup {f}
      /\ kernel'[k].val[f] = v
      /\ \A g \in Fields : g # f => kernel'[k].val[g] = kernel[k].val[g]
  <2>1. PICK r \in KernelType : r = kernel[k]
    BY <1>2
  <2>2. PICK c : c = Stored(k, f, v)
    OBVIOUS
  <2>3. /\ c.last = r.last /\ c.id = r.id /\ c.used = r.used /\ c.own = r.own /\ c.count = r.count
        /\ c.dirty = IF first THEN r.dirty ELSE r.dirty \cup {f}
        /\ c.argDirty = IF first \/ f = "static" THEN r.argDirty ELSE r.argDirty \cup {f}
        /\ c.val = [r.val EXCEPT ![f] = v]
    BY ONLY <2>1, <2>2 DEF Stored, KernelType
  <2>4. kernel'[k] = c
    BY <1>1, <1>2, <2>2
  <2>5. r.val \in Arguments
    BY <2>1 DEF KernelType
  <2>6. c.val[f] = v /\ \A g \in Fields : g # f => c.val[g] = r.val[g]
    BY <2>3, <2>5 DEF Arguments
  <2> HIDE DEF first
  <2> QED BY <2>1, <2>3, <2>4, <2>6
<1>4. \A j \in Kernels : j # k => kernel'[j] = kernel[j]
  BY <1>1, <1>2
<1>5. \A j \in Kernels : kernel'[j].last = kernel[j].last /\ kernel'[j].id = kernel[j].id
  BY <1>3, <1>4
<1>6. /\ UpdatesUnusedData' /\ KeepsInv' /\ ClaimsInv' /\ BatchInv' /\ RunsAsEnqueued'
      /\ \A j \in Kernels : Exposed(j)' <=> Exposed(j)
  BY <1>1, <1>5, QuietRest
<1>7. PlacedKernel(k) /\ FreshKernel(k) /\ kernel[k].dirty \subseteq Fields \cup {"count"}
  BY KernelTyped DEF CarefulInv, PlacedInv, FreshInv
<1>8. /\ Placed(k)' = Placed(k) /\ (Steady(k)' <=> Steady(k))
      /\ Tids(kernel[k].own)' = Tids(kernel[k].own) /\ Tids(Placed(k))' = Tids(Placed(k))
      /\ (Associated(Placed(k))' <=> Associated(Placed(k)))
      /\ (Dirty(kernel[k].own)' <=> Dirty(kernel[k].own))
  <2>1. Placed(k)' = Placed(k)
    BY <1>3 DEF Placed, Placing
  <2> QED BY <1>1, <1>3, <2>1 DEF Steady, Tids, Associated, Dirty
<1>9. f # "count" /\ v # None /\ f \in {"arg", "targ", "static"}
  BY CmKernelDataAssumption DEF Fields
<1>10. PlacedKernel(k)'
  BY <1>1, <1>3, <1>7, <1>8, <1>9 DEF PlacedKernel
<1>11. FreshKernel(k)'
  <2>1. kernel'[k].dirty \cap {"arg", "targ"} \subseteq kernel'[k].argDirty
    BY <1>3, <1>7, <1>9 DEF FreshKernel
  <2>2. ASSUME kernel[k].last # 0, "count" \notin kernel'[k].dirty
        PROVE  /\ FreshData(k, data[kernel[k].last])'
               /\ k \notin Grouped => kernel'[k].val["targ"] # None
    <3>1. PICK o : o = data[kernel[k].last]
      OBVIOUS
    <3>2. /\ "count" \notin kernel[k].dirty /\ FreshData(k, o)
          /\ k \notin Grouped => kernel[k].val["targ"] # None
      BY <1>3, <1>7, <2>2, <3>1 DEF FreshKernel
    <3>3. ~first
      BY <1>1, <3>2
    <3>4. \A g \in Fields \ kernel'[k].dirty : g # f /\ g \in Fields \ kernel[k].dirty
      BY <1>3, <3>3
    <3>5. \A g \in Fields \ kernel'[k].dirty : o.val[g] = kernel'[k].val[g]
      BY <1>3, <3>2, <3>4 DEF FreshData
    <3>6. FreshData(k, o)'
      BY <1>3, <1>8, <3>2, <3>5 DEF FreshData
    <3>7. k \notin Grouped => kernel'[k].val["targ"] # None
      BY <1>3, <1>9, <3>2 DEF Fields
    <3>8. data[kernel[k].last]' = o
      BY <1>1, <1>3, <3>1
    <3> QED BY <3>6, <3>7, <3>8 DEF FreshData
  <2>3. kernel[k].last # 0 /\ k \in Grouped => kernel'[k].dirty \subseteq {"arg"}
    BY <1>1, <1>3, <1>7 DEF FreshKernel
  <2> QED BY <1>1, <1>3, <1>7, <2>1, <2>2, <2>3 DEF FreshKernel
<1>12. ASSUME NEW j \in Kernels, j # k
       PROVE  PlacedKernel(j)' /\ FreshKernel(j)' /\ (Dirty(kernel[j].own)' <=> Dirty(kernel[j].own))
  BY <1>1, <1>4, <1>12, OtherKernel DEF CarefulInv, PlacedInv, FreshInv, Alike
<1>13. ExposedInv'
  <2> SUFFICES ASSUME NEW j \in Kernels, kernel'[j].dirty # {} \/ Dirty(kernel[j].own)'
               PROVE  ~Exposed(j)'
    BY DEF ExposedInv
  <2>1. CASE j = k
    BY <1>1, <1>6, <2>1
  <2>2. CASE j # k
    BY <1>4, <1>6, <1>12, <2>2 DEF CarefulInv, ExposedInv
  <2> QED BY <2>1, <2>2
<1>14. PlacedInv' /\ FreshInv'
  BY <1>10, <1>11, <1>12 DEF PlacedInv, FreshInv
<1> QED BY <1>6, <1>13, <1>14 DEF CarefulInv

LEMMA AssociateThreadSpaceCareful ==
  ASSUME SharingInv, CarefulInv, Careful, NEW k \in Kernels, NEW s \in Spaces,
         AssociateThreadSpace(k, s)
  PROVE  CarefulInv'
<1>1. /\ UNCHANGED <<data, task, queue, ring, batch>>
      /\ kernel' = [kernel EXCEPT ![k].own = s]
      /\ space' = IF kernel[k].own = NoSpace THEN space
                  ELSE [space EXCEPT ![s].status = "data"]
      /\ ~Exposed(k) /\ kernel[k].last = 0 /\ Serves[s] = k
  BY DEF AssociateThreadSpace, Setting
<1>2. kernel \in [Kernels -> KernelType] /\ space \in [Spaces -> SpaceType]
  BY DEF SharingInv, TypeOK
<1>3. /\ kernel'[k].last = 0 /\ kernel'[k].id = kernel[k].id
      /\ kernel'[k].used = kernel[k].used
      /\ kernel'[k].dirty = kernel[k].dirty /\ kernel'[k].argDirty = kernel[k].argDirty
      /\ \A j \in Kernels : j # k => kernel'[j] = kernel[j]
      /\ \A p \in Spaces : p # s => space'[p] = space[p]
  <2>1. PICK r \in KernelType : r = kernel[k]
    BY <1>2
  <2>2. PICK c : c = [r EXCEPT !.own = s]
    OBVIOUS
  <2>3. /\ c.last = r.last /\ c.id = r.id /\ c.used = r.used
        /\ c.dirty = r.dirty /\ c.argDirty = r.argDirty
    BY ONLY <2>1, <2>2 DEF KernelType
  <2>4. kernel'[k] = c /\ \A j \in Kernels : j # k => kernel'[j] = kernel[j]
    BY <1>1, <1>2, <2>1, <2>2
  <2>5. \A p \in Spaces : p # s => space'[p] = space[p]
    BY <1>1, <1>2
  <2> QED BY <1>1, <2>1, <2>3, <2>4, <2>5
<1>4. \A j \in Kernels : kernel'[j].last = kernel[j].last /\ kernel'[j].id = kernel[j].id
  BY <1>1, <1>3
<1>5. /\ UpdatesUnusedData' /\ KeepsInv' /\ ClaimsInv' /\ BatchInv' /\ RunsAsEnqueued'
      /\ \A j \in Kernels : Exposed(j)' <=> Exposed(j)
  BY <1>1, <1>4, QuietRest
<1>6. PlacedKernel(k)'
  <2>1. kernel[k].used = None
    BY <1>1 DEF CarefulInv, PlacedInv, PlacedKernel
  <2> QED BY <1>3, <2>1, CmKernelDataAssumption DEF PlacedKernel
<1>7. FreshKernel(k)'
  <2>1. FreshKernel(k)
    BY DEF CarefulInv, FreshInv
  <2> QED BY <1>3, <2>1 DEF FreshKernel
<1>8. ASSUME NEW j \in Kernels, j # k
      PROVE  PlacedKernel(j)' /\ FreshKernel(j)' /\ (Dirty(kernel[j].own)' <=> Dirty(kernel[j].own))
  <2>1. PlacedKernel(j) /\ FreshKernel(j) /\ kernel'[j] = kernel[j]
    BY <1>3, <1>8 DEF CarefulInv, PlacedInv, FreshInv
  <2>2. ASSUME NEW p \in Spaces, p = kernel[j].own \/ p = kernel[j].used
        PROVE  space'[p] = space[p]
    <3>1. Serves[p] = j
      BY <2>1, <2>2, CmKernelDataAssumption DEF PlacedKernel, SharingInv, OwnInv
    <3> QED BY <1>1, <1>3, <1>8, <3>1
  <2>3. Alike(data'[kernel[j].last], data[kernel[j].last])
    BY <1>1 DEF Alike
  <2> QED BY <2>1, <2>2, <2>3, OtherKernel
<1>9. ExposedInv'
  <2> SUFFICES ASSUME NEW j \in Kernels, kernel'[j].dirty # {} \/ Dirty(kernel[j].own)'
               PROVE  ~Exposed(j)'
    BY DEF ExposedInv
  <2>1. CASE j = k
    BY <1>1, <1>5, <2>1
  <2>2. CASE j # k
    BY <1>3, <1>5, <1>8, <2>2 DEF CarefulInv, ExposedInv
  <2> QED BY <2>1, <2>2
<1>10. PlacedInv' /\ FreshInv'
  BY <1>6, <1>7, <1>8 DEF PlacedInv, FreshInv
<1> QED BY <1>5, <1>9, <1>10 DEF CarefulInv

LEMMA AssociateThreadsCareful ==
  ASSUME SharingInv, CarefulInv, Careful, NEW s \in Spaces, NEW us \in SUBSET Units,
         NEW tids \in ThreadIds, AssociateThreads(s, us, tids)
  PROVE  CarefulInv'
<1>1. PICK k \in Kernels : k = Serves[s]
  BY CmKernelDataAssumption
<1>2. PICK units : units = IF space[s].units = NoUnits THEN FreshUnits ELSE space[s].units
  OBVIOUS
<1>3. PICK status : status = LastStatus(units, us, tids)
  OBVIOUS
<1>4. /\ UNCHANGED <<kernel, data, task, queue, ring, batch>>
      /\ space' = [space EXCEPT ![s] =
            [units |-> [u \in Units |-> IF u \in us THEN tids[u] ELSE units[u]],
             status |-> status, calls |-> 1]]
      /\ ~Exposed(k) /\ us = Units /\ space[s].calls = 0
      /\ status = "mask" => tids = units
      /\ kernel[k].own = s /\ kernel[k].last # 0 => tids = Tids(s)
  BY <1>1, <1>2, <1>3 DEF AssociateThreads, Setting
<1>5. tids \in [Units -> Units] /\ Units # {} /\ 0 \notin Units
  BY CmKernelDataAssumption, UnitsFacts
<1>6. space \in [Spaces -> SpaceType]
  BY DEF SharingInv, TypeOK
<1>7. /\ space'[s].units = tids /\ space'[s].status = status /\ space'[s].calls = 1
      /\ \A p \in Spaces : p # s => space'[p] = space[p]
  <2>1. [u \in Units |-> IF u \in us THEN tids[u] ELSE units[u]] = tids
    BY <1>4, <1>5
  <2> QED BY <1>4, <1>6, <2>1
<1>8. tids # NoUnits /\ Associated(s)' /\ Tids(s)' = tids
  <2>1. tids # NoUnits
    BY <1>5, EmptySeq DEF NoUnits
  <2>2. s # NoSpace
    BY CmKernelDataAssumption
  <2> QED BY <1>7, <2>1, <2>2 DEF Associated, Tids
<1>9. status # "data" => space[s].units = tids
  <2>1. status \in {"mask", "data"}
    BY <1>3 DEF LastStatus
  <2>2. ASSUME status = "mask"  PROVE space[s].units = tids
    <3>1. tids = units
      BY <1>4, <2>2
    <3>2. units # FreshUnits
      BY <1>5, <3>1 DEF FreshUnits
    <3> QED BY <1>2, <3>1, <3>2
  <2> QED BY <2>1, <2>2
<1>10. /\ UpdatesUnusedData' /\ KeepsInv' /\ ClaimsInv' /\ BatchInv' /\ RunsAsEnqueued'
       /\ \A j \in Kernels : Exposed(j)' <=> Exposed(j)
  BY <1>4, QuietRest
<1>11. PlacedKernel(k) /\ FreshKernel(k)
  BY DEF CarefulInv, PlacedInv, FreshInv
<1>12. /\ kernel[k].own \in Spaces \cup {NoSpace}
       /\ kernel[k].used \in Spaces \cup {NoSpace, None}
  BY KernelTyped
<1>13. Placed(k)' = Placed(k)
  BY <1>4 DEF Placed, Placing
<1>14. ASSUME kernel[k].last # 0  PROVE Placed(k) \in Spaces \cup {NoSpace}
  BY <1>11, <1>12, <1>14 DEF PlacedKernel, Placed, Placing
<1>15. ASSUME kernel[k].last # 0, Placed(k) = s
       PROVE  /\ space[s].status = "clean" /\ Steady(k) /\ Tids(s) = space[s].units
              /\ Steady(k)' => Tids(s) = tids
  <2>1. Associated(s) /\ (space[s].status # "clean" => space[s].calls = 1)
    BY <1>11, <1>15, CmKernelDataAssumption DEF PlacedKernel
  <2>2. space[s].status = "clean" /\ Steady(k)
    BY <1>4, <1>15, <2>1 DEF Steady
  <2>3. Tids(s) = space[s].units
    BY <2>1 DEF Tids
  <2>4. Steady(k)' => status # "data"
    BY <1>7, <1>13, <1>15, CmKernelDataAssumption DEF Steady
  <2> QED BY <1>9, <2>2, <2>3, <2>4
<1>16. ASSUME kernel[k].last # 0, kernel[k].own = s  PROVE Placed(k) = s /\ tids = Tids(s)
  BY <1>4, <1>11, <1>12, <1>16, CmKernelDataAssumption DEF PlacedKernel, Placed, Placing
<1>17. ASSUME kernel[k].last # 0  PROVE Tids(kernel[k].own)' = Tids(kernel[k].own)
  <2>1. CASE kernel[k].own = s
    BY <1>4, <1>8, <1>16, <1>17, <2>1
  <2>2. CASE kernel[k].own # s
    BY <1>4, <1>7, <1>12, <2>2 DEF Tids, Associated
  <2> QED BY <2>1, <2>2
<1>18. PlacedKernel(k)'
  <2>1. ASSUME kernel[k].last # 0, Placed(k) # NoSpace
        PROVE  /\ Associated(Placed(k))'
               /\ space'[Placed(k)].status # "clean" => space'[Placed(k)].calls = 1
    <3>1. CASE Placed(k) = s
      BY <1>7, <1>8, <1>13, <3>1
    <3>2. CASE Placed(k) # s
      BY <1>7, <1>11, <1>13, <1>14, <2>1, <3>2 DEF PlacedKernel, Associated
    <3> QED BY <3>1, <3>2
  <2>2. ASSUME kernel[k].last # 0, kernel[k].own # NoSpace
        PROVE  "count" \notin kernel[k].dirty /\ Steady(k)'
    <3>1. "count" \notin kernel[k].dirty /\ Steady(k)
      BY <1>11, <2>2 DEF PlacedKernel
    <3>2. Placed(k) = kernel[k].own
      BY <1>11, <1>12, <2>2 DEF PlacedKernel, Placed, Placing
    <3>3. CASE kernel[k].own = s
      <4>1. tids = Tids(s) /\ tids = space[s].units
        BY <1>15, <1>16, <2>2, <3>3
      <4>2. units = tids
        BY <1>2, <1>8, <4>1
      <4>4. status = "mask"
        BY <1>3, <4>2 DEF LastStatus
      <4> QED BY <1>7, <1>13, <3>1, <3>2, <3>3, <4>4 DEF Steady
    <3>4. CASE kernel[k].own # s
      BY <1>7, <1>12, <1>13, <2>2, <3>1, <3>2, <3>4 DEF Steady
    <3> QED BY <3>3, <3>4
  <2> QED BY <1>4, <1>11, <1>13, <2>1, <2>2 DEF PlacedKernel
<1>19. FreshKernel(k)'
  <2>1. ASSUME kernel[k].last # 0, "count" \notin kernel[k].dirty
        PROVE  FreshData(k, data[kernel[k].last])'
    <3>1. PICK o : o = data[kernel[k].last]
      OBVIOUS
    <3>2. FreshData(k, o)
      BY <1>11, <2>1, <3>1 DEF FreshKernel
    <3>3. Steady(k)' => Steady(k) /\ Tids(Placed(k))' = Tids(Placed(k))
      <4>1. CASE Placed(k) = s
        BY <1>8, <1>13, <1>15, <2>1, <4>1
      <4>2. CASE Placed(k) # s
        BY <1>7, <1>13, <1>14, <2>1, <4>2 DEF Steady, Tids, Associated
      <4> QED BY <4>1, <4>2
    <3>4. FreshData(k, o)'
      BY <1>4, <1>17, <2>1, <3>2, <3>3 DEF FreshData
    <3> QED BY <1>4, <3>1, <3>4 DEF FreshData
  <2> QED BY <1>4, <1>11, <2>1 DEF FreshKernel
<1>20. ASSUME NEW j \in Kernels, j # k
       PROVE  PlacedKernel(j)' /\ FreshKernel(j)' /\ (Dirty(kernel[j].own)' <=> Dirty(kernel[j].own))
  <2>1. PlacedKernel(j) /\ FreshKernel(j) /\ kernel'[j] = kernel[j]
    BY <1>4 DEF CarefulInv, PlacedInv, FreshInv
  <2>2. ASSUME NEW p \in Spaces, p = kernel[j].own \/ p = kernel[j].used
        PROVE  space'[p] = space[p]
    <3>1. Serves[p] = j
      BY <2>1, <2>2, CmKernelDataAssumption DEF PlacedKernel, SharingInv, OwnInv
    <3> QED BY <1>1, <1>7, <1>20, <3>1
  <2>3. Alike(data'[kernel[j].last], data[kernel[j].last])
    BY <1>4 DEF Alike
  <2> QED BY <2>1, <2>2, <2>3, OtherKernel
<1>21. ExposedInv'
  <2> SUFFICES ASSUME NEW j \in Kernels, kernel'[j].dirty # {} \/ Dirty(kernel[j].own)'
               PROVE  ~Exposed(j)'
    BY DEF ExposedInv
  <2>1. CASE j = k
    BY <1>4, <1>10, <2>1
  <2>2. CASE j # k
    BY <1>4, <1>10, <1>20, <2>2 DEF CarefulInv, ExposedInv
  <2> QED BY <2>1, <2>2
<1>22. PlacedInv' /\ FreshInv'
  BY <1>18, <1>19, <1>20 DEF PlacedInv, FreshInv
<1> QED BY <1>10, <1>21, <1>22 DEF CarefulInv

\* Data of a kernel, or of a task that waits, is not freed.
HeldData ==
    /\ \A k \in Kernels : kernel[k].last # 0 =>
         kernel[k].last \in Datas /\ data[kernel[k].last].ref # 0
    /\ \A t \in Queued : t \in Tasks /\ task[t].data \in Datas /\ data[task[t].data].ref # 0

LEMMA SharingHolds == SharingInv => HeldData
<1> SUFFICES ASSUME SharingInv  PROVE HeldData
  OBVIOUS
<1>1. \A k \in Kernels : kernel[k].last # 0 =>
        kernel[k].last \in Datas /\ data[kernel[k].last].ref # 0
  BY LastHeld
<1>2. ASSUME NEW t \in Queued
      PROVE  t \in Tasks /\ task[t].data \in Datas /\ data[task[t].data].ref # 0
  <2>1. t \in Tasks /\ task[t].state = "queued"
    BY DEF Queued
  <2>2. task[t].data \in Datas
    BY <2>1, TaskTyped
  <2>3. t \in Holders(task[t].data)
    BY <2>1 DEF Holders
  <2> QED BY <2>1, <2>2, <2>3, Counted
<1> QED BY <1>1, <1>2 DEF HeldData

LEMMA SharingHoldsNext == SharingInv' => HeldData'
BY SharingHolds, PTL

\* A step that forgets batch buffers.
LEMMA EvictCareful ==
  ASSUME SharingInv, CarefulInv, NEW x \in DOMAIN batch, Evict(x)
  PROVE  CarefulInv'
<1>1. /\ batch' = [y \in DOMAIN batch \ {x} |-> batch[y]]
      /\ UNCHANGED <<kernel, data, space, task, queue, ring>>
  BY DEF Evict
<1>2. /\ DOMAIN batch' \subseteq DOMAIN batch
      /\ \A y \in DOMAIN batch' : batch'[y] = batch[y]
  BY <1>1
<1>3. UpdatesUnusedData' /\ RunsAsEnqueued'
  BY <1>1 DEF CarefulInv, UpdatesUnusedData, RunsAsEnqueued
<1>4. KeepsInv'
  BY <1>1 DEF CarefulInv, KeepsInv, Keeps, Queued
<1>5. ExposedInv'
  BY <1>1 DEF CarefulInv, ExposedInv, Exposed, QueuedWith, Dirty
<1>6. PlacedInv'
  BY <1>1 DEF CarefulInv, PlacedInv, PlacedKernel, Placed, Placing, Steady, Associated
<1>7. FreshInv'
  BY <1>1 DEF CarefulInv, FreshInv, FreshKernel, FreshData, Placed, Placing, Steady, Tids,
              Associated
<1>8. BatchInv'
  BY <1>2 DEF CarefulInv, BatchInv
<1>9. ASSUME NEW k \in Kernels  PROVE Claims(k)' \subseteq Claims(k)
  <2>1. LastClaims(k)' = LastClaims(k)
    BY <1>1 DEF LastClaims, Content
  <2>2. TaskClaims(k)' = TaskClaims(k)
    BY <1>1 DEF TaskClaims, Claim, Content, Queued
  <2>3. BatchClaims(k)' \subseteq BatchClaims(k)
    BY <1>2 DEF BatchClaims, Commands
  <2> QED BY <2>1, <2>2, <2>3 DEF Claims
<1>10. ClaimsInv'
  <2> SUFFICES ASSUME NEW k \in Kernels \ Grouped
               PROVE  /\ \A a, b \in Claims(k)' : a.id = b.id => a.of = b.of
                      /\ \A a \in Claims(k)' : a.id <= kernel[k].id
                      /\ kernel[k].last = 0 => Claims(k)' = {}
    BY <1>1 DEF ClaimsInv
  <2> QED BY <1>9 DEF CarefulInv, ClaimsInv
<1> QED BY <1>3, <1>4, <1>5, <1>6, <1>7, <1>8, <1>10 DEF CarefulInv

\* A step of the driver: kernels and thread spaces stay as they are, and so
\* does what is in the data that a kernel or a waiting task has.
LEMMA DriverKernels ==
  ASSUME SharingInv, CarefulInv, UNCHANGED <<kernel, space>>,
         \A k \in Kernels : kernel[k].last # 0 =>
           Alike(data'[kernel[k].last], data[kernel[k].last])
  PROVE  PlacedInv' /\ FreshInv'
<1>1. ASSUME NEW k \in Kernels  PROVE PlacedKernel(k)' /\ FreshKernel(k)'
  BY OtherKernel DEF CarefulInv, PlacedInv, FreshInv
<1> QED BY <1>1 DEF PlacedInv, FreshInv

LEMMA FinishCareful ==
  ASSUME SharingInv, CarefulInv, Finish
  PROVE  CarefulInv'
<1>1. PICK t : t = Head(ring)
  OBVIOUS
<1>2. PICK d \in Datas : d = task[t].data
  BY <1>1, FinishSteps
<1>3. /\ t \in Tasks /\ task[t].state = "flushed" /\ data[d].ref # 0
      /\ task'[t].state = "done" /\ task'[t].ran = task[t].ran
      /\ task'[t].wanted = task[t].wanted /\ task'[t].updates = task[t].updates
      /\ \A u \in Tasks : u # t => task'[u] = task[u]
      /\ data' = Released(d) /\ UNCHANGED <<kernel, space, batch>>
  BY <1>1, <1>2, FinishSteps
<1>4. Less(data'[d], data[d]) /\ \A e \in Datas : e # d => data'[e] = data[e]
  <2>1. PICK r : r = Released(d)
    OBVIOUS
  <2>2. Less(r[d], data[d]) /\ \A e \in Datas : e # d => r[e] = data[e]
    BY <1>3, <2>1, ReleasedData
  <2> QED BY <1>3, <2>1, <2>2
<1>5. ASSUME NEW e \in Datas, data'[e].ref # 0
      PROVE  Alike(data'[e], data[e]) /\ data'[e].inUse = data[e].inUse
  BY <1>4, <1>5 DEF Less, Alike
<1>6. SharingInv'
  BY FinishSharing
<1>7. ASSUME NEW k \in Kernels, kernel[k].last # 0
      PROVE  kernel[k].last \in Datas /\ data'[kernel[k].last].ref # 0
  BY <1>3, <1>6, <1>7, SharingHoldsNext DEF HeldData
<1>8. Queued' = Queued /\ \A u \in Queued : u # t /\ u \in Tasks /\ task'[u] = task[u]
  BY <1>3 DEF Queued
<1>9. ASSUME NEW u \in Queued  PROVE task[u].data \in Datas /\ data'[task[u].data].ref # 0
  BY <1>6, <1>8, <1>9, SharingHoldsNext DEF HeldData
<1>10. PlacedInv' /\ FreshInv'
  BY <1>3, <1>5, <1>7, DriverKernels
<1>11. \A e : QueuedWith(e)' = QueuedWith(e)
  BY <1>3 DEF QueuedWith
<1>12. ExposedInv'
  <2> SUFFICES ASSUME NEW k \in Kernels, kernel[k].dirty # {} \/ Dirty(kernel[k].own)
               PROVE  ~Exposed(k)'
    BY <1>3 DEF ExposedInv, Dirty
  <2>1. ~Exposed(k)
    BY DEF CarefulInv, ExposedInv
  <2>2. kernel[k].last # 0 => data'[kernel[k].last].inUse = data[kernel[k].last].inUse
    BY <1>5, <1>7
  <2>3. kernel'[k].last = kernel[k].last
    BY <1>3
  <2> QED BY ONLY <1>11, <2>1, <2>2, <2>3 DEF Exposed
<1>13. UpdatesUnusedData' /\ RunsAsEnqueued'
  BY <1>3 DEF CarefulInv, UpdatesUnusedData, RunsAsEnqueued
<1>14. KeepsInv'
  <2> SUFFICES ASSUME NEW u \in Queued  PROVE Keeps(u, data[task[u].data])'
    BY <1>8 DEF KeepsInv
  <2>1. Keeps(u, data[task[u].data])
    BY DEF CarefulInv, KeepsInv
  <2>2. PICK a, c : a = data[task[u].data] /\ c = data'[task[u].data] /\ Alike(c, a)
    BY <1>5, <1>9
  <2>3. task'[u] = task[u]
    BY <1>8
  <2> QED BY <2>1, <2>2, <2>3 DEF Keeps, Alike
<1>15. BatchInv'
  BY <1>3 DEF CarefulInv, BatchInv
<1>16. ASSUME NEW k \in Kernels  PROVE Claims(k)' = Claims(k)
  <2>1. LastClaims(k)' = LastClaims(k)
    BY <1>3, <1>5, <1>7 DEF LastClaims, Content, Alike
  <2>2. \A u \in Queued : Claim(u)' = Claim(u)
    BY <1>5, <1>8, <1>9 DEF Claim, Content, Alike
  <2>3. TaskClaims(k)' = TaskClaims(k)
    BY <1>8, <2>2 DEF TaskClaims
  <2>4. BatchClaims(k)' = BatchClaims(k)
    BY <1>3 DEF BatchClaims, Commands
  <2> QED BY <2>1, <2>3, <2>4 DEF Claims
<1>17. ClaimsInv'
  BY <1>3, <1>16 DEF CarefulInv, ClaimsInv
<1> QED BY <1>10, <1>12, <1>13, <1>14, <1>15, <1>17 DEF CarefulInv

LEMMA FlushCareful ==
  ASSUME SharingInv, CarefulInv, Flush
  PROVE  CarefulInv'
<1>1. PICK t : t = Head(queue)
  OBVIOUS
<1>2. PICK d \in Datas : d = task[t].data
  BY <1>1, FlushedTask
<1>3. PICK b : b = Batch(t)
  OBVIOUS
<1>4. PICK o \in DataType : o = data[d]
  BY <1>1, <1>2, FlushedTask
<1>5. /\ t \in Tasks /\ task[t].state = "queued" /\ t \in Queued
      /\ task[t].kernel \in Kernels /\ task[t].wanted \in Runs
  BY <1>1, FlushedTask, TaskTyped DEF Queued
<1>6. /\ SameBut(data'[d], o) /\ ~data'[d].inUse
      /\ \A e \in Datas : e # d => data'[e] = data[e]
      /\ task'[t].state = "flushed" /\ task'[t].ran = Ran(t, b)
      /\ task'[t].wanted = task[t].wanted /\ task'[t].updates = task[t].updates
      /\ \A u \in Tasks : u # t => task'[u] = task[u]
      /\ UNCHANGED <<kernel, space>>
  BY <1>1, <1>2, <1>3, <1>4, FlushSteps
<1>7. /\ task[t].kernel \in Grouped => batch' = batch
      /\ task[t].kernel \notin Grouped =>
              /\ DOMAIN batch' = DOMAIN batch \cup {Key(t)} /\ batch'[Key(t)] = b
              /\ \A x \in DOMAIN batch : x # Key(t) => batch'[x] = batch[x]
  BY <1>1, <1>3, FlushSteps
<1>8. \A e \in Datas : Alike(data'[e], data[e])
  BY <1>4, <1>6 DEF SameBut, Alike
<1>9. PlacedInv' /\ FreshInv'
  BY <1>6, <1>8, LastHeld, DriverKernels
<1>10. Queued' = Queued \ {t}
  BY <1>5, <1>6 DEF Queued
<1>11. ASSUME NEW u \in Queued  PROVE u \in Tasks /\ task[u].data \in Datas
  BY <1>11, TaskTyped DEF Queued
<1>12. Keeps(t, o)
  BY <1>2, <1>4, <1>5 DEF CarefulInv, KeepsInv
<1>13. Claim(t) = [id |-> o.id, of |-> Content(o)] /\ Key(t) = <<task[t].kernel, o.id>>
  BY <1>2, <1>4 DEF Claim, Key
\* The batch buffer has the thread arguments and the order the task wants.
<1>14. /\ Commands(b) = Content(o) /\ b.order = b.tids /\ b.tids = task[t].wanted.tids
  <2>1. CASE Reuses(t)
    <3>1. Key(t) \in DOMAIN batch
      BY <2>1 DEF Reuses
    <3>2. PICK c \in BatchType : c = batch[Key(t)]
      BY <3>1 DEF SharingInv, TypeOK
    <3>3. task[t].kernel \notin Grouped /\ c.order = c.tids
      BY <1>13, <3>1, <3>2 DEF CarefulInv, BatchInv
    <3>4. [id |-> o.id, of |-> Commands(c)] \in Claims(task[t].kernel)
      BY <1>13, <3>1, <3>2 DEF BatchClaims, Claims
    <3>5. [id |-> o.id, of |-> Content(o)] \in Claims(task[t].kernel)
      BY <1>5, <1>13 DEF TaskClaims, Claims
    <3>6. Commands(c) = Content(o)
      BY <1>5, <3>3, <3>4, <3>5 DEF CarefulInv, ClaimsInv
    <3>7. /\ b.targ = c.targ /\ b.order = c.order /\ b.count = c.count /\ b.tids = c.tids
      <4>1. b = [c EXCEPT !.users = @ \cup {t}]
        BY <1>3, <2>1, <3>2 DEF Batch, Refreshed
      <4> QED BY ONLY <4>1, c \in BatchType DEF BatchType
    <3>8. c.order = o.order
      BY <3>6 DEF Commands, Content
    <3> QED BY <1>12, <3>3, <3>6, <3>7, <3>8 DEF Commands, Keeps
  <2>2. CASE ~Reuses(t)
    <3>1. b = Generated(t)
      BY <1>3, <2>2 DEF Batch
    <3>2. /\ b.targ = o.val["targ"] /\ b.order = o.order /\ b.count = o.count
          /\ b.tids = IF task[t].units # NoUnits THEN task[t].units ELSE o.tids
      BY <1>2, <1>4, <3>1 DEF Generated
    <3> QED BY <1>12, <3>2 DEF Commands, Content, Keeps
  <2> QED BY <2>1, <2>2
<1>15. Ran(t, b) = {task[t].wanted}
  <2>1. PICK w \in Runs : w = task[t].wanted
    BY <1>5
  <2>2. /\ b.count = w.count /\ b.tids = w.tids /\ b.order = w.tids /\ b.targ = o.val["targ"]
    BY <1>12, <1>14, <2>1 DEF Commands, Content, Keeps
  <2>3. o.val = w.val /\ o.val \in Arguments
    BY <1>12, <2>1 DEF Keeps, DataType
  <2>4. [o.val EXCEPT !["targ"] = o.val["targ"]] = w.val
    BY ONLY <2>3 DEF Arguments
  <2>5. w = [count |-> w.count, tids |-> w.tids, val |-> w.val]
    BY ONLY w \in Runs DEF Runs
  <2>6. Ran(t, b) = {[count |-> b.count, tids |-> i,
                      val |-> [o.val EXCEPT !["targ"] = b.targ]] : i \in {b.tids, b.order}}
    BY <1>2, <1>4 DEF Ran
  <2>7. Ran(t, b) = {w}
    BY ONLY <2>2, <2>4, <2>5, <2>6
  <2> QED BY <2>1, <2>7
<1>16. RunsAsEnqueued'
  BY <1>6, <1>15 DEF CarefulInv, RunsAsEnqueued
<1>17. UpdatesUnusedData'
  BY <1>5, <1>6 DEF CarefulInv, UpdatesUnusedData
<1>18. KeepsInv'
  <2> SUFFICES ASSUME NEW u \in Queued, u # t  PROVE Keeps(u, data[task[u].data])'
    BY <1>10 DEF KeepsInv
  <2>1. Keeps(u, data[task[u].data])
    BY DEF CarefulInv, KeepsInv
  <2>2. PICK a, c : a = data[task[u].data] /\ c = data'[task[u].data] /\ Alike(c, a)
    BY <1>8, <1>11
  <2>3. task'[u] = task[u]
    BY <1>6, <1>11
  <2> QED BY <2>1, <2>2, <2>3 DEF Keeps, Alike
<1>19. BatchInv'
  <2>1. CASE task[t].kernel \in Grouped
    BY <1>7, <2>1 DEF CarefulInv, BatchInv
  <2>2. CASE task[t].kernel \notin Grouped
    BY <1>7, <1>13, <1>14, <2>2 DEF CarefulInv, BatchInv
  <2> QED BY <2>1, <2>2
<1>20. ASSUME NEW k \in Kernels \ Grouped  PROVE Claims(k)' \subseteq Claims(k)
  <2>1. LastClaims(k)' = LastClaims(k)
    BY <1>6, <1>8, LastHeld DEF LastClaims, Content, Alike
  <2>2. \A u \in Queued' : u \in Queued /\ task'[u] = task[u] /\ Claim(u)' = Claim(u)
    BY <1>6, <1>8, <1>10, <1>11 DEF Claim, Content, Alike
  <2>3. TaskClaims(k)' \subseteq TaskClaims(k)
    BY <2>2 DEF TaskClaims
  <2>4. ASSUME NEW x \in DOMAIN batch', x[1] = k
        PROVE  [id |-> x[2], of |-> Commands(batch'[x])] \in Claims(k)
    <3>1. CASE x \in DOMAIN batch /\ batch'[x] = batch[x]
      BY <2>4, <3>1 DEF BatchClaims, Claims
    <3>2. CASE x = Key(t) /\ batch'[x] = b /\ task[t].kernel \notin Grouped
      <4>1. x[2] = o.id /\ k = task[t].kernel
        BY <1>13, <2>4, <3>2
      <4>2. [id |-> x[2], of |-> Commands(batch'[x])] = Claim(t)
        BY <1>13, <1>14, <3>2, <4>1
      <4> QED BY <1>5, <4>1, <4>2 DEF TaskClaims, Claims
    <3> QED BY <1>7, <2>4, <3>1, <3>2
  <2>5. BatchClaims(k)' \subseteq Claims(k)
    BY <2>4 DEF BatchClaims, Commands
  <2> QED BY <2>1, <2>3, <2>5 DEF Claims
<1>21. ClaimsInv'
  <2> SUFFICES ASSUME NEW k \in Kernels \ Grouped
               PROVE  /\ \A a, c \in Claims(k)' : a.id = c.id => a.of = c.of
                      /\ \A a \in Claims(k)' : a.id <= kernel[k].id
                      /\ kernel[k].last = 0 => Claims(k)' = {}
    BY <1>6 DEF ClaimsInv
  <2> QED BY <1>20 DEF CarefulInv, ClaimsInv
<1>22. ExposedInv'
  <2> SUFFICES ASSUME NEW k \in Kernels, kernel[k].dirty # {} \/ Dirty(kernel[k].own)
               PROVE  ~Exposed(k)'
    BY <1>6 DEF ExposedInv, Dirty
  <2>1. ~Exposed(k)
    BY DEF CarefulInv, ExposedInv
  <2>2. kernel'[k].last = kernel[k].last
    BY <1>6
  <2>3. CASE kernel[k].last = d
    <3>1. QueuedWith(d)' = QueuedWith(d) \ {t} /\ t \in QueuedWith(d)
      BY <1>2, <1>5, <1>6 DEF QueuedWith
    <3>2. IsFiniteSet(QueuedWith(d)) /\ Cardinality(QueuedWith(d)) \in Nat
      BY Counted
    <3>3. Cardinality(QueuedWith(d)') = Cardinality(QueuedWith(d)) - 1
      BY <3>1, <3>2, FS_RemoveElement
    <3>4. Cardinality(QueuedWith(d)) <= 1
      BY <2>1, <2>3, <3>2, DatasFacts DEF Exposed
    <3>5. ~(Cardinality(QueuedWith(d)') > 0)
      BY <3>2, <3>3, <3>4
    <3> QED BY ONLY <1>6, <2>2, <2>3, <3>5 DEF Exposed
  <2>4. CASE kernel[k].last # d
    <3>1. kernel[k].last # 0 => kernel[k].last \in Datas
      BY LastHeld
    <3>2. \A e : e # d => QueuedWith(e)' = QueuedWith(e)
      BY <1>2, <1>5, <1>6 DEF QueuedWith
    <3>3. kernel[k].last # 0 => data'[kernel[k].last] = data[kernel[k].last]
      BY <1>6, <2>4, <3>1
    <3> QED BY ONLY <2>1, <2>2, <2>4, <3>2, <3>3 DEF Exposed
  <2> QED BY <2>3, <2>4
<1> QED BY <1>9, <1>16, <1>17, <1>18, <1>19, <1>21, <1>22 DEF CarefulInv


\* The thread space an Enqueue of a careful caller places the threads by.
LEMMA EnqueuePlaces ==
  ASSUME SharingInv, CarefulInv, Careful, NEW t \in Tasks, NEW k \in Kernels,
         NEW s \in Spaces \cup {NoSpace}, Enqueue(t, k, s)
  PROVE  /\ s # NoSpace => Serves[s] = k /\ kernel[k].own = NoSpace /\ k \notin Grouped
         /\ Placing(k, s) \in Spaces \cup {NoSpace}
         /\ Placing(k, s) # NoSpace => Associated(Placing(k, s))
         /\ k \in Grouped => Placing(k, s) = NoSpace /\ kernel[k].own = NoSpace
         /\ kernel[k].last # 0 => Placed(k) = Placing(k, s) /\ kernel[k].used = s
         /\ k \notin Grouped => kernel[k].val["targ"] # None
<1>1. /\ s # NoSpace => Serves[s] = k /\ kernel[k].own = NoSpace /\ k \notin Grouped
      /\ Placing(k, s) # NoSpace => Associated(Placing(k, s))
      /\ kernel[k].used \in {None, s}
      /\ k \notin Grouped => kernel[k].val["targ"] # None
  BY DEF Enqueue
<1>2. kernel[k].own \in Spaces \cup {NoSpace}
  BY KernelTyped
<1>3. k \in Grouped => s = NoSpace /\ kernel[k].own = NoSpace
  BY <1>1 DEF SharingInv, OwnInv
<1>4. kernel[k].last # 0 => kernel[k].used = s
  BY <1>1 DEF CarefulInv, PlacedInv, PlacedKernel
<1> QED BY <1>1, <1>2, <1>3, <1>4 DEF Placing, Placed

\* What an update or a reuse of the kernel data can rely on.
LEMMA EnqueueTakes ==
  ASSUME SharingInv, CarefulInv, Careful, NEW t \in Tasks, NEW k \in Kernels,
         NEW s \in Spaces \cup {NoSpace}, Enqueue(t, k, s),
         kernel[k].last # 0, Choice(k, s) \in {"update", "reuse"}
  PROVE  /\ FreshData(k, data[kernel[k].last]) /\ Steady(k)
         /\ data[kernel[k].last].id = kernel[k].id
         /\ Choice(k, s) = "reuse" => kernel[k].dirty = {}
         /\ Choice(k, s) = "update" => QueuedWith(kernel[k].last) = {}
<1>1. PICK last \in Datas : last = kernel[k].last
  BY LastHeld
<1>2. PlacedKernel(k) /\ FreshKernel(k)
  BY DEF CarefulInv, PlacedInv, FreshInv
<1>3. ASSUME k \in Grouped
      PROVE  "count" \notin kernel[k].dirty /\ Steady(k)
  BY <1>2, <1>3, EnqueuePlaces DEF FreshKernel, Steady
<1>4. ASSUME k \notin Grouped, Choice(k, s) = "reuse"
      PROVE  kernel[k].dirty = {} /\ Steady(k)
  <2>1. IsKernelDataReusable(k, s)
    BY <1>4 DEF Choice
  <2>2. kernel[k].dirty = {} /\ ~(Associated(s) /\ Dirty(s)) /\ ~Dirty(kernel[k].own)
    BY <2>1 DEF IsKernelDataReusable
  <2>3. Placing(k, s) # NoSpace => ~Dirty(Placing(k, s))
    BY <2>2, EnqueuePlaces DEF Placing
  <2> QED BY <2>2, <2>3, EnqueuePlaces DEF Steady, Dirty
<1>5. ASSUME k \notin Grouped, Choice(k, s) = "update"
      PROVE  /\ "count" \notin kernel[k].dirty /\ Steady(k) /\ ~data[last].inUse
             /\ kernel[k].dirty # {} \/ Dirty(kernel[k].own)
  <2>1. /\ ~IsKernelDataReusable(k, s) /\ ~data[last].inUse
        /\ ~(Associated(s) /\ Dirty(s))
        /\ "count" \notin kernel[k].dirty \/ kernel[k].own # NoSpace
    BY <1>1, <1>5 DEF Choice
  <2>2. kernel[k].dirty # {} \/ Dirty(kernel[k].own)
    BY <2>1 DEF IsKernelDataReusable
  <2>3. "count" \notin kernel[k].dirty
    BY <1>2, <2>1 DEF PlacedKernel
  <2>4. CASE kernel[k].own # NoSpace
    BY <1>2, <2>1, <2>2, <2>3, <2>4 DEF PlacedKernel
  <2>5. CASE kernel[k].own = NoSpace
    <3>1. Placing(k, s) # NoSpace => Placing(k, s) = s /\ ~Dirty(s)
      BY <2>1, <2>5, EnqueuePlaces DEF Placing
    <3> QED BY <2>1, <2>2, <2>3, <3>1, EnqueuePlaces DEF Steady, Dirty
  <2> QED BY <2>4, <2>5
<1>6. ASSUME k \in Grouped, Choice(k, s) = "reuse"  PROVE kernel[k].dirty = {}
  <2>1. GroupChoice(k) = "reuse"
    BY <1>6 DEF Choice
  <2>2. "arg" \notin kernel[k].dirty
    BY <2>1 DEF GroupChoice
  <2> QED BY <1>2, <1>6, <2>2 DEF FreshKernel
<1>7. ASSUME k \in Grouped, Choice(k, s) = "update"
      PROVE  ~data[last].inUse /\ kernel[k].dirty # {}
  <2>1. GroupChoice(k) = "update"
    BY <1>7 DEF Choice
  <2> QED BY <1>1, <2>1 DEF GroupChoice
<1>8. "count" \notin kernel[k].dirty /\ Steady(k)
  BY <1>3, <1>4, <1>5
<1>9. FreshData(k, data[last]) /\ data[last].id = kernel[k].id
  BY <1>1, <1>2, <1>8 DEF FreshKernel
<1>10. ASSUME Choice(k, s) = "update"  PROVE QueuedWith(last) = {}
  <2>1. ~data[last].inUse /\ (kernel[k].dirty # {} \/ Dirty(kernel[k].own))
    BY <1>5, <1>7, <1>10
  <2>2. ~Exposed(k)
    BY <2>1 DEF CarefulInv, ExposedInv
  <2>3. ~(Cardinality(QueuedWith(last)) > 0)
    BY <1>1, <2>1, <2>2, DatasFacts DEF Exposed
  <2>4. IsFiniteSet(QueuedWith(last)) /\ Cardinality(QueuedWith(last)) \in Nat
    BY Counted
  <2> QED BY <2>3, <2>4, FS_EmptySet
<1> QED BY <1>1, <1>4, <1>6, <1>8, <1>9, <1>10

\* After an Enqueue the kernel data is as the kernel is.
Settled(k, s, c) ==
    /\ c.count = kernel[k].count /\ c.val = kernel[k].val
    /\ c.order = Tids(Placing(k, s)) /\ c.tids = Tids(kernel[k].own)

LEMMA EnqueueSettles ==
  ASSUME SharingInv, CarefulInv, Careful, NEW t \in Tasks, NEW k \in Kernels,
         NEW s \in Spaces \cup {NoSpace}, Enqueue(t, k, s), NEW d, d = DataFor(k, s)
  PROVE  Settled(k, s, data'[d]) /\ data'[d].id = kernel'[k].id
<1>1. d \in Datas /\ (Renews(k, s, d) \/ Takes(k, s, d))
  BY EnqueueData
<1>2. kernel'[k].id = IF Choice(k, s) = "reuse" \/ (Choice(k, s) = "update" /\ k \in Grouped)
                      THEN kernel[k].id ELSE IdAfter(k, s)
  BY EnqueueKernel
<1>3. CASE Renews(k, s, d)
  <2>1. Choice(k, s) = "create" /\ data'[d] = Created(k, s)
    BY <1>3 DEF Renews
  <2>2. kernel'[k].id = IdAfter(k, s)
    BY <1>2, <2>1
  <2>3. /\ Created(k, s).count = kernel[k].count /\ Created(k, s).val = kernel[k].val
        /\ Created(k, s).order = Tids(Placing(k, s))
        /\ Created(k, s).tids = Tids(kernel[k].own) /\ Created(k, s).id = IdAfter(k, s)
    BY CreatedTyped
  <2> QED BY <2>1, <2>2, <2>3 DEF Settled
<1>4. CASE Takes(k, s, d)
  <2>1. /\ d = kernel[k].last /\ d # 0 /\ Choice(k, s) \in {"update", "reuse"}
    BY <1>1, <1>4, DatasFacts DEF Takes
  <2>2. PICK o \in DataType : o = data[d]
    BY <1>4 DEF Takes
  <2>3. /\ FreshData(k, o) /\ Steady(k) /\ o.id = kernel[k].id
        /\ Choice(k, s) = "reuse" => kernel[k].dirty = {}
    BY <2>1, <2>2, EnqueueTakes
  <2>4. /\ o.count = kernel[k].count /\ o.order = Tids(Placing(k, s))
        /\ o.tids = Tids(kernel[k].own)
        /\ \A f \in Fields \ kernel[k].dirty : o.val[f] = kernel[k].val[f]
    BY <2>1, <2>3, EnqueuePlaces DEF FreshData
  <2>5. o.val \in Arguments /\ kernel[k].val \in Arguments
    BY KernelTyped, <2>2 DEF DataType
  <2>6. CASE Choice(k, s) = "reuse"
    <3>1. Another(data'[d], o)
      BY <1>4, <2>2, <2>6 DEF Takes
    <3>2. o.val = kernel[k].val
      BY <2>3, <2>4, <2>5, <2>6 DEF Arguments
    <3> QED BY <1>2, <2>3, <2>4, <2>6, <3>1, <3>2 DEF Another, Settled
  <2>7. ASSUME NEW c \in DataType,
               \A f \in Fields : c.val[f] = IF f = "static" \/ f \in kernel[k].argDirty
                                            THEN kernel[k].val[f] ELSE o.val[f]
        PROVE  c.val = kernel[k].val
    <3>1. kernel[k].dirty \cap {"arg", "targ"} \subseteq kernel[k].argDirty
      BY DEF CarefulInv, FreshInv, FreshKernel
    <3>2. \A f \in Fields : c.val[f] = kernel[k].val[f]
      BY <2>4, <2>7, <3>1 DEF Fields
    <3>3. c.val \in Arguments
      BY DEF DataType
    <3> QED BY <2>5, <3>2, <3>3 DEF Arguments
  <2>8. CASE Choice(k, s) = "update" /\ k \in Grouped
    <3>1. PICK c : c = UpdatedInGroup(k)
      OBVIOUS
    <3>2. Another(data'[d], c)
      BY <1>4, <2>8, <3>1 DEF Takes
    <3>3. /\ c \in DataType /\ c.count = o.count /\ c.order = o.order /\ c.tids = o.tids
          /\ c.id = o.id
          /\ \A f \in Fields : c.val[f] = IF f = "static" \/ f \in kernel[k].argDirty
                                          THEN kernel[k].val[f] ELSE o.val[f]
      BY <2>1, <2>2, <3>1, GroupUpdated
    <3>4. c.val = kernel[k].val
      BY <2>7, <3>3
    <3> QED BY <1>2, <2>3, <2>4, <2>8, <3>2, <3>3, <3>4 DEF Another, Settled
  <2>9. CASE Choice(k, s) = "update" /\ k \notin Grouped
    <3>1. PICK c : c = Updated(k, s)
      OBVIOUS
    <3>2. Another(data'[d], c)
      BY <1>4, <2>9, <3>1 DEF Takes
    <3>3. /\ c \in DataType /\ c.count = o.count /\ c.id = IdAfter(k, s)
          /\ c.order = IF "targ" \in kernel[k].argDirty THEN Tids(Placing(k, s)) ELSE o.order
          /\ c.tids = IF Dirty(kernel[k].own) THEN Tids(kernel[k].own) ELSE o.tids
          /\ \A f \in Fields : c.val[f] = IF f = "static" \/ f \in kernel[k].argDirty
                                          THEN kernel[k].val[f] ELSE o.val[f]
      BY <2>1, <2>2, <3>1, AllUpdated
    <3>4. c.val = kernel[k].val
      BY <2>7, <3>3
    <3>5. c.order = Tids(Placing(k, s)) /\ c.tids = Tids(kernel[k].own)
      BY <2>4, <3>3
    <3> QED BY <1>2, <2>4, <2>9, <3>2, <3>3, <3>4, <3>5 DEF Another, Settled
  <2> QED BY <2>1, <2>6, <2>8, <2>9
<1> QED BY <1>1, <1>3, <1>4


LEMMA ClaimsTyped ==
  ASSUME SharingInv, NEW k \in Kernels, NEW a \in Claims(k)
  PROVE  a.id \in Nat
<1>1. CASE a \in LastClaims(k)
  BY <1>1, KernelTyped DEF LastClaims
<1>2. CASE a \in TaskClaims(k)
  <2>1. PICK u \in Queued : a = Claim(u)
    BY <1>2 DEF TaskClaims
  <2>2. task[u].data \in Datas /\ data[task[u].data].ref # 0
    BY <2>1, SharingHolds DEF HeldData
  <2>3. data[task[u].data] \in DataType
    BY <2>2, Counted
  <2> QED BY <2>1, <2>3 DEF Claim, DataType
<1>3. CASE a \in BatchClaims(k)
  <2>1. PICK x \in DOMAIN batch : a.id = x[2]
    BY <1>3 DEF BatchClaims
  <2> QED BY <2>1 DEF SharingInv, TypeOK
<1> QED BY <1>1, <1>2, <1>3 DEF Claims

\* What an Enqueue leaves of the data of the tasks that wait, and of other
\* kernels.
LEMMA EnqueueLeaves ==
  ASSUME SharingInv, CarefulInv, Careful, NEW t \in Tasks, NEW k \in Kernels,
         NEW s \in Spaces \cup {NoSpace}, Enqueue(t, k, s), NEW d, d = DataFor(k, s)
  PROVE  /\ \A u \in Queued : Alike(data'[task[u].data], data[task[u].data])
         /\ \A j \in Kernels : j # k /\ kernel[j].last # 0 =>
              kernel[j].last # d /\ data'[kernel[j].last] = data[kernel[j].last]
         /\ Choice(k, s) = "update" => QueuedWith(d) = {}
<1>1. d \in Datas /\ (Renews(k, s, d) \/ Takes(k, s, d))
  BY EnqueueData
<1>2. SharingInv'
  BY EnqueueSharing
<1>3. /\ task[t].state = "new" /\ task'[t].state = "queued"
      /\ \A u \in Tasks : u # t => task'[u] = task[u]
  <2>1. /\ task[t].state = "new" /\ task'[t] = TaskFor(k, s, d)
        /\ \A u \in Tasks : u # t => task'[u] = task[u]
    BY EnqueueTask
  <2>2. TaskFor(k, s, d).state = "queued"
    BY DEF TaskFor
  <2> QED BY <2>1, <2>2
<1>4. ASSUME NEW u \in Queued
      PROVE  /\ task[u].data \in Datas /\ data[task[u].data].ref # 0
             /\ data'[task[u].data].ref # 0 /\ u \in QueuedWith(task[u].data)
  <2>1. task'[u] = task[u] /\ u \in Queued' /\ u \in Tasks
    BY <1>3 DEF Queued
  <2>2. HeldData /\ HeldData'
    BY <1>2, SharingHolds, SharingHoldsNext
  <2>3. task[u].data \in Datas /\ data[task[u].data].ref # 0
    BY <2>2 DEF HeldData
  <2>4. data'[task'[u].data].ref # 0
    BY <2>1, <2>2 DEF HeldData
  <2>5. u \in QueuedWith(task[u].data)
    BY DEF Queued, QueuedWith
  <2> QED BY <2>1, <2>3, <2>4, <2>5
<1>5. ASSUME NEW j \in Kernels, j # k, kernel[j].last # 0
      PROVE  /\ kernel[j].last \in Datas /\ data[kernel[j].last].ref # 0
             /\ kernel[j].last # kernel[k].last
  BY <1>5, LastHeld DEF SharingInv, LastInv
<1>6. CASE Renews(k, s, d)
  <2>1. /\ data[d].ref = 0 /\ Choice(k, s) = "create"
        /\ kernel[k].last # 0 => Less(data'[kernel[k].last], data[kernel[k].last])
        /\ \A e \in Datas : e # d /\ e # kernel[k].last => data'[e] = data[e]
    BY <1>6 DEF Renews
  <2>2. ASSUME NEW u \in Queued  PROVE Alike(data'[task[u].data], data[task[u].data])
    <3>1. PICK e \in Datas : e = task[u].data /\ data[e].ref # 0 /\ data'[e].ref # 0 /\ e # 0
      BY <1>4, DatasFacts
    <3>2. CASE e = kernel[k].last
      BY <2>1, <3>1, <3>2 DEF Less, Alike
    <3>3. CASE e # kernel[k].last
      BY <2>1, <3>1, <3>3 DEF Alike
    <3> QED BY <3>2, <3>3
  <2>3. ASSUME NEW j \in Kernels, j # k, kernel[j].last # 0
        PROVE  kernel[j].last # d /\ data'[kernel[j].last] = data[kernel[j].last]
    BY <1>5, <2>1, <2>3
  <2> QED BY <2>1, <2>2, <2>3
<1>7. CASE Takes(k, s, d)
  <2>1. /\ d = kernel[k].last /\ d # 0 /\ Choice(k, s) \in {"update", "reuse"}
        /\ \A e \in Datas : e # d => data'[e] = data[e]
        /\ Choice(k, s) = "reuse" => Another(data'[d], data[d])
    BY <1>1, <1>7, DatasFacts DEF Takes
  <2>2. Choice(k, s) = "update" => QueuedWith(d) = {}
    BY <2>1, EnqueueTakes
  <2>3. ASSUME NEW u \in Queued  PROVE Alike(data'[task[u].data], data[task[u].data])
    <3>1. PICK e \in Datas : e = task[u].data /\ u \in QueuedWith(e)
      BY <1>4
    <3>2. CASE e = d
      BY <2>1, <2>2, <3>1, <3>2 DEF Another, Alike
    <3>3. CASE e # d
      BY <2>1, <3>1, <3>3 DEF Alike
    <3> QED BY <3>2, <3>3
  <2>4. ASSUME NEW j \in Kernels, j # k, kernel[j].last # 0
        PROVE  kernel[j].last # d /\ data'[kernel[j].last] = data[kernel[j].last]
    BY <1>5, <2>1, <2>4
  <2> QED BY <2>2, <2>3, <2>4
<1> QED BY <1>1, <1>6, <1>7

\* The id of the kernel after an Enqueue stands for one content.
LEMMA EnqueueClaims ==
  ASSUME SharingInv, CarefulInv, Careful, NEW t \in Tasks, NEW k \in Kernels \ Grouped,
         NEW s \in Spaces \cup {NoSpace}, Enqueue(t, k, s), NEW d, d = DataFor(k, s)
  PROVE  /\ kernel[k].id <= kernel'[k].id
         /\ \A a \in Claims(k) :
              a.id <= kernel'[k].id /\ (a.id = kernel'[k].id => a.of = Content(data'[d]))
<1>1. /\ kernel[k].id \in Nat
      /\ \A a, b \in Claims(k) : a.id = b.id => a.of = b.of
      /\ \A a \in Claims(k) : a.id <= kernel[k].id
      /\ kernel[k].last = 0 => Claims(k) = {}
  BY KernelTyped DEF CarefulInv, ClaimsInv
<1>2. \A a \in Claims(k) : a.id \in Nat
  BY ClaimsTyped
<1>3. Settled(k, s, data'[d])
  BY EnqueueSettles
<1>4. kernel'[k].id = IF Choice(k, s) = "reuse" THEN kernel[k].id ELSE IdAfter(k, s)
  BY EnqueueKernel
<1>5. CASE kernel'[k].id = kernel[k].id + 1
  BY <1>1, <1>2, <1>5
<1>6. CASE kernel'[k].id = kernel[k].id /\ kernel[k].last = 0
  BY <1>1, <1>6
<1>7. CASE /\ kernel'[k].id = kernel[k].id /\ kernel[k].last # 0
           /\ Choice(k, s) = "reuse" \/ IsBatchBufferReusable(k, s)
  <2>1. PICK o : o = data[kernel[k].last]
    OBVIOUS
  <2>2. [id |-> kernel[k].id, of |-> Content(o)] \in Claims(k)
    BY <1>7, <2>1 DEF LastClaims, Claims
  <2>3. FreshData(k, o) /\ Steady(k) /\ "targ" \notin kernel[k].dirty
    <3>1. CASE Choice(k, s) = "reuse"
      BY <1>7, <2>1, <3>1, EnqueueTakes
    <3>2. CASE IsBatchBufferReusable(k, s)
      <4>1. /\ "targ" \notin kernel[k].dirty /\ "count" \notin kernel[k].dirty
            /\ (IF kernel[k].own # NoSpace THEN kernel[k].own ELSE s) # NoSpace =>
                 space[IF kernel[k].own # NoSpace THEN kernel[k].own ELSE s].status # "data"
        BY <3>2 DEF IsBatchBufferReusable
      <4>2. Placing(k, s) = (IF kernel[k].own # NoSpace THEN kernel[k].own ELSE s)
        BY EnqueuePlaces DEF Placing
      <4>3. Steady(k)
        BY <1>7, <4>1, <4>2, EnqueuePlaces DEF Steady
      <4>4. FreshData(k, o)
        BY <1>7, <2>1, <4>1 DEF CarefulInv, FreshInv, FreshKernel
      <4> QED BY <4>1, <4>3, <4>4
    <3> QED BY <1>7, <3>1, <3>2
  <2>4. /\ o.count = kernel[k].count /\ o.val["targ"] = kernel[k].val["targ"]
        /\ o.order = Tids(Placing(k, s))
    BY <1>7, <2>3, EnqueuePlaces DEF FreshData, Fields
  <2>5. Content(data'[d]) = Content(o)
    BY <1>3, <2>4 DEF Settled, Content
  <2>6. ASSUME NEW a \in Claims(k), a.id = kernel[k].id  PROVE a.of = Content(o)
    BY <1>1, <2>2, <2>6
  <2> QED BY <1>1, <1>7, <2>5, <2>6
<1> QED BY <1>4, <1>5, <1>6, <1>7 DEF IdAfter


LEMMA EnqueueCareful ==
  ASSUME SharingInv, CarefulInv, Careful, NEW t \in Tasks, NEW k \in Kernels,
         NEW s \in Spaces \cup {NoSpace}, Enqueue(t, k, s)
  PROVE  CarefulInv'
<1>1. PICK d \in Datas : d = DataFor(k, s)
  BY EnqueueData
<1>2. PICK c : c = data'[d]
  OBVIOUS
<1>3. Settled(k, s, c) /\ c.id = kernel'[k].id
  BY <1>1, <1>2, EnqueueSettles
<1>4. /\ \A j \in Kernels : j # k => kernel'[j] = kernel[j]
      /\ kernel'[k].last = d /\ kernel'[k].used = s
      /\ kernel'[k].dirty = {} /\ kernel'[k].argDirty = {}
      /\ kernel'[k].count = kernel[k].count /\ kernel'[k].val = kernel[k].val
      /\ kernel'[k].own = kernel[k].own
  BY <1>1, EnqueueKernel
<1>5. /\ task[t].state = "new" /\ task'[t].state = "queued" /\ task'[t].data = d
      /\ task'[t].kernel = k /\ task'[t].wanted = Wanted(k, s)
      /\ task'[t].units = Tids(s)
      /\ task'[t].updates = IF Choice(k, s) = "update" THEN QueuedWith(d) ELSE {}
      /\ \A u \in Tasks : u # t => task'[u] = task[u]
  <2>1. /\ task[t].state = "new" /\ task'[t] = TaskFor(k, s, d)
        /\ \A u \in Tasks : u # t => task'[u] = task[u]
    BY <1>1, EnqueueTask
  <2>2. /\ TaskFor(k, s, d).state = "queued" /\ TaskFor(k, s, d).data = d
        /\ TaskFor(k, s, d).kernel = k /\ TaskFor(k, s, d).wanted = Wanted(k, s)
        /\ TaskFor(k, s, d).units = Tids(s)
        /\ TaskFor(k, s, d).updates = IF Choice(k, s) = "update" THEN QueuedWith(d) ELSE {}
    BY DEF TaskFor, TaskUnits
  <2> QED BY <2>1, <2>2
<1>6. /\ space' = [p \in Spaces |-> IF p \in {s, kernel[k].own}
                                    THEN [space[p] EXCEPT !.status = "clean", !.calls = 0]
                                    ELSE space[p]]
      /\ UNCHANGED batch
  BY DEF Enqueue
<1>7. /\ \A p \in Spaces : p # s /\ p # kernel[k].own => space'[p] = space[p]
      /\ \A p \in Spaces : p = s \/ p = kernel[k].own => space'[p].status = "clean"
      /\ \A p \in Spaces : space'[p].units = space[p].units
  <2>1. space \in [Spaces -> SpaceType]
    BY DEF SharingInv, TypeOK
  <2>2. ASSUME NEW p \in Spaces, p = s \/ p = kernel[k].own
        PROVE  space'[p].status = "clean" /\ space'[p].units = space[p].units
    <3>1. PICK x \in SpaceType : x = space[p]
      BY <2>1
    <3>2. space'[p] = [x EXCEPT !.status = "clean", !.calls = 0]
      BY <1>6, <2>2, <3>1
    <3> QED BY <3>1, <3>2 DEF SpaceType
  <2> QED BY <1>6, <2>2
<1>8. /\ s # NoSpace => Serves[s] = k /\ kernel[k].own = NoSpace /\ k \notin Grouped
      /\ Placing(k, s) \in Spaces \cup {NoSpace}
      /\ Placing(k, s) # NoSpace => Associated(Placing(k, s))
      /\ k \notin Grouped => kernel[k].val["targ"] # None
  BY EnqueuePlaces
<1>9. kernel[k].own \in Spaces \cup {NoSpace}
  BY KernelTyped
<1>10. /\ \A u \in Queued : Alike(data'[task[u].data], data[task[u].data])
       /\ \A j \in Kernels : j # k /\ kernel[j].last # 0 =>
              kernel[j].last # d /\ data'[kernel[j].last] = data[kernel[j].last]
       /\ Choice(k, s) = "update" => QueuedWith(d) = {}
  BY <1>1, EnqueueLeaves
<1>11. d # 0 /\ s # None /\ NoSpace \notin Spaces
  BY DatasFacts, CmKernelDataAssumption DEF NoSpace, None
<1>12. ASSUME NEW p \in Spaces \cup {NoSpace}
       PROVE  Tids(p)' = Tids(p) /\ (Associated(p)' <=> Associated(p))
  BY <1>7, <1>11 DEF Tids, Associated
<1>13. Placed(k)' = Placing(k, s)
  BY <1>4 DEF Placed, Placing
<1>14. Placing(k, s) # NoSpace => space'[Placing(k, s)].status = "clean"
  BY <1>7, <1>8 DEF Placing
<1>15. PlacedKernel(k)'
  <2>1. kernel'[k].last # 0 /\ kernel'[k].used # None
    BY <1>4, <1>11
  <2>2. kernel'[k].used \in Spaces =>
         k \notin Grouped /\ kernel'[k].own = NoSpace /\ Serves[kernel'[k].used] = k
    BY <1>4, <1>8, <1>11
  <2>3. Placed(k)' # NoSpace => Associated(Placed(k))' /\ space'[Placed(k)'].status = "clean"
    BY <1>8, <1>12, <1>13, <1>14
  <2>4. "count" \notin kernel'[k].dirty /\ Steady(k)'
    BY <1>4, <1>13, <1>14 DEF Steady
  <2> QED BY <2>1, <2>2, <2>3, <2>4 DEF PlacedKernel
<1>16. FreshKernel(k)'
  <2>1. /\ c.count = kernel'[k].count /\ c.val = kernel'[k].val
        /\ c.tids = Tids(kernel[k].own)' /\ c.order = Tids(Placed(k))'
    BY <1>3, <1>4, <1>8, <1>9, <1>12, <1>13 DEF Settled
  <2>2. FreshData(k, data[kernel[k].last])'
    BY <1>2, <1>4, <2>1 DEF FreshData
  <2> QED BY <1>2, <1>3, <1>4, <1>8, <2>2 DEF FreshKernel
<1>17. ASSUME NEW j \in Kernels, j # k
       PROVE  PlacedKernel(j)' /\ FreshKernel(j)' /\ (Dirty(kernel[j].own)' <=> Dirty(kernel[j].own))
  <2>1. PlacedKernel(j) /\ FreshKernel(j) /\ kernel'[j] = kernel[j]
    BY <1>4, <1>17 DEF CarefulInv, PlacedInv, FreshInv
  <2>2. ASSUME NEW p \in Spaces, p = kernel[j].own \/ p = kernel[j].used
        PROVE  space'[p] = space[p]
    <3>1. Serves[p] = j
      BY <1>11, <2>1, <2>2 DEF PlacedKernel, SharingInv, OwnInv
    <3>2. p # s /\ p # kernel[k].own
      BY <1>8, <1>11, <1>17, <2>2, <3>1 DEF SharingInv, OwnInv
    <3> QED BY <1>7, <3>2
  <2>3. kernel[j].last # 0 => Alike(data'[kernel[j].last], data[kernel[j].last])
    BY <1>10, <1>17 DEF Alike
  <2> QED BY <2>1, <2>2, <2>3, OtherKernel
<1>18. ExposedInv'
  <2> SUFFICES ASSUME NEW j \in Kernels, kernel'[j].dirty # {} \/ Dirty(kernel[j].own)'
               PROVE  ~Exposed(j)'
    BY DEF ExposedInv
  <2>1. CASE j = k
    <3>1. ~Dirty(kernel[k].own)'
      BY <1>4, <1>7, <1>9 DEF Dirty
    <3> QED BY <1>4, <2>1, <3>1
  <2>2. CASE j # k
    <3>1. kernel'[j] = kernel[j] /\ ~Exposed(j)
      BY <1>4, <1>17, <2>2 DEF CarefulInv, ExposedInv
    <3>2. kernel[j].last # 0 =>
            kernel[j].last # d /\ data'[kernel[j].last] = data[kernel[j].last]
      BY <1>10, <2>2
    <3>3. \A e : e # d => QueuedWith(e)' = QueuedWith(e)
      BY <1>5 DEF QueuedWith
    <3> QED BY ONLY <3>1, <3>2, <3>3 DEF Exposed
  <2> QED BY <2>1, <2>2
<1>19. PlacedInv' /\ FreshInv'
  BY <1>15, <1>16, <1>17 DEF PlacedInv, FreshInv
<1>20. UpdatesUnusedData'
  BY <1>5, <1>10 DEF CarefulInv, UpdatesUnusedData
<1>21. RunsAsEnqueued'
  BY <1>5 DEF CarefulInv, RunsAsEnqueued
<1>22. BatchInv'
  BY <1>6 DEF CarefulInv, BatchInv
<1>23. Queued' = Queued \cup {t} /\ t \notin Queued /\ \A u \in Queued : task'[u] = task[u]
  BY <1>5 DEF Queued
<1>24. KeepsInv'
  <2>1. Keeps(t, data[task[t].data])'
    <3>1. /\ task'[t].wanted.count = kernel[k].count /\ task'[t].wanted.val = kernel[k].val
          /\ task'[t].wanted.tids = Tids(Placing(k, s))
      BY <1>5 DEF Wanted
    <3>2. (IF Tids(s) # NoUnits THEN Tids(s) ELSE c.tids) = Tids(Placing(k, s))
      <4>1. CASE s = NoSpace
        BY <1>3, <4>1 DEF Settled, Placing, Tids, Associated
      <4>2. CASE s # NoSpace
        BY <1>8, <4>2 DEF Placing, Tids, Associated
      <4> QED BY <4>1, <4>2
    <3> QED BY <1>2, <1>3, <1>5, <3>1, <3>2 DEF Keeps, Settled
  <2>2. ASSUME NEW u \in Queued  PROVE Keeps(u, data[task[u].data])'
    <3>1. Keeps(u, data[task[u].data])
      BY DEF CarefulInv, KeepsInv
    <3>2. PICK a, b : a = data[task[u].data] /\ b = data'[task[u].data] /\ Alike(b, a)
      BY <1>10
    <3> QED BY <1>23, <3>1, <3>2 DEF Keeps, Alike
  <2> QED BY <1>23, <2>1, <2>2 DEF KeepsInv
<1>25. \A u \in Queued : Claim(u)' = Claim(u)
  BY <1>10, <1>23 DEF Claim, Content, Alike
<1>26. Claim(t)' = [id |-> kernel'[k].id, of |-> Content(c)]
  BY <1>2, <1>3, <1>5 DEF Claim, Content
<1>27. ASSUME NEW j \in Kernels
       PROVE  BatchClaims(j)' = BatchClaims(j)
  BY <1>6 DEF BatchClaims, Commands
<1>28. ASSUME NEW j \in Kernels, j # k  PROVE Claims(j)' = Claims(j)
  <2>1. LastClaims(j)' = LastClaims(j)
    BY <1>4, <1>10, <1>28 DEF LastClaims, Content
  <2>2. TaskClaims(j)' = TaskClaims(j)
    BY <1>5, <1>23, <1>25, <1>28 DEF TaskClaims
  <2> QED BY <1>27, <2>1, <2>2 DEF Claims
<1>29. Claims(k)' \subseteq Claims(k) \cup {[id |-> kernel'[k].id, of |-> Content(c)]}
  <2>1. LastClaims(k)' = {[id |-> kernel'[k].id, of |-> Content(c)]}
    BY <1>2, <1>4, <1>11 DEF LastClaims, Content
  <2>2. TaskClaims(k)' \subseteq TaskClaims(k) \cup {Claim(t)'}
    BY <1>23, <1>25 DEF TaskClaims
  <2> QED BY <1>26, <1>27, <2>1, <2>2 DEF Claims
<1>30. ClaimsInv'
  <2> SUFFICES ASSUME NEW j \in Kernels \ Grouped
               PROVE  /\ \A a, b \in Claims(j)' : a.id = b.id => a.of = b.of
                      /\ \A a \in Claims(j)' : a.id <= kernel'[j].id
                      /\ kernel'[j].last = 0 => Claims(j)' = {}
    BY DEF ClaimsInv
  <2>1. CASE j # k
    BY <1>4, <1>28, <2>1 DEF CarefulInv, ClaimsInv
  <2>2. CASE j = k
    <3>1. \A a, b \in Claims(k) : a.id = b.id => a.of = b.of
      BY <2>2 DEF CarefulInv, ClaimsInv
    <3>2. \A a \in Claims(k) :
            a.id <= kernel'[k].id /\ (a.id = kernel'[k].id => a.of = Content(c))
      BY <1>1, <1>2, <2>2, EnqueueClaims
    <3>3. PICK new : new = [id |-> kernel'[k].id, of |-> Content(c)]
      OBVIOUS
    <3>4. new.id = kernel'[k].id /\ new.of = Content(c)
      BY <3>3
    <3>5. kernel'[k].id <= kernel'[k].id
      <4>1. kernel'[k].id \in Nat
        BY EnqueueKernel DEF KernelType
      <4> QED BY <4>1
    <3>6. \A a \in Claims(k)' : a \in Claims(k) \/ a = new
      BY <1>29, <3>3
    <3>7. kernel'[k].last # 0
      BY <1>4, <1>11
    <3> QED BY <2>2, <3>1, <3>2, <3>4, <3>5, <3>6, <3>7
  <2> QED BY <2>1, <2>2
<1> QED BY <1>18, <1>19, <1>20, <1>21, <1>22, <1>24, <1>30 DEF CarefulInv

LEMMA StutterCareful ==
  ASSUME CarefulInv, UNCHANGED vars
  PROVE  CarefulInv'
<1>1. UNCHANGED <<kernel, data, space, task, batch>>
  BY DEF vars
<1>2. UpdatesUnusedData' /\ KeepsInv' /\ ClaimsInv' /\ BatchInv' /\ RunsAsEnqueued'
  BY <1>1, QuietRest
<1>3. ExposedInv'
  BY <1>1 DEF CarefulInv, ExposedInv, Exposed, QueuedWith, Dirty
<1>4. PlacedInv'
  BY <1>1 DEF CarefulInv, PlacedInv, PlacedKernel, Placed, Placing, Steady, Associated
<1>5. FreshInv'
  BY <1>1 DEF CarefulInv, FreshInv, FreshKernel, FreshData, Placed, Placing, Steady, Tids,
              Associated
<1> QED BY <1>2, <1>3, <1>4, <1>5 DEF CarefulInv

LEMMA StepCareful == Careful /\ SharingInv /\ CarefulInv /\ [Next]_vars => CarefulInv'
<1> SUFFICES ASSUME Careful, SharingInv, CarefulInv, [Next]_vars  PROVE CarefulInv'
  OBVIOUS
<1> USE DEF Next
<1>1. CASE \E k \in Kernels : \E n \in Counts : SetThreadCount(k, n)
  BY <1>1, SetThreadCountCareful
<1>2. CASE \E k \in Kernels : \E f \in Fields, v \in Values : SetArg(k, f, v)
  BY <1>2, SetArgCareful
<1>3. CASE \E k \in Kernels : \E s \in Spaces : AssociateThreadSpace(k, s)
  BY <1>3, AssociateThreadSpaceCareful
<1>4. CASE \E k \in Kernels : \E t \in Tasks, s \in Spaces \cup {NoSpace} : Enqueue(t, k, s)
  BY <1>4, EnqueueCareful
<1>5. CASE \E s \in Spaces, us \in SUBSET Units, tids \in ThreadIds : AssociateThreads(s, us, tids)
  BY <1>5, AssociateThreadsCareful
<1>6. CASE Flush \/ Finish
  BY <1>6, FlushCareful, FinishCareful
<1>7. CASE \E x \in DOMAIN batch : Evict(x)
  BY <1>7, EvictCareful
<1>8. CASE Stop \/ UNCHANGED vars
  BY <1>8, StutterCareful DEF Stop
<1> QED BY <1>1, <1>2, <1>3, <1>4, <1>5, <1>6, <1>7, <1>8

\* With a careful caller every task runs with the arguments and the placing of
\* the threads its kernel and its thread space had at the Enqueue, whatever
\* kernel data and batch buffers were updated in place and reused on the way.
THEOREM TasksRunAsEnqueued ==
  ASSUME Careful
  PROVE  Spec => []RunsAsEnqueued
<1>1. Init => CarefulInv
  BY InitCareful
<1>2. SharingInv /\ CarefulInv /\ [Next]_vars => CarefulInv'
  BY StepCareful
<1>3. CarefulInv => RunsAsEnqueued
  BY DEF CarefulInv
<1> QED BY <1>1, <1>2, <1>3, AlwaysSharing, PTL DEF Spec

\* With a careful caller no Enqueue changes data that a waiting task holds.
THEOREM OnlyUnusedDataChanges ==
  ASSUME Careful
  PROVE  Spec => []UpdatesUnusedData
<1>1. Init => CarefulInv
  BY InitCareful
<1>2. SharingInv /\ CarefulInv /\ [Next]_vars => CarefulInv'
  BY StepCareful
<1>3. CarefulInv => UpdatesUnusedData
  BY DEF CarefulInv
<1> QED BY <1>1, <1>2, <1>3, AlwaysSharing, PTL DEF Spec


=============================================================================
