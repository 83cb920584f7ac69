---------------------------- MODULE CmSurfaces_proofs ----------------------------
(***************************************************************************)
(* Proofs about the surface pool, for every number of threads, tasks,      *)
(* indices and kinds of surfaces, every size of the tables and every       *)
(* combination of the switches.                                            *)
(***************************************************************************)
EXTENDS CmSurfacesInv, TLAPS, FiniteSetTheorems, SequenceTheorems

-----------------------------------------------------------------------------
(***************************************************************************)
(* The pool.                                                               *)
(***************************************************************************)
LEMMA KindFacts ==
  /\ NULL \notin Kinds /\ NULL \notin Indices /\ NULL \notin Tasks
  /\ \A th \in Threads : th # NULL
  /\ \A k \in AllKinds : Class(k) \in Classes
  /\ Kinds \subseteq AllKinds
  BY KindsAssumption, NullAssumption DEF AllKinds, Class, Classes

LEMMA FiniteClass ==
  ASSUME NEW c
  PROVE  IsFiniteSet(OfClass(c)) /\ Cardinality(OfClass(c)) \in Nat
<1>1. OfClass(c) \in SUBSET Indices
  BY DEF OfClass
<1> QED BY <1>1, PlacesAssumption, FS_Subset, FS_CardinalityType

\* A destruction keeps the counters in step with the pool.
LEMMA RealDestroyPool ==
  ASSUME TypeOK, PlaceInv, NEW S \in SUBSET Indices, RealDestroy(S)
  PROVE  /\ PlaceInv'
         /\ array' \in [Indices -> Kinds \cup {NULL}]
         /\ released' \in [Indices -> BOOLEAN] /\ cached' \in [Indices -> BOOLEAN]
         /\ destroyId' \in [Indices -> Nat]
         /\ count' \in [Classes -> Nat] /\ halUsed' \in [Classes -> Nat]
         /\ FreeIndices' = FreeIndices \cup S
         /\ S = {} => UNCHANGED <<array, count>>
<1>1. /\ array' = [i \in Indices |-> IF i \in S THEN NULL ELSE array[i]]
      /\ released' = [i \in Indices |-> i \notin S /\ released[i]]
      /\ cached' = [i \in Indices |-> i \notin S /\ cached[i]]
      /\ destroyId' = [i \in Indices |-> IF i \in S THEN destroyId[i] + 1 ELSE destroyId[i]]
      /\ count' = GiveBack(count, S) /\ halUsed' = GiveBack(halUsed, S)
  BY DEF RealDestroy, ClearPlaces
<1>2. /\ array' \in [Indices -> Kinds \cup {NULL}]
      /\ released' \in [Indices -> BOOLEAN] /\ cached' \in [Indices -> BOOLEAN]
      /\ destroyId' \in [Indices -> Nat]
  BY <1>1 DEF TypeOK
<1>3. \A c : OfClass(c)' = OfClass(c) \ S
  BY <1>1 DEF OfClass
<1>4. ASSUME NEW c \in Classes
      PROVE  /\ count'[c] = Cardinality(OfClass(c)') /\ count'[c] \in Nat
             /\ halUsed'[c] \in Nat /\ halUsed'[c] >= count'[c]
             /\ S = {} => count'[c] = count[c]
  <2>1. /\ IsFiniteSet(OfClass(c)) /\ Cardinality(OfClass(c)) \in Nat
        /\ IsFiniteSet(OfClass(c)') /\ Cardinality(OfClass(c)') \in Nat
    BY <1>3, FiniteClass, FS_Difference, FS_CardinalityType
  <2>2. S \cap OfClass(c) = OfClass(c) \cap S
    OBVIOUS
  <2>3. /\ Cardinality(OfClass(c)') = Cardinality(OfClass(c)) - Cardinality(S \cap OfClass(c))
        /\ Cardinality(S \cap OfClass(c)) \in Nat
    BY <1>3, <2>1, <2>2, FS_Difference, FS_Intersection, FS_CardinalityType
  <2>4. /\ count'[c] = count[c] - Cardinality(S \cap OfClass(c))
        /\ halUsed'[c] = halUsed[c] - Cardinality(S \cap OfClass(c))
    BY <1>1 DEF GiveBack
  <2>5. count[c] = Cardinality(OfClass(c)) /\ halUsed[c] >= count[c]
    BY DEF PlaceInv
  <2>6. halUsed[c] \in Nat /\ count[c] \in Nat
    BY DEF TypeOK
  <2>7. S = {} => Cardinality(S \cap OfClass(c)) = 0
    BY FS_EmptySet
  <2> QED BY <2>1, <2>3, <2>4, <2>5, <2>6, <2>7
<1>5. DOMAIN count' = Classes /\ DOMAIN halUsed' = Classes /\ DOMAIN count = Classes
      /\ count' = [c \in Classes |-> count'[c]] /\ halUsed' = [c \in Classes |-> halUsed'[c]]
      /\ count = [c \in Classes |-> count[c]]
  BY <1>1 DEF GiveBack, TypeOK
<1>6. count' \in [Classes -> Nat] /\ halUsed' \in [Classes -> Nat]
  BY <1>4, <1>5
<1>7. FreeIndices' = FreeIndices \cup S
  BY <1>1 DEF FreeIndices
<1>8. S = {} => UNCHANGED <<array, count>>
  <2> SUFFICES ASSUME S = {} PROVE array' = array /\ count' = count
    OBVIOUS
  <2>1. array' = array
    BY <1>1 DEF TypeOK
  <2>2. count' = count
    BY <1>4, <1>5
  <2> QED BY <2>1, <2>2
<1>9. PlaceInv'
  <2>1. \A i \in Indices : /\ array'[i] = NULL => ~released'[i]
                           /\ cached'[i] => released'[i]
    BY <1>1 DEF PlaceInv
  <2> QED BY <1>4, <2>1 DEF PlaceInv
<1> QED BY <1>2, <1>6, <1>7, <1>8, <1>9

-----------------------------------------------------------------------------
(***************************************************************************)
(* PoolInv: one lemma per action.                                          *)
(***************************************************************************)
LEMMA InitPool == Init => PoolInv
<1> SUFFICES ASSUME Init PROVE PoolInv
  OBVIOUS
<1>1. TypeOK
  <2>1. /\ array = [i \in Indices |-> NULL]
        /\ released = [i \in Indices |-> FALSE] /\ cached = [i \in Indices |-> FALSE]
        /\ state = [i \in Indices |-> 0] /\ destroyId = [i \in Indices |-> 0]
        /\ count = [c \in Classes |-> 0] /\ halUsed = [c \in Classes |-> 0]
    BY Zenon DEF Init
  <2>2. /\ held = {} /\ given = {} /\ executed = {} /\ eventless = {} /\ outstanding = <<>>
        /\ uses = [t \in Tasks |-> {}]
    BY Zenon DEF Init
  <2>3. /\ surfLock \in Threads \cup {NULL} /\ queueLock \in Threads \cup {NULL}
        /\ call \in [Threads -> Calls] /\ at \in [Threads -> Places]
        /\ arg \in [Threads -> Kinds \cup Indices \cup Tasks \cup {NULL}]
        /\ device \in {"open", "closing", "noManager", "closed"}
    BY DEF Init, Calls, Places
  <2> QED BY <2>1, <2>2, <2>3 DEF TypeOK
<1>2. \A c : OfClass(c) = {}
  BY DEF Init, OfClass
<1>3. PlaceInv
  <2>1. \A c \in Classes : count[c] = Cardinality(OfClass(c)) /\ halUsed[c] >= count[c]
    <3>1. count = [c \in Classes |-> 0] /\ halUsed = [c \in Classes |-> 0]
      BY Zenon DEF Init
    <3> QED BY <1>2, <3>1, FS_EmptySet
  <2> QED BY <2>1 DEF Init, PlaceInv
<1>4. FrameInv /\ LockInv /\ DeviceInv /\ HeldSurfacesAlive /\ ForceInv /\ ReclaimInv
  BY KindFacts DEF Init, FrameInv, LockInv, DeviceInv, HeldSurfacesAlive, ForceInv,
     ReclaimInv, Creating, Idle
<1> QED BY <1>1, <1>3, <1>4 DEF PoolInv

LEMMA DestroySurfacePool ==
  ASSUME PoolInv, NEW th \in Threads, NEW i \in Indices, DestroySurface(th, i)
  PROVE  PoolInv'
<1>1. /\ i \in held /\ held' = held \ {i} /\ surfLock = NULL
      /\ UNCHANGED <<state, queueVars, lockVars, callVars, device>>
  BY DEF DestroySurface
<1>2. \A h \in Threads : ~Creating(h) /\ call[h] # "force"
  BY <1>1, KindFacts DEF PoolInv, LockInv
<1>3. /\ PlaceInv'
      /\ array' \in [Indices -> Kinds \cup {NULL}]
      /\ released' \in [Indices -> BOOLEAN] /\ cached' \in [Indices -> BOOLEAN]
      /\ destroyId' \in [Indices -> Nat]
      /\ count' \in [Classes -> Nat] /\ halUsed' \in [Classes -> Nat]
      /\ FreeIndices \subseteq FreeIndices'
      /\ \A j \in Indices \ {i} :
           array'[j] = array[j] /\ released'[j] = released[j] /\ cached'[j] = cached[j]
  <2>1. CASE Recycled(i)
    <3>1. /\ released' = [released EXCEPT ![i] = TRUE]
          /\ cached' = [cached EXCEPT ![i] = TRUE]
          /\ UNCHANGED <<array, destroyId, count, halUsed>>
      BY <2>1 DEF DestroySurface
    <3> QED BY <1>1, <3>1 DEF PoolInv, TypeOK, PlaceInv, FreeIndices, OfClass, HeldSurfacesAlive
  <2>2. CASE ~Recycled(i) /\ state[i] = 0
    <3>1. RealDestroy({i})
      BY <2>2 DEF DestroySurface
    <3>2. {i} \in SUBSET Indices
      OBVIOUS
    <3>3. \A j \in Indices \ {i} :
            array'[j] = array[j] /\ released'[j] = released[j] /\ cached'[j] = cached[j]
      BY <3>1 DEF RealDestroy, ClearPlaces, PoolInv, TypeOK
    <3> QED BY <3>1, <3>2, <3>3, RealDestroyPool DEF PoolInv
  <2>3. CASE ~Recycled(i) /\ state[i] # 0
    <3>1. /\ released' = [released EXCEPT ![i] = TRUE]
          /\ UNCHANGED <<array, cached, destroyId, count, halUsed>>
      BY <2>3 DEF DestroySurface
    <3> QED BY <1>1, <3>1 DEF PoolInv, TypeOK, PlaceInv, FreeIndices, OfClass, HeldSurfacesAlive
  <2> QED BY <2>1, <2>2, <2>3
<1>4. TypeOK'
  BY <1>1, <1>3 DEF PoolInv, TypeOK, queueVars, lockVars, callVars
<1>5. FrameInv' /\ LockInv'
  BY <1>1 DEF PoolInv, FrameInv, LockInv, Creating, lockVars, callVars
<1>6. DeviceInv'
  BY <1>1, <1>3 DEF PoolInv, DeviceInv, Idle, callVars, FreeIndices
<1>7. HeldSurfacesAlive'
  BY <1>1, <1>3 DEF PoolInv, HeldSurfacesAlive, TypeOK
<1>8. ForceInv' /\ ReclaimInv'
  BY <1>1, <1>2 DEF ForceInv, ReclaimInv, Creating, callVars
<1> QED BY <1>3, <1>4, <1>5, <1>6, <1>7, <1>8 DEF PoolInv

\* What follows when a step leaves the pool alone.
LEMMA SamePool ==
  ASSUME PoolInv, UNCHANGED poolVars, held' \subseteq held
  PROVE  /\ PlaceInv' /\ HeldSurfacesAlive'
         /\ FreeIndices' = FreeIndices
         /\ \A k : LimitReached(k)' = LimitReached(k)
<1>1. UNCHANGED <<array, released, cached, destroyId, count, halUsed>>
  BY DEF poolVars
<1>2. \A c : OfClass(c)' = OfClass(c)
  BY <1>1 DEF OfClass
<1>3. PlaceInv'
  BY <1>1, <1>2 DEF PoolInv, PlaceInv
<1>4. HeldSurfacesAlive' /\ FreeIndices' = FreeIndices
  BY <1>1 DEF PoolInv, HeldSurfacesAlive, FreeIndices
<1> QED BY <1>1, <1>3, <1>4 DEF LimitReached


LEMMA ForceDestroyPool ==
  ASSUME PoolInv, NEW th \in Threads, NEW i \in Indices, ForceDestroy(th, i)
  PROVE  PoolInv'
<1>1. UNCHANGED poolVars /\ held' \subseteq held
  BY DEF ForceDestroy, Enter
<1>2. /\ PlaceInv' /\ HeldSurfacesAlive' /\ FreeIndices' = FreeIndices
      /\ \A k : LimitReached(k)' = LimitReached(k)
  BY <1>1, SamePool
<1>3. TypeOK'
  BY <1>1, KindFacts DEF ForceDestroy, Enter, PoolInv, TypeOK, Calls, Places, poolVars, queueVars, lockVars, callVars
<1>4. FrameInv'
  BY KindFacts DEF ForceDestroy, Enter, PoolInv, TypeOK, FrameInv, Creating, Idle, queueVars, lockVars, callVars
<1>5. LockInv'
  BY KindFacts DEF ForceDestroy, Enter, PoolInv, TypeOK, FrameInv, LockInv, Creating, Idle, queueVars, lockVars, callVars
<1>6. DeviceInv'
  BY <1>2 DEF ForceDestroy, Enter, PoolInv, TypeOK, FrameInv, DeviceInv, Creating, Idle, queueVars, lockVars, callVars
<1>7. ForceInv'
  BY <1>1, ZenonT(60) DEF ForceDestroy, Enter, PoolInv, TypeOK, FrameInv, ForceInv, HeldSurfacesAlive, Creating, Idle, poolVars, queueVars, lockVars, callVars
<1>8. ReclaimInv'
  BY <1>1, <1>2 DEF ForceDestroy, Enter, PoolInv, TypeOK, FrameInv, ReclaimInv, Creating, Idle, queueVars, lockVars, callVars
<1> QED BY <1>2, <1>3, <1>4, <1>5, <1>6, <1>7, <1>8 DEF PoolInv

LEMMA CreateSurfacePool ==
  ASSUME PoolInv, NEW th \in Threads, NEW k \in Kinds, CreateSurface(th, k)
  PROVE  PoolInv'
<1>1. UNCHANGED poolVars /\ held' \subseteq held
  BY DEF CreateSurface, Enter
<1>2. /\ PlaceInv' /\ HeldSurfacesAlive' /\ FreeIndices' = FreeIndices
      /\ \A x : LimitReached(x)' = LimitReached(x)
  BY <1>1, SamePool
<1>3. TypeOK'
  BY <1>1, KindFacts DEF CreateSurface, Enter, PoolInv, TypeOK, Calls, Places, poolVars, queueVars, lockVars, callVars
<1>4. FrameInv'
  BY KindFacts DEF CreateSurface, Enter, PoolInv, TypeOK, FrameInv, Creating, Idle, queueVars, lockVars, callVars
<1>5. LockInv'
  BY KindFacts DEF CreateSurface, Enter, PoolInv, TypeOK, FrameInv, LockInv, Creating, Idle, queueVars, lockVars, callVars
<1>6. DeviceInv'
  BY <1>2 DEF CreateSurface, Enter, PoolInv, TypeOK, FrameInv, DeviceInv, Creating, Idle, queueVars, lockVars, callVars
<1>7. ForceInv'
  BY <1>1, ZenonT(60) DEF CreateSurface, Enter, PoolInv, TypeOK, FrameInv, ForceInv, HeldSurfacesAlive, Creating, Idle, poolVars, queueVars, lockVars, callVars
<1>8. ReclaimInv'
  BY <1>1, <1>2 DEF CreateSurface, Enter, PoolInv, TypeOK, FrameInv, ReclaimInv, Creating, Idle, queueVars, lockVars, callVars
<1> QED BY <1>2, <1>3, <1>4, <1>5, <1>6, <1>7, <1>8 DEF PoolInv

LEMMA CollectForIndexPool ==
  ASSUME PoolInv, NEW th \in Threads, NEW k \in Kinds, CollectForIndex(th, k)
  PROVE  PoolInv'
<1>1. UNCHANGED poolVars /\ held' \subseteq held
  BY DEF CollectForIndex, At
<1>2. /\ PlaceInv' /\ HeldSurfacesAlive' /\ FreeIndices' = FreeIndices
      /\ \A x : LimitReached(x)' = LimitReached(x)
  BY <1>1, SamePool
<1>3. TypeOK'
  BY <1>1, KindFacts DEF CollectForIndex, At, PoolInv, TypeOK, Calls, Places, poolVars, queueVars, lockVars, callVars
<1>4. FrameInv'
  BY KindFacts DEF CollectForIndex, At, PoolInv, TypeOK, FrameInv, Creating, Idle, queueVars, lockVars, callVars
<1>5. LockInv'
  BY KindFacts DEF CollectForIndex, At, PoolInv, TypeOK, FrameInv, LockInv, Creating, Idle, queueVars, lockVars, callVars
<1>6. DeviceInv'
  BY <1>2 DEF CollectForIndex, At, PoolInv, TypeOK, FrameInv, DeviceInv, Creating, Idle, queueVars, lockVars, callVars
<1>7. ForceInv'
  BY <1>1 DEF CollectForIndex, At, PoolInv, TypeOK, FrameInv, ForceInv, HeldSurfacesAlive, Creating, Idle, poolVars, queueVars, lockVars, callVars
<1>8. ReclaimInv'
  BY <1>1, <1>2 DEF CollectForIndex, At, PoolInv, TypeOK, FrameInv, ReclaimInv, Creating, Idle, queueVars, lockVars, callVars
<1> QED BY <1>2, <1>3, <1>4, <1>5, <1>6, <1>7, <1>8 DEF PoolInv

LEMMA RefusePool ==
  ASSUME PoolInv, NEW th \in Threads, NEW k \in Kinds, Refuse(th, k)
  PROVE  PoolInv'
<1>1. UNCHANGED poolVars /\ held' \subseteq held
  BY DEF Refuse, At, CreateReturns, Leave
<1>2. /\ PlaceInv' /\ HeldSurfacesAlive' /\ FreeIndices' = FreeIndices
      /\ \A x : LimitReached(x)' = LimitReached(x)
  BY <1>1, SamePool
<1>3. TypeOK'
  BY <1>1, KindFacts DEF Refuse, At, CreateReturns, Leave, PoolInv, TypeOK, Calls, Places, poolVars, queueVars, lockVars, callVars
<1>4. FrameInv'
  BY KindFacts DEF Refuse, At, CreateReturns, Leave, PoolInv, TypeOK, FrameInv, Creating, Idle, queueVars, lockVars, callVars
<1>5. LockInv'
  BY KindFacts DEF Refuse, At, CreateReturns, Leave, PoolInv, TypeOK, FrameInv, LockInv, Creating, Idle, queueVars, lockVars, callVars
<1>6. DeviceInv'
  BY <1>2 DEF Refuse, At, CreateReturns, Leave, PoolInv, TypeOK, FrameInv, DeviceInv, Creating, Idle, queueVars, lockVars, callVars
<1>7. ForceInv'
  BY <1>1 DEF Refuse, At, CreateReturns, Leave, PoolInv, TypeOK, FrameInv, ForceInv, HeldSurfacesAlive, Creating, Idle, poolVars, queueVars, lockVars, callVars
<1>8. ReclaimInv'
  BY <1>1, <1>2 DEF Refuse, At, CreateReturns, Leave, PoolInv, TypeOK, FrameInv, ReclaimInv, Creating, Idle, queueVars, lockVars, callVars
<1> QED BY <1>2, <1>3, <1>4, <1>5, <1>6, <1>7, <1>8 DEF PoolInv

LEMMA TouchPool ==
  ASSUME PoolInv, NEW th \in Threads, Touch(th)
  PROVE  PoolInv'
<1>1. UNCHANGED poolVars /\ held' \subseteq held
  BY DEF Touch, Goto
<1>2. /\ PlaceInv' /\ HeldSurfacesAlive' /\ FreeIndices' = FreeIndices
      /\ \A k : LimitReached(k)' = LimitReached(k)
  BY <1>1, SamePool
<1>3. TypeOK'
  BY <1>1, KindFacts DEF Touch, Goto, PoolInv, TypeOK, Calls, Places, poolVars, queueVars, lockVars, callVars
<1>4. FrameInv'
  BY KindFacts DEF Touch, Goto, PoolInv, TypeOK, FrameInv, Creating, Idle, queueVars, lockVars, callVars
<1>5. LockInv'
  BY KindFacts, ZenonT(60) DEF Touch, Goto, PoolInv, TypeOK, FrameInv, LockInv, Creating, Idle, queueVars, lockVars, callVars
<1>6. DeviceInv'
  BY <1>2, ZenonT(60) DEF Touch, Goto, PoolInv, TypeOK, FrameInv, DeviceInv, Creating, Idle, queueVars, lockVars, callVars
<1>7. ForceInv'
  BY <1>1, ZenonT(60) DEF Touch, Goto, PoolInv, TypeOK, FrameInv, ForceInv, HeldSurfacesAlive, Creating, Idle, poolVars, queueVars, lockVars, callVars
<1>8. ReclaimInv'
  BY <1>1, <1>2 DEF Touch, Goto, PoolInv, TypeOK, FrameInv, ReclaimInv, Creating, Idle, queueVars, lockVars, callVars
<1> QED BY <1>2, <1>3, <1>4, <1>5, <1>6, <1>7, <1>8 DEF PoolInv

LEMMA PopTaskPool ==
  ASSUME PoolInv, NEW th \in Threads, PopTask(th)
  PROVE  PoolInv'
<1>1. UNCHANGED poolVars /\ held' \subseteq held
  BY DEF PopTask, HeadHasRun, UpdateSurfaceStateOnPop
<1>2. /\ PlaceInv' /\ HeldSurfacesAlive' /\ FreeIndices' = FreeIndices
      /\ \A k : LimitReached(k)' = LimitReached(k)
  BY <1>1, SamePool
<1>3. TypeOK'
  <2>1. /\ state' \in [Indices -> Int] /\ outstanding' \in Seq(Tasks)
        /\ given' \in SUBSET Tasks /\ uses' \in [Tasks -> SUBSET (Indices \X Nat)]
        /\ executed' \in SUBSET Tasks /\ eventless' \in SUBSET Tasks
    BY HeadTailProperties DEF PopTask, HeadHasRun, UpdateSurfaceStateOnPop, PoolInv, TypeOK
  <2>2. /\ array' \in [Indices -> Kinds \cup {NULL}]
        /\ released' \in [Indices -> BOOLEAN] /\ cached' \in [Indices -> BOOLEAN]
        /\ destroyId' \in [Indices -> Nat]
        /\ count' \in [Classes -> Nat] /\ halUsed' \in [Classes -> Nat]
        /\ held' \in SUBSET Indices
    BY <1>1 DEF PoolInv, TypeOK, poolVars
  <2>3. /\ surfLock' \in Threads \cup {NULL} /\ queueLock' \in Threads \cup {NULL}
        /\ call' \in [Threads -> Calls] /\ at' \in [Threads -> Places]
        /\ arg' \in [Threads -> Kinds \cup Indices \cup Tasks \cup {NULL}]
        /\ device' \in {"open", "closing", "noManager", "closed"}
    BY DEF PopTask, PoolInv, TypeOK, Calls, Places, lockVars, callVars
  <2> QED BY <2>1, <2>2, <2>3 DEF TypeOK
<1>4. FrameInv'
  BY KindFacts DEF PopTask, HeadHasRun, UpdateSurfaceStateOnPop, PoolInv, TypeOK, FrameInv, Creating, Idle, queueVars, lockVars, callVars
<1>5. LockInv'
  BY KindFacts DEF PopTask, HeadHasRun, UpdateSurfaceStateOnPop, PoolInv, TypeOK, FrameInv, LockInv, Creating, Idle, queueVars, lockVars, callVars
<1>6. DeviceInv'
  BY <1>2 DEF PopTask, HeadHasRun, UpdateSurfaceStateOnPop, PoolInv, TypeOK, FrameInv, DeviceInv, Creating, Idle, queueVars, lockVars, callVars
<1>7. ForceInv'
  BY <1>1, ZenonT(60) DEF PopTask, HeadHasRun, UpdateSurfaceStateOnPop, PoolInv, TypeOK, FrameInv, ForceInv, HeldSurfacesAlive, Creating, Idle, poolVars, queueVars, lockVars, callVars
<1>8. ReclaimInv'
  BY <1>1, <1>2 DEF PopTask, HeadHasRun, UpdateSurfaceStateOnPop, PoolInv, TypeOK, FrameInv, ReclaimInv, Creating, Idle, queueVars, lockVars, callVars
<1> QED BY <1>2, <1>3, <1>4, <1>5, <1>6, <1>7, <1>8 DEF PoolInv

LEMMA QueryReturnsPool ==
  ASSUME PoolInv, NEW th \in Threads, QueryReturns(th)
  PROVE  PoolInv'
<1>1. UNCHANGED poolVars /\ held' \subseteq held
  BY DEF QueryReturns, Goto, Leave
<1>2. /\ PlaceInv' /\ HeldSurfacesAlive' /\ FreeIndices' = FreeIndices
      /\ \A k : LimitReached(k)' = LimitReached(k)
  BY <1>1, SamePool
<1>3. TypeOK'
  BY <1>1, KindFacts DEF QueryReturns, Goto, Leave, PoolInv, TypeOK, Calls, Places, poolVars, queueVars, lockVars, callVars
<1>4. FrameInv'
  BY KindFacts, ZenonT(60) DEF QueryReturns, Goto, Leave, PoolInv, TypeOK, FrameInv, Creating, Idle, queueVars, lockVars, callVars
<1>5. LockInv'
  BY KindFacts, ZenonT(60) DEF QueryReturns, Goto, Leave, PoolInv, TypeOK, FrameInv, LockInv, Creating, Idle, queueVars, lockVars, callVars
<1>6. DeviceInv'
  BY <1>2 DEF QueryReturns, Goto, Leave, PoolInv, TypeOK, FrameInv, DeviceInv, Creating, Idle, queueVars, lockVars, callVars
<1>7. ForceInv'
  <2>1. \A h \in Threads : call'[h] = "force" => call[h] = "force" /\ arg'[h] = arg[h]
    BY DEF QueryReturns, Goto, Leave, PoolInv, TypeOK, FrameInv, Creating, Idle
  <2> QED BY <1>1, <2>1 DEF PoolInv, ForceInv, poolVars
<1>8. ReclaimInv'
  BY <1>1, <1>2 DEF QueryReturns, Goto, Leave, PoolInv, TypeOK, FrameInv, ReclaimInv, Creating, Idle, queueVars, lockVars, callVars
<1> QED BY <1>2, <1>3, <1>4, <1>5, <1>6, <1>7, <1>8 DEF PoolInv

LEMMA WaitForReferenceFreePool ==
  ASSUME PoolInv, NEW th \in Threads, WaitForReferenceFree(th)
  PROVE  PoolInv'
<1>1. UNCHANGED poolVars /\ held' \subseteq held
  BY DEF WaitForReferenceFree, Goto
<1>2. /\ PlaceInv' /\ HeldSurfacesAlive' /\ FreeIndices' = FreeIndices
      /\ \A k : LimitReached(k)' = LimitReached(k)
  BY <1>1, SamePool
<1>3. TypeOK'
  BY <1>1, KindFacts DEF WaitForReferenceFree, Goto, PoolInv, TypeOK, Calls, Places, poolVars, queueVars, lockVars, callVars
<1>4. FrameInv'
  BY KindFacts DEF WaitForReferenceFree, Goto, PoolInv, TypeOK, FrameInv, Creating, Idle, queueVars, lockVars, callVars
<1>5. LockInv'
  BY KindFacts DEF WaitForReferenceFree, Goto, PoolInv, TypeOK, FrameInv, LockInv, Creating, Idle, queueVars, lockVars, callVars
<1>6. DeviceInv'
  BY <1>2 DEF WaitForReferenceFree, Goto, PoolInv, TypeOK, FrameInv, DeviceInv, Creating, Idle, queueVars, lockVars, callVars
<1>7. ForceInv'
  BY <1>1 DEF WaitForReferenceFree, Goto, PoolInv, TypeOK, FrameInv, ForceInv, HeldSurfacesAlive, Creating, Idle, poolVars, queueVars, lockVars, callVars
<1>8. ReclaimInv'
  BY <1>1, <1>2 DEF WaitForReferenceFree, Goto, PoolInv, TypeOK, FrameInv, ReclaimInv, Creating, Idle, queueVars, lockVars, callVars
<1> QED BY <1>2, <1>3, <1>4, <1>5, <1>6, <1>7, <1>8 DEF PoolInv

LEMMA AccessSurfacePool ==
  ASSUME PoolInv, NEW th \in Threads, NEW i \in Indices, AccessSurface(th, i)
  PROVE  PoolInv'
<1>1. UNCHANGED poolVars /\ held' \subseteq held
  BY DEF AccessSurface, Enter
<1>2. /\ PlaceInv' /\ HeldSurfacesAlive' /\ FreeIndices' = FreeIndices
      /\ \A k : LimitReached(k)' = LimitReached(k)
  BY <1>1, SamePool
<1>3. TypeOK'
  BY <1>1, KindFacts DEF AccessSurface, Enter, PoolInv, TypeOK, Calls, Places, poolVars, queueVars, lockVars, callVars
<1>4. FrameInv'
  BY KindFacts, ZenonT(60) DEF AccessSurface, Enter, PoolInv, TypeOK, FrameInv, Creating, Idle, queueVars, lockVars, callVars
<1>5. LockInv'
  BY KindFacts, ZenonT(60) DEF AccessSurface, Enter, PoolInv, TypeOK, FrameInv, LockInv, Creating, Idle, queueVars, lockVars, callVars
<1>6. DeviceInv'
  BY <1>2 DEF AccessSurface, Enter, PoolInv, TypeOK, FrameInv, DeviceInv, Creating, Idle, queueVars, lockVars, callVars
<1>7. ForceInv'
  BY <1>1, ZenonT(60) DEF AccessSurface, Enter, PoolInv, TypeOK, FrameInv, ForceInv, HeldSurfacesAlive, Creating, Idle, poolVars, queueVars, lockVars, callVars
<1>8. ReclaimInv'
  BY <1>1, <1>2 DEF AccessSurface, Enter, PoolInv, TypeOK, FrameInv, ReclaimInv, Creating, Idle, queueVars, lockVars, callVars
<1> QED BY <1>2, <1>3, <1>4, <1>5, <1>6, <1>7, <1>8 DEF PoolInv

LEMMA FlushReturnsPool ==
  ASSUME PoolInv, NEW th \in Threads, FlushReturns(th)
  PROVE  PoolInv'
<1>1. UNCHANGED poolVars /\ held' \subseteq held
  BY DEF FlushReturns, Goto
<1>2. /\ PlaceInv' /\ HeldSurfacesAlive' /\ FreeIndices' = FreeIndices
      /\ \A k : LimitReached(k)' = LimitReached(k)
  BY <1>1, SamePool
<1>3. TypeOK'
  BY <1>1, KindFacts DEF FlushReturns, Goto, PoolInv, TypeOK, Calls, Places, poolVars, queueVars, lockVars, callVars
<1>4. FrameInv'
  BY KindFacts DEF FlushReturns, Goto, PoolInv, TypeOK, FrameInv, Creating, Idle, queueVars, lockVars, callVars
<1>5. LockInv'
  BY KindFacts DEF FlushReturns, Goto, PoolInv, TypeOK, FrameInv, LockInv, Creating, Idle, queueVars, lockVars, callVars
<1>6. DeviceInv'
  BY <1>2 DEF FlushReturns, Goto, PoolInv, TypeOK, FrameInv, DeviceInv, Creating, Idle, queueVars, lockVars, callVars
<1>7. ForceInv'
  BY <1>1 DEF FlushReturns, Goto, PoolInv, TypeOK, FrameInv, ForceInv, HeldSurfacesAlive, Creating, Idle, poolVars, queueVars, lockVars, callVars
<1>8. ReclaimInv'
  BY <1>1, <1>2 DEF FlushReturns, Goto, PoolInv, TypeOK, FrameInv, ReclaimInv, Creating, Idle, queueVars, lockVars, callVars
<1> QED BY <1>2, <1>3, <1>4, <1>5, <1>6, <1>7, <1>8 DEF PoolInv

LEMMA FlushTimesOutPool ==
  ASSUME PoolInv, NEW th \in Threads, FlushTimesOut(th)
  PROVE  PoolInv'
<1>1. UNCHANGED poolVars /\ held' \subseteq held
  BY DEF FlushTimesOut, Goto
<1>2. /\ PlaceInv' /\ HeldSurfacesAlive' /\ FreeIndices' = FreeIndices
      /\ \A k : LimitReached(k)' = LimitReached(k)
  BY <1>1, SamePool
<1>3. TypeOK'
  BY <1>1, KindFacts DEF FlushTimesOut, Goto, PoolInv, TypeOK, Calls, Places, poolVars, queueVars, lockVars, callVars
<1>4. FrameInv'
  BY KindFacts DEF FlushTimesOut, Goto, PoolInv, TypeOK, FrameInv, Creating, Idle, queueVars, lockVars, callVars
<1>5. LockInv'
  BY KindFacts DEF FlushTimesOut, Goto, PoolInv, TypeOK, FrameInv, LockInv, Creating, Idle, queueVars, lockVars, callVars
<1>6. DeviceInv'
  BY <1>2 DEF FlushTimesOut, Goto, PoolInv, TypeOK, FrameInv, DeviceInv, Creating, Idle, queueVars, lockVars, callVars
<1>7. ForceInv'
  BY <1>1, ZenonT(60) DEF FlushTimesOut, Goto, PoolInv, TypeOK, FrameInv, ForceInv, HeldSurfacesAlive, Creating, Idle, poolVars, queueVars, lockVars, callVars
<1>8. ReclaimInv'
  BY <1>1, <1>2 DEF FlushTimesOut, Goto, PoolInv, TypeOK, FrameInv, ReclaimInv, Creating, Idle, queueVars, lockVars, callVars
<1> QED BY <1>2, <1>3, <1>4, <1>5, <1>6, <1>7, <1>8 DEF PoolInv

LEMMA AccessedPool ==
  ASSUME PoolInv, NEW th \in Threads, Accessed(th)
  PROVE  PoolInv'
<1>1. UNCHANGED poolVars /\ held' \subseteq held
  BY DEF Accessed, Leave
<1>2. /\ PlaceInv' /\ HeldSurfacesAlive' /\ FreeIndices' = FreeIndices
      /\ \A k : LimitReached(k)' = LimitReached(k)
  BY <1>1, SamePool
<1>3. TypeOK'
  BY <1>1, KindFacts DEF Accessed, Leave, PoolInv, TypeOK, Calls, Places, poolVars, queueVars, lockVars, callVars
<1>4. FrameInv'
  BY KindFacts DEF Accessed, Leave, PoolInv, TypeOK, FrameInv, Creating, Idle, queueVars, lockVars, callVars
<1>5. LockInv'
  BY KindFacts DEF Accessed, Leave, PoolInv, TypeOK, FrameInv, LockInv, Creating, Idle, queueVars, lockVars, callVars
<1>6. DeviceInv'
  BY <1>2 DEF Accessed, Leave, PoolInv, TypeOK, FrameInv, DeviceInv, Creating, Idle, queueVars, lockVars, callVars
<1>7. ForceInv'
  BY <1>1 DEF Accessed, Leave, PoolInv, TypeOK, FrameInv, ForceInv, HeldSurfacesAlive, Creating, Idle, poolVars, queueVars, lockVars, callVars
<1>8. ReclaimInv'
  BY <1>1, <1>2 DEF Accessed, Leave, PoolInv, TypeOK, FrameInv, ReclaimInv, Creating, Idle, queueVars, lockVars, callVars
<1> QED BY <1>2, <1>3, <1>4, <1>5, <1>6, <1>7, <1>8 DEF PoolInv

LEMMA EnqueuePool ==
  ASSUME PoolInv, NEW th \in Threads, NEW t \in Tasks, NEW S \in SUBSET Indices, Enqueue(th, t, S)
  PROVE  PoolInv'
<1>1. UNCHANGED poolVars /\ held' \subseteq held
  BY DEF Enqueue, Enter
<1>2. /\ PlaceInv' /\ HeldSurfacesAlive' /\ FreeIndices' = FreeIndices
      /\ \A k : LimitReached(k)' = LimitReached(k)
  BY <1>1, SamePool
<1>3. TypeOK'
  <2>1. /\ state' \in [Indices -> Int] /\ outstanding' \in Seq(Tasks)
        /\ given' \in SUBSET Tasks /\ executed' \in SUBSET Tasks /\ eventless' \in SUBSET Tasks
    BY DEF Enqueue, PoolInv, TypeOK
  <2>4. {<<i, destroyId[i]>> : i \in S} \in SUBSET (Indices \X Nat)
    BY DEF PoolInv, TypeOK
  <2>5. uses' \in [Tasks -> SUBSET (Indices \X Nat)]
    BY <2>4 DEF Enqueue, PoolInv, TypeOK
  <2>2. /\ array' \in [Indices -> Kinds \cup {NULL}]
        /\ released' \in [Indices -> BOOLEAN] /\ cached' \in [Indices -> BOOLEAN]
        /\ destroyId' \in [Indices -> Nat]
        /\ count' \in [Classes -> Nat] /\ halUsed' \in [Classes -> Nat]
        /\ held' \in SUBSET Indices
    BY <1>1 DEF PoolInv, TypeOK, poolVars
  <2>3. /\ surfLock' \in Threads \cup {NULL} /\ queueLock' \in Threads \cup {NULL}
        /\ call' \in [Threads -> Calls] /\ at' \in [Threads -> Places]
        /\ arg' \in [Threads -> Kinds \cup Indices \cup Tasks \cup {NULL}]
        /\ device' \in {"open", "closing", "noManager", "closed"}
    BY DEF Enqueue, Enter, PoolInv, TypeOK, Calls, Places, lockVars, callVars
  <2> QED BY <2>1, <2>2, <2>3, <2>5 DEF TypeOK
<1>4. FrameInv'
  BY KindFacts DEF Enqueue, Enter, PoolInv, TypeOK, FrameInv, Creating, Idle, queueVars, lockVars, callVars
<1>5. LockInv'
  BY KindFacts DEF Enqueue, Enter, PoolInv, TypeOK, FrameInv, LockInv, Creating, Idle, queueVars, lockVars, callVars
<1>6. DeviceInv'
  BY <1>2 DEF Enqueue, Enter, PoolInv, TypeOK, FrameInv, DeviceInv, Creating, Idle, queueVars, lockVars, callVars
<1>7. ForceInv'
  BY <1>1, ZenonT(60) DEF Enqueue, Enter, PoolInv, TypeOK, FrameInv, ForceInv, HeldSurfacesAlive, Creating, Idle, poolVars, queueVars, lockVars, callVars
<1>8. ReclaimInv'
  BY <1>1, <1>2 DEF Enqueue, Enter, PoolInv, TypeOK, FrameInv, ReclaimInv, Creating, Idle, queueVars, lockVars, callVars
<1> QED BY <1>2, <1>3, <1>4, <1>5, <1>6, <1>7, <1>8 DEF PoolInv

LEMMA EnqueueWithoutEventPool ==
  ASSUME PoolInv, NEW th \in Threads, EnqueueWithoutEvent(th)
  PROVE  PoolInv'
<1>1. UNCHANGED poolVars /\ held' \subseteq held
  BY DEF EnqueueWithoutEvent, Leave
<1>2. /\ PlaceInv' /\ HeldSurfacesAlive' /\ FreeIndices' = FreeIndices
      /\ \A k : LimitReached(k)' = LimitReached(k)
  BY <1>1, SamePool
<1>3. TypeOK'
  <2>1. /\ state' \in [Indices -> Int] /\ outstanding' \in Seq(Tasks)
        /\ given' \in SUBSET Tasks /\ uses' \in [Tasks -> SUBSET (Indices \X Nat)]
        /\ executed' \in SUBSET Tasks /\ eventless' \in SUBSET Tasks
    <3>1. call[th] = "enqueue"
      BY DEF EnqueueWithoutEvent, PoolInv, TypeOK, FrameInv, Creating, Calls
    <3>2. arg[th] \in Tasks
      BY <3>1 DEF PoolInv, FrameInv
    <3> QED BY <3>2 DEF EnqueueWithoutEvent, PoolInv, TypeOK
  <2>2. /\ array' \in [Indices -> Kinds \cup {NULL}]
        /\ released' \in [Indices -> BOOLEAN] /\ cached' \in [Indices -> BOOLEAN]
        /\ destroyId' \in [Indices -> Nat]
        /\ count' \in [Classes -> Nat] /\ halUsed' \in [Classes -> Nat]
        /\ held' \in SUBSET Indices
    BY <1>1 DEF PoolInv, TypeOK, poolVars
  <2>3. /\ surfLock' \in Threads \cup {NULL} /\ queueLock' \in Threads \cup {NULL}
        /\ call' \in [Threads -> Calls] /\ at' \in [Threads -> Places]
        /\ arg' \in [Threads -> Kinds \cup Indices \cup Tasks \cup {NULL}]
        /\ device' \in {"open", "closing", "noManager", "closed"}
    BY DEF EnqueueWithoutEvent, Leave, PoolInv, TypeOK, Calls, Places, lockVars, callVars
  <2> QED BY <2>1, <2>2, <2>3 DEF TypeOK
<1>4. FrameInv'
  BY KindFacts DEF EnqueueWithoutEvent, Leave, PoolInv, TypeOK, FrameInv, Creating, Idle, queueVars, lockVars, callVars
<1>5. LockInv'
  BY KindFacts DEF EnqueueWithoutEvent, Leave, PoolInv, TypeOK, FrameInv, LockInv, Creating, Idle, queueVars, lockVars, callVars
<1>6. DeviceInv'
  BY <1>2 DEF EnqueueWithoutEvent, Leave, PoolInv, TypeOK, FrameInv, DeviceInv, Creating, Idle, queueVars, lockVars, callVars
<1>7. ForceInv'
  BY <1>1, ZenonT(60) DEF EnqueueWithoutEvent, Leave, PoolInv, TypeOK, FrameInv, ForceInv, HeldSurfacesAlive, Creating, Idle, poolVars, queueVars, lockVars, callVars
<1>8. ReclaimInv'
  BY <1>1, <1>2 DEF EnqueueWithoutEvent, Leave, PoolInv, TypeOK, FrameInv, ReclaimInv, Creating, Idle, queueVars, lockVars, callVars
<1> QED BY <1>2, <1>3, <1>4, <1>5, <1>6, <1>7, <1>8 DEF PoolInv

LEMMA DestroyDevicePool ==
  ASSUME PoolInv, NEW th \in Threads, DestroyDevice(th)
  PROVE  PoolInv'
<1>1. UNCHANGED poolVars /\ held' \subseteq held
  BY DEF DestroyDevice, Enter
<1>2. /\ PlaceInv' /\ HeldSurfacesAlive' /\ FreeIndices' = FreeIndices
      /\ \A k : LimitReached(k)' = LimitReached(k)
  BY <1>1, SamePool
<1>3. TypeOK'
  BY <1>1, KindFacts DEF DestroyDevice, Enter, PoolInv, TypeOK, Calls, Places, poolVars, queueVars, lockVars, callVars
<1>4. FrameInv'
  BY KindFacts DEF DestroyDevice, Enter, PoolInv, TypeOK, FrameInv, Creating, Idle, queueVars, lockVars, callVars
<1>5. LockInv'
  BY KindFacts DEF DestroyDevice, Enter, PoolInv, TypeOK, FrameInv, LockInv, Creating, Idle, queueVars, lockVars, callVars
<1>6. DeviceInv'
  BY <1>2 DEF DestroyDevice, Enter, PoolInv, TypeOK, FrameInv, DeviceInv, Creating, Idle, queueVars, lockVars, callVars
<1>7. ForceInv'
  BY <1>1 DEF DestroyDevice, Enter, PoolInv, TypeOK, FrameInv, ForceInv, HeldSurfacesAlive, Creating, Idle, poolVars, queueVars, lockVars, callVars
<1>8. ReclaimInv'
  BY <1>1, <1>2 DEF DestroyDevice, Enter, PoolInv, TypeOK, FrameInv, ReclaimInv, Creating, Idle, queueVars, lockVars, callVars
<1> QED BY <1>2, <1>3, <1>4, <1>5, <1>6, <1>7, <1>8 DEF PoolInv

LEMMA TeardownNextPool ==
  ASSUME PoolInv, NEW th \in Threads, TeardownNext(th)
  PROVE  PoolInv'
<1>1. UNCHANGED poolVars /\ held' \subseteq held
  BY DEF TeardownNext, Goto
<1>2. /\ PlaceInv' /\ HeldSurfacesAlive' /\ FreeIndices' = FreeIndices
      /\ \A k : LimitReached(k)' = LimitReached(k)
  BY <1>1, SamePool
<1>3. TypeOK'
  BY <1>1, KindFacts, ZenonT(60) DEF TeardownNext, Goto, PoolInv, TypeOK, Calls, Places, poolVars, queueVars, lockVars, callVars
<1>4. FrameInv'
  BY KindFacts, ZenonT(60) DEF TeardownNext, Goto, PoolInv, TypeOK, FrameInv, Creating, Idle, queueVars, lockVars, callVars
<1>5. LockInv'
  BY KindFacts DEF TeardownNext, Goto, PoolInv, TypeOK, FrameInv, LockInv, Creating, Idle, queueVars, lockVars, callVars
<1>6. DeviceInv'
  <2>1. call[th] = "teardown" /\ at[th] = "next"
    BY DEF TeardownNext, PoolInv, TypeOK, FrameInv, Creating, Calls
  <2>2. CASE device' = "noManager" /\ Goto(th, "clean") /\ FreeIndices = Indices
    BY <1>2, <2>1, <2>2 DEF Goto, PoolInv, TypeOK, DeviceInv, Idle
  <2>3. ASSUME NEW i \in Indices, at' = [at EXCEPT ![th] = "pass"],
               UNCHANGED <<call, device>>
        PROVE  DeviceInv'
    BY <1>2, <2>1, <2>3 DEF PoolInv, TypeOK, DeviceInv, Idle
  <2> QED BY <2>2, <2>3 DEF TeardownNext
<1>7. ForceInv'
  <2>1. \A h \in Threads : call'[h] = "force" => call[h] = "force" /\ arg'[h] = arg[h]
    BY DEF TeardownNext, Goto, PoolInv, TypeOK, FrameInv, Creating, Idle
  <2> QED BY <1>1, <2>1 DEF PoolInv, ForceInv, poolVars
<1>8. ReclaimInv'
  BY <1>1, <1>2 DEF TeardownNext, Goto, PoolInv, TypeOK, FrameInv, ReclaimInv, Creating, Idle, queueVars, lockVars, callVars
<1> QED BY <1>2, <1>3, <1>4, <1>5, <1>6, <1>7, <1>8 DEF PoolInv

LEMMA CleanQueuePool ==
  ASSUME PoolInv, NEW th \in Threads, CleanQueue(th)
  PROVE  PoolInv'
<1>1. UNCHANGED poolVars /\ held' \subseteq held
  BY DEF CleanQueue, Leave, HeadHasRun
<1>2. /\ PlaceInv' /\ HeldSurfacesAlive' /\ FreeIndices' = FreeIndices
      /\ \A k : LimitReached(k)' = LimitReached(k)
  BY <1>1, SamePool
<1>3. TypeOK'
  <2>1. /\ state' \in [Indices -> Int] /\ outstanding' \in Seq(Tasks)
        /\ given' \in SUBSET Tasks /\ uses' \in [Tasks -> SUBSET (Indices \X Nat)]
        /\ executed' \in SUBSET Tasks /\ eventless' \in SUBSET Tasks
    <3>1. outstanding' = <<>> \/ (outstanding # <<>> /\ outstanding' = Tail(outstanding))
      BY DEF CleanQueue, HeadHasRun
    <3>2. outstanding \in Seq(Tasks)
      BY DEF PoolInv, TypeOK
    <3>3. outstanding # <<>> => Tail(outstanding) \in Seq(Tasks)
      BY <3>2, HeadTailProperties
    <3>4. << >> \in Seq(Tasks)
      OBVIOUS
    <3>5. outstanding' \in Seq(Tasks)
      BY <3>1, <3>3, <3>4, Zenon
    <3> QED BY <3>5 DEF CleanQueue, PoolInv, TypeOK
  <2>2. /\ array' \in [Indices -> Kinds \cup {NULL}]
        /\ released' \in [Indices -> BOOLEAN] /\ cached' \in [Indices -> BOOLEAN]
        /\ destroyId' \in [Indices -> Nat]
        /\ count' \in [Classes -> Nat] /\ halUsed' \in [Classes -> Nat]
        /\ held' \in SUBSET Indices
    BY <1>1 DEF PoolInv, TypeOK, poolVars
  <2>3. /\ surfLock' \in Threads \cup {NULL} /\ queueLock' \in Threads \cup {NULL}
        /\ call' \in [Threads -> Calls] /\ at' \in [Threads -> Places]
        /\ arg' \in [Threads -> Kinds \cup Indices \cup Tasks \cup {NULL}]
        /\ device' \in {"open", "closing", "noManager", "closed"}
    BY DEF CleanQueue, Leave, PoolInv, TypeOK, Calls, Places, lockVars, callVars
  <2> QED BY <2>1, <2>2, <2>3 DEF TypeOK
<1>4. FrameInv'
  BY KindFacts, ZenonT(60) DEF CleanQueue, Leave, HeadHasRun, PoolInv, TypeOK, FrameInv, Creating, Idle, queueVars, lockVars, callVars
<1>5. LockInv'
  BY KindFacts DEF CleanQueue, Leave, HeadHasRun, PoolInv, TypeOK, FrameInv, LockInv, Creating, Idle, queueVars, lockVars, callVars
<1>6. DeviceInv'
  <2>1. call[th] = "teardown"
    BY DEF CleanQueue, PoolInv, TypeOK, FrameInv, Creating, Calls
  <2>2. /\ device = "noManager" /\ FreeIndices = Indices
        /\ \A other \in Threads : other # th => call[other] = "none"
    BY <2>1 DEF CleanQueue, PoolInv, DeviceInv, Idle
  <2> QED BY <1>2, <2>1, <2>2, ZenonT(60) DEF CleanQueue, Leave, PoolInv, TypeOK, DeviceInv, Idle, callVars
<1>7. ForceInv'
  BY <1>1, ZenonT(60) DEF CleanQueue, Leave, HeadHasRun, PoolInv, TypeOK, FrameInv, ForceInv, HeldSurfacesAlive, Creating, Idle, poolVars, queueVars, lockVars, callVars
<1>8. ReclaimInv'
  BY <1>1, <1>2 DEF CleanQueue, Leave, HeadHasRun, PoolInv, TypeOK, FrameInv, ReclaimInv, Creating, Idle, queueVars, lockVars, callVars
<1> QED BY <1>2, <1>3, <1>4, <1>5, <1>6, <1>7, <1>8 DEF PoolInv

LEMMA ExecutePool ==
  ASSUME PoolInv, Execute
  PROVE  PoolInv'
<1>1. UNCHANGED <<poolVars, state, held, given, uses, outstanding, eventless, lockVars, callVars, device>>
  BY DEF Execute
<1>2. /\ PlaceInv' /\ HeldSurfacesAlive' /\ FreeIndices' = FreeIndices
      /\ \A k : LimitReached(k)' = LimitReached(k)
  BY <1>1, SamePool
<1>3. executed' \in SUBSET Tasks /\ eventless' \in SUBSET Tasks
  BY ElementOfSeq DEF Execute, PoolInv, TypeOK
<1>4. TypeOK'
  BY <1>1, <1>3 DEF PoolInv, TypeOK, poolVars, lockVars, callVars
<1>5. FrameInv' /\ LockInv'
  BY <1>1 DEF PoolInv, FrameInv, LockInv, Creating, lockVars, callVars
<1>6. DeviceInv' /\ ReclaimInv'
  BY <1>1, <1>2 DEF PoolInv, DeviceInv, ReclaimInv, Idle, callVars
<1>7. ForceInv'
  BY <1>1 DEF PoolInv, ForceInv, poolVars, callVars
<1> QED BY <1>2, <1>4, <1>5, <1>6, <1>7 DEF PoolInv

\* Whoever has the lock of the surfaces is the only one to create or destroy.
LEMMA OneReclaims ==
  ASSUME PoolInv, NEW th \in Threads, surfLock = th
  PROVE  \A h \in Threads \ {th} : ~Creating(h) /\ call[h] # "force"
  BY DEF PoolInv, LockInv

LEMMA NoneReclaims ==
  ASSUME PoolInv, surfLock = NULL
  PROVE  \A h \in Threads : ~Creating(h) /\ call[h] # "force"
  BY KindFacts DEF PoolInv, LockInv

\* What the application holds survives the destruction of something else.
LEMMA RealDestroyHeld ==
  ASSUME PoolInv, NEW S \in SUBSET Indices, RealDestroy(S), held' \subseteq held,
         S \cap held' = {}
  PROVE  HeldSurfacesAlive'
  BY DEF PoolInv, TypeOK, HeldSurfacesAlive, RealDestroy, ClearPlaces

LEMMA ForceDestroyedPool ==
  ASSUME PoolInv, NEW th \in Threads, ForceDestroyed(th)
  PROVE  PoolInv'
<1> DEFINE S == {arg[th]}
<1>1. /\ call[th] = "force" /\ surfLock = th /\ arg[th] \in Indices \ held
      /\ S \in SUBSET Indices
  BY DEF ForceDestroyed, PoolInv, LockInv, FrameInv, ForceInv
<1>2. RealDestroy(S) /\ held' = held
  BY DEF ForceDestroyed
<1>3. \A h \in Threads \ {th} : ~Creating(h) /\ call[h] # "force"
  BY <1>1, OneReclaims
<1>4. /\ PlaceInv' /\ FreeIndices' = FreeIndices \cup S
      /\ array' \in [Indices -> Kinds \cup {NULL}]
      /\ released' \in [Indices -> BOOLEAN] /\ cached' \in [Indices -> BOOLEAN]
      /\ destroyId' \in [Indices -> Nat]
      /\ count' \in [Classes -> Nat] /\ halUsed' \in [Classes -> Nat]
  BY <1>1, <1>2, RealDestroyPool DEF PoolInv
<1>5. TypeOK'
  BY <1>2, <1>4, KindFacts DEF ForceDestroyed, Leave, PoolInv, TypeOK, Calls, Places, queueVars
<1>6. FrameInv' /\ LockInv'
  BY <1>3, KindFacts DEF ForceDestroyed, Leave, PoolInv, TypeOK, FrameInv, LockInv, Creating
<1>7. DeviceInv'
  BY <1>1, <1>4 DEF ForceDestroyed, Leave, PoolInv, TypeOK, DeviceInv, Idle, FreeIndices
<1>8. HeldSurfacesAlive'
  BY <1>1, <1>2, RealDestroyHeld
<1>9. ForceInv' /\ ReclaimInv'
  BY <1>3 DEF ForceDestroyed, Leave, PoolInv, TypeOK, ForceInv, ReclaimInv, Creating
<1> QED BY <1>4, <1>5, <1>6, <1>7, <1>8, <1>9 DEF PoolInv

LEMMA TeardownDestroyPool ==
  ASSUME PoolInv, NEW th \in Threads, TeardownDestroy(th)
  PROVE  PoolInv'
<1> DEFINE S == {arg[th]}
<1>1. /\ call[th] = "teardown" /\ S \in SUBSET Indices
      /\ \A h \in Threads \ {th} : call[h] = "none"
  BY DEF TeardownDestroy, PoolInv, DeviceInv, FrameInv, Idle
<1>2. RealDestroy(S) /\ held' = held \ S
  BY DEF TeardownDestroy
<1>4. /\ PlaceInv' /\ FreeIndices' = FreeIndices \cup S
      /\ array' \in [Indices -> Kinds \cup {NULL}]
      /\ released' \in [Indices -> BOOLEAN] /\ cached' \in [Indices -> BOOLEAN]
      /\ destroyId' \in [Indices -> Nat]
      /\ count' \in [Classes -> Nat] /\ halUsed' \in [Classes -> Nat]
  BY <1>1, <1>2, RealDestroyPool DEF PoolInv
<1>5. TypeOK'
  BY <1>2, <1>4, KindFacts DEF TeardownDestroy, Goto, PoolInv, TypeOK, Calls, Places, queueVars, lockVars
<1>6. FrameInv' /\ LockInv'
  BY <1>1, KindFacts DEF TeardownDestroy, Goto, PoolInv, TypeOK, FrameInv, LockInv, Creating, lockVars
<1>7. DeviceInv'
  BY <1>1, <1>4 DEF TeardownDestroy, Goto, PoolInv, TypeOK, DeviceInv, Idle, FreeIndices
<1>8. HeldSurfacesAlive'
  BY <1>1, <1>2, RealDestroyHeld
<1>9. ForceInv' /\ ReclaimInv'
  BY <1>1 DEF TeardownDestroy, Goto, PoolInv, TypeOK, ForceInv, ReclaimInv, Creating
<1> QED BY <1>4, <1>5, <1>6, <1>7, <1>8, <1>9 DEF PoolInv

LEMMA GcPassPool ==
  ASSUME PoolInv, NEW th \in Threads, GcPass(th)
  PROVE  PoolInv'
<1> DEFINE S == {i \in Indices : Garbage(i)}
<1>1. /\ Creating(th) /\ at[th] = "pass" /\ surfLock = th /\ S \in SUBSET Indices
  BY DEF GcPass, PoolInv, LockInv
<1>2. RealDestroy(S) /\ Goto(th, IF S = {} THEN "touch" ELSE "go") /\ held' = held
      /\ UNCHANGED <<state, queueVars, lockVars, device>>
  BY DEF GcPass
<1>3. \A h \in Threads \ {th} : ~Creating(h) /\ call[h] # "force"
  BY <1>1, OneReclaims
<1>4. /\ PlaceInv' /\ FreeIndices' = FreeIndices \cup S
      /\ array' \in [Indices -> Kinds \cup {NULL}]
      /\ released' \in [Indices -> BOOLEAN] /\ cached' \in [Indices -> BOOLEAN]
      /\ destroyId' \in [Indices -> Nat]
      /\ count' \in [Classes -> Nat] /\ halUsed' \in [Classes -> Nat]
      /\ S = {} => UNCHANGED <<array, count>>
  BY <1>1, <1>2, RealDestroyPool DEF PoolInv
<1>5. TypeOK'
  BY <1>2, <1>4, KindFacts DEF Goto, PoolInv, TypeOK, Calls, Places, queueVars, lockVars
<1>6. FrameInv' /\ LockInv'
  BY <1>1, <1>2, KindFacts DEF Goto, PoolInv, TypeOK, FrameInv, LockInv, Creating, lockVars
<1>7. DeviceInv'
  BY <1>1, <1>2, <1>4 DEF Goto, PoolInv, TypeOK, DeviceInv, Idle, FreeIndices, Creating
<1>8. HeldSurfacesAlive'
  <2>1. S \cap held = {}
    BY DEF Garbage, PoolInv, HeldSurfacesAlive
  <2> QED BY <1>1, <1>2, <2>1, RealDestroyHeld
<1>9. ForceInv'
  BY <1>1, <1>2, <1>3 DEF Goto, ForceInv, Creating
<1>10. ReclaimInv'
  <2>1. CASE S = {}
    BY <1>1, <1>2, <1>3, <1>4, <2>1 DEF Goto, PoolInv, TypeOK, ReclaimInv, Creating, LimitReached
  <2>2. CASE S # {}
    BY <1>1, <1>2, <1>3, <2>2 DEF Goto, PoolInv, TypeOK, ReclaimInv, Creating
  <2> QED BY <2>1, <2>2
<1> QED BY <1>4, <1>5, <1>6, <1>7, <1>8, <1>9, <1>10 DEF PoolInv

LEMMA UpdateSurfaceStateOnPushPool ==
  ASSUME PoolInv, NEW th \in Threads, UpdateSurfaceStateOnPush(th)
  PROVE  PoolInv'
<1> DEFINE S == {i \in Indices : Collectable(i, state')}
<1>1. /\ at[th] = "push" /\ surfLock = NULL /\ S \in SUBSET Indices
      /\ RealDestroy(S) /\ Goto(th, "query")
      /\ UNCHANGED <<held, given, uses, executed, eventless, lockVars, device>>
  BY DEF UpdateSurfaceStateOnPush
<1>2. call[th] = "enqueue" /\ arg[th] \in Tasks /\ device = "open"
  <2>1. call[th] = "enqueue"
    BY <1>1 DEF PoolInv, TypeOK, FrameInv, Creating, Calls
  <2>2. arg[th] \in Tasks
    BY <2>1 DEF PoolInv, FrameInv
  <2>3. device = "open"
    BY <2>1 DEF PoolInv, DeviceInv, Idle
  <2> QED BY <2>1, <2>2, <2>3
<1>3. \A h \in Threads : ~Creating(h) /\ call[h] # "force"
  BY <1>1, NoneReclaims
<1>4. /\ PlaceInv' /\ FreeIndices' = FreeIndices \cup S
      /\ array' \in [Indices -> Kinds \cup {NULL}]
      /\ released' \in [Indices -> BOOLEAN] /\ cached' \in [Indices -> BOOLEAN]
      /\ destroyId' \in [Indices -> Nat]
      /\ count' \in [Classes -> Nat] /\ halUsed' \in [Classes -> Nat]
  BY <1>1, RealDestroyPool DEF PoolInv
<1>5. TypeOK'
  <2>1. state' \in [Indices -> Int] /\ outstanding' \in Seq(Tasks)
    BY <1>2 DEF UpdateSurfaceStateOnPush, PoolInv, TypeOK
  <2> QED BY <1>1, <1>4, <2>1 DEF Goto, PoolInv, TypeOK, Places, lockVars
<1>6. FrameInv' /\ LockInv'
  BY <1>1, <1>2, <1>3 DEF Goto, PoolInv, TypeOK, FrameInv, LockInv, Creating, lockVars
<1>7. DeviceInv'
  BY <1>1, <1>2, <1>4 DEF Goto, PoolInv, TypeOK, DeviceInv, Idle, FreeIndices
<1>8. HeldSurfacesAlive'
  <2>1. S \cap held = {}
    BY DEF Collectable, PoolInv, HeldSurfacesAlive
  <2> QED BY <1>1, <2>1, RealDestroyHeld
<1>9. ForceInv' /\ ReclaimInv'
  BY <1>1, <1>3 DEF Goto, ForceInv, ReclaimInv, Creating
<1> QED BY <1>4, <1>5, <1>6, <1>7, <1>8, <1>9 DEF PoolInv

\* The places that hold a creation have the lock of the surfaces.
LEMMA CreatorFacts ==
  ASSUME PoolInv, NEW th \in Threads, NEW k \in Kinds, At(th, k)
  PROVE  /\ surfLock = th /\ Creating(th) /\ arg[th] = k
         /\ \A h \in Threads \ {th} : ~Creating(h) /\ call[h] # "force"
         /\ Class(k) \in Classes
<1>1. Creating(th) /\ arg[th] = k /\ surfLock = th
  BY DEF At, PoolInv, LockInv
<1>2. Class(k) \in Classes
  BY KindFacts
<1> QED BY <1>1, <1>2, OneReclaims

\* The end of a creation, which may leave the pool with one more surface.
LEMMA CreateReturnsPool ==
  ASSUME PoolInv, NEW th \in Threads, NEW k \in Kinds, At(th, k),
         CreateReturns(th), TypeOK', PlaceInv', HeldSurfacesAlive',
         UNCHANGED <<queueLock, device>>, device \in {"noManager", "closed"} => FreeIndices' = Indices
  PROVE  PoolInv'
<1>1. /\ surfLock = th /\ Creating(th)
      /\ \A h \in Threads \ {th} : ~Creating(h) /\ call[h] # "force"
  BY CreatorFacts
<1>2. FrameInv' /\ LockInv'
  BY <1>1, KindFacts, ZenonT(60) DEF CreateReturns, Leave, PoolInv, TypeOK, FrameInv, LockInv, Creating
<1>3. DeviceInv'
  BY <1>1 DEF CreateReturns, Leave, PoolInv, TypeOK, DeviceInv, Creating, Idle
<1>4. ForceInv' /\ ReclaimInv'
  BY <1>1 DEF CreateReturns, Leave, PoolInv, TypeOK, ForceInv, ReclaimInv, Creating
<1> QED BY <1>2, <1>3, <1>4 DEF PoolInv

LEMMA CreatorOpen ==
  ASSUME PoolInv, NEW th \in Threads, Creating(th)
  PROVE  device = "open"
  BY DEF PoolInv, DeviceInv, Idle, Creating

LEMMA ReuseSurfacePool ==
  ASSUME PoolInv, NEW th \in Threads, NEW k \in Kinds, ReuseSurface(th, k)
  PROVE  PoolInv'
<1>1. PICK i \in Reusable(k) :
        /\ cached' = [cached EXCEPT ![i] = FALSE]
        /\ released' = [released EXCEPT ![i] = FALSE]
        /\ held' = held \cup {i}
  BY DEF ReuseSurface
<1>2. /\ UNCHANGED <<array, destroyId, count, halUsed, state, queueVars, queueLock, device>>
      /\ CreateReturns(th) /\ At(th, k)
  BY DEF ReuseSurface
<1>3. i \in Indices /\ array[i] # NULL
  BY DEF Reusable, OfClass
<1>4. \A c : OfClass(c)' = OfClass(c)
  BY <1>2 DEF OfClass
<1>5. PlaceInv'
  BY <1>1, <1>2, <1>3, <1>4 DEF PoolInv, TypeOK, PlaceInv
<1>6. HeldSurfacesAlive'
  BY <1>1, <1>2, <1>3 DEF PoolInv, TypeOK, HeldSurfacesAlive
<1>7. TypeOK'
  BY <1>1, <1>2, <1>3, KindFacts DEF CreateReturns, Leave, PoolInv, TypeOK, Calls, Places, queueVars
<1> QED BY <1>2, <1>5, <1>6, <1>7, CreateReturnsPool, CreatorFacts, CreatorOpen

LEMMA AllocateSurfacePool ==
  ASSUME PoolInv, NEW th \in Threads, NEW k \in Kinds, AllocateSurface(th, k)
  PROVE  PoolInv'
<1>1. PICK i \in FreeIndices :
        /\ array' = [array EXCEPT ![i] = k]
        /\ released' = [released EXCEPT ![i] = FALSE]
        /\ held' = held \cup {i}
  BY DEF AllocateSurface
<1>2. /\ UNCHANGED <<cached, destroyId, state, queueVars, queueLock, device>>
      /\ CreateReturns(th) /\ At(th, k)
      /\ count' = [count EXCEPT ![Class(k)] = @ + 1]
      /\ halUsed' = [halUsed EXCEPT ![Class(k)] = @ + 1]
  BY DEF AllocateSurface
<1>3. i \in Indices /\ array[i] = NULL /\ ~cached[i] /\ Class(k) \in Classes /\ k # NULL
  BY <1>1, KindFacts DEF FreeIndices, PoolInv, PlaceInv
<1>4. \A c : /\ c = Class(k) => OfClass(c)' = OfClass(c) \cup {i}
             /\ c # Class(k) => OfClass(c)' = OfClass(c)
             /\ i \notin OfClass(c)
  BY <1>1, <1>3 DEF OfClass, PoolInv, TypeOK
<1>5. \A c \in Classes : /\ count'[c] = Cardinality(OfClass(c)')
                         /\ halUsed'[c] >= count'[c]
  <2> SUFFICES ASSUME NEW c \in Classes
               PROVE  count'[c] = Cardinality(OfClass(c)') /\ halUsed'[c] >= count'[c]
    OBVIOUS
  <2>1. /\ count[c] = Cardinality(OfClass(c)) /\ halUsed[c] >= count[c]
        /\ count[c] \in Nat /\ halUsed[c] \in Nat
    BY DEF PoolInv, TypeOK, PlaceInv
  <2>2. c = Class(k) => Cardinality(OfClass(c)') = Cardinality(OfClass(c)) + 1
    BY <1>4, FiniteClass, FS_AddElement
  <2>3. c = Class(k) => count'[c] = count[c] + 1 /\ halUsed'[c] = halUsed[c] + 1
    BY <1>2, <1>3 DEF PoolInv, TypeOK
  <2>4. c # Class(k) => count'[c] = count[c] /\ halUsed'[c] = halUsed[c]
    BY <1>2, <1>3 DEF PoolInv, TypeOK
  <2> QED BY <1>4, <2>1, <2>2, <2>3, <2>4
<1>6. PlaceInv'
  <2>1. \A j \in Indices : /\ array'[j] = NULL => ~released'[j]
                           /\ cached'[j] => released'[j]
    BY <1>1, <1>2, <1>3 DEF PoolInv, TypeOK, PlaceInv
  <2> QED BY <1>5, <2>1 DEF PlaceInv
<1>7. HeldSurfacesAlive'
  BY <1>1, <1>2, <1>3 DEF PoolInv, TypeOK, HeldSurfacesAlive
<1>8. TypeOK'
  <2>1. /\ array' \in [Indices -> Kinds \cup {NULL}]
        /\ released' \in [Indices -> BOOLEAN] /\ cached' \in [Indices -> BOOLEAN]
        /\ destroyId' \in [Indices -> Nat] /\ held' \in SUBSET Indices
    BY <1>1, <1>2, <1>3 DEF PoolInv, TypeOK
  <2>2. count' \in [Classes -> Nat] /\ halUsed' \in [Classes -> Nat]
    BY <1>2, <1>3 DEF PoolInv, TypeOK
  <2>3. /\ state' \in [Indices -> Int] /\ outstanding' \in Seq(Tasks)
        /\ given' \in SUBSET Tasks /\ uses' \in [Tasks -> SUBSET (Indices \X Nat)]
        /\ executed' \in SUBSET Tasks /\ eventless' \in SUBSET Tasks
    BY <1>2 DEF PoolInv, TypeOK, queueVars
  <2>4. /\ surfLock' \in Threads \cup {NULL} /\ queueLock' \in Threads \cup {NULL}
        /\ call' \in [Threads -> Calls] /\ at' \in [Threads -> Places]
        /\ arg' \in [Threads -> Kinds \cup Indices \cup Tasks \cup {NULL}]
        /\ device' \in {"open", "closing", "noManager", "closed"}
    BY <1>2 DEF CreateReturns, Leave, PoolInv, TypeOK, Calls, Places
  <2> QED BY <2>1, <2>2, <2>3, <2>4 DEF TypeOK
<1> QED BY <1>2, <1>6, <1>7, <1>8, CreateReturnsPool, CreatorFacts, CreatorOpen

LEMMA AllocateFailsPool ==
  ASSUME PoolInv, NEW th \in Threads, NEW k \in Kinds, AllocateFails(th, k)
  PROVE  PoolInv'
<1>1. /\ UNCHANGED <<array, released, cached, destroyId, count, state, held,
                     queueVars, queueLock, device>>
      /\ CreateReturns(th) /\ At(th, k)
      /\ \/ halUsed' = [halUsed EXCEPT ![Class(k)] = @ + 1]
         \/ halUsed' = halUsed
  BY DEF AllocateFails
<1>2. \A c : OfClass(c)' = OfClass(c)
  BY <1>1 DEF OfClass
<1>3. halUsed' \in [Classes -> Nat] /\ \A c \in Classes : halUsed'[c] >= count[c]
  <2>1. Class(k) \in Classes
    BY KindFacts
  <2>2. /\ halUsed \in [Classes -> Nat] /\ count \in [Classes -> Nat]
        /\ \A c \in Classes : halUsed[c] >= count[c]
    BY DEF PoolInv, TypeOK, PlaceInv
  <2>3. \A c \in Classes : halUsed'[c] = halUsed[c] \/ halUsed'[c] = halUsed[c] + 1
    BY <1>1, <2>1, <2>2
  <2>4. halUsed' \in [Classes -> Nat]
    BY <1>1, <2>1, <2>2
  <2> QED BY <2>2, <2>3, <2>4
<1>4. PlaceInv' /\ HeldSurfacesAlive'
  BY <1>1, <1>2, <1>3 DEF PoolInv, PlaceInv, HeldSurfacesAlive
<1>5. TypeOK'
  BY <1>1, <1>3, KindFacts DEF CreateReturns, Leave, PoolInv, TypeOK, Calls, Places, queueVars
<1> QED BY <1>1, <1>4, <1>5, CreateReturnsPool, CreatorFacts, CreatorOpen

-----------------------------------------------------------------------------
LEMMA StepPool ==
  ASSUME PoolInv, [Next]_vars
  PROVE  PoolInv'
<1>1. CASE UNCHANGED vars
  <2>1. UNCHANGED <<poolVars, state, held, queueVars, lockVars, callVars, device>>
    BY <1>1 DEF vars
  <2>2. /\ PlaceInv' /\ HeldSurfacesAlive' /\ FreeIndices' = FreeIndices
        /\ \A k : LimitReached(k)' = LimitReached(k)
    BY <2>1, SamePool
  <2>3. TypeOK'
    BY <2>1 DEF PoolInv, TypeOK, poolVars, queueVars, lockVars, callVars
  <2>4. FrameInv' /\ LockInv'
    BY <2>1 DEF PoolInv, FrameInv, LockInv, Creating, lockVars, callVars
  <2>5. DeviceInv' /\ ReclaimInv'
    BY <2>1, <2>2 DEF PoolInv, DeviceInv, ReclaimInv, Idle, callVars
  <2>6. ForceInv'
    BY <2>1 DEF PoolInv, ForceInv, poolVars, callVars
  <2> QED BY <2>2, <2>3, <2>4, <2>5, <2>6 DEF PoolInv
<1>2. ASSUME NEW th \in Threads, Start(th) PROVE PoolInv'
  BY <1>2, CreateSurfacePool, DestroySurfacePool, ForceDestroyPool, AccessSurfacePool,
     EnqueuePool, DestroyDevicePool DEF Start
<1>3. ASSUME NEW th \in Threads, Continue(th) PROVE PoolInv'
  BY <1>3, ForceDestroyedPool, GcPassPool, ReuseSurfacePool, CollectForIndexPool,
     AllocateSurfacePool, AllocateFailsPool, RefusePool, TouchPool, PopTaskPool,
     QueryReturnsPool, WaitForReferenceFreePool, FlushReturnsPool, FlushTimesOutPool,
     AccessedPool, UpdateSurfaceStateOnPushPool, EnqueueWithoutEventPool,
     TeardownNextPool, TeardownDestroyPool, CleanQueuePool DEF Continue
<1> QED BY <1>1, <1>2, <1>3, ExecutePool DEF Next

\* The pool of surfaces and the manager's tables agree in every reachable state.
THEOREM AlwaysPool == Spec => []PoolInv
<1>1. PoolInv /\ [Next]_vars => PoolInv'
  BY StepPool
<1> QED BY InitPool, <1>1, PTL DEF Spec

\* The state of the manager keeps its types: no counter of surfaces and no
\* table of the HAL goes below zero, however creations, destructions,
\* collections and failures of the HAL follow each other.
THEOREM SurfacesTyped == Spec => []TypeOK
<1>1. PoolInv => TypeOK
  BY DEF PoolInv
<1> QED BY AlwaysPool, <1>1, PTL

\* No collection, reuse or destruction takes a surface away from the
\* application that holds it.
THEOREM HeldSurfacesStayAlive == Spec => []HeldSurfacesAlive
<1>1. PoolInv => HeldSurfacesAlive
  BY DEF PoolInv
<1> QED BY AlwaysPool, <1>1, PTL

\* The only waits for the queue that keep the lock of the surfaces are those of
\* ForceDestroyBufferUP and of a creation that has found no room.
THEOREM DeadlockOnlyWhenReclaiming == Spec => []DeadlockNeedsReclaim
<1>1. PoolInv => DeadlockNeedsReclaim
  <2> SUFFICES ASSUME PoolInv, NEW th \in Threads, at[th] = "touch", surfLock = th
               PROVE  \/ call[th] = "force"
                      \/ call[th] = "create" /\ LimitReached(arg[th])
                      \/ call[th] = "createIndex" /\ FreeIndices = {}
    BY DEF DeadlockNeedsReclaim
  <2>1. Creating(th) \/ call[th] = "force"
    BY DEF PoolInv, LockInv
  <2>2. /\ call[th] = "create" => LimitReached(arg[th])
        /\ call[th] = "createIndex" => FreeIndices = {}
    BY DEF PoolInv, ReclaimInv
  <2> QED BY <2>1, <2>2 DEF Creating
<1> QED BY AlwaysPool, <1>1, PTL

-----------------------------------------------------------------------------
(***************************************************************************)
(* UseInv: the use count of an index is the number of queued tasks with an *)
(* event that use it.                                                      *)
(***************************************************************************)
LEMMA AppendElements ==
  ASSUME NEW s \in Seq(Tasks), NEW t \in Tasks
  PROVE  LET r == Append(s, t)
         IN  {r[k] : k \in DOMAIN r} = {s[k] : k \in DOMAIN s} \cup {t}
<1> DEFINE r == Append(s, t)
<1>1. /\ Len(r) = Len(s) + 1 /\ r[Len(s) + 1] = t /\ Len(s) \in Nat
      /\ \A k \in 1 .. Len(s) : r[k] = s[k]
      /\ DOMAIN r = 1 .. Len(r) /\ DOMAIN s = 1 .. Len(s)
  BY AppendProperties, LenProperties
<1>2. {s[k] : k \in DOMAIN s} \cup {t} \subseteq {r[k] : k \in DOMAIN r}
  BY <1>1
<1>3. {r[k] : k \in DOMAIN r} \subseteq {s[k] : k \in DOMAIN s} \cup {t}
  BY <1>1
<1> QED BY <1>2, <1>3

LEMMA AppendOnce ==
  ASSUME NEW s \in Seq(Tasks), NEW t \in Tasks, t \notin {s[k] : k \in DOMAIN s},
         \A k, l \in DOMAIN s : s[k] = s[l] => k = l
  PROVE  LET r == Append(s, t)
         IN  \A k, l \in DOMAIN r : r[k] = r[l] => k = l
<1> DEFINE r == Append(s, t)
<1>1. /\ Len(r) = Len(s) + 1 /\ r[Len(s) + 1] = t /\ Len(s) \in Nat
      /\ \A k \in 1 .. Len(s) : r[k] = s[k]
      /\ DOMAIN r = 1 .. Len(r) /\ DOMAIN s = 1 .. Len(s)
  BY AppendProperties, LenProperties
<1>2. \A k \in 1 .. Len(s) : r[k] # t
  BY <1>1
<1> QED BY <1>1, <1>2

LEMMA TailElements ==
  ASSUME NEW s \in Seq(Tasks), s # <<>>,
         \A k, l \in DOMAIN s : s[k] = s[l] => k = l
  PROVE  LET r == Tail(s)
         IN  /\ {r[k] : k \in DOMAIN r} = {s[k] : k \in DOMAIN s} \ {Head(s)}
             /\ Head(s) \in {s[k] : k \in DOMAIN s}
             /\ \A k, l \in DOMAIN r : r[k] = r[l] => k = l
<1> DEFINE r == Tail(s)
<1>1. /\ Len(r) = Len(s) - 1 /\ Len(s) \in Nat /\ Len(s) # 0 /\ Len(r) \in Nat
      /\ \A k \in 1 .. Len(r) : r[k] = s[k + 1]
      /\ DOMAIN r = 1 .. Len(r) /\ DOMAIN s = 1 .. Len(s)
      /\ Head(s) = s[1]
  BY HeadTailProperties, EmptySeq, LenProperties
<1>2. {r[k] : k \in DOMAIN r} \subseteq {s[k] : k \in DOMAIN s} \ {Head(s)}
  <2> SUFFICES ASSUME NEW k \in 1 .. Len(r)
               PROVE  r[k] \in {s[j] : j \in DOMAIN s} \ {Head(s)}
    BY <1>1
  <2>1. r[k] = s[k + 1] /\ k + 1 \in DOMAIN s /\ 1 \in DOMAIN s /\ k + 1 # 1
    BY <1>1
  <2> QED BY <1>1, <2>1
<1>3. {s[k] : k \in DOMAIN s} \ {Head(s)} \subseteq {r[k] : k \in DOMAIN r}
  <2> SUFFICES ASSUME NEW k \in DOMAIN s, s[k] # Head(s)
               PROVE  \E j \in DOMAIN r : r[j] = s[k]
    OBVIOUS
  <2>1. k - 1 \in 1 .. Len(r)
    BY <1>1
  <2> QED BY <1>1, <2>1
<1>4. \A k, l \in DOMAIN r : r[k] = r[l] => k = l
  BY <1>1
<1>5. Head(s) \in {s[k] : k \in DOMAIN s}
  BY <1>1
<1> QED BY <1>2, <1>3, <1>4, <1>5

LEMMA FiniteUsers ==
  ASSUME TypeOK, NEW i
  PROVE  /\ Queued \in SUBSET Tasks /\ IsFiniteSet(Users(i))
         /\ Cardinality(Users(i)) \in Nat
<1>1. Queued \in SUBSET Tasks
  BY ElementOfSeq, LenProperties DEF TypeOK, Queued
<1>2. Users(i) \in SUBSET Tasks
  BY <1>1 DEF Users, Counted
<1> QED BY <1>1, <1>2, PlacesAssumption, FS_Subset, FS_CardinalityType

\* An index without use count has no users.
LEMMA NoUsers ==
  ASSUME TypeOK, CountInv, device \in {"open", "closing"},
         NEW i \in Indices, state[i] = 0
  PROVE  Users(i) = {}
  BY FiniteUsers, FS_EmptySet DEF CountInv

\* Between the push of a task and the count of its surfaces its thread has the
\* lock of the queue.
LEMMA Pusher ==
  ASSUME PoolInv, NEW h \in Threads, at[h] = "push"
  PROVE  /\ call[h] = "enqueue" /\ arg[h] \in Tasks /\ queueLock = h /\ device = "open"
         /\ uses[arg[h]] \in SUBSET (Indices \X Nat)
<1>1. call[h] = "enqueue" /\ queueLock = h
  BY DEF PoolInv, TypeOK, FrameInv, LockInv, Creating, Calls
<1>2. arg[h] \in Tasks
  BY <1>1 DEF PoolInv, FrameInv
<1>3. device = "open"
  BY <1>1 DEF PoolInv, DeviceInv, Idle
<1>4. uses[arg[h]] \in SUBSET (Indices \X Nat)
  BY <1>2 DEF PoolInv, TypeOK
<1> QED BY <1>1, <1>2, <1>3, <1>4

\* The pool is still there when a thread has waited for a surface.
LEMMA Waiter ==
  ASSUME PoolInv, NEW h \in Threads, call[h] \in {"force", "access", "teardown"},
         at[h] \in {"pass", "touch", "query", "go"}
  PROVE  arg[h] \in Indices /\ device \in {"open", "closing"}
<1>1. arg[h] \in Indices
  BY DEF PoolInv, FrameInv
<1>2. CASE call[h] = "teardown"
  BY <1>1, <1>2 DEF PoolInv, DeviceInv
<1>3. CASE call[h] # "teardown"
  BY <1>1, <1>3 DEF PoolInv, DeviceInv, Idle
<1> QED BY <1>2, <1>3

\* A step that leaves the queue and the use counts alone and takes away no
\* surface in use.
LEMMA UseFrame ==
  ASSUME PoolInv, UseInv, NEW S \in SUBSET Indices,
         UNCHANGED <<state, given, uses, outstanding, eventless>>,
         device' = device \/ {device, device'} \subseteq {"open", "closing"},
         \A i \in Indices \ S :
            array[i] # NULL => array'[i] # NULL /\ destroyId'[i] = destroyId[i],
         \A i \in S : Users(i) = {},
         \A h \in Threads : at'[h] = "push" =>
            /\ at[h] = "push" /\ arg'[h] = arg[h]
            /\ S \cap Uses(arg[h]) = {} /\ held \cap Uses(arg[h]) \subseteq held',
         \A h \in Threads : call'[h] \in {"force", "teardown"} /\ at'[h] = "go"
                               => state[arg'[h]] = 0
  PROVE  UseInv'
<1>1. /\ Queued' = Queued /\ Counted' = Counted
      /\ \A t : Uses(t)' = Uses(t)
  BY DEF Queued, Counted, Uses
<1>2. \A i : Users(i)' = Users(i)
  BY <1>1 DEF Users
<1>3. QueueInv'
  BY <1>1 DEF UseInv, QueueInv
<1>4. CountInv'
  BY <1>1, <1>2 DEF UseInv, CountInv
<1>5. ASSUME NEW t \in Counted', NEW u \in uses'[t]
      PROVE  array'[u[1]] # NULL /\ destroyId'[u[1]] = u[2]
  <2>1. t \in Counted /\ t \in Tasks /\ u \in uses[t] /\ u[1] \in Uses(t)
    BY <1>1, <1>5, FiniteUsers DEF PoolInv, Uses, Counted
  <2>2. u \in Indices \X Nat
    BY <2>1 DEF PoolInv, TypeOK
  <2>3. u[1] \in Indices /\ t \in Users(u[1])
    BY <2>1, <2>2 DEF Users
  <2>4. array[u[1]] # NULL /\ destroyId[u[1]] = u[2]
    BY <2>1 DEF UseInv, PendingSurfacesAlive
  <2> QED BY <2>3, <2>4
<1>6. ASSUME NEW h \in Threads, at'[h] = "push", NEW u \in uses'[arg'[h]]
      PROVE  u[1] \in held' /\ destroyId'[u[1]] = u[2]
  <2>1. at[h] = "push" /\ arg'[h] = arg[h] /\ u \in uses[arg[h]]
    BY <1>6
  <2>2. u \in Indices \X Nat /\ u[1] \in held /\ destroyId[u[1]] = u[2]
    BY <2>1, Pusher DEF UseInv, PushInv
  <2>3. u[1] \in Uses(arg[h]) /\ u[1] \in Indices
    BY <2>1, <2>2 DEF Uses
  <2>4. u[1] \notin S /\ u[1] \in held'
    BY <1>6, <2>1, <2>2, <2>3
  <2>5. array[u[1]] # NULL
    BY <2>2 DEF PoolInv, HeldSurfacesAlive
  <2> QED BY <2>2, <2>3, <2>4, <2>5
<1>7. UnusedInv'
  BY DEF UnusedInv
<1> QED BY <1>3, <1>4, <1>5, <1>6, <1>7 DEF UseInv, PendingSurfacesAlive, PushInv

\* The same for a step that destroys nothing.
LEMMA KeepUse ==
  ASSUME PoolInv, UseInv,
         UNCHANGED <<state, given, uses, outstanding, eventless>>,
         device' = device \/ {device, device'} \subseteq {"open", "closing"},
         \A i \in Indices :
            array[i] # NULL => array'[i] # NULL /\ destroyId'[i] = destroyId[i],
         \A h \in Threads : at'[h] = "push" =>
            /\ at[h] = "push" /\ arg'[h] = arg[h]
            /\ held \cap Uses(arg[h]) \subseteq held',
         \A h \in Threads : call'[h] \in {"force", "teardown"} /\ at'[h] = "go"
                               => state[arg'[h]] = 0
  PROVE  UseInv'
<1> DEFINE S == {}
<1>1. S \in SUBSET Indices /\ \A i \in S : Users(i) = {}
  OBVIOUS
<1>2. \A h \in Threads : S \cap Uses(arg[h]) = {}
  OBVIOUS
<1>3. \A i \in Indices \ S :
         array[i] # NULL => array'[i] # NULL /\ destroyId'[i] = destroyId[i]
  OBVIOUS
<1> HIDE DEF S
<1> QED BY <1>1, <1>2, <1>3, UseFrame


LEMMA CreateSurfaceUse ==
  ASSUME PoolInv, UseInv, NEW th \in Threads, NEW k \in Kinds, CreateSurface(th, k)
  PROVE  UseInv'
<1>1. /\ UNCHANGED <<state, given, uses, outstanding, eventless>>
      /\ device' = device \/ {device, device'} \subseteq {"open", "closing"}
  BY DEF CreateSurface, Enter, queueVars
<1>2. \A i \in Indices :
        array[i] # NULL => array'[i] # NULL /\ destroyId'[i] = destroyId[i]
  BY DEF CreateSurface, Enter, poolVars
<1>3. \A h \in Threads : at'[h] = "push" =>
        /\ at[h] = "push" /\ arg'[h] = arg[h]
        /\ held \cap Uses(arg[h]) \subseteq held'
  BY DEF CreateSurface, Enter, PoolInv, TypeOK
<1>4. \A h \in Threads : call'[h] \in {"force", "teardown"} /\ at'[h] = "go"
                           => state[arg'[h]] = 0
  BY DEF CreateSurface, Enter, PoolInv, TypeOK, UseInv, UnusedInv
<1> QED BY <1>1, <1>2, <1>3, <1>4, KeepUse

LEMMA ForceDestroyUse ==
  ASSUME PoolInv, UseInv, NEW th \in Threads, NEW i \in Indices, ForceDestroy(th, i)
  PROVE  UseInv'
<1>1. /\ UNCHANGED <<state, given, uses, outstanding, eventless>>
      /\ device' = device \/ {device, device'} \subseteq {"open", "closing"}
  BY DEF ForceDestroy, Enter, queueVars
<1>2. \A j \in Indices :
        array[j] # NULL => array'[j] # NULL /\ destroyId'[j] = destroyId[j]
  BY DEF ForceDestroy, Enter, poolVars
<1>3. \A h \in Threads : at'[h] = "push" =>
        /\ at[h] = "push" /\ arg'[h] = arg[h]
        /\ held \cap Uses(arg[h]) \subseteq held'
  BY DEF ForceDestroy, Enter, PoolInv, TypeOK, InCalls
<1>4. \A h \in Threads : call'[h] \in {"force", "teardown"} /\ at'[h] = "go"
                           => state[arg'[h]] = 0
  BY DEF ForceDestroy, Enter, PoolInv, TypeOK, UseInv, UnusedInv
<1> QED BY <1>1, <1>2, <1>3, <1>4, KeepUse

LEMMA CollectForIndexUse ==
  ASSUME PoolInv, UseInv, NEW th \in Threads, NEW k \in Kinds, CollectForIndex(th, k)
  PROVE  UseInv'
<1>1. /\ UNCHANGED <<state, given, uses, outstanding, eventless>>
      /\ device' = device \/ {device, device'} \subseteq {"open", "closing"}
  BY DEF CollectForIndex, At, queueVars
<1>2. \A i \in Indices :
        array[i] # NULL => array'[i] # NULL /\ destroyId'[i] = destroyId[i]
  BY DEF CollectForIndex, At, poolVars
<1>3. \A h \in Threads : at'[h] = "push" =>
        /\ at[h] = "push" /\ arg'[h] = arg[h]
        /\ held \cap Uses(arg[h]) \subseteq held'
  BY DEF CollectForIndex, At, PoolInv, TypeOK
<1>4. \A h \in Threads : call'[h] \in {"force", "teardown"} /\ at'[h] = "go"
                           => state[arg'[h]] = 0
  BY DEF CollectForIndex, At, PoolInv, TypeOK, UseInv, UnusedInv, Creating
<1> QED BY <1>1, <1>2, <1>3, <1>4, KeepUse

LEMMA RefuseUse ==
  ASSUME PoolInv, UseInv, NEW th \in Threads, NEW k \in Kinds, Refuse(th, k)
  PROVE  UseInv'
<1>1. /\ UNCHANGED <<state, given, uses, outstanding, eventless>>
      /\ device' = device \/ {device, device'} \subseteq {"open", "closing"}
  BY DEF Refuse, At, CreateReturns, Leave, queueVars
<1>2. \A i \in Indices :
        array[i] # NULL => array'[i] # NULL /\ destroyId'[i] = destroyId[i]
  BY DEF Refuse, At, CreateReturns, Leave, poolVars
<1>3. \A h \in Threads : at'[h] = "push" =>
        /\ at[h] = "push" /\ arg'[h] = arg[h]
        /\ held \cap Uses(arg[h]) \subseteq held'
  BY DEF Refuse, At, CreateReturns, Leave, PoolInv, TypeOK
<1>4. \A h \in Threads : call'[h] \in {"force", "teardown"} /\ at'[h] = "go"
                           => state[arg'[h]] = 0
  BY DEF Refuse, At, CreateReturns, Leave, PoolInv, TypeOK, UseInv, UnusedInv, Creating
<1> QED BY <1>1, <1>2, <1>3, <1>4, KeepUse

LEMMA ReuseSurfaceUse ==
  ASSUME PoolInv, UseInv, NEW th \in Threads, NEW k \in Kinds, ReuseSurface(th, k)
  PROVE  UseInv'
<1>1. /\ UNCHANGED <<state, given, uses, outstanding, eventless>>
      /\ device' = device \/ {device, device'} \subseteq {"open", "closing"}
  BY DEF ReuseSurface, At, CreateReturns, Leave, queueVars
<1>2. \A i \in Indices :
        array[i] # NULL => array'[i] # NULL /\ destroyId'[i] = destroyId[i]
  BY DEF ReuseSurface, At, CreateReturns, Leave, poolVars
<1>3. \A h \in Threads : at'[h] = "push" =>
        /\ at[h] = "push" /\ arg'[h] = arg[h]
        /\ held \cap Uses(arg[h]) \subseteq held'
  BY DEF ReuseSurface, At, CreateReturns, Leave, PoolInv, TypeOK
<1>4. \A h \in Threads : call'[h] \in {"force", "teardown"} /\ at'[h] = "go"
                           => state[arg'[h]] = 0
  BY DEF ReuseSurface, At, CreateReturns, Leave, PoolInv, TypeOK, UseInv, UnusedInv, Creating
<1> QED BY <1>1, <1>2, <1>3, <1>4, KeepUse

LEMMA AllocateSurfaceUse ==
  ASSUME PoolInv, UseInv, NEW th \in Threads, NEW k \in Kinds, AllocateSurface(th, k)
  PROVE  UseInv'
<1>1. /\ UNCHANGED <<state, given, uses, outstanding, eventless>>
      /\ device' = device \/ {device, device'} \subseteq {"open", "closing"}
  BY DEF AllocateSurface, At, CreateReturns, Leave, queueVars
<1>2. \A i \in Indices :
        array[i] # NULL => array'[i] # NULL /\ destroyId'[i] = destroyId[i]
  BY KindFacts DEF AllocateSurface, At, CreateReturns, Leave, poolVars, FreeIndices, PoolInv, TypeOK
<1>3. \A h \in Threads : at'[h] = "push" =>
        /\ at[h] = "push" /\ arg'[h] = arg[h]
        /\ held \cap Uses(arg[h]) \subseteq held'
  BY DEF AllocateSurface, At, CreateReturns, Leave, PoolInv, TypeOK
<1>4. \A h \in Threads : call'[h] \in {"force", "teardown"} /\ at'[h] = "go"
                           => state[arg'[h]] = 0
  BY DEF AllocateSurface, At, CreateReturns, Leave, PoolInv, TypeOK, UseInv, UnusedInv, Creating
<1> QED BY <1>1, <1>2, <1>3, <1>4, KeepUse

LEMMA AllocateFailsUse ==
  ASSUME PoolInv, UseInv, NEW th \in Threads, NEW k \in Kinds, AllocateFails(th, k)
  PROVE  UseInv'
<1>1. /\ UNCHANGED <<state, given, uses, outstanding, eventless>>
      /\ device' = device \/ {device, device'} \subseteq {"open", "closing"}
  BY DEF AllocateFails, At, CreateReturns, Leave, queueVars
<1>2. \A i \in Indices :
        array[i] # NULL => array'[i] # NULL /\ destroyId'[i] = destroyId[i]
  BY DEF AllocateFails, At, CreateReturns, Leave, poolVars
<1>3. \A h \in Threads : at'[h] = "push" =>
        /\ at[h] = "push" /\ arg'[h] = arg[h]
        /\ held \cap Uses(arg[h]) \subseteq held'
  BY DEF AllocateFails, At, CreateReturns, Leave, PoolInv, TypeOK
<1>4. \A h \in Threads : call'[h] \in {"force", "teardown"} /\ at'[h] = "go"
                           => state[arg'[h]] = 0
  BY DEF AllocateFails, At, CreateReturns, Leave, PoolInv, TypeOK, UseInv, UnusedInv, Creating
<1> QED BY <1>1, <1>2, <1>3, <1>4, KeepUse

LEMMA QueryReturnsUse ==
  ASSUME PoolInv, UseInv, NEW th \in Threads, QueryReturns(th)
  PROVE  UseInv'
<1>1. /\ UNCHANGED <<state, given, uses, outstanding, eventless>>
      /\ device' = device \/ {device, device'} \subseteq {"open", "closing"}
  BY DEF QueryReturns, Goto, Leave, queueVars
<1>2. \A i \in Indices :
        array[i] # NULL => array'[i] # NULL /\ destroyId'[i] = destroyId[i]
  BY DEF QueryReturns, Goto, Leave, poolVars
<1>3. \A h \in Threads : at'[h] = "push" =>
        /\ at[h] = "push" /\ arg'[h] = arg[h]
        /\ held \cap Uses(arg[h]) \subseteq held'
  BY DEF QueryReturns, Goto, Leave, PoolInv, TypeOK
<1>4. \A h \in Threads : call'[h] \in {"force", "teardown"} /\ at'[h] = "go"
                           => state[arg'[h]] = 0
  BY DEF QueryReturns, Goto, Leave, PoolInv, TypeOK, UseInv, UnusedInv
<1> QED BY <1>1, <1>2, <1>3, <1>4, KeepUse

LEMMA WaitForReferenceFreeUse ==
  ASSUME PoolInv, UseInv, NEW th \in Threads, WaitForReferenceFree(th)
  PROVE  UseInv'
<1>1. /\ UNCHANGED <<state, given, uses, outstanding, eventless>>
      /\ device' = device \/ {device, device'} \subseteq {"open", "closing"}
  BY DEF WaitForReferenceFree, Goto, queueVars
<1>2. \A i \in Indices :
        array[i] # NULL => array'[i] # NULL /\ destroyId'[i] = destroyId[i]
  BY DEF WaitForReferenceFree, Goto, poolVars
<1>3. \A h \in Threads : at'[h] = "push" =>
        /\ at[h] = "push" /\ arg'[h] = arg[h]
        /\ held \cap Uses(arg[h]) \subseteq held'
  BY DEF WaitForReferenceFree, Goto, PoolInv, TypeOK
<1>4. \A h \in Threads : call'[h] \in {"force", "teardown"} /\ at'[h] = "go"
                           => state[arg'[h]] = 0
  BY DEF WaitForReferenceFree, Goto, PoolInv, TypeOK, UseInv, UnusedInv
<1> QED BY <1>1, <1>2, <1>3, <1>4, KeepUse

LEMMA AccessSurfaceUse ==
  ASSUME PoolInv, UseInv, NEW th \in Threads, NEW i \in Indices, AccessSurface(th, i)
  PROVE  UseInv'
<1>1. /\ UNCHANGED <<state, given, uses, outstanding, eventless>>
      /\ device' = device \/ {device, device'} \subseteq {"open", "closing"}
  BY DEF AccessSurface, Enter, queueVars
<1>2. \A j \in Indices :
        array[j] # NULL => array'[j] # NULL /\ destroyId'[j] = destroyId[j]
  BY DEF AccessSurface, Enter, poolVars
<1>3. \A h \in Threads : at'[h] = "push" =>
        /\ at[h] = "push" /\ arg'[h] = arg[h]
        /\ held \cap Uses(arg[h]) \subseteq held'
  BY DEF AccessSurface, Enter, PoolInv, TypeOK
<1>4. \A h \in Threads : call'[h] \in {"force", "teardown"} /\ at'[h] = "go"
                           => state[arg'[h]] = 0
  BY DEF AccessSurface, Enter, PoolInv, TypeOK, UseInv, UnusedInv
<1> QED BY <1>1, <1>2, <1>3, <1>4, KeepUse

LEMMA FlushReturnsUse ==
  ASSUME PoolInv, UseInv, NEW th \in Threads, FlushReturns(th)
  PROVE  UseInv'
<1>1. /\ UNCHANGED <<state, given, uses, outstanding, eventless>>
      /\ device' = device \/ {device, device'} \subseteq {"open", "closing"}
  BY DEF FlushReturns, Goto, queueVars
<1>2. \A i \in Indices :
        array[i] # NULL => array'[i] # NULL /\ destroyId'[i] = destroyId[i]
  BY DEF FlushReturns, Goto, poolVars
<1>3. \A h \in Threads : at'[h] = "push" =>
        /\ at[h] = "push" /\ arg'[h] = arg[h]
        /\ held \cap Uses(arg[h]) \subseteq held'
  BY DEF FlushReturns, Goto, PoolInv, TypeOK
<1>4. \A h \in Threads : call'[h] \in {"force", "teardown"} /\ at'[h] = "go"
                           => state[arg'[h]] = 0
  BY DEF FlushReturns, Goto, PoolInv, TypeOK, UseInv, UnusedInv
<1> QED BY <1>1, <1>2, <1>3, <1>4, KeepUse

LEMMA FlushTimesOutUse ==
  ASSUME PoolInv, UseInv, NEW th \in Threads, FlushTimesOut(th)
  PROVE  UseInv'
<1>1. /\ UNCHANGED <<state, given, uses, outstanding, eventless>>
      /\ device' = device \/ {device, device'} \subseteq {"open", "closing"}
  BY DEF FlushTimesOut, Goto, queueVars
<1>2. \A i \in Indices :
        array[i] # NULL => array'[i] # NULL /\ destroyId'[i] = destroyId[i]
  BY DEF FlushTimesOut, Goto, poolVars
<1>3. \A h \in Threads : at'[h] = "push" =>
        /\ at[h] = "push" /\ arg'[h] = arg[h]
        /\ held \cap Uses(arg[h]) \subseteq held'
  BY DEF FlushTimesOut, Goto, PoolInv, TypeOK
<1>4. \A h \in Threads : call'[h] \in {"force", "teardown"} /\ at'[h] = "go"
                           => state[arg'[h]] = 0
  BY DEF FlushTimesOut, Goto, PoolInv, TypeOK, UseInv, UnusedInv
<1> QED BY <1>1, <1>2, <1>3, <1>4, KeepUse

LEMMA AccessedUse ==
  ASSUME PoolInv, UseInv, NEW th \in Threads, Accessed(th)
  PROVE  UseInv'
<1>1. /\ UNCHANGED <<state, given, uses, outstanding, eventless>>
      /\ device' = device \/ {device, device'} \subseteq {"open", "closing"}
  BY DEF Accessed, Leave, queueVars
<1>2. \A i \in Indices :
        array[i] # NULL => array'[i] # NULL /\ destroyId'[i] = destroyId[i]
  BY DEF Accessed, Leave, poolVars
<1>3. \A h \in Threads : at'[h] = "push" =>
        /\ at[h] = "push" /\ arg'[h] = arg[h]
        /\ held \cap Uses(arg[h]) \subseteq held'
  BY DEF Accessed, Leave, PoolInv, TypeOK
<1>4. \A h \in Threads : call'[h] \in {"force", "teardown"} /\ at'[h] = "go"
                           => state[arg'[h]] = 0
  BY DEF Accessed, Leave, PoolInv, TypeOK, UseInv, UnusedInv
<1> QED BY <1>1, <1>2, <1>3, <1>4, KeepUse

LEMMA DestroyDeviceUse ==
  ASSUME PoolInv, UseInv, NEW th \in Threads, DestroyDevice(th)
  PROVE  UseInv'
<1>1. /\ UNCHANGED <<state, given, uses, outstanding, eventless>>
      /\ device' = device \/ {device, device'} \subseteq {"open", "closing"}
  BY DEF DestroyDevice, Enter, queueVars
<1>2. \A i \in Indices :
        array[i] # NULL => array'[i] # NULL /\ destroyId'[i] = destroyId[i]
  BY DEF DestroyDevice, Enter, poolVars
<1>3. \A h \in Threads : at'[h] = "push" =>
        /\ at[h] = "push" /\ arg'[h] = arg[h]
        /\ held \cap Uses(arg[h]) \subseteq held'
  BY DEF DestroyDevice, Enter, PoolInv, TypeOK
<1>4. \A h \in Threads : call'[h] \in {"force", "teardown"} /\ at'[h] = "go"
                           => state[arg'[h]] = 0
  BY DEF DestroyDevice, Enter, PoolInv, TypeOK, UseInv, UnusedInv
<1> QED BY <1>1, <1>2, <1>3, <1>4, KeepUse

\* With no task in the queue no index is in use.
LEMMA TouchUse ==
  ASSUME PoolInv, UseInv, NEW th \in Threads, Touch(th)
  PROVE  UseInv'
<1>1. /\ UNCHANGED <<state, given, uses, outstanding, eventless, device, call, arg, held>>
      /\ UNCHANGED poolVars /\ at[th] = "touch"
  BY DEF Touch, Goto, queueVars
<1>2. \A i \in Indices :
        array[i] # NULL => array'[i] # NULL /\ destroyId'[i] = destroyId[i]
  BY <1>1 DEF poolVars
<1>3. \A h \in Threads : at'[h] = "push" =>
        /\ at[h] = "push" /\ arg'[h] = arg[h]
        /\ held \cap Uses(arg[h]) \subseteq held'
  BY <1>1 DEF Touch, Goto, PoolInv, TypeOK
<1>4. ASSUME NEW h \in Threads, call'[h] \in {"force", "teardown"}, at'[h] = "go"
      PROVE  state[arg'[h]] = 0
  <2>1. CASE h # th \/ at'[th] # "go"
    BY <1>1, <1>4, <2>1 DEF Touch, Goto, PoolInv, TypeOK, UseInv, UnusedInv
  <2>2. CASE h = th /\ at'[th] = "go"
    <3>1. outstanding = <<>>
      BY <1>1, <2>2 DEF Touch, Goto, PoolInv, TypeOK
    <3>2. Counted = {}
      BY <3>1 DEF Queued, Counted
    <3>3. arg[th] \in Indices /\ device \in {"open", "closing"}
      BY <1>1, <1>4, <2>2, Waiter
    <3>4. Users(arg[th]) = {} /\ state[arg[th]] = Cardinality(Users(arg[th]))
      BY <3>2, <3>3 DEF Users, UseInv, CountInv
    <3> QED BY <1>1, <2>2, <3>4, FS_EmptySet
  <2> QED BY <2>1, <2>2
<1> QED BY <1>1, <1>2, <1>3, <1>4, KeepUse

LEMMA DestroySurfaceUse ==
  ASSUME PoolInv, UseInv, NEW th \in Threads, NEW i \in Indices, DestroySurface(th, i)
  PROVE  UseInv'
<1>1. /\ UNCHANGED <<state, given, uses, outstanding, eventless, device, call, at, arg>>
      /\ i \in held \ InCalls /\ held' = held \ {i} /\ device = "open"
  BY DEF DestroySurface, queueVars, callVars
<1>2. \A h \in Threads : at[h] = "push" => i \notin Uses(arg[h])
  BY <1>1 DEF InCalls
<1>3. \A h \in Threads : call'[h] \in {"force", "teardown"} /\ at'[h] = "go"
                           => state[arg'[h]] = 0
  BY <1>1 DEF UseInv, UnusedInv
<1>4. CASE Recycled(i) \/ state[i] # 0
  <2>1. UNCHANGED <<array, destroyId>>
    BY <1>4 DEF DestroySurface
  <2> QED BY <1>1, <1>2, <1>3, <2>1, KeepUse
<1>5. CASE ~Recycled(i) /\ state[i] = 0
  <2> DEFINE S == {i}
  <2>1. RealDestroy(S) /\ S \in SUBSET Indices
    BY <1>5 DEF DestroySurface
  <2>2. \A j \in S : Users(j) = {}
    BY <1>1, <1>5, NoUsers DEF PoolInv, UseInv
  <2>3. \A j \in Indices \ S :
          array[j] # NULL => array'[j] # NULL /\ destroyId'[j] = destroyId[j]
    BY <2>1 DEF RealDestroy, ClearPlaces
  <2>4. \A h \in Threads : at'[h] = "push" =>
          /\ at[h] = "push" /\ arg'[h] = arg[h]
          /\ S \cap Uses(arg[h]) = {} /\ held \cap Uses(arg[h]) \subseteq held'
    BY <1>1, <1>2
  <2> HIDE DEF S
  <2> QED BY <1>1, <1>3, <2>1, <2>2, <2>3, <2>4, UseFrame
<1> QED BY <1>4, <1>5

LEMMA ForceDestroyedUse ==
  ASSUME PoolInv, UseInv, NEW th \in Threads, ForceDestroyed(th)
  PROVE  UseInv'
<1> DEFINE S == {arg[th]}
<1>1. /\ UNCHANGED <<state, given, uses, outstanding, eventless, device, held>>
      /\ call[th] = "force" /\ at[th] = "go" /\ RealDestroy(S) /\ Leave(th)
  BY DEF ForceDestroyed, queueVars
<1>2. arg[th] \in Indices \ held /\ device \in {"open", "closing"} /\ state[arg[th]] = 0
  BY <1>1, Waiter DEF PoolInv, ForceInv, UseInv, UnusedInv
<1>3. S \in SUBSET Indices /\ \A i \in S : Users(i) = {}
  BY <1>2, NoUsers DEF PoolInv, UseInv
<1>4. \A i \in Indices \ S :
        array[i] # NULL => array'[i] # NULL /\ destroyId'[i] = destroyId[i]
  BY <1>1 DEF RealDestroy, ClearPlaces
<1>5. \A h \in Threads : at[h] = "push" => Uses(arg[h]) \subseteq held
  BY DEF UseInv, PushInv, Uses
<1>6. \A h \in Threads : at'[h] = "push" =>
        /\ at[h] = "push" /\ arg'[h] = arg[h]
        /\ S \cap Uses(arg[h]) = {} /\ held \cap Uses(arg[h]) \subseteq held'
  BY <1>1, <1>2, <1>5 DEF Leave, PoolInv, TypeOK
<1>7. \A h \in Threads : call'[h] \in {"force", "teardown"} /\ at'[h] = "go"
                           => state[arg'[h]] = 0
  BY <1>1 DEF Leave, PoolInv, TypeOK, UseInv, UnusedInv
<1> HIDE DEF S
<1> QED BY <1>1, <1>3, <1>4, <1>6, <1>7, UseFrame

LEMMA TeardownDestroyUse ==
  ASSUME PoolInv, UseInv, NEW th \in Threads, TeardownDestroy(th)
  PROVE  UseInv'
<1> DEFINE S == {arg[th]}
<1>1. /\ UNCHANGED <<state, given, uses, outstanding, eventless, device>>
      /\ call[th] = "teardown" /\ at[th] = "go" /\ RealDestroy(S) /\ Goto(th, "next")
  BY DEF TeardownDestroy, queueVars
<1>2. arg[th] \in Indices /\ device \in {"open", "closing"} /\ state[arg[th]] = 0
  BY <1>1, Waiter DEF UseInv, UnusedInv
<1>3. S \in SUBSET Indices /\ \A i \in S : Users(i) = {}
  BY <1>2, NoUsers DEF PoolInv, UseInv
<1>4. \A i \in Indices \ S :
        array[i] # NULL => array'[i] # NULL /\ destroyId'[i] = destroyId[i]
  BY <1>1 DEF RealDestroy, ClearPlaces
<1>5. \A h \in Threads : at'[h] # "push"
  <2>1. device # "open"
    BY <1>1 DEF PoolInv, DeviceInv
  <2>2. \A h \in Threads : at[h] # "push"
    BY <2>1, Pusher
  <2> QED BY <1>1, <2>2 DEF Goto, PoolInv, TypeOK
<1>7. \A h \in Threads : call'[h] \in {"force", "teardown"} /\ at'[h] = "go"
                           => state[arg'[h]] = 0
  BY <1>1 DEF Goto, PoolInv, TypeOK, UseInv, UnusedInv
<1> HIDE DEF S
<1> QED BY <1>1, <1>3, <1>4, <1>5, <1>7, UseFrame

LEMMA GcPassUse ==
  ASSUME PoolInv, UseInv, NEW th \in Threads, GcPass(th)
  PROVE  UseInv'
<1> DEFINE S == {i \in Indices : Garbage(i)}
<1>1. /\ UNCHANGED <<state, given, uses, outstanding, eventless, device, held>>
      /\ Creating(th) /\ RealDestroy(S) /\ S \in SUBSET Indices
      /\ UNCHANGED <<call, arg>> /\ \E p \in {"touch", "go"} : at' = [at EXCEPT ![th] = p]
  BY DEF GcPass, Goto, queueVars
<1>2. \A i \in S : state[i] = 0 /\ i \notin held
  BY DEF Garbage, PoolInv, HeldSurfacesAlive
<1>3. \A i \in S : Users(i) = {}
  BY <1>1, <1>2, NoUsers, CreatorOpen DEF PoolInv, UseInv
<1>4. \A i \in Indices \ S :
        array[i] # NULL => array'[i] # NULL /\ destroyId'[i] = destroyId[i]
  BY <1>1 DEF RealDestroy, ClearPlaces
<1>5. \A h \in Threads : at[h] = "push" => Uses(arg[h]) \subseteq held
  BY DEF UseInv, PushInv, Uses
<1>6. \A h \in Threads : at'[h] = "push" =>
        /\ at[h] = "push" /\ arg'[h] = arg[h]
        /\ S \cap Uses(arg[h]) = {} /\ held \cap Uses(arg[h]) \subseteq held'
  BY <1>1, <1>2, <1>5 DEF PoolInv, TypeOK
<1>7. \A h \in Threads : call'[h] \in {"force", "teardown"} /\ at'[h] = "go"
                           => state[arg'[h]] = 0
  BY <1>1 DEF PoolInv, TypeOK, UseInv, UnusedInv, Creating
<1> HIDE DEF S
<1> QED BY <1>1, <1>3, <1>4, <1>6, <1>7, UseFrame

\* The surface manager is gone when no surface is left, so no queued task
\* uses one.
LEMMA TeardownNextUse ==
  ASSUME PoolInv, UseInv, NEW th \in Threads, TeardownNext(th)
  PROVE  UseInv'
<1>1. /\ UNCHANGED <<state, given, uses, outstanding, eventless, held, array, destroyId>>
      /\ call[th] = "teardown" /\ at[th] = "next" /\ call' = call
  BY DEF TeardownNext, Goto, PoolInv, TypeOK, FrameInv, Creating, Calls, queueVars, poolVars
<1>2. /\ device = "closing" /\ \A h \in Threads : at[h] # "push"
  BY <1>1, Pusher DEF PoolInv, DeviceInv
<1>3. \A h \in Threads : /\ at'[h] # "push"
                         /\ at'[h] = "go" => at[h] = "go" /\ arg'[h] = arg[h]
  <2>1. /\ \E p \in {"pass", "clean"} : at' = [at EXCEPT ![th] = p]
        /\ \A h \in Threads \ {th} : arg'[h] = arg[h]
    BY DEF TeardownNext, Goto, PoolInv, TypeOK
  <2> QED BY <1>2, <2>1 DEF PoolInv, TypeOK
<1>4. \A h \in Threads : call'[h] \in {"force", "teardown"} /\ at'[h] = "go"
                           => state[arg'[h]] = 0
  BY <1>1, <1>3 DEF UseInv, UnusedInv
<1>5. CASE device' = device
  BY <1>1, <1>3, <1>4, <1>5, KeepUse
<1>6. CASE device' = "noManager" /\ FreeIndices = Indices
  <2>1. \A t \in Counted : uses[t] = {}
    <3> SUFFICES ASSUME NEW t \in Counted, NEW u \in uses[t] PROVE FALSE
      OBVIOUS
    <3>1. t \in Tasks /\ array[u[1]] # NULL
      BY FiniteUsers DEF PoolInv, UseInv, PendingSurfacesAlive, Counted
    <3>2. u \in Indices \X Nat
      BY <3>1 DEF PoolInv, TypeOK
    <3> QED BY <1>6, <3>1, <3>2 DEF FreeIndices
  <2>2. Queued' = Queued /\ Counted' = Counted
    BY <1>1 DEF Queued, Counted
  <2>3. CountInv'
    BY <1>1, <1>6, <2>1, <2>2 DEF CountInv
  <2>4. QueueInv' /\ PendingSurfacesAlive' /\ PushInv' /\ UnusedInv'
    BY <1>1, <1>3, <1>4, <2>2 DEF UseInv, QueueInv, PendingSurfacesAlive, PushInv, UnusedInv
  <2> QED BY <2>3, <2>4 DEF UseInv
<1> QED BY <1>5, <1>6 DEF TeardownNext

LEMMA PopTaskUse ==
  ASSUME PoolInv, UseInv, NEW th \in Threads, PopTask(th)
  PROVE  UseInv'
<1> DEFINE t == Head(outstanding)
<1>1. /\ outstanding # <<>> /\ outstanding' = Tail(outstanding)
      /\ state' = [i \in Indices |-> IF i \in Uses(t) THEN state[i] - 1 ELSE state[i]]
      /\ t \notin eventless
      /\ UNCHANGED <<poolVars, held, given, uses, eventless, callVars, device>>
  BY DEF PopTask, HeadHasRun, UpdateSurfaceStateOnPop
<1>2. /\ Queued' = Queued \ {t} /\ t \in Queued
      /\ \A k, l \in DOMAIN outstanding' : outstanding'[k] = outstanding'[l] => k = l
  <2>1. /\ outstanding \in Seq(Tasks)
        /\ \A k, l \in DOMAIN outstanding : outstanding[k] = outstanding[l] => k = l
    BY DEF PoolInv, TypeOK, UseInv, QueueInv
  <2>2. LET r == Tail(outstanding)
        IN  /\ {r[k] : k \in DOMAIN r}
                 = {outstanding[k] : k \in DOMAIN outstanding} \ {t}
            /\ t \in {outstanding[k] : k \in DOMAIN outstanding}
            /\ \A k, l \in DOMAIN r : r[k] = r[l] => k = l
    BY <1>1, <2>1, TailElements, Zenon
  <2> QED BY <1>1, <2>2, Zenon DEF Queued
<1>3. /\ \A i : Users(i)' = Users(i) \ {t} /\ (t \in Users(i) <=> i \in Uses(t))
      /\ \A s : Uses(s)' = Uses(s)
      /\ Counted' \subseteq Counted
  BY <1>1, <1>2 DEF Users, Uses, Counted
<1>4. QueueInv'
  BY <1>1, <1>2 DEF UseInv, QueueInv, callVars
<1>5. CountInv'
  <2>1. CASE device \in {"open", "closing"}
    <3> SUFFICES ASSUME NEW i \in Indices PROVE state'[i] = Cardinality(Users(i)')
      BY <1>1, <2>1 DEF CountInv
    <3>1. state[i] = Cardinality(Users(i)) /\ IsFiniteSet(Users(i))
      BY <2>1, FiniteUsers DEF UseInv, CountInv, PoolInv
    <3>2. CASE i \in Uses(t)
      BY <1>1, <1>3, <3>1, <3>2, FS_RemoveElement
    <3>3. CASE i \notin Uses(t)
      <4>1. Users(i)' = Users(i)
        BY <1>3, <3>3
      <4> QED BY <1>1, <3>1, <3>3, <4>1
    <3> QED BY <3>2, <3>3
  <2>2. CASE device \notin {"open", "closing"}
    BY <1>1, <1>3, <2>2 DEF UseInv, CountInv
  <2> QED BY <2>1, <2>2
<1>6. PendingSurfacesAlive' /\ PushInv'
  BY <1>1, <1>3 DEF UseInv, PendingSurfacesAlive, PushInv, poolVars, callVars
<1>7. ASSUME NEW h \in Threads, call'[h] \in {"force", "teardown"}, at'[h] = "go"
      PROVE  state'[arg'[h]] = 0
  <2>1. call'[h] = call[h] /\ at'[h] = at[h] /\ arg'[h] = arg[h]
    BY <1>1 DEF callVars
  <2>2. /\ state[arg[h]] = 0 /\ arg[h] \in Indices /\ device \in {"open", "closing"}
    BY <1>7, <2>1, Waiter DEF UseInv, UnusedInv
  <2>3. Users(arg[h]) = {}
    BY <2>2, NoUsers DEF PoolInv, UseInv
  <2> QED BY <1>1, <1>3, <2>1, <2>2, <2>3
<1> QED BY <1>4, <1>5, <1>6, <1>7 DEF UseInv, UnusedInv

LEMMA CleanQueueUse ==
  ASSUME PoolInv, UseInv, NEW th \in Threads, CleanQueue(th)
  PROVE  UseInv'
<1>1. /\ UNCHANGED <<poolVars, state, held, given, uses, eventless>> /\ at[th] = "clean"
      /\ call[th] = "teardown"
  BY DEF CleanQueue, PoolInv, TypeOK, FrameInv, Creating, Calls
<1>2. device = "noManager" /\ \A h \in Threads : at[h] # "push"
  BY <1>1, Pusher DEF PoolInv, DeviceInv
<1>3. CASE outstanding' = <<>> /\ device' = "closed" /\ Leave(th)
  <2>1. Queued' = {} /\ DOMAIN outstanding' = {}
    BY <1>3 DEF Queued
  <2>2. \A h \in Threads : at'[h] # "push" /\ (at'[h] = "go" => at[h] = "go" /\ call'[h] = call[h] /\ arg'[h] = arg[h])
    BY <1>2, <1>3 DEF Leave, PoolInv, TypeOK
  <2>3. QueueInv' /\ PushInv' /\ UnusedInv'
    BY <1>1, <2>1, <2>2 DEF UseInv, QueueInv, PushInv, UnusedInv
  <2>4. CountInv' /\ PendingSurfacesAlive'
    BY <1>3, <2>1 DEF CountInv, PendingSurfacesAlive, Counted
  <2> QED BY <2>3, <2>4 DEF UseInv
<1>4. CASE outstanding # <<>> /\ outstanding' = Tail(outstanding) /\ UNCHANGED <<callVars, device>>
  <2>1. /\ Queued' \subseteq Queued
        /\ \A k, l \in DOMAIN outstanding' : outstanding'[k] = outstanding'[l] => k = l
    BY <1>4, TailElements DEF PoolInv, TypeOK, UseInv, QueueInv, Queued
  <2>2. QueueInv' /\ PushInv' /\ UnusedInv'
    BY <1>1, <1>2, <1>4, <2>1 DEF UseInv, QueueInv, PushInv, UnusedInv, callVars
  <2>3. CountInv' /\ PendingSurfacesAlive'
    BY <1>1, <1>2, <1>4, <2>1 DEF UseInv, CountInv, PendingSurfacesAlive, Counted, poolVars
  <2> QED BY <2>2, <2>3 DEF UseInv
<1> QED BY <1>3, <1>4 DEF CleanQueue, HeadHasRun

\* A task enters with surfaces the application holds; the thread that pushes it
\* is the only one at that place.
LEMMA EnqueueUse ==
  ASSUME PoolInv, UseInv, NEW th \in Threads, NEW t \in Tasks, NEW S \in SUBSET Indices,
         Enqueue(th, t, S)
  PROVE  UseInv'
<1>1. /\ t \notin given /\ given' = given \cup {t} /\ S \subseteq held
      /\ uses' = [uses EXCEPT ![t] = {<<i, destroyId[i]>> : i \in S}]
      /\ queueLock = NULL /\ device = "open" /\ call[th] = "none"
      /\ call' = [call EXCEPT ![th] = "enqueue"]
      /\ arg' = [arg EXCEPT ![th] = t] /\ at' = [at EXCEPT ![th] = "push"]
      /\ UNCHANGED <<poolVars, state, held, outstanding, eventless, device>>
  BY DEF Enqueue, Enter, Idle
<1>2. /\ t \notin Queued /\ Queued' = Queued /\ Queued \subseteq Tasks
      /\ t \notin eventless /\ Counted' = Counted
  BY <1>1, FiniteUsers DEF UseInv, QueueInv, Queued, Counted, PoolInv
<1>3. /\ \A s \in Queued : uses'[s] = uses[s]
      /\ uses'[t] = {<<i, destroyId[i]>> : i \in S}
  BY <1>1, <1>2 DEF PoolInv, TypeOK
<1>4. \A i : Users(i)' = Users(i)
  BY <1>2, <1>3 DEF Users, Uses, Counted
<1>5. \A h \in Threads : at'[h] = "push" => h = th /\ arg'[h] = t
  BY <1>1, Pusher, KindFacts DEF PoolInv, TypeOK
<1>6. QueueInv'
  BY <1>1, <1>2, <1>5 DEF UseInv, QueueInv
<1>7. CountInv'
  BY <1>1, <1>2, <1>3, <1>4 DEF UseInv, CountInv, Counted
<1>8. PendingSurfacesAlive'
  BY <1>1, <1>2, <1>3 DEF UseInv, PendingSurfacesAlive, Counted, poolVars
<1>9. PushInv'
  BY <1>1, <1>3, <1>5 DEF PushInv, poolVars
<1>10. UnusedInv'
  BY <1>1 DEF PoolInv, TypeOK, UseInv, UnusedInv
<1> QED BY <1>6, <1>7, <1>8, <1>9, <1>10 DEF UseInv

\* The count of the pushed task, and the collection that follows it.
LEMMA UpdateSurfaceStateOnPushUse ==
  ASSUME PoolInv, UseInv, NEW th \in Threads, UpdateSurfaceStateOnPush(th)
  PROVE  UseInv'
<1> DEFINE S == {i \in Indices : Collectable(i, state')}
           t == arg[th]
<1>1. /\ at[th] = "push" /\ surfLock = NULL
      /\ outstanding' = Append(outstanding, t)
      /\ state' = [i \in Indices |-> IF i \in Uses(t) THEN state[i] + 1 ELSE state[i]]
      /\ RealDestroy(S) /\ S \in SUBSET Indices /\ Goto(th, "query")
      /\ UNCHANGED <<held, given, uses, eventless, device>>
  BY DEF UpdateSurfaceStateOnPush
<1>2. call[th] = "enqueue" /\ t \in Tasks /\ device = "open" /\ queueLock = th
  BY <1>1, Pusher
<1>3. /\ t \in given \ (Queued \cup eventless)
      /\ \A u \in uses[t] : u[1] \in held /\ destroyId[u[1]] = u[2]
  BY <1>1 DEF UseInv, QueueInv, PushInv
<1>4. /\ Queued' = Queued \cup {t}
      /\ \A k, l \in DOMAIN outstanding' : outstanding'[k] = outstanding'[l] => k = l
  <2>1. /\ outstanding \in Seq(Tasks) /\ t \notin {outstanding[k] : k \in DOMAIN outstanding}
        /\ \A k, l \in DOMAIN outstanding : outstanding[k] = outstanding[l] => k = l
    BY <1>3 DEF PoolInv, TypeOK, UseInv, QueueInv, Queued
  <2>2. LET r == Append(outstanding, t)
        IN  /\ {r[k] : k \in DOMAIN r}
                 = {outstanding[k] : k \in DOMAIN outstanding} \cup {t}
            /\ \A k, l \in DOMAIN r : r[k] = r[l] => k = l
    BY <1>2, <2>1, AppendElements, AppendOnce, Zenon
  <2> QED BY <1>1, <2>2, Zenon DEF Queued
<1>5. /\ \A i : Users(i)' = Users(i) \cup (IF i \in Uses(t) THEN {t} ELSE {})
      /\ Counted' = Counted \cup {t}
  BY <1>1, <1>3, <1>4 DEF Users, Uses, Counted
<1>6. \A h \in Threads : at'[h] # "push"
  <2>1. \A h \in Threads \ {th} : at[h] # "push"
    BY <1>2, Pusher
  <2> QED BY <1>1, <2>1 DEF Goto, PoolInv, TypeOK
<1>7. QueueInv' /\ PushInv'
  BY <1>1, <1>3, <1>4, <1>6 DEF UseInv, QueueInv, PushInv
<1>8. ASSUME NEW i \in Indices PROVE state'[i] = Cardinality(Users(i)')
  <2>1. /\ state[i] = Cardinality(Users(i)) /\ IsFiniteSet(Users(i))
        /\ t \notin Users(i)
    BY <1>2, <1>3, FiniteUsers DEF UseInv, CountInv, PoolInv, Users, Counted
  <2>2. CASE i \in Uses(t)
    <3>1. Users(i)' = Users(i) \cup {t}
      BY <1>5, <2>2
    <3>2. Cardinality(Users(i)') = Cardinality(Users(i)) + 1
      BY <2>1, <3>1, FS_AddElement
    <3>3. state'[i] = state[i] + 1
      BY <1>1, <2>2
    <3> QED BY <2>1, <3>2, <3>3
  <2>3. CASE i \notin Uses(t)
    <3>1. Users(i)' = Users(i)
      BY <1>5, <2>3
    <3> QED BY <1>1, <2>1, <2>3, <3>1
  <2> QED BY <2>2, <2>3
<1>9. CountInv'
  BY <1>1, <1>2, <1>8 DEF CountInv
<1>10. \A i \in S : state'[i] = 0 /\ i \notin held
  BY DEF Collectable, PoolInv, HeldSurfacesAlive
<1>11. \A i \in S : Users(i) = {} /\ i \notin Uses(t)
  <2> SUFFICES ASSUME NEW i \in S PROVE Users(i) = {} /\ i \notin Uses(t)
    OBVIOUS
  <2>1. i \in Indices /\ state'[i] = 0 /\ state[i] \in Nat
    BY <1>1, <1>2, <1>10, FiniteUsers DEF UseInv, CountInv, PoolInv
  <2>2. i \notin Uses(t) /\ state[i] = 0
    BY <1>1, <2>1
  <2> QED BY <1>2, <2>1, <2>2, NoUsers DEF PoolInv, UseInv
<1>12. \A i \in Indices \ S :
         array[i] # NULL => array'[i] # NULL /\ destroyId'[i] = destroyId[i]
  BY <1>1 DEF RealDestroy, ClearPlaces
<1>13. ASSUME NEW s \in Counted', NEW u \in uses'[s]
       PROVE  array'[u[1]] # NULL /\ destroyId'[u[1]] = u[2]
  <2>1. s \in Tasks /\ u \in uses[s] /\ u[1] \in Uses(s)
    BY <1>1, <1>2, <1>5, <1>13, FiniteUsers DEF PoolInv, Uses, Counted
  <2>2. u[1] \in Indices
    BY <2>1 DEF PoolInv, TypeOK
  <2>3. array[u[1]] # NULL /\ destroyId[u[1]] = u[2]
    BY <1>3, <1>5, <2>1 DEF PoolInv, HeldSurfacesAlive, UseInv, PendingSurfacesAlive
  <2>4. u[1] \notin S
    BY <1>5, <1>11, <2>1 DEF Users
  <2> HIDE DEF S
  <2> QED BY <1>12, <2>2, <2>3, <2>4
<1>14. ASSUME NEW h \in Threads, call'[h] \in {"force", "teardown"}, at'[h] = "go"
       PROVE  state'[arg'[h]] = 0
  <2>1. h # th /\ call[h] = call'[h] /\ at[h] = "go" /\ arg'[h] = arg[h]
    BY <1>1, <1>14 DEF Goto, PoolInv, TypeOK
  <2>2. call[h] = "force" /\ arg[h] \notin held /\ arg[h] \in Indices /\ state[arg[h]] = 0
    BY <1>2, <1>14, <2>1 DEF PoolInv, DeviceInv, ForceInv, FrameInv, UseInv, UnusedInv
  <2>3. arg[h] \notin Uses(t)
    BY <1>3, <2>2 DEF Uses
  <2> QED BY <1>1, <2>1, <2>2, <2>3
<1> QED BY <1>7, <1>9, <1>13, <1>14 DEF UseInv, PendingSurfacesAlive, UnusedInv

\* A task that gets no event is not counted, and its thread is the only one
\* that pushes.
LEMMA EnqueueWithoutEventUse ==
  ASSUME PoolInv, UseInv, NEW th \in Threads, EnqueueWithoutEvent(th)
  PROVE  UseInv'
<1> DEFINE t == arg[th]
<1>1. /\ at[th] = "push" /\ outstanding' = Append(outstanding, t)
      /\ eventless' = eventless \cup {t} /\ Leave(th)
      /\ UNCHANGED <<poolVars, state, held, given, uses, device>>
  BY DEF EnqueueWithoutEvent
<1>2. t \in Tasks /\ queueLock = th
  BY <1>1, Pusher
<1>3. t \in given \ (Queued \cup eventless)
  BY <1>1 DEF UseInv, QueueInv
<1>4. /\ Queued' = Queued \cup {t}
      /\ \A k, l \in DOMAIN outstanding' : outstanding'[k] = outstanding'[l] => k = l
  <2>1. /\ outstanding \in Seq(Tasks) /\ t \notin {outstanding[k] : k \in DOMAIN outstanding}
        /\ \A k, l \in DOMAIN outstanding : outstanding[k] = outstanding[l] => k = l
    BY <1>3 DEF PoolInv, TypeOK, UseInv, QueueInv, Queued
  <2>2. LET r == Append(outstanding, t)
        IN  /\ {r[k] : k \in DOMAIN r}
                 = {outstanding[k] : k \in DOMAIN outstanding} \cup {t}
            /\ \A k, l \in DOMAIN r : r[k] = r[l] => k = l
    BY <1>2, <2>1, AppendElements, AppendOnce, Zenon
  <2> QED BY <1>1, <2>2, Zenon DEF Queued
<1>5. Counted' = Counted /\ \A i : Users(i)' = Users(i)
  <2>1. Counted' = Counted
    BY <1>1, <1>3, <1>4 DEF Counted
  <2> QED BY <1>1, <2>1 DEF Users, Uses
<1>6. \A h \in Threads : /\ at'[h] # "push"
                         /\ at'[h] = "go" => /\ at[h] = "go" /\ call'[h] = call[h]
                                             /\ arg'[h] = arg[h]
  <2>1. \A h \in Threads \ {th} : at[h] # "push"
    BY <1>2, Pusher
  <2> QED BY <1>1, <2>1 DEF Leave, PoolInv, TypeOK
<1>7. QueueInv' /\ PushInv'
  BY <1>1, <1>3, <1>4, <1>6 DEF UseInv, QueueInv, PushInv
<1>8. CountInv' /\ PendingSurfacesAlive'
  BY <1>1, <1>5 DEF UseInv, CountInv, PendingSurfacesAlive, poolVars
<1>9. UnusedInv'
  BY <1>1, <1>6 DEF UseInv, UnusedInv
<1> QED BY <1>7, <1>8, <1>9 DEF UseInv

LEMMA ExecuteUse ==
  ASSUME PoolInv, UseInv, Execute
  PROVE  UseInv'
<1>1. /\ UNCHANGED <<state, given, uses, outstanding, eventless, device, held, call, at, arg>>
      /\ UNCHANGED <<array, destroyId>>
  BY DEF Execute, poolVars, callVars
<1> QED BY <1>1, KeepUse DEF UseInv, UnusedInv

LEMMA InitUse == Init => UseInv
<1> SUFFICES ASSUME Init PROVE UseInv
  OBVIOUS
<1>1. /\ outstanding = <<>> /\ eventless = {} /\ state = [i \in Indices |-> 0] /\ device = "open"
      /\ at = [h \in Threads |-> ""]
  BY Zenon DEF Init
<1>2. outstanding = <<>> /\ Queued = {}
  <2>1. outstanding = <<>>
    BY <1>1
  <2> QED BY ONLY <2>1 DEF Queued
<1>3. Counted = {} /\ \A i : Users(i) = {}
  BY <1>2 DEF Users, Counted
<1>4. QueueInv
  <2>1. DOMAIN outstanding = {}
    BY ONLY <1>2
  <2> QED BY <1>1, <1>2, <2>1 DEF QueueInv
<1>5. CountInv
  BY <1>1, <1>3, FS_EmptySet DEF CountInv
<1>6. PendingSurfacesAlive /\ PushInv /\ UnusedInv
  BY <1>1, <1>3 DEF PendingSurfacesAlive, PushInv, UnusedInv
<1> QED BY <1>4, <1>5, <1>6 DEF UseInv

LEMMA StepUse ==
  ASSUME PoolInv, UseInv, [Next]_vars
  PROVE  UseInv'
<1>1. CASE UNCHANGED vars
  <2>1. /\ UNCHANGED <<state, given, uses, outstanding, eventless, device, held, call, at, arg>>
        /\ UNCHANGED <<array, destroyId>>
    BY <1>1 DEF vars, poolVars, queueVars, callVars
  <2> QED BY <2>1, KeepUse DEF UseInv, UnusedInv
<1>2. ASSUME NEW th \in Threads, Start(th) PROVE UseInv'
  BY <1>2, CreateSurfaceUse, DestroySurfaceUse, ForceDestroyUse, AccessSurfaceUse,
     EnqueueUse, DestroyDeviceUse DEF Start
<1>3. ASSUME NEW th \in Threads, Continue(th) PROVE UseInv'
  BY <1>3, ForceDestroyedUse, GcPassUse, ReuseSurfaceUse, CollectForIndexUse,
     AllocateSurfaceUse, AllocateFailsUse, RefuseUse, TouchUse, PopTaskUse,
     QueryReturnsUse, WaitForReferenceFreeUse, FlushReturnsUse, FlushTimesOutUse,
     AccessedUse, UpdateSurfaceStateOnPushUse, EnqueueWithoutEventUse,
     TeardownNextUse, TeardownDestroyUse, CleanQueueUse DEF Continue
<1> QED BY <1>1, <1>2, <1>3, ExecuteUse DEF Next

\* The counts of use agree with the queue.
THEOREM AlwaysUse == Spec => [](PoolInv /\ UseInv)
<1>1. Init => PoolInv /\ UseInv
  BY InitPool, InitUse
<1>2. (PoolInv /\ UseInv) /\ [Next]_vars => (PoolInv /\ UseInv)'
  BY StepPool, StepUse
<1> QED BY <1>1, <1>2, PTL DEF Spec

\* No task in the queue ever refers to a surface that was freed, or to a later
\* surface at the same index, whatever the application destroys meanwhile
\* and whatever a creation collects.  A task whose event could not be made, which
\* the code does not count, is left out.
THEOREM TasksKeepTheirSurfaces == Spec => []PendingSurfacesAlive
<1>1. PoolInv /\ UseInv => PendingSurfacesAlive
  BY DEF UseInv
<1> QED BY AlwaysUse, <1>1, PTL

\* m_SurfaceState counts the queued tasks with an event that use a surface,
\* exactly, until the surface manager is deleted.
THEOREM StateCountsUsers ==
  Spec => [](device \in {"open", "closing"} =>
               \A i \in Indices : state[i] = Cardinality(Users(i)))
<1>1. PoolInv /\ UseInv => (device \in {"open", "closing"} =>
                              \A i \in Indices : state[i] = Cardinality(Users(i)))
  BY DEF UseInv, CountInv
<1> QED BY AlwaysUse, <1>1, PTL

\* ReadSurface, WriteSurface and ForceDestroyBufferUP go on only when no task in
\* the queue uses the surface; tasks without an event are left out here too.
THEOREM AccessWaitsForTheGpu == Spec => WaitsForTheGpu
<1> DEFINE Waits(th) ==
      (call[th] \in {"force", "access"} /\ at[th] # "go" /\ at'[th] = "go")
          => \A t \in Counted : arg[th] \notin Uses(t)
<1>1. ASSUME PoolInv, UseInv, [Next]_vars, NEW th \in Threads,
             call[th] \in {"force", "access"}, at[th] # "go", at'[th] = "go"
      PROVE  \A t \in Counted : arg[th] \notin Uses(t)
  <2>1. device = "open" /\ arg[th] \in Indices
    BY <1>1 DEF PoolInv, DeviceInv, Idle, FrameInv
  <2>2. SUFFICES Counted = {} \/ state[arg[th]] = 0
    <3>1. state[arg[th]] = 0 => Users(arg[th]) = {}
      BY <2>1, <1>1, NoUsers DEF PoolInv, UseInv
    <3> QED BY <2>2, <3>1 DEF Users
  <2>3. at' # at
    BY <1>1
  <2>4. CASE \E h \in Threads : WaitForReferenceFree(h)
    BY <1>1, <2>4 DEF WaitForReferenceFree, Goto, PoolInv, TypeOK
  <2>5. CASE \E h \in Threads : Touch(h)
    BY <1>1, <2>5 DEF Touch, Goto, PoolInv, TypeOK, Queued, Counted
  <2>6. CASE \E h \in Threads : GcPass(h)
    BY <1>1, <2>6 DEF GcPass, Goto, Creating, PoolInv, TypeOK
  <2>7. CASE \E h \in Threads, k \in Kinds : CreateSurface(h, k)
    BY <1>1, <2>7 DEF CreateSurface, Enter, Idle, PoolInv, TypeOK
  <2>8. CASE Execute
    BY <2>3, <2>8 DEF Execute, callVars
  <2>9. ASSUME NEW h \in Threads,
               \/ \E i \in Indices : \/ DestroySurface(h, i) \/ ForceDestroy(h, i)
                                    \/ AccessSurface(h, i)
               \/ \E t \in Tasks, S \in SUBSET Indices : Enqueue(h, t, S)
               \/ DestroyDevice(h)
        PROVE  FALSE
    BY <1>1, <2>3, <2>9 DEF DestroySurface, ForceDestroy, AccessSurface, Enqueue,
       DestroyDevice, Enter, callVars, PoolInv, TypeOK
  <2>10. ASSUME NEW h \in Threads,
                \/ ForceDestroyed(h)
                \/ \E k \in Kinds : \/ ReuseSurface(h, k) \/ CollectForIndex(h, k)
                                   \/ AllocateSurface(h, k) \/ AllocateFails(h, k)
                                   \/ Refuse(h, k)
                \/ Accessed(h) \/ EnqueueWithoutEvent(h)
         PROVE  FALSE
    BY <1>1, <2>10 DEF ForceDestroyed, ReuseSurface, CollectForIndex, AllocateSurface,
       AllocateFails, Refuse, Accessed, EnqueueWithoutEvent, CreateReturns, Leave,
       PoolInv, TypeOK
  <2>11. ASSUME NEW h \in Threads,
                \/ PopTask(h) \/ QueryReturns(h) \/ FlushReturns(h) \/ FlushTimesOut(h)
                \/ UpdateSurfaceStateOnPush(h)
         PROVE  FALSE
    BY <1>1, <2>3, <2>11 DEF PopTask, QueryReturns, FlushReturns, FlushTimesOut,
       UpdateSurfaceStateOnPush, Leave, Goto, callVars, PoolInv, TypeOK
  <2>12. ASSUME NEW h \in Threads,
                TeardownNext(h) \/ TeardownDestroy(h) \/ CleanQueue(h)
         PROVE  FALSE
    BY <1>1, <2>3, <2>12 DEF TeardownNext, TeardownDestroy, CleanQueue, Leave, Goto,
       callVars, PoolInv, TypeOK
  <2>13. CASE UNCHANGED vars
    BY <2>3, <2>13 DEF vars, callVars
  <2> QED BY <1>1, <2>4, <2>5, <2>6, <2>7, <2>8, <2>9, <2>10, <2>11, <2>12, <2>13
          DEF Next, Start, Continue
<1>2. PoolInv /\ UseInv /\ [Next]_vars => [\A th \in Threads : Waits(th)]_vars
  BY <1>1
<1> QED BY AlwaysUse, <1>2, PTL DEF Spec, WaitsForTheGpu
=============================================================================
