------------------------------ MODULE CmSurfaces ------------------------------
(***************************************************************************)
(* The surface pool of a CmDevice (cm_surface_manager.cpp, cm_surface.cpp) *)
(* shared by application threads, the task queue and the GPU.              *)
(*                                                                         *)
(* A surface the application destroys lives on while a queued task uses    *)
(* it; a creation that finds no room collects such surfaces, waiting for   *)
(* the queue if it must.  m_CriticalSection_Surface (surfLock) protects    *)
(* the pool, m_CriticalSection_Queue (queueLock) the queue and the use     *)
(* counts.                                                                 *)
(*                                                                         *)
(* The queue is seen as CmTaskOrder describes it: tasks run in the order   *)
(* in which it accepts them and are popped after they ran, in that order.  *)
(* A task without an event never says that it ran: it stays, with all that *)
(* are behind it.                                                          *)
(*                                                                         *)
(* A step of a thread is what it does between two acquisitions or between  *)
(* two reads of what another thread may change.                            *)
(***************************************************************************)
EXTENDS Integers, Sequences, FiniteSets

CONSTANTS
    Threads, Tasks,
    Indices,        \* indices of the pool from ValidSurfaceIndexStart on
    Kinds,          \* kinds of surfaces the application creates
    MaxCount,       \* class -> size of its table in the HAL
    Reuse,          \* EnableSurfaceReuse of the device
    MaxDestroyId,   \* bound: no creation once an index was destroyed so often
    TasksNeedSurfaces, \* every task uses at least one surface
    AllocMayFail,   \* the HAL may fail to allocate
    EventMayFail,   \* the allocation of an event may fail
    FlushMayTimeout,\* FlushDeviceQueue and CleanQueue may give up
    NULL

AllKinds == {"BUFFER", "BUFFERUP", "EXTBUFFER", "SURFACE2D", "EXTSURFACE2D",
             "SURFACE2DUP"}
Classes == {"buffer", "2D", "2DUP"}

ASSUME KindsAssumption == Kinds \subseteq AllKinds
ASSUME MaxCountAssumption == MaxCount \in [Classes -> Nat]
ASSUME SwitchesAssumption ==
    {Reuse, TasksNeedSurfaces, AllocMayFail, EventMayFail, FlushMayTimeout}
        \subseteq BOOLEAN
ASSUME PlacesAssumption == IsFiniteSet(Indices) /\ IsFiniteSet(Tasks)
ASSUME MaxDestroyIdAssumption == MaxDestroyId \in Nat
ASSUME NullAssumption == NULL \notin Threads \cup Tasks \cup Indices \cup AllKinds

VARIABLES
    array,       \* m_SurfaceArray: the kind of the surface at an index, or NULL
    released,    \* m_SurfaceReleased: the application has destroyed it
    cached,      \* m_SurfaceCached: kept for a later creation
    state,       \* m_SurfaceState: queued tasks that use the index
    destroyId,   \* m_SurfaceDestroyID
    count,       \* m_bufferCount, m_2DSurfaceCount, m_2DUPSurfaceCount
    halUsed,     \* entries in use of the tables of the HAL
    held,        \* indices of the surfaces the application holds
    given,       \* history: tasks handed to Enqueue
    uses,        \* task -> surfaces it uses, as <<index, destroyId>>
    outstanding, \* tasks in the queue, oldest first
    executed,    \* tasks the GPU has run
    eventless,   \* tasks whose event could not be made
    surfLock, queueLock, \* the thread that holds the lock, or NULL
    call, at, arg,       \* the call a thread is in, where, and its argument
    device       \* "open", "closing", "noManager" or "closed"

poolVars == <<array, released, cached, destroyId, count, halUsed>>
queueVars == <<given, uses, outstanding, executed, eventless>>
lockVars == <<surfLock, queueLock>>
callVars == <<call, at, arg>>
vars == <<poolVars, state, held, queueVars, lockVars, callVars, device>>

Calls == {"none", "create", "createIndex", "force", "access", "enqueue",
          "teardown"}
Places == {"", "pass", "touch", "query", "flush", "go", "push", "next", "clean"}

TypeOK ==
    /\ array \in [Indices -> Kinds \cup {NULL}]
    /\ released \in [Indices -> BOOLEAN]
    /\ cached \in [Indices -> BOOLEAN]
    /\ state \in [Indices -> Int]
    /\ destroyId \in [Indices -> Nat]
    /\ count \in [Classes -> Nat]
    /\ halUsed \in [Classes -> Nat]
    /\ held \in SUBSET Indices
    /\ given \in SUBSET Tasks
    /\ uses \in [Tasks -> SUBSET (Indices \X Nat)]
    /\ outstanding \in Seq(Tasks)
    /\ executed \in SUBSET Tasks
    /\ eventless \in SUBSET Tasks
    /\ surfLock \in Threads \cup {NULL}
    /\ queueLock \in Threads \cup {NULL}
    /\ call \in [Threads -> Calls]
    /\ at \in [Threads -> Places]
    /\ arg \in [Threads -> Kinds \cup Indices \cup Tasks \cup {NULL}]
    /\ device \in {"open", "closing", "noManager", "closed"}

Init ==
    /\ array = [i \in Indices |-> NULL]
    /\ released = [i \in Indices |-> FALSE]
    /\ cached = [i \in Indices |-> FALSE]
    /\ state = [i \in Indices |-> 0]
    /\ destroyId = [i \in Indices |-> 0]
    /\ count = [c \in Classes |-> 0]
    /\ halUsed = [c \in Classes |-> 0]
    /\ held = {} /\ given = {}
    /\ uses = [t \in Tasks |-> {}]
    /\ outstanding = <<>> /\ executed = {} /\ eventless = {}
    /\ surfLock = NULL /\ queueLock = NULL
    /\ call = [th \in Threads |-> "none"]
    /\ at = [th \in Threads |-> ""]
    /\ arg = [th \in Threads |-> NULL]
    /\ device = "open"

-----------------------------------------------------------------------------
(***************************************************************************)
(* Calls of threads.  In the calls that may wait for the queue:            *)
(*   pass   looks for surfaces to collect, or for the use count to be zero *)
(*   touch  about to call TouchFlushedTasks, query in it                   *)
(*   flush  in FlushDeviceQueue                                            *)
(*   go     has waited enough                                              *)
(* push is an Enqueue before it counts its surfaces; next and clean are    *)
(* the destructor of the device between two surfaces and in CleanQueue.    *)
(***************************************************************************)
Idle(th) == call[th] = "none"

Enter(th, c, a, place) ==
    /\ device = "open" /\ Idle(th)
    /\ call' = [call EXCEPT ![th] = c]
    /\ arg' = [arg EXCEPT ![th] = a]
    /\ at' = [at EXCEPT ![th] = place]

Leave(th) ==
    /\ call' = [call EXCEPT ![th] = "none"]
    /\ arg' = [arg EXCEPT ![th] = NULL]
    /\ at' = [at EXCEPT ![th] = ""]

Goto(th, place) == at' = [at EXCEPT ![th] = place] /\ UNCHANGED <<call, arg>>

Uses(t) == {u[1] : u \in uses[t]}

\* Surfaces a call in progress was given: an application destroys none of them.
InCalls == {arg[th] : th \in Threads} \cup
           UNION {Uses(arg[th]) : th \in {h \in Threads : at[h] = "push"}}

-----------------------------------------------------------------------------
(***************************************************************************)
(* Destruction in the pool.                                                *)
(***************************************************************************)
Class(k) == CASE k \in {"BUFFER", "BUFFERUP", "EXTBUFFER"} -> "buffer"
              [] k \in {"SURFACE2D", "EXTSURFACE2D"} -> "2D"
              [] k = "SURFACE2DUP" -> "2DUP"

OfClass(c) == {i \in Indices : array[i] # NULL /\ Class(array[i]) = c}

\* DestroySurface takes the way of the reuse for buffers that are no user
\* buffers and for 2D surfaces the runtime created.
Recycled(i) == Reuse /\ array[i] \in {"BUFFER", "EXTBUFFER", "SURFACE2D"}

\* The collection does not ask whether a queued task uses the surface.
MutCollectable(i, st) == array[i] # NULL /\ ~cached[i] /\ released[i]

\* UPDATE_STATE_FOR_DELAYED_DESTROY, and _REUSE_DESTROY for DELAYED_DESTROY.
Collectable(i, st) ==
    array[i] # NULL /\ ~cached[i] /\ released[i] /\ st[i] = 0

\* Three ways to collect the wrong surfaces: those the application holds,
\* those that tasks use, and never those kept for reuse.
MutGarbageHeld(i) == array[i] # NULL /\ state[i] = 0

\* The same two for GC_DESTROY.
Garbage(i) ==
    /\ array[i] # NULL /\ released[i] /\ state[i] = 0
    /\ Recycled(i) \/ ~cached[i]

\* What every destruction does to the places of S.
ClearPlaces(S) ==
    /\ array' = [i \in Indices |-> IF i \in S THEN NULL ELSE array[i]]
    /\ released' = [i \in Indices |-> i \notin S /\ released[i]]
    /\ cached' = [i \in Indices |-> i \notin S /\ cached[i]]
    /\ destroyId' = [i \in Indices |->
                        IF i \in S THEN destroyId[i] + 1 ELSE destroyId[i]]

GiveBack(n, S) == [c \in Classes |-> n[c] - Cardinality(S \cap OfClass(c))]

\* The end of DestroySurface and UPDATE_STATE_FOR_REAL_DESTROY, for each of S.
RealDestroy(S) ==
    /\ ClearPlaces(S)
    /\ count' = GiveBack(count, S)
    /\ halUsed' = GiveBack(halUsed, S)

\* CmDevice::DestroySurface, APP_DESTROY: frees the surface, caches it, or
\* leaves it to the next collection.
DestroySurface(th, i) ==
    /\ device = "open" /\ Idle(th) /\ surfLock = NULL
    /\ i \in held \ InCalls
    /\ held' = held \ {i}
    /\ IF Recycled(i)
         THEN /\ released' = [released EXCEPT ![i] = TRUE]
              /\ cached' = [cached EXCEPT ![i] = TRUE]
              /\ UNCHANGED <<array, destroyId, count, halUsed>>
         ELSE IF state[i] = 0 THEN RealDestroy({i})
         ELSE /\ released' = [released EXCEPT ![i] = TRUE]
              /\ UNCHANGED <<array, cached, destroyId, count, halUsed>>
    /\ UNCHANGED <<state, queueVars, lockVars, callVars, device>>

\* ForceDestroyBufferUP: waits for the tasks that use the buffer.
ForceDestroy(th, i) ==
    /\ surfLock = NULL /\ surfLock' = th
    /\ i \in held \ InCalls /\ array[i] = "BUFFERUP"
    /\ held' = held \ {i}
    /\ Enter(th, "force", i, "pass")
    /\ UNCHANGED <<poolVars, state, queueVars, queueLock, device>>

ForceDestroyed(th) ==
    /\ call[th] = "force" /\ at[th] = "go"
    /\ RealDestroy({arg[th]})
    /\ surfLock' = NULL
    /\ Leave(th)
    /\ UNCHANGED <<state, held, queueVars, queueLock, device>>

-----------------------------------------------------------------------------
(***************************************************************************)
(* Creation: CreateBuffer, CreateSurface2D and CreateSurface2DUP.          *)
(***************************************************************************)
\* AllocateSurfaceIndex collects first when the table of the class is full;
\* surfaces made of an OS resource and 2D user surfaces do not go through it.
LimitReached(k) ==
    k \in {"BUFFER", "BUFFERUP", "SURFACE2D"} /\ count[Class(k)] >= MaxCount[Class(k)]

CreateSurface(th, k) ==
    /\ \A i \in Indices : destroyId[i] < MaxDestroyId
    /\ surfLock = NULL /\ surfLock' = th
    /\ Enter(th, "create", k, IF LimitReached(k) THEN "pass" ELSE "go")
    /\ UNCHANGED <<poolVars, state, held, queueVars, queueLock, device>>

Creating(th) == call[th] \in {"create", "createIndex"}

\* DestroySurfaceInPool(GC_DESTROY) in TouchSurfaceInPoolForDestroy, which
\* goes on until it has destroyed a surface.
GcPass(th) ==
    LET S == {i \in Indices : Garbage(i)} IN
    /\ Creating(th) /\ at[th] = "pass"
    /\ RealDestroy(S)
    /\ Goto(th, IF S = {} THEN "touch" ELSE "go")
    /\ UNCHANGED <<state, held, queueVars, lockVars, device>>

FreeIndices == {i \in Indices : array[i] = NULL}

\* GetReuseSurfaceIndex: the cached surfaces of the class; which of them fit
\* is up to their sizes and formats.
Reusable(k) ==
    {i \in Indices : /\ Reuse /\ k \in {"BUFFER", "SURFACE2D"}
                     /\ cached[i] /\ i \in OfClass(Class(k))}

At(th, k) == Creating(th) /\ at[th] = "go" /\ arg[th] = k

CreateReturns(th) == surfLock' = NULL /\ Leave(th)

\* UPDATE_STATE_FOR_SURFACE_REUSE: the surface changes hands, whether or not
\* queued tasks of its former owner still use it.
ReuseSurface(th, k) ==
    /\ At(th, k) /\ call[th] = "create"
    /\ \E i \in Reusable(k) :
          /\ cached' = [cached EXCEPT ![i] = FALSE]
          /\ released' = [released EXCEPT ![i] = FALSE]
          /\ held' = held \cup {i}
    /\ CreateReturns(th)
    /\ UNCHANGED <<array, destroyId, count, halUsed, state, queueVars,
                   queueLock, device>>

\* GetFreeSurfaceIndex finds the pool full and collects, once.
CollectForIndex(th, k) ==
    /\ At(th, k) /\ call[th] = "create" /\ FreeIndices = {}
    /\ call' = [call EXCEPT ![th] = "createIndex"]
    /\ at' = [at EXCEPT ![th] = "pass"]
    /\ UNCHANGED <<arg, poolVars, state, held, queueVars, lockVars, device>>

HasRoom(k) == FreeIndices # {} /\ count[Class(k)] < MaxCount[Class(k)]

\* Allocate in the HAL and enter the surface in the pool.
AllocateSurface(th, k) ==
    /\ At(th, k) /\ HasRoom(k)
    /\ halUsed[Class(k)] < MaxCount[Class(k)]
    /\ \E i \in FreeIndices :
          /\ array' = [array EXCEPT ![i] = k]
          /\ released' = [released EXCEPT ![i] = FALSE]
          /\ held' = held \cup {i}
    /\ count' = [count EXCEPT ![Class(k)] = @ + 1]
    /\ halUsed' = [halUsed EXCEPT ![Class(k)] = @ + 1]
    /\ CreateReturns(th)
    /\ UNCHANGED <<cached, destroyId, state, queueVars, queueLock, device>>

\* The allocation fails.  HalCm_AllocateBuffer and HalCm_AllocateSurface2DUP
\* fill their entry even when the user memory could not be pinned.
AllocateFails(th, k) ==
    /\ At(th, k) /\ HasRoom(k)
    /\ AllocMayFail \/ halUsed[Class(k)] >= MaxCount[Class(k)]
    /\ halUsed' = IF /\ k \in {"BUFFERUP", "SURFACE2DUP"}
                     /\ halUsed[Class(k)] < MaxCount[Class(k)]
                    THEN [halUsed EXCEPT ![Class(k)] = @ + 1] ELSE halUsed
    /\ CreateReturns(th)
    /\ UNCHANGED <<array, released, cached, destroyId, count, state, held,
                   queueVars, queueLock, device>>

\* CM_EXCEED_SURFACE_AMOUNT.
Refuse(th, k) ==
    /\ At(th, k) /\ ~HasRoom(k)
    /\ FreeIndices = {} => call[th] = "createIndex"
    /\ CreateReturns(th)
    /\ UNCHANGED <<poolVars, state, held, queueVars, queueLock, device>>

-----------------------------------------------------------------------------
(***************************************************************************)
(* Waiting for the queue: TouchFlushedTasks and QueryFlushedTasks.         *)
(***************************************************************************)
\* The failure to touch a task is ignored: the collection looks again.
MutTouch(th) ==
    /\ at[th] = "touch" /\ queueLock = NULL
    /\ IF outstanding = <<>>
         THEN Goto(th, "pass") /\ UNCHANGED queueLock
         ELSE Goto(th, "query") /\ queueLock' = th
    /\ UNCHANGED <<poolVars, state, held, queueVars, surfLock, device>>

\* TouchFlushedTasks fails when the queue is empty, and then no caller goes
\* on waiting; the collection reports that failure as -1 surfaces collected,
\* which its callers take for a success.
Touch(th) ==
    /\ at[th] = "touch" /\ queueLock = NULL
    /\ IF outstanding = <<>>
         THEN Goto(th, "go") /\ UNCHANGED queueLock
         ELSE Goto(th, "query") /\ queueLock' = th
    /\ UNCHANGED <<poolVars, state, held, queueVars, surfLock, device>>

\* GetTaskStatus fails for a task without an event, whatever the GPU has done.
HeadHasRun == outstanding # <<>> /\ Head(outstanding) \in executed \ eventless

UpdateSurfaceStateOnPop(t) ==
    state' = [i \in Indices |->
                 IF i \in Uses(t) THEN state[i] - 1 ELSE state[i]]

PopTask(th) ==
    /\ at[th] \in {"query", "flush"} /\ HeadHasRun
    /\ UpdateSurfaceStateOnPop(Head(outstanding))
    /\ outstanding' = Tail(outstanding)
    /\ UNCHANGED <<poolVars, held, given, uses, executed, eventless, lockVars,
                   callVars, device>>

\* Enqueue may return with tasks left that have run.
QueryReturns(th) ==
    /\ at[th] = "query"
    /\ call[th] = "enqueue" \/ ~HeadHasRun
    /\ queueLock' = NULL
    /\ IF call[th] = "enqueue" THEN Leave(th) ELSE Goto(th, "pass")
    /\ UNCHANGED <<poolVars, state, held, queueVars, surfLock, device>>

\* Returns without looking at the use count.
MutWaitForReferenceFree(th) ==
    /\ call[th] \in {"force", "access", "teardown"} /\ at[th] = "pass"
    /\ Goto(th, "go")
    /\ UNCHANGED <<poolVars, state, held, queueVars, lockVars, device>>

WaitForReferenceFree(th) ==
    /\ call[th] \in {"force", "access", "teardown"} /\ at[th] = "pass"
    /\ Goto(th, IF state[arg[th]] = 0 THEN "go" ELSE "touch")
    /\ UNCHANGED <<poolVars, state, held, queueVars, lockVars, device>>

\* Waits with the lock of the surfaces.
MutAccessSurface(th, i) ==
    /\ i \in held
    /\ surfLock = NULL /\ surfLock' = th
    /\ \/ Enter(th, "access", i, "pass") /\ UNCHANGED queueLock
       \/ /\ queueLock = NULL /\ queueLock' = th
          /\ Enter(th, "access", i, "flush")
    /\ UNCHANGED <<poolVars, state, held, queueVars, device>>

\* ReadSurface and WriteSurface, with an event or without.
AccessSurface(th, i) ==
    /\ i \in held
    /\ \/ Enter(th, "access", i, "pass") /\ UNCHANGED queueLock
       \/ /\ queueLock = NULL /\ queueLock' = th
          /\ Enter(th, "access", i, "flush")
    /\ UNCHANGED <<poolVars, state, held, queueVars, surfLock, device>>

\* FlushDeviceQueue: the event is flushed.
FlushReturns(th) ==
    /\ at[th] = "flush"
    /\ queueLock' = NULL
    /\ Goto(th, "pass")
    /\ UNCHANGED <<poolVars, state, held, queueVars, surfLock, device>>

\* The event is still queued when the time is over: FlushDeviceQueue returns
\* with the lock of the queue, and its callers ignore the error.
FlushTimesOut(th) ==
    /\ FlushMayTimeout /\ at[th] = "flush"
    /\ \E k \in DOMAIN outstanding : outstanding[k] \notin executed
    /\ Goto(th, "pass")
    /\ UNCHANGED <<poolVars, state, held, queueVars, lockVars, device>>

Accessed(th) ==
    /\ call[th] = "access" /\ at[th] = "go"
    /\ Leave(th)
    /\ UNCHANGED <<poolVars, state, held, queueVars, lockVars, device>>

-----------------------------------------------------------------------------
(***************************************************************************)
(* Enqueue, the GPU, and the end of the device.                            *)
(***************************************************************************)
\* Takes the lock of the queue and pushes the task.
Enqueue(th, t, S) ==
    /\ t \notin given /\ given' = given \cup {t}
    /\ S \subseteq held /\ (TasksNeedSurfaces => S # {})
    /\ uses' = [uses EXCEPT ![t] = {<<i, destroyId[i]>> : i \in S}]
    /\ queueLock = NULL /\ queueLock' = th
    /\ Enter(th, "enqueue", t, "push")
    /\ UNCHANGED <<poolVars, state, held, outstanding, executed, eventless,
                   surfLock, device>>

\* UpdateSurfaceStateOnPush, with the lock of the surfaces as well: counts the
\* uses and collects what the application has destroyed.
UpdateSurfaceStateOnPush(th) ==
    /\ at[th] = "push" /\ surfLock = NULL
    /\ outstanding' = Append(outstanding, arg[th])
    /\ state' = [i \in Indices |->
                    IF i \in Uses(arg[th]) THEN state[i] + 1 ELSE state[i]]
    /\ RealDestroy({i \in Indices : Collectable(i, state')})
    /\ Goto(th, "query")
    /\ UNCHANGED <<held, given, uses, executed, eventless, lockVars, device>>

\* No memory for the event: Enqueue fails after it has pushed the task, whose
\* surfaces are never counted.
EnqueueWithoutEvent(th) ==
    /\ EventMayFail /\ at[th] = "push"
    /\ outstanding' = Append(outstanding, arg[th])
    /\ eventless' = eventless \cup {arg[th]}
    /\ queueLock' = NULL
    /\ Leave(th)
    /\ UNCHANGED <<poolVars, state, held, given, uses, executed, surfLock, device>>

\* The queue flushes the oldest task that waits and the GPU runs it.
Execute ==
    \E k \in DOMAIN outstanding :
        /\ outstanding[k] \notin executed
        /\ \A j \in 1 .. k - 1 : outstanding[j] \in executed
        /\ executed' = executed \cup {outstanding[k]}
        /\ UNCHANGED <<poolVars, state, held, given, uses, outstanding,
                       eventless, lockVars, callVars, device>>

\* ~CmDevice_RT, which the application calls when no other call is in progress.
DestroyDevice(th) ==
    /\ \A other \in Threads : Idle(other)
    /\ Enter(th, "teardown", NULL, "next")
    /\ device' = "closing"
    /\ UNCHANGED <<poolVars, state, held, queueVars, lockVars>>

\* ~CmSurfaceManager: DestroySurfaceArrayElement, surface after surface.
TeardownNext(th) ==
    /\ at[th] = "next"
    /\ \/ \E i \in Indices \ FreeIndices :
             /\ arg' = [arg EXCEPT ![th] = i]
             /\ at' = [at EXCEPT ![th] = "pass"]
             /\ UNCHANGED <<call, device>>
       \/ /\ FreeIndices = Indices
          /\ device' = "noManager" /\ Goto(th, "clean")
    /\ UNCHANGED <<poolVars, state, held, queueVars, lockVars>>

TeardownDestroy(th) ==
    /\ call[th] = "teardown" /\ at[th] = "go"
    /\ RealDestroy({arg[th]})
    /\ held' = held \ {arg[th]}
    /\ Goto(th, "next")
    /\ UNCHANGED <<state, queueVars, lockVars, device>>

\* The oldest task will never be popped.
Stuck == outstanding # <<>> /\ Head(outstanding) \in eventless

\* DestroyQueue comes after the surface manager.  CleanQueue, with the lock of
\* the queue, pops the tasks left, with no use counts to give back, until none
\* is left or it gives up.
CleanQueue(th) ==
    /\ at[th] = "clean" /\ queueLock = NULL
    /\ \/ /\ HeadHasRun
          /\ outstanding' = Tail(outstanding)
          /\ UNCHANGED <<callVars, device>>
       \/ /\ outstanding = <<>> \/ Stuck \/ FlushMayTimeout
          /\ outstanding' = <<>>
          /\ device' = "closed" /\ Leave(th)
    /\ UNCHANGED <<poolVars, state, held, given, uses, executed, eventless,
                   lockVars>>

-----------------------------------------------------------------------------
\* A step inside a call.
Continue(th) ==
    \/ ForceDestroyed(th) \/ GcPass(th)
    \/ \E k \in Kinds : \/ ReuseSurface(th, k) \/ CollectForIndex(th, k)
                       \/ AllocateSurface(th, k) \/ AllocateFails(th, k)
                       \/ Refuse(th, k)
    \/ Touch(th) \/ PopTask(th) \/ QueryReturns(th)
    \/ WaitForReferenceFree(th) \/ FlushReturns(th) \/ FlushTimesOut(th)
    \/ Accessed(th)
    \/ UpdateSurfaceStateOnPush(th) \/ EnqueueWithoutEvent(th)
    \/ TeardownNext(th) \/ TeardownDestroy(th) \/ CleanQueue(th)

Start(th) ==
    \/ \E k \in Kinds : CreateSurface(th, k)
    \/ \E i \in Indices : \/ DestroySurface(th, i) \/ ForceDestroy(th, i)
                         \/ AccessSurface(th, i)
    \/ \E t \in Tasks, S \in SUBSET Indices : Enqueue(th, t, S)
    \/ DestroyDevice(th)

Next == Execute \/ \E th \in Threads : Start(th) \/ Continue(th)

Spec == Init /\ [][Next]_vars

\* The GPU runs what it is given and a thread in a call takes its steps; it
\* gets a lock that is free again and again.
Fairness ==
    /\ WF_vars(Execute)
    /\ \A th \in Threads : SF_vars(Continue(th))

LiveSpec == Spec /\ Fairness

-----------------------------------------------------------------------------
(***************************************************************************)
(* Properties.                                                             *)
(***************************************************************************)
Queued == {outstanding[k] : k \in DOMAIN outstanding}

\* The tasks in the queue whose surfaces are counted.
Counted == Queued \ eventless

\* A surface a queued task uses is still in the pool, and is the surface it
\* was when the task was enqueued: no task runs on freed memory.  A task whose
\* event could not be made is left out: the code does not count its surfaces.
PendingSurfacesAlive ==
    \A t \in Counted : \A u \in uses[t] :
        array[u[1]] # NULL /\ destroyId[u[1]] = u[2]

\* A surface the application holds is never collected, nor kept for another
\* creation.
HeldSurfacesAlive ==
    \A i \in held : array[i] # NULL /\ ~released[i] /\ ~cached[i]

\* Threads wait for each other's locks only when one of them collects
\* surfaces for a creation that finds no room or destroys a user buffer by
\* force, with the lock of the surfaces, and the other is in Enqueue.
DeadlockNeedsReclaim ==
    \A th, other \in Threads :
        (at[th] = "touch" /\ queueLock = other /\ surfLock = th)
            => \/ call[th] = "force"
               \/ call[th] = "create" /\ LimitReached(arg[th])
               \/ call[th] = "createIndex" /\ FreeIndices = {}

\* When the CPU gets at the data of a surface, and when a user buffer is
\* destroyed by force, no queued task that is counted uses it any more.
WaitsForTheGpu ==
    [][\A th \in Threads :
          (call[th] \in {"force", "access"} /\ at[th] # "go" /\ at'[th] = "go")
              => \A t \in Counted : arg[th] \notin Uses(t)]_vars

LockedOut ==
    \E th, other \in Threads : /\ at[th] = "touch" /\ surfLock = th
                              /\ at[other] = "push" /\ queueLock = other

\* A flush that gave up has left the lock of the queue behind.
LeftLocked ==
    \E th \in Threads : queueLock = th /\ at[th] \notin {"query", "flush", "push"}

\* Every call returns, unless a thread that collects surfaces and one in
\* Enqueue block each other, a flush has left the queue locked, or the oldest
\* task has no event: then a call that waits for a use count, or for a surface
\* to collect, asks for ever.  Waiting with a lock held is safe otherwise.
CallsReturn ==
    \A th \in Threads :
        ~Idle(th) ~> (Idle(th) \/ LockedOut \/ LeftLocked \/ Stuck)
=============================================================================
