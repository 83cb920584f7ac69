----------------------------- MODULE CmSurfacesInv -----------------------------
(***************************************************************************)
(* The inductive invariants of CmSurfaces, in the parts the proofs work    *)
(* with: PoolInv is about the pool, UseInv about the queued tasks that are  *)
(* counted, which are those with an event.                                 *)
(***************************************************************************)
EXTENDS CmSurfaces

\* The calls a thread is in, at which places and with what argument.
FrameInv ==
    \A th \in Threads :
        /\ call[th] = "none" => at[th] = ""
        /\ Creating(th) => /\ at[th] \in {"pass", "touch", "query", "go"}
                           /\ arg[th] \in Kinds
        /\ call[th] = "force" => /\ at[th] \in {"pass", "touch", "query", "go"}
                                 /\ arg[th] \in Indices
        /\ call[th] = "access" => /\ at[th] \in {"pass", "touch", "query", "flush", "go"}
                                  /\ arg[th] \in Indices
        /\ call[th] = "enqueue" => /\ at[th] \in {"push", "query"}
                                   /\ arg[th] \in Tasks
        /\ call[th] = "teardown" =>
             /\ at[th] \in {"next", "pass", "touch", "query", "go", "clean"}
             /\ at[th] \in {"pass", "touch", "query", "go"} => arg[th] \in Indices

\* A creation and a destruction by force keep the lock of the surfaces from
\* their first step to their last; whoever pushes or pops has the lock of the
\* queue.
LockInv ==
    \A th \in Threads :
        /\ surfLock = th <=> Creating(th) \/ call[th] = "force"
        /\ at[th] \in {"query", "flush", "push"} => queueLock = th

\* The device is destroyed by one thread, with no other in a call.
DeviceInv ==
    /\ \A th \in Threads :
         call[th] = "teardown" =>
             /\ device \in {"closing", "noManager"}
             /\ at[th] = "clean" <=> device = "noManager"
             /\ \A other \in Threads : other # th => Idle(other)
    /\ device # "open" => \A th \in Threads : Idle(th) \/ call[th] = "teardown"
    /\ device = "closed" => \A th \in Threads : Idle(th)
    /\ device \in {"noManager", "closed"} => FreeIndices = Indices

\* The arrays of the pool agree with each other and with the counters.
PlaceInv ==
    /\ \A i \in Indices : /\ array[i] = NULL => ~released[i]
                          /\ cached[i] => released[i]
    /\ \A c \in Classes : /\ count[c] = Cardinality(OfClass(c))
                          /\ halUsed[c] >= count[c]

\* A thread that destroys a surface by force is the only one that knows it.
ForceInv ==
    \A th \in Threads : call[th] = "force" =>
        /\ arg[th] \notin held
        /\ array[arg[th]] # NULL /\ ~released[arg[th]]

\* The reason for which a creation collects is still there while it waits.
ReclaimInv ==
    \A th \in Threads : at[th] \in {"pass", "touch", "query"} =>
        /\ call[th] = "create" => LimitReached(arg[th])
        /\ call[th] = "createIndex" => FreeIndices = {}

PoolInv == /\ TypeOK /\ FrameInv /\ LockInv /\ DeviceInv /\ PlaceInv
           /\ HeldSurfacesAlive /\ ForceInv /\ ReclaimInv

-----------------------------------------------------------------------------
\* The counted tasks that use an index.
Users(i) == {t \in Counted : i \in Uses(t)}

\* A task enters the queue once.
QueueInv ==
    /\ \A k, l \in DOMAIN outstanding : outstanding[k] = outstanding[l] => k = l
    /\ Queued \cup eventless \subseteq given
    /\ \A th \in Threads : at[th] = "push" => arg[th] \in given \ (Queued \cup eventless)

\* The use count of an index, until the pool goes.
CountInv ==
    /\ device \in {"open", "closing"} =>
         \A i \in Indices : state[i] = Cardinality(Users(i))
    /\ device \in {"noManager", "closed"} => \A t \in Counted : uses[t] = {}

\* Until a task in Enqueue has counted its surfaces the application holds them.
PushInv ==
    \A th \in Threads : at[th] = "push" =>
        \A u \in uses[arg[th]] : u[1] \in held /\ destroyId[u[1]] = u[2]

\* Who has waited for a surface finds it unused until it is done with it.
UnusedInv ==
    \A th \in Threads :
        call[th] \in {"force", "teardown"} /\ at[th] = "go" => state[arg[th]] = 0

UseInv == QueueInv /\ CountInv /\ PendingSurfacesAlive /\ PushInv /\ UnusedInv
=============================================================================
