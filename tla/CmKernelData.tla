----------------------------- MODULE CmKernelData -----------------------------
(***************************************************************************)
(* What a task runs with: from the calls that set arguments and thread     *)
(* spaces (cm_kernel.cpp, cm_thread_space.cpp) through the kernel data an  *)
(* Enqueue makes, updates or reuses, to the batch buffer the HAL generates *)
(* or reuses when the task is flushed (hal_cm.cpp).                        *)
(*                                                                         *)
(* Kernel data is shared by the kernel and by its pending tasks, batch     *)
(* buffers by all tasks whose kernels have the same ids.  Dirty flags of   *)
(* the kernel and the dirty status of a thread space decide what is built  *)
(* anew.  The dependency masks of units are left out: in a reused batch    *)
(* buffer the code writes none of them where it means to (hal_cm.cpp:4476).*)
(*                                                                         *)
(* The counts of kernel data have no lock, and an Enqueue acquires before  *)
(* it takes that of the queue.  The module is about an application that    *)
(* makes one call at a time: a call makes a task, flushes tasks and pops   *)
(* tasks one after the other, and each of these is a step.  CmThreads      *)
(* models the counts under several threads.                                *)
(*                                                                         *)
(* The flags do not always suffice.  With Careful the caller keeps the     *)
(* rules under which they do:                                              *)
(*   - while two tasks wait with the data of a kernel, or a flush has made *)
(*     the data count as unused before the last of them, nothing is set;   *)
(*   - a kernel is enqueued with one thread space, or never with one, and  *)
(*     gets one of its own before its first Enqueue, for good, with the    *)
(*     thread ids it has by then;                                          *)
(*   - all units of a thread space are associated, once between Enqueues,  *)
(*     and if any gets another thread id, the last one does: the status of *)
(*     a thread space is that of the last call (cm_thread_space.cpp:203);  *)
(*   - a kernel enqueued in groups changes only arguments per kernel.      *)
(***************************************************************************)
EXTENDS Integers, Sequences, FiniteSets, FiniteSetsExt

CONSTANTS
    Kernels, Tasks, Spaces,
    Serves,     \* kernel whose threads a thread space places
    Grouped,    \* kernels enqueued by EnqueueWithGroup
    Units,      \* the units of a thread space, a range 1 .. n
    ThreadIds,  \* assignments of thread ids to units
    Values,     \* values of arguments
    Counts,     \* thread counts
    Depth,      \* tasks the GPU takes
    MaxSets,    \* bound: calls that set something
    Careful     \* the caller keeps the rules above

NoSpace == "no space"
None == "none"
NoUnits == <<>>

ASSUME CmKernelDataAssumption ==
    /\ IsFiniteSet(Kernels) /\ IsFiniteSet(Tasks) /\ Tasks \subseteq Nat
    /\ Serves \in [Spaces -> Kernels] /\ Grouped \subseteq Kernels
    /\ NoSpace \notin Spaces /\ None \notin Spaces /\ None \notin Values
    /\ ThreadIds \subseteq [Units -> Units] /\ Counts \subseteq Nat /\ 0 \notin Counts
    /\ IsFiniteSet(Units) /\ Units # {} /\ Units = 1 .. Cardinality(Units)
    /\ Depth \in Nat \ {0} /\ MaxSets \in Nat /\ Careful \in BOOLEAN

\* Arguments per kernel, arguments per thread, static buffers.
Fields == {"arg", "targ", "static"}

\* A task may hold one, the kernels one each as the last.
Datas == 1 .. Cardinality(Tasks) + Cardinality(Kernels)

VARIABLES
    kernel,  \* thread count, values, dirty flags, own thread space, last
             \* kernel data, m_Id
    data,    \* CmKernelData
    space,   \* units, dirty status
    task,    \* what the caller asked for, what the task holds, what ran
    queue,   \* tasks enqueued and not flushed
    ring,    \* tasks flushed and not finished
    batch,   \* kernel id -> the latest batch buffer for it
    sets     \* bound

vars == <<kernel, data, space, task, queue, ring, batch, sets>>

\* used is history: the thread space of the last Enqueue.
NewKernel == [count |-> 0, val |-> [f \in Fields |-> None], dirty |-> {},
              argDirty |-> {}, own |-> NoSpace, last |-> 0, id |-> 0,
              used |-> None]

NoData == [ref |-> 0]

\* The caller has created the kernels and set their arguments for the first
\* time, and may have associated each with a thread space of its own.
Init ==
    /\ \E n \in Counts, v \in Values, owned \in SUBSET Spaces :
         kernel = [k \in Kernels |->
           [NewKernel EXCEPT
              !.count = n, !.dirty = {"arg"}, !.argDirty = {"arg"},
              !.val = [f \in Fields |-> IF f = "arg" \/ (f = "targ" /\ k \notin Grouped)
                                        THEN v ELSE None],
              !.own = IF k \notin Grouped /\ \E s \in owned : Serves[s] = k
                      THEN CHOOSE s \in owned : Serves[s] = k ELSE NoSpace]]
    /\ data = [d \in Datas |-> NoData]
    /\ space = [s \in Spaces |-> [units |-> NoUnits, status |-> "clean",
                                  calls |-> 0]]
    /\ task = [t \in Tasks |-> [state |-> "new"]]
    /\ queue = <<>> /\ ring = <<>>
    /\ batch = <<>>
    /\ sets = 0

-----------------------------------------------------------------------------
(***************************************************************************)
(* The caller.                                                             *)
(***************************************************************************)
QueuedWith(d) == {t \in Tasks : task[t].state = "queued" /\ task[t].data = d}

\* Several tasks wait with the kernel data: flushing the first will make it,
\* or made it, count as unused.
Exposed(k) ==
    LET d == kernel[k].last
    IN d # 0 /\ Cardinality(QueuedWith(d)) > IF data[d].inUse THEN 1 ELSE 0

Setting(k) ==
    /\ sets < MaxSets /\ sets' = sets + 1
    /\ Careful => ~Exposed(k)

Reset(k) == [kernel[k] EXCEPT !.val = [f \in Fields |-> None],
                              !.argDirty = {"arg", "targ"}, !.own = NoSpace]

SetThreadCount(k, n) ==
    /\ Setting(k) /\ kernel[k].count # n
    /\ Careful /\ k \in Grouped => kernel[k].last = 0
    /\ kernel' = [kernel EXCEPT ![k] =
         [Reset(k) EXCEPT !.count = n, !.dirty = kernel[k].dirty \cup {"count"}]]
    /\ UNCHANGED <<data, space, task, queue, ring, batch>>

\* SetArgsInternal, for a value that differs: arguments per thread are
\* allocated without a flag the first time.  The last step of
\* SetStaticBuffer sets its flag in any case.
Stored(k, f, v) ==
    LET first == f = "targ" /\ kernel[k].val[f] = None
    IN [kernel[k] EXCEPT !.val[f] = v,
                         !.dirty = IF first THEN @ ELSE @ \cup {f},
                         !.argDirty = IF first \/ f = "static" THEN @ ELSE @ \cup {f}]

\* SetKernelArg, SetStaticBuffer and SetThreadArg.
SetArg(k, f, v) ==
    /\ Setting(k)
    /\ f = "targ" => k \notin Grouped
    /\ f # "static" => v # kernel[k].val[f]
    /\ Careful /\ k \in Grouped => f = "arg" \/ kernel[k].last = 0
    /\ kernel' = [kernel EXCEPT ![k] = Stored(k, f, v)]
    /\ UNCHANGED <<data, space, task, queue, ring, batch>>

AssociateThreadSpace(k, s) ==
    /\ Setting(k) /\ Serves[s] = k /\ k \notin Grouped /\ kernel[k].own # s
    /\ Careful => kernel[k].last = 0
    /\ kernel' = [kernel EXCEPT ![k].own = s]
    /\ space' = IF kernel[k].own = NoSpace THEN space
                ELSE [space EXCEPT ![s].status = "data"]
    /\ UNCHANGED <<data, task, queue, ring, batch>>

Associated(s) == s # NoSpace /\ space[s].units # NoUnits

\* Thread ids of the units, in the order of the units.
Tids(s) == IF Associated(s) THEN space[s].units ELSE NoUnits

FreshUnits == [u \in Units |-> 0]

\* The status the last of some calls of AssociateThread leaves.
LastStatus(units, us, tids) == IF units[Max(us)] = tids[Max(us)] THEN "mask" ELSE "data"

\* The caller goes over some units of a thread space, in order.
AssociateThreads(s, us, tids) ==
    LET units == IF space[s].units = NoUnits THEN FreshUnits ELSE space[s].units
    IN /\ Setting(Serves[s])
       /\ us # {} /\ (space[s].units = NoUnits => us = Units)
       /\ Careful =>
            /\ us = Units /\ space[s].calls = 0
            /\ LastStatus(units, us, tids) = "mask" => tids = units
            /\ kernel[Serves[s]].own = s /\ kernel[Serves[s]].last # 0 => tids = Tids(s)
       /\ space' = [space EXCEPT ![s] =
            [units |-> [u \in Units |-> IF u \in us THEN tids[u] ELSE units[u]],
             status |-> LastStatus(units, us, tids), calls |-> 1]]
       /\ UNCHANGED <<kernel, data, task, queue, ring, batch>>

-----------------------------------------------------------------------------
(***************************************************************************)
(* Enqueue: CmTaskInternal::Initialize and CmKernel_RT::CreateKernelData.  *)
(***************************************************************************)
Dirty(s) == s # NoSpace /\ space[s].status # "clean"

\* The one the task's threads are placed by: its own or the kernel's.
Placing(k, s) == IF s = NoSpace THEN kernel[k].own ELSE s

MutIsKernelDataReusable(k, s) ==
    /\ ~Dirty(kernel[k].own)
    /\ kernel[k].dirty = {}

IsKernelDataReusable(k, s) ==
    /\ ~(Associated(s) /\ Dirty(s))
    /\ ~Dirty(kernel[k].own)
    /\ kernel[k].dirty = {}

\* What the call does with the kernel data, in the order of the code.
GroupChoice(k) ==
    LET last == kernel[k].last IN
    IF last = 0 THEN "create"
    ELSE IF "arg" \notin kernel[k].dirty THEN "reuse"
    ELSE IF data[last].inUse THEN "create" ELSE "update"

Choice(k, s) ==
    LET last == kernel[k].last IN
    IF k \in Grouped THEN GroupChoice(k)
    ELSE IF last = 0 THEN "create"
    ELSE IF IsKernelDataReusable(k, s) THEN "reuse"
    ELSE IF data[last].inUse \/ (Associated(s) /\ Dirty(s)) THEN "create"
    ELSE IF \/ "count" \notin kernel[k].dirty
            \/ kernel[k].own # NoSpace /\ space[kernel[k].own].status = "mask"
         THEN "update"
    ELSE "create"

\* The thread arguments are part of the batch buffer, the others (with CURBE)
\* are not.
IsBatchBufferReusable(k, s) ==
    /\ kernel[k].dirty \cap {"targ", "count"} = {}
    /\ LET p == IF kernel[k].own # NoSpace THEN kernel[k].own ELSE s
       IN p # NoSpace => space[p].status # "data"

IdAfter(k, s) ==
    IF k \in Grouped \/ ~IsBatchBufferReusable(k, s) THEN kernel[k].id + 1
    ELSE kernel[k].id

\* CreateThreadArgData: the arguments per thread in the order of the units.
ThreadArgOrder(k, s) == Tids(Placing(k, s))

\* CreateThreadSpaceParam: for the kernel's own thread space only.
ThreadSpaceParam(k) == [tids |-> Tids(kernel[k].own),
                        bb |-> IF Dirty(kernel[k].own) THEN "dirty" ELSE "clean"]

\* CreateKernelDataInternal, with Acquire and AcquireKernel.
Created(k, s) ==
    [ref |-> 2, kref |-> 1, inUse |-> TRUE, count |-> kernel[k].count,
     val |-> kernel[k].val, order |-> ThreadArgOrder(k, s),
     tids |-> ThreadSpaceParam(k).tids, bb |-> ThreadSpaceParam(k).bb,
     id |-> IdAfter(k, s)]

\* UpdateKernelData: the arguments whose flag is set, the static buffers.
UpdatedInGroup(k) ==
    [data[kernel[k].last] EXCEPT
       !.val = [f \in Fields |-> IF f = "static" \/ f \in kernel[k].argDirty
                                 THEN kernel[k].val[f]
                                 ELSE data[kernel[k].last].val[f]]]

\* And the own thread space, whose status stays what it was in the data.
Updated(k, s) ==
    [UpdatedInGroup(k) EXCEPT
       !.order = IF "targ" \in kernel[k].argDirty THEN ThreadArgOrder(k, s) ELSE @,
       !.tids = IF Dirty(kernel[k].own) THEN Tids(kernel[k].own) ELSE @,
       !.id = IdAfter(k, s)]

\* Acquire and AcquireKernel, within the one call in progress.
Held(d) == [d EXCEPT !.ref = @ + 1, !.kref = @ + 1, !.inUse = TRUE]

Freed == {d \in Datas : data[d].ref = 0}

DataFor(k, s) == IF Choice(k, s) = "create" THEN Min(Freed) ELSE kernel[k].last

\* CmKernelData::SafeRelease, within the one call in progress.
Released(d) == [data EXCEPT ![d] = IF data[d].ref = 1 THEN NoData
                                   ELSE [data[d] EXCEPT !.ref = @ - 1]]

\* UpdateLastKernelData releases the one before.
MutLastReplaced(k, d, new) == [data EXCEPT ![d] = new]

LastReplaced(k, d, new) ==
    [(IF kernel[k].last = 0 THEN data ELSE Released(kernel[k].last)) EXCEPT ![d] = new]

DataAfter(k, s, d) ==
    LET last == kernel[k].last
    IN CASE Choice(k, s) = "create" -> LastReplaced(k, d, Created(k, s))
         [] Choice(k, s) = "update" ->
              [data EXCEPT ![last] = Held(IF k \in Grouped THEN UpdatedInGroup(k)
                                          ELSE Updated(k, s))]
         [] Choice(k, s) = "reuse"  ->
              [data EXCEPT ![last] =
                 IF kernel[k].own # NoSpace
                 THEN [Held(data[last]) EXCEPT !.bb = "clean"] ELSE Held(data[last])]

CleanArgDirtyFlag(k) == [kernel[k] EXCEPT !.dirty = {}, !.argDirty = {}]

\* What the Enqueue leaves of the kernel.
KernelAfter(k, s, d) ==
    [CleanArgDirtyFlag(k) EXCEPT
       !.last = d, !.used = s,
       !.id = IF Choice(k, s) = "reuse" \/ (Choice(k, s) = "update" /\ k \in Grouped)
              THEN kernel[k].id ELSE IdAfter(k, s)]

\* CreateThreadSpaceData: a copy of the units of the task's thread space.
TaskUnits(s) == Tids(s)

\* What the caller means the task to do.
Wanted(k, s) ==
    [count |-> kernel[k].count, val |-> kernel[k].val,
     tids |-> Tids(Placing(k, s))]

TaskFor(k, s, d) ==
    [state |-> "queued", kernel |-> k, data |-> d, wanted |-> Wanted(k, s),
     ran |-> {}, units |-> TaskUnits(s),
     updates |-> IF Choice(k, s) = "update" THEN QueuedWith(d) ELSE {}]

Enqueue(t, k, s) ==
    /\ task[t].state = "new" /\ \A u \in Tasks : task[u].state = "new" => t <= u
    /\ kernel[k].val["arg"] # None /\ (k \notin Grouped => kernel[k].val["targ"] # None)
    /\ s # NoSpace => Serves[s] = k /\ kernel[k].own = NoSpace /\ k \notin Grouped
    /\ Placing(k, s) # NoSpace => /\ Associated(Placing(k, s))
                                  /\ kernel[k].count = Cardinality(Units)
    /\ Careful => kernel[k].used \in {None, s}
    /\ LET d == DataFor(k, s) IN
       /\ data' = DataAfter(k, s, d)
       /\ kernel' = [kernel EXCEPT ![k] = KernelAfter(k, s, d)]
       /\ task' = [task EXCEPT ![t] = TaskFor(k, s, d)]
    /\ space' = [p \in Spaces |-> IF p \in {s, kernel[k].own}
                                  THEN [space[p] EXCEPT !.status = "clean", !.calls = 0]
                                  ELSE space[p]]
    /\ queue' = Append(queue, t)
    /\ UNCHANGED <<ring, batch, sets>>

-----------------------------------------------------------------------------
(***************************************************************************)
(* Flush: HalCm_ParseTask, HalCm_GetBatchBuffer,                           *)
(* HalCm_FinishStatesForKernel, then ReleaseKernel.                        *)
(***************************************************************************)
\* CmTaskInternal::ReleaseKernel, once the task is flushed.
KernelReleased(d) ==
    IF data[d].kref = 0 THEN data
    ELSE [data EXCEPT ![d] = [data[d] EXCEPT !.kref = @ - 1, !.inUse = FALSE]]

Key(t) == <<task[t].kernel, data[task[t].data].id>>

\* A buffer the GPU still reads is not changed for a dirty thread space.
Reuses(t) ==
    /\ Key(t) \in DOMAIN batch
    /\ ~(\E i \in DOMAIN ring : ring[i] \in batch[Key(t)].users)
         \/ data[task[t].data].bb = "clean"

Generated(t) ==
    LET d == data[task[t].data] IN
    [targ |-> d.val["targ"], order |-> d.order, count |-> d.count, users |-> {t},
     tids |-> IF task[t].units # NoUnits THEN task[t].units ELSE d.tids]

Refreshed(t) == [batch[Key(t)] EXCEPT !.users = @ \cup {t}]

Batch(t) == IF Reuses(t) THEN Refreshed(t) ELSE Generated(t)

\* The commands of the batch buffer b with the other arguments of the data.
\* Thread arguments lie in the order the threads had when they were copied.
Ran(t, b) ==
    {[count |-> b.count, tids |-> tids,
      val |-> [data[task[t].data].val EXCEPT !["targ"] = b.targ]] :
     tids \in {b.tids, b.order}}

\* Groups run by a walker, without batch buffer.
Flush ==
    /\ queue # <<>> /\ Len(ring) < Depth
    /\ LET t == Head(queue)
           d == task[t].data
           b == Batch(t)
       IN /\ batch' = IF task[t].kernel \in Grouped THEN batch
                      ELSE [x \in DOMAIN batch \cup {Key(t)} |->
                              IF x = Key(t) THEN b ELSE batch[x]]
          /\ task' = [task EXCEPT ![t].state = "flushed", ![t].ran = Ran(t, b)]
          /\ data' = KernelReleased(d)
          /\ ring' = Append(ring, t)
    /\ queue' = Tail(queue)
    /\ UNCHANGED <<kernel, space, sets>>

\* The GPU is done and a query destroys the internal task.
Finish ==
    /\ ring # <<>>
    /\ LET t == Head(ring) IN
       /\ task' = [task EXCEPT ![t].state = "done"]
       /\ data' = Released(task[t].data)
    /\ ring' = Tail(ring)
    /\ UNCHANGED <<kernel, space, queue, batch, sets>>

\* Other kernels need the batch buffer.
Evict(x) ==
    /\ x \in DOMAIN batch
    /\ \A i \in DOMAIN ring : ring[i] \notin batch[x].users
    /\ batch' = [y \in DOMAIN batch \ {x} |-> batch[y]]
    /\ UNCHANGED <<kernel, data, space, task, queue, ring, sets>>

\* The caller may do nothing more.
Stop == queue = <<>> /\ ring = <<>> /\ UNCHANGED vars

Next ==
    \/ \E k \in Kernels :
         \/ \E n \in Counts : SetThreadCount(k, n)
         \/ \E f \in Fields, v \in Values : SetArg(k, f, v)
         \/ \E s \in Spaces : AssociateThreadSpace(k, s)
         \/ \E t \in Tasks, s \in Spaces \cup {NoSpace} : Enqueue(t, k, s)
    \/ \E s \in Spaces, us \in SUBSET Units, tids \in ThreadIds : AssociateThreads(s, us, tids)
    \/ Flush \/ Finish
    \/ \E x \in DOMAIN batch : Evict(x)
    \/ Stop

Spec == Init /\ [][Next]_vars

-----------------------------------------------------------------------------
Holders(d) == {t \in Tasks : task[t].state \in {"queued", "flushed"} /\ task[t].data = d}
Owners(d) == {k \in Kernels : kernel[k].last = d}

\* A task runs with the arguments and the placing of the threads its kernel and
\* its thread space had at the Enqueue, whatever was reused, if
\* the caller is careful.
RunsAsEnqueued ==
    \A t \in Tasks : task[t].state \in {"flushed", "done"} => task[t].ran = {task[t].wanted}

\* Kernel data is counted once for its kernel and once for each task that
\* holds it, and its kernel once for each task that still waits: nobody's data
\* is freed, nobody's kernel is kept (CmKernelData::SafeRelease, ReleaseKernel).
\* This is for one call at a time, as no lock protects the counts.
DataReferences ==
    \A d \in Datas :
        /\ data[d].ref = Cardinality(Holders(d)) + Cardinality(Owners(d))
        /\ data[d].ref # 0 => data[d].kref = Cardinality(QueuedWith(d))

\* UpdateKernelData changes data in place that no waiting task holds, as
\* CM_ASSERT(pKernelData->IsInUse() == FALSE) means it.
UpdatesUnusedData ==
    \A t \in Tasks : task[t].state # "new" => task[t].updates = {}
=============================================================================
