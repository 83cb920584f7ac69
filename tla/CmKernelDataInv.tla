--------------------------- MODULE CmKernelDataInv ---------------------------
(***************************************************************************)
(* Inductive invariants of CmKernelData.  SharingInv holds whatever the    *)
(* caller does, CarefulInv if it keeps the rules.                          *)
(***************************************************************************)
EXTENDS CmKernelData

Placings == {NoUnits} \cup [Units -> {0} \cup Units]
Arguments == [Fields -> Values \cup {None}]

KernelType ==
    [count : Counts, val : Arguments, dirty : SUBSET (Fields \cup {"count"}),
     argDirty : SUBSET {"arg", "targ"}, own : Spaces \cup {NoSpace},
     last : {0} \cup Datas, id : Nat, used : Spaces \cup {NoSpace, None}]

DataType ==
    [ref : Nat \ {0}, kref : Nat, inUse : BOOLEAN, count : Counts, val : Arguments,
     order : Placings, tids : Placings, bb : {"clean", "dirty"}, id : Nat]

SpaceType == [units : Placings, status : {"clean", "mask", "data"}, calls : {0, 1}]

Runs == [count : Counts, val : Arguments, tids : Placings]

TaskType ==
    [state : {"queued", "flushed", "done"}, kernel : Kernels, data : Datas,
     wanted : Runs, ran : SUBSET Runs, units : Placings, updates : SUBSET Tasks]

BatchType ==
    [targ : Values \cup {None}, order : Placings, count : Counts,
     users : SUBSET Tasks, tids : Placings]

TypeOK ==
    /\ kernel \in [Kernels -> KernelType]
    /\ data \in [Datas -> {NoData} \cup DataType]
    /\ space \in [Spaces -> SpaceType]
    /\ task \in [Tasks -> {[state |-> "new"]} \cup TaskType]
    /\ queue \in Seq(Tasks) /\ ring \in Seq(Tasks)
    /\ DOMAIN batch \subseteq Kernels \X Nat
    /\ batch \in [DOMAIN batch -> BatchType]
    /\ sets \in Nat

In(line) == {line[i] : i \in DOMAIN line}
Once(line) == \A i, j \in DOMAIN line : line[i] = line[j] => i = j

\* A task is in the queue, or in the ring, once, and as what it is.
LinesInv ==
    /\ Once(queue) /\ \A t \in In(queue) : task[t].state = "queued"
    /\ Once(ring) /\ \A t \in In(ring) : task[t].state = "flushed"

\* No two kernels share their last data.
LastInv ==
    \A j, k \in Kernels : kernel[j].last = kernel[k].last /\ kernel[k].last # 0 => j = k

\* A thread space a kernel has for its own serves the kernel.
OwnInv ==
    \A k \in Kernels : kernel[k].own # NoSpace =>
        k \notin Grouped /\ Serves[kernel[k].own] = k

SharingInv == TypeOK /\ LinesInv /\ LastInv /\ OwnInv /\ DataReferences

-----------------------------------------------------------------------------
(***************************************************************************)
(* What the rules give.                                                    *)
(***************************************************************************)
\* Kernel data that would be updated waits with one task at most, and with
\* none that a flush has not seen.
ExposedInv ==
    \A k \in Kernels : kernel[k].dirty # {} \/ Dirty(kernel[k].own) => ~Exposed(k)

\* The thread space that has placed the threads since the first Enqueue.
Placed(k) == Placing(k, kernel[k].used)

Steady(k) == Placed(k) # NoSpace => space[Placed(k)].status # "data"

PlacedKernel(k) ==
    /\ kernel[k].last = 0 <=> kernel[k].used = None
    /\ kernel[k].used \in Spaces =>
         k \notin Grouped /\ kernel[k].own = NoSpace /\ Serves[kernel[k].used] = k
    /\ kernel[k].last # 0 /\ Placed(k) # NoSpace =>
         /\ Associated(Placed(k))
         /\ space[Placed(k)].status # "clean" => space[Placed(k)].calls = 1
    /\ kernel[k].last # 0 /\ kernel[k].own # NoSpace =>
         "count" \notin kernel[k].dirty /\ Steady(k)

PlacedInv == \A k \in Kernels : PlacedKernel(k)

\* What no dirty flag reports has not changed since the last Enqueue.
FreshData(k, d) ==
    /\ d.count = kernel[k].count
    /\ \A f \in Fields \ kernel[k].dirty : d.val[f] = kernel[k].val[f]
    /\ d.tids = Tids(kernel[k].own)
    /\ Steady(k) => d.order = Tids(Placed(k))

FreshKernel(k) ==
    /\ kernel[k].dirty \cap {"arg", "targ"} \subseteq kernel[k].argDirty
    /\ kernel[k].last # 0 =>
         /\ data[kernel[k].last].id = kernel[k].id
         /\ k \in Grouped => kernel[k].dirty \subseteq {"arg"}
         /\ "count" \notin kernel[k].dirty =>
              /\ FreshData(k, data[kernel[k].last])
              /\ k \notin Grouped => kernel[k].val["targ"] # None

FreshInv == \A k \in Kernels : FreshKernel(k)

Queued == {t \in Tasks : task[t].state = "queued"}

\* A task waits with data as it was at its Enqueue.
Keeps(t, d) ==
    /\ d.count = task[t].wanted.count
    /\ d.val = task[t].wanted.val
    /\ d.order = task[t].wanted.tids
    /\ (IF task[t].units # NoUnits THEN task[t].units ELSE d.tids)
         = task[t].wanted.tids

KeepsInv == \A t \in Queued : Keeps(t, data[task[t].data])

\* What a batch buffer is made of, and all that the id of a kernel stands for.
Content(d) == [targ |-> d.val["targ"], order |-> d.order, count |-> d.count]
Commands(b) == [targ |-> b.targ, order |-> b.order, count |-> b.count]

LastClaims(k) ==
    IF kernel[k].last = 0 THEN {}
    ELSE {[id |-> kernel[k].id, of |-> Content(data[kernel[k].last])]}
Claim(t) == [id |-> data[task[t].data].id, of |-> Content(data[task[t].data])]
TaskClaims(k) == {Claim(t) : t \in {u \in Queued : task[u].kernel = k}}
BatchClaims(k) ==
    {[id |-> x[2], of |-> Commands(batch[x])] : x \in {y \in DOMAIN batch : y[1] = k}}

Claims(k) == LastClaims(k) \cup TaskClaims(k) \cup BatchClaims(k)

ClaimsInv ==
    \A k \in Kernels \ Grouped :
        /\ \A a, b \in Claims(k) : a.id = b.id => a.of = b.of
        /\ \A a \in Claims(k) : a.id <= kernel[k].id
        /\ kernel[k].last = 0 => Claims(k) = {}

\* Batch buffers are made for kernels without groups.
BatchInv ==
    \A x \in DOMAIN batch : x[1] \notin Grouped /\ batch[x].order = batch[x].tids

CarefulInv ==
    /\ ExposedInv /\ UpdatesUnusedData /\ PlacedInv /\ FreshInv /\ KeepsInv
    /\ ClaimsInv /\ BatchInv /\ RunsAsEnqueued
=============================================================================
