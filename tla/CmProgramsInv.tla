---------------------------- MODULE CmProgramsInv ----------------------------
(***************************************************************************)
(* The inductive invariant of CmPrograms: every count is the number of     *)
(* those who count on the object.                                          *)
(***************************************************************************)
EXTENDS CmPrograms

KernelType == [ref : Nat \ {0}, program : Programs, name : Names, last : {0} \cup Datas]

KernelTable == [Kernels -> {NoKernel} \cup KernelType]

DataType == [ref : Nat \ {0}, kernelRef : Nat, kernel : Kernels]

DataTable == [Datas -> {NoData} \cup DataType]

InfoTable == [Programs \X Names -> [ref : Nat, parsed : BOOLEAN]]

HeapType ==
    [program : [Programs -> Nat],
     info    : InfoTable,
     kernel  : KernelTable,
     data    : DataTable,
     programArray : Seq(Programs \cup {NULL}),
     kernelArray  : Seq(Kernels \cup {NULL})]

\* A task has the data of one kernel or of two.
DataLists == {<<d>> : d \in Datas} \cup {ds \in Datas \X Datas : ds[1] # ds[2]}

TaskType ==
    {[state |-> "new"], [state |-> "gone"]} \cup
    [state : {"waiting", "flushed", "stuck"}, event : BOOLEAN, datas : DataLists]

TypeOK ==
    /\ heap \in HeapType
    /\ appHolds \subseteq Programs \cup Kernels
    /\ task \in [Tasks -> TaskType]
    /\ enqueued \in Seq(Tasks) /\ flushed \in Seq(Tasks)
    /\ failed \subseteq Kernels
    /\ device \in {"open", "closing", "closed"}
    /\ loads \in Nat

One(b) == IF b THEN 1 ELSE 0

-----------------------------------------------------------------------------
(***************************************************************************)
(* The counts.  A is what the application holds, F the kernels whose       *)
(* references may have been lost.  In the middle of an operation a count   *)
(* is one ahead for q, who is about to give up a reference.                *)
(***************************************************************************)
\* The references of a program that its kernels have: one for each of theirs.
ProgramTokens(kernel, p) ==
    {e \in Kernels \X (Nat \ {0}) :
       e[2] <= kernel[e[1]].ref /\ kernel[e[1]].program = p}

ProgramCount(program, kernel, A, q) ==
    \A p \in Programs :
      /\ IsFiniteSet(ProgramTokens(kernel, p))
      /\ program[p] = One(p \in A) + One(p = q) + Cardinality(ProgramTokens(kernel, p))

\* The kernels that share the information of a name.
Namesakes(kernel, x) ==
    {k \in Kernels : kernel[k].ref > 0 /\ kernel[k].program = x[1] /\ kernel[k].name = x[2]}

InfoCount(info, program, kernel) ==
    \A x \in Programs \X Names :
      /\ info[x].ref = One(program[x[1]] > 0) + Cardinality(Namesakes(kernel, x))
      /\ info[x].parsed = (info[x].ref >= 2)

\* The references of a kernel that kernel data acquired.
KernelTokens(data, k) ==
    {e \in Datas \X (Nat \ {0}) :
       /\ data[e[1]].ref > 0 /\ data[e[1]].kernel = k
       /\ e[2] <= data[e[1]].kernelRef}

\* Here q has given up a reference that is still counted.
KernelCount(kernel, data, A, F, q) ==
    \A k \in Kernels :
      LET users == One(k \in A) + Cardinality(KernelTokens(data, k)) IN
      /\ IsFiniteSet(KernelTokens(data, k))
      /\ kernel[k].ref + One(k = q) >= users
      /\ k \notin F => kernel[k].ref + One(k = q) = users

IsLast(kernel, d) == \E k \in Kernels : kernel[k].ref > 0 /\ kernel[k].last = d

HoldersOf(held, d) == {t \in Tasks : <<t, d>> \in held}

DataCount(data, kernel, held, q) ==
    \A d \in Datas :
      data[d].ref = One(IsLast(kernel, d)) + One(d = q) + Cardinality(HoldersOf(held, d))

\* Last kernel data is there and is the kernel's.
LastInv(data, kernel) ==
    \A k \in Kernels : kernel[k].ref > 0 /\ kernel[k].last # 0 =>
      data[kernel[k].last].ref > 0 /\ data[kernel[k].last].kernel = k

\* The references kernel data has acquired and not released.
WaitCount(data, waits, F) ==
    \A d \in Datas : data[d].ref > 0 =>
      LET tasks == Cardinality(HoldersOf(waits, d)) IN
      /\ data[d].kernelRef >= tasks
      /\ data[d].kernel \notin F => data[d].kernelRef = tasks

\* A task has one kernel data of a kernel.
OneOfAKernel(data, held) ==
    \A e, f \in held : e[1] = f[1] /\ data[e[2]].kernel = data[f[2]].kernel => e = f

-----------------------------------------------------------------------------
(***************************************************************************)
(* The arrays.                                                             *)
(***************************************************************************)
ProgramsListed(h) ==
    Range(h.programArray) \ {NULL} = {p \in Programs : h.program[p] > 0}

KernelsListed(h) ==
    Range(h.kernelArray) \ {NULL} = {k \in Kernels : h.kernel[k].ref > 0}

-----------------------------------------------------------------------------
(***************************************************************************)
(* The tasks.                                                              *)
(***************************************************************************)
PairsOf(tasks, states) ==
    {e \in Tasks \X Datas : tasks[e[1]].state \in states /\ e[2] \in Range(tasks[e[1]].datas)}

Held(tasks) == PairsOf(tasks, {"waiting", "flushed", "stuck"})
Waits(tasks) == PairsOf(tasks, {"waiting", "stuck"})

\* Who waits does so once, and who is in the list waits.
QueueInv ==
    /\ \A i, j \in DOMAIN enqueued : enqueued[i] = enqueued[j] => i = j
    /\ \A t \in Tasks : task[t].state = "waiting" <=> t \in Range(enqueued)

\* The kernels of a task that is stuck are among those that failed.
StuckInv ==
    \A e \in PairsOf(task, {"stuck"}) : heap.data[e[2]].kernel \in failed

-----------------------------------------------------------------------------
HeldInv(h, tasks) ==
    /\ InfoCount(h.info, h.program, h.kernel)
    /\ DataCount(h.data, h.kernel, Held(tasks), 0)
    /\ LastInv(h.data, h.kernel)

OpenInv(h, A, held, waits, F, q) ==
    /\ held \subseteq Tasks \X Datas /\ waits \subseteq held
    /\ ProgramCount(h.program, h.kernel, A, NULL)
    /\ InfoCount(h.info, h.program, h.kernel)
    /\ KernelCount(h.kernel, h.data, A, F, q)
    /\ DataCount(h.data, h.kernel, held, 0)
    /\ LastInv(h.data, h.kernel)
    /\ WaitCount(h.data, waits, F)
    /\ OneOfAKernel(h.data, held)
    /\ ProgramsListed(h) /\ KernelsListed(h)

\* While the device is destroyed: a kernel that has not failed has the
\* reference of the application, until its turn comes.
ClosingInv(h, A, F) ==
    /\ \A k \in Kernels \ F : h.kernel[k].ref = One(k \in A)
    /\ \A k \in Kernels : k \in Range(h.kernelArray) => h.kernel[k].ref > 0
    /\ A \cap Kernels \subseteq Range(h.kernelArray)
    /\ A \cap Programs \subseteq Range(h.programArray)
    /\ ProgramsListed(h)
    /\ h.kernelArray # <<>> => ProgramCount(h.program, h.kernel, A, NULL)
    /\ \A p \in Programs : h.program[p] > 0 =>
         p \in A \/ ProgramTokens(h.kernel, p) # {}

Inv ==
    /\ TypeOK
    /\ HeldInv(heap, task)
    /\ QueueInv /\ StuckInv
    /\ device = "open" => OpenInv(heap, appHolds, Held(task), Waits(task), failed, NULL)
    /\ device # "open" => ClosingInv(heap, appHolds, failed)
    /\ device = "closed" => heap.kernelArray = <<>> /\ heap.programArray = <<>> /\ enqueued = <<>>
=============================================================================
