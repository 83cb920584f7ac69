------------------------------ MODULE CmPrograms ------------------------------
(***************************************************************************)
(* Who keeps programs, kernels and kernel data alive: the reference counts *)
(* of cm_program.cpp, cm_kernel.cpp and cm_kernel_data.cpp, from           *)
(* LoadProgram to ~CmDevice_RT.                                            *)
(*                                                                         *)
(* A kernel counts on its program and on the kernel information of its     *)
(* name, whose strings only the first kernel of that name reads; kernel    *)
(* data that waits in the queue counts on its kernel.  A reference of a    *)
(* kernel is one of its program too.                                       *)
(*                                                                         *)
(* The counts of kernels and programs change with                          *)
(* m_CriticalSection_Program_Kernel held, those of kernel data without a   *)
(* lock of their own: by Enqueue before it takes the lock of the queue, by *)
(* pops with that lock, by ~CmKernel_RT with the other.  The module is     *)
(* about an application that makes one call at a time; CmThreads models    *)
(* several threads.  A call makes a task, flushes tasks and pops tasks,    *)
(* each a step here, in any order the calls allow.                         *)
(*                                                                         *)
(* The application destroys what it created, once, and uses nothing it has *)
(* destroyed.                                                              *)
(***************************************************************************)
EXTENDS Integers, Sequences, FiniteSets, FiniteSetsExt, SequencesExt

CONSTANTS
    NULL,
    Programs,  \* addresses of programs
    Names,     \* the kernels in a program's code
    Kernels,   \* addresses of kernels
    Tasks,
    MaxLoads,  \* bound: LoadProgram and CreateKernel
    MayFail    \* an Enqueue or a flush may fail

ASSUME CmProgramsAssumption ==
    /\ NULL \notin Programs \cup Kernels \cup Tasks
    /\ Programs \cap Kernels = {}
    /\ IsFiniteSet(Kernels) /\ IsFiniteSet(Tasks)
    /\ MaxLoads \in Nat /\ MayFail \in BOOLEAN

\* A task may hold one for each kernel, and each kernel its last.
Datas == 1 .. (Cardinality(Tasks) + 1) * Cardinality(Kernels)

VARIABLES
    heap,       \* the counted objects and the arrays of the device
    appHolds,   \* what the application has created and not destroyed
    task,       \* the kernel data of each task, and how far it got
    enqueued,   \* m_EnqueuedTasks
    flushed,    \* m_FlushedTasks
    failed,     \* kernels of tasks that failed, or waited when the device closed
    device,     \* "open", "closing" or "closed"
    loads       \* bound

vars == <<heap, appHolds, task, enqueued, flushed, failed, device, loads>>

\* Nothing at an address: m_refCount zero.
NoKernel == [ref |-> 0]
NoData == [ref |-> 0]
NoInfo == [ref |-> 0, parsed |-> FALSE]

Init ==
    /\ heap = [program |-> [p \in Programs |-> 0],
               info    |-> [x \in Programs \X Names |-> NoInfo],
               kernel  |-> [k \in Kernels |-> NoKernel],
               data    |-> [d \in Datas |-> NoData],
               programArray |-> <<>>, kernelArray |-> <<>>]
    /\ appHolds = {}
    /\ task = [t \in Tasks |-> [state |-> "new"]]
    /\ enqueued = <<>> /\ flushed = <<>>
    /\ failed = {}
    /\ device = "open"
    /\ loads = 0

-----------------------------------------------------------------------------
(***************************************************************************)
(* The arrays of the device, which grow when no place is free.             *)
(***************************************************************************)
Places(array, x) == {i \in DOMAIN array : array[i] = x}

PutInFreeSlot(array, x) ==
    IF Places(array, NULL) = {} THEN Append(array, x)
    ELSE [array EXCEPT ![Min(Places(array, NULL))] = x]

ClearSlot(array, x) == [i \in DOMAIN array |-> IF array[i] = x THEN NULL ELSE array[i]]

-----------------------------------------------------------------------------
(***************************************************************************)
(* CmProgram_RT.                                                           *)
(***************************************************************************)
\* ~CmProgram_RT releases the information of each kernel once.
DeleteProgram(h, p) ==
    [h EXCEPT !.program[p] = 0,
              !.info = [x \in DOMAIN h.info |->
                 IF x[1] # p THEN h.info[x]
                 ELSE IF h.info[x].ref <= 1 THEN NoInfo
                 ELSE [ref |-> h.info[x].ref - 1, parsed |-> h.info[x].ref > 2]],
              !.programArray = ClearSlot(@, p)]

\* SafeRelease; who calls it clears the place in m_ProgramArray.
ReleaseProgram(h, p) ==
    IF h.program[p] = 1 THEN DeleteProgram(h, p)
    ELSE [h EXCEPT !.program[p] = @ - 1]

\* Frees the strings when only the program's own reference is left.
MutReleaseKernelInfo(h, x) ==
    [h EXCEPT !.info[x] = [ref |-> @.ref - 1, parsed |-> @.parsed]]

ReleaseKernelInfo(h, x) ==
    [h EXCEPT !.info[x] = [ref |-> @.ref - 1, parsed |-> @.parsed /\ @.ref > 2]]

-----------------------------------------------------------------------------
(***************************************************************************)
(* CmKernelData and CmKernel_RT.                                           *)
(***************************************************************************)
\* CmKernelData::SafeRelease: its callers hold different locks, or none, but no
\* other call is in progress.
ReleaseData(h, d) ==
    IF h.data[d].ref = 1 THEN [h EXCEPT !.data[d] = NoData]
    ELSE [h EXCEPT !.data[d].ref = @ - 1]

\* ~CmKernel_RT: the last kernel data, the kernel information, then the place in
\* m_KernelArray that the caller clears.
DeleteKernel(h, k) ==
    LET last == h.kernel[k].last
        withoutData == IF last = 0 THEN h ELSE ReleaseData(h, last)
    IN [ReleaseKernelInfo(withoutData, <<h.kernel[k].program, h.kernel[k].name>>)
          EXCEPT !.kernel[k] = NoKernel,
                 !.kernelArray = ClearSlot(@, k)]

\* CmKernel_RT::Destroy: a reference of the kernel, then one of its program.
DestroyKernelReference(h, k) ==
    ReleaseProgram(IF h.kernel[k].ref = 1 THEN DeleteKernel(h, k)
                   ELSE [h EXCEPT !.kernel[k].ref = @ - 1],
                   h.kernel[k].program)

\* CmDevice_RT::DestroyKernel, which asks the arrays for the kernel and for its
\* program and else returns an error nobody looks at.
DestroyKernelInDevice(h, k) ==
    IF Places(h.kernelArray, k) # {} /\ Places(h.programArray, h.kernel[k].program) # {}
    THEN DestroyKernelReference(h, k) ELSE h

\* CmKernelData::AcquireKernel
MutAcquireKernel(h, d) ==
    [h EXCEPT !.data[d].kernelRef = @ + 1, !.kernel[h.data[d].kernel].ref = @ + 1]

AcquireKernel(h, d) ==
    LET k == h.data[d].kernel
    IN [h EXCEPT !.data[d].kernelRef = @ + 1,
                 !.kernel[k].ref = @ + 1,
                 !.program[h.kernel[k].program] = @ + 1]

\* CmKernelData::ReleaseKernel, which counts down after the kernel, and with
\* it this data's reference, may have gone.
ReleaseKernel(h, d) ==
    IF h.data[d].kernelRef = 0 THEN h
    ELSE [DestroyKernelInDevice(h, h.data[d].kernel) EXCEPT
            !.data[d].kernelRef = @ - 1]

\* CreateKernelData gives a task the last kernel data, as it is or updated, or
\* new data, which becomes the last (CmKernelData has the choice).
SharedData(h, k) ==
    AcquireKernel([h EXCEPT !.data[h.kernel[k].last].ref = @ + 1], h.kernel[k].last)

\* UpdateLastKernelData releases the one before.
NewLastData(h, k, d) ==
    LET last == h.kernel[k].last
    IN AcquireKernel([(IF last = 0 THEN h ELSE ReleaseData(h, last)) EXCEPT
                        !.data[d] = [ref |-> 2, kernelRef |-> 0, kernel |-> k],
                        !.kernel[k].last = d], d)

FreeData(h) == {d \in Datas : h.data[d].ref = 0}

CreateKernelData(h, k, share) ==
    IF share THEN SharedData(h, k) ELSE NewLastData(h, k, Min(FreeData(h)))

-----------------------------------------------------------------------------
(***************************************************************************)
(* The application's calls.                                                *)
(***************************************************************************)
Load == device = "open" /\ loads < MaxLoads /\ loads' = loads + 1

Live(h, k) == h.kernel[k].ref > 0

\* CmProgram_RT::Initialize makes the information of each kernel in the code
\* and acquires it once.
LoadedInfo(info, p) ==
    [x \in DOMAIN info |-> IF x[1] = p THEN [ref |-> 1, parsed |-> FALSE] ELSE info[x]]

\* A program that cannot be read is deleted at once.
LoadProgram(p) ==
    /\ Load /\ heap.program[p] = 0
    /\ heap' = [heap EXCEPT !.program[p] = 1,
                            !.info = LoadedInfo(@, p),
                            !.programArray = PutInFreeSlot(@, p)]
    /\ appHolds' = appHolds \cup {p}
    /\ UNCHANGED <<task, enqueued, flushed, failed, device>>

DestroyProgram(p) ==
    /\ device = "open" /\ p \in appHolds
    /\ appHolds' = appHolds \ {p}
    /\ heap' = ReleaseProgram(heap, p)
    /\ UNCHANGED <<task, enqueued, flushed, failed, device, loads>>

\* CmProgram_RT::AcquireKernelInfo; the strings, the variables and the surfaces
\* of a kernel are read for the first kernel of a name.
ReadStrings(info) == [ref |-> info.ref + 1, parsed |-> info.parsed \/ info.ref <= 1]

\* The constructor acquires the program, Initialize the information.
Created(h, k, p, n) ==
    [h EXCEPT !.program[p] = @ + 1,
              !.info[<<p, n>>] = ReadStrings(@),
              !.kernel[k] = [ref |-> 1, program |-> p, name |-> n, last |-> 0]]

\* With ok FALSE Initialize fails after it has acquired the information: the
\* kernel is deleted and its place is never taken.
CreateKernel(k, p, n, ok) ==
    /\ Load /\ p \in appHolds /\ ~Live(heap, k) /\ (MayFail \/ ok)
    /\ heap' = IF ok THEN [Created(heap, k, p, n) EXCEPT
                             !.kernelArray = PutInFreeSlot(@, k)]
               ELSE DestroyKernelReference(Created(heap, k, p, n), k)
    /\ appHolds' = IF ok THEN appHolds \cup {k} ELSE appHolds
    /\ UNCHANGED <<task, enqueued, flushed, failed, device>>

DestroyKernel(k) ==
    /\ device = "open" /\ k \in appHolds
    /\ appHolds' = appHolds \ {k}
    /\ heap' = DestroyKernelInDevice(heap, k)
    /\ UNCHANGED <<task, enqueued, flushed, failed, device, loads>>

-----------------------------------------------------------------------------
(***************************************************************************)
(* Tasks.                                                                  *)
(***************************************************************************)
LastDatas(h, ks) == [i \in DOMAIN ks |-> h.kernel[ks[i]].last]

ReleaseAll(h, ds) ==
    LET one == ReleaseData(h, ds[1])
    IN IF Len(ds) = 1 THEN one ELSE ReleaseData(one, ds[2])

ReleaseKernels(h, ds) ==
    LET one == ReleaseKernel(h, ds[1])
    IN IF Len(ds) = 1 THEN one ELSE ReleaseKernel(one, ds[2])

\* CmTaskInternal::Initialize gets the data of one kernel after the other.
Initialized(ks, shares) ==
    LET one == CreateKernelData(heap, ks[1], shares[1])
    IN IF Len(ks) = 1 THEN one ELSE CreateKernelData(one, ks[2], shares[2])

MaySetUp(ks, shares) ==
    \A i \in DOMAIN ks : shares[i] => heap.kernel[ks[i]].last # 0

\* Without memory for the event the task is in the queue all the same.  The
\* kernels and their data are acquired before the lock of the queue is taken.
Enqueue(t, ks, shares, event) ==
    /\ device = "open" /\ task[t].state = "new"
    /\ Range(ks) \subseteq appHolds /\ MaySetUp(ks, shares)
    /\ MayFail \/ event
    /\ \E h \in {Initialized(ks, shares)} :
         /\ heap' = h
         /\ task' = [task EXCEPT ![t] = [state |-> "waiting", event |-> event,
                                         datas |-> LastDatas(h, ks)]]
    /\ enqueued' = Append(enqueued, t)
    /\ UNCHANGED <<appHolds, flushed, failed, device, loads>>

\* A step after the last kernel data fails, or the first kernel has its data
\* and the second cannot have one: ~CmTaskInternal releases the data, and
\* nobody releases the kernels.
EnqueueFails(t, ks, shares) ==
    /\ MayFail /\ device = "open" /\ task[t].state = "new"
    /\ Range(ks) \subseteq appHolds /\ MaySetUp(ks, shares)
    /\ \E h \in {Initialized(ks, shares)} : heap' = ReleaseAll(h, LastDatas(h, ks))
    /\ task' = [task EXCEPT ![t] = [state |-> "gone"]]
    /\ failed' = failed \cup Range(ks)
    /\ UNCHANGED <<appHolds, enqueued, flushed, device, loads>>

\* When the device is destroyed the queue goes last: DestroyQueue flushes what
\* waits and pops what has run, and DestroyKernel finds no kernel then.
QueueWorks ==
    \/ device = "open"
    \/ device = "closing" /\ heap.kernelArray = <<>> /\ heap.programArray = <<>>

KernelsOf(ds) == {heap.data[d].kernel : d \in Range(ds)}

\* FlushGeneralTask: once the HAL has taken the task and its event knows, the
\* kernels are released.  A refused task, and one without an event, goes to
\* the flushed list without that.
Flush ==
    /\ QueueWorks /\ enqueued # <<>>
    /\ \E taken \in {TRUE} \cup (IF MayFail THEN {FALSE} ELSE {}) :
       LET t == Head(enqueued)
           ds == task[t].datas
           ok == taken /\ task[t].event
       IN /\ heap' = IF ok THEN ReleaseKernels(heap, ds) ELSE heap
          /\ failed' = IF ok THEN failed ELSE failed \cup KernelsOf(ds)
          /\ task' = [task EXCEPT ![t].state = IF ok THEN "flushed" ELSE "stuck"]
          /\ flushed' = Append(flushed, t)
    /\ enqueued' = Tail(enqueued)
    /\ UNCHANGED <<appHolds, device, loads>>

\* PopTaskFromFlushedQueue: nothing gets past a task whose event never
\* finishes.  It holds the lock of the queue only.
PopTask ==
    /\ QueueWorks /\ flushed # <<>> /\ task[Head(flushed)].state = "flushed"
    /\ heap' = ReleaseAll(heap, task[Head(flushed)].datas)
    /\ task' = [task EXCEPT ![Head(flushed)] = [state |-> "gone"]]
    /\ flushed' = Tail(flushed)
    /\ UNCHANGED <<appHolds, enqueued, failed, device, loads>>

-----------------------------------------------------------------------------
(***************************************************************************)
(* ~CmDevice_RT, when no call is in progress: the kernels, the programs,   *)
(* the queue, in loops of one step each.  What waits then is never         *)
(* released as it should.                                                  *)
(***************************************************************************)
DestroyDevice ==
    /\ device = "open" /\ device' = "closing"
    /\ failed' = failed \cup UNION {KernelsOf(task[t].datas) : t \in Range(enqueued)}
    /\ UNCHANGED <<heap, appHolds, task, enqueued, flushed, loads>>

\* One reference of each kernel in the array, whoever holds others.
DestroyNextKernel ==
    /\ device = "closing" /\ heap.kernelArray # <<>>
    /\ LET k == Head(heap.kernelArray) IN
       /\ appHolds' = appHolds \ {k}
       /\ \E h \in {IF k = NULL THEN heap ELSE DestroyKernelReference(heap, k)} :
            heap' = [h EXCEPT !.kernelArray = Tail(@)]
    /\ UNCHANGED <<task, enqueued, flushed, failed, device, loads>>

\* All references of each program.
DestroyNextProgram ==
    /\ device = "closing" /\ heap.kernelArray = <<>> /\ heap.programArray # <<>>
    /\ LET p == Head(heap.programArray) IN
       /\ appHolds' = appHolds \ {p}
       /\ \E h \in {IF p = NULL THEN heap ELSE DeleteProgram(heap, p)} :
            heap' = [h EXCEPT !.programArray = Tail(@)]
    /\ UNCHANGED <<task, enqueued, flushed, failed, device, loads>>

\* CleanQueue gives up on the tasks whose events do not finish in time.
DestroyQueue ==
    /\ device = "closing" /\ QueueWorks /\ enqueued = <<>>
    /\ flushed = <<>> \/ MayFail
    /\ device' = "closed"
    /\ UNCHANGED <<heap, appHolds, task, enqueued, flushed, failed, loads>>

-----------------------------------------------------------------------------
\* One kernel, or two different ones.
KernelLists == {<<k>> : k \in Kernels} \cup
               {ks \in Kernels \X Kernels : ks[1] # ks[2]}

Next ==
    \/ \E p \in Programs : LoadProgram(p) \/ DestroyProgram(p)
    \/ \E k \in Kernels, p \in Programs, n \in Names, ok \in BOOLEAN :
         CreateKernel(k, p, n, ok)
    \/ \E k \in Kernels : DestroyKernel(k)
    \/ \E t \in Tasks, ks \in KernelLists, shares \in BOOLEAN \X BOOLEAN :
         \/ \E event \in BOOLEAN : Enqueue(t, ks, shares, event)
         \/ EnqueueFails(t, ks, shares)
    \/ Flush \/ PopTask
    \/ DestroyDevice \/ DestroyNextKernel \/ DestroyNextProgram \/ DestroyQueue

Spec == Init /\ [][Next]_vars

-----------------------------------------------------------------------------
DatasOf(states) ==
    UNION {Range(task[t].datas) : t \in {u \in Tasks : task[u].state \in states}}

\* While the device is open nothing is deleted that somebody still uses: what
\* the application holds, the data of every task, the kernel and the program
\* a waiting task is flushed from, the program and the strings of a kernel.
\* The application makes one call at a time (DeletedIsNotTouched of CmThreads is
\* about more).
AliveWhileUsed ==
    device = "open" =>
      /\ \A p \in appHolds \cap Programs : heap.program[p] > 0
      /\ \A k \in appHolds \cap Kernels : Live(heap, k)
      /\ \A d \in DatasOf({"waiting", "flushed", "stuck"}) : heap.data[d].ref > 0
      /\ \A d \in DatasOf({"waiting", "stuck"}) : Live(heap, heap.data[d].kernel)
      /\ \A k \in {j \in Kernels : Live(heap, j)} :
           LET kern == heap.kernel[k] IN
           /\ heap.program[kern.program] > 0
           /\ heap.info[<<kern.program, kern.name>>].parsed
           /\ kern.last # 0 => heap.data[kern.last].ref > 0

\* Nothing outlives its last user, but a kernel of a task that failed, or that
\* waited when the device was destroyed, and what that kernel uses.  The
\* application makes one call at a time (CountsAreHolders of CmThreads is about
\* more).
DeadWhenUnused ==
    /\ \A k \in Kernels : Live(heap, k) =>
         k \in appHolds \cup failed \cup {heap.data[d].kernel : d \in DatasOf({"waiting"})}
    /\ \A p \in Programs : heap.program[p] > 0 =>
         \/ p \in appHolds
         \/ device # "closed" /\ \E k \in Kernels : Live(heap, k) /\ heap.kernel[k].program = p
    /\ \A d \in Datas : heap.data[d].ref > 0 =>
         \/ d \in DatasOf({"waiting", "flushed", "stuck"})
         \/ \E k \in Kernels : Live(heap, k) /\ heap.kernel[k].last = d
    /\ \A x \in Programs \X Names : heap.info[x].parsed =>
         \E k \in Kernels : Live(heap, k) /\ heap.kernel[k].program = x[1]
                                          /\ heap.kernel[k].name = x[2]
=============================================================================
