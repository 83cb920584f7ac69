------------------------------- MODULE CmThreads -------------------------------
(***************************************************************************)
(* The reference counts of events, kernel data and kernels when several    *)
(* threads use one device.                                                 *)
(*                                                                         *)
(* Every count is a plain integer.  Those of kernels (and of programs,     *)
(* which change with them) do so under m_CriticalSection_Program_Kernel.   *)
(* Those of events and of kernel data have no lock: a task is made before  *)
(* Enqueue takes m_CriticalSection_Queue, a pop holds that lock, a flush   *)
(* holds it and for a while the other one, ~CmKernel_RT the other one      *)
(* alone, and the application's DestroyEvent none.  The array of the       *)
(* events is read and cleared without a lock too.                          *)
(*                                                                         *)
(* So a change of a count is two steps here, a read and a write, and the   *)
(* growth of the array as well.  torn says which places two threads have   *)
(* changed at a time.  What the program does after that is undefined, and  *)
(* the behaviours end there: the properties are about what the counts      *)
(* promise until then, in any order of the steps of the threads, and about *)
(* the places where it cannot happen.                                      *)
(*                                                                         *)
(* The application uses a kernel in one call at a time, and an event after *)
(* the Enqueue that made it.  Failures and the end of the device are left  *)
(* to CmQueue, CmKernelData and CmPrograms.                                *)
(***************************************************************************)
EXTENDS Integers, Sequences, SequencesExt

CONSTANTS
    Threads, Kernels, Tasks,
    KernelOf,     \* task -> its kernel
    MaxTasks,     \* iMaxTasks: length of the flushed list at which it is full
    NULL

ASSUME KernelOfAssumption == KernelOf \in [Tasks -> Kernels]
ASSUME MaxTasksAssumption == MaxTasks \in Nat \ {0}
ASSUME NullAssumption == NULL \notin Threads \cup Tasks \cup Int

\* Kernel data is named for the task that made it.
Event(t) == <<"event", t>>
Data(d) == <<"data", d>>
KernelRef(d) == <<"m_KernelRef", d>>
Kernel(k) == <<"kernel", k>>
EventArray == <<"array", "m_EventArray">>

Counts == ({"event", "data", "m_KernelRef"} \X Tasks) \cup ({"kernel"} \X Kernels)

\* The object a count is a member of, and counts the holders of if it is not
\* m_KernelRef.
ObjectOf(c) == IF c[1] = "m_KernelRef" THEN Data(c[2]) ELSE c

VARIABLES
    count,       \* m_RefCount, m_KernelRef, m_refcount
    deleted,     \* the objects that were deleted
    lastData,    \* m_pLastKernelData of a kernel
    dataOf,      \* the kernel data of a task
    slots,       \* m_EventArray
    slotOf,      \* m_Index of an event
    enqueued, flushed, \* the two lists of the queue, oldest first
    gpu,         \* tasks sent to the GPU that have not ended, oldest first
    given,       \* history: tasks handed to Enqueue
    userEvents, userKernels, \* what the application holds
    owner,       \* lock -> the thread that holds it, or NULL
    todo,        \* thread -> the steps its call has still to take
    loaded,      \* what a thread has read and not written back, or NULL
    torn         \* history: places that two threads have changed at a time

objectVars == <<count, deleted, lastData, dataOf>>
arrayVars == <<slots, slotOf>>
listVars == <<enqueued, flushed, gpu>>
userVars == <<given, userEvents, userKernels>>
vars == <<objectVars, arrayVars, listVars, userVars, owner, todo, loaded, torn>>

Locks == {"queue", "kernels"}

TypeOK ==
    /\ count \in [Counts -> Nat]
    /\ deleted \in SUBSET Counts
    /\ lastData \in [Kernels -> Tasks \cup {NULL}]
    /\ dataOf \in [Tasks -> Tasks \cup {NULL}]
    /\ slots \in Seq(Tasks \cup {NULL}) /\ slotOf \in [Tasks -> Nat]
    /\ {enqueued, flushed, gpu} \subseteq Seq(Tasks)
    /\ {given, userEvents} \subseteq SUBSET Tasks /\ userKernels \in SUBSET Kernels
    /\ owner \in [Locks -> Threads \cup {NULL}]
    /\ loaded \in [Threads -> Nat \cup {NULL}]
    /\ torn \in SUBSET (Counts \cup {EventArray})

Init ==
    /\ count = [c \in Counts |-> IF c[1] = "kernel" THEN 1 ELSE 0]
    /\ deleted = {}
    /\ lastData = [k \in Kernels |-> NULL]
    /\ dataOf = [t \in Tasks |-> NULL]
    /\ slots = <<>> /\ slotOf = [t \in Tasks |-> 0]
    /\ enqueued = <<>> /\ flushed = <<>> /\ gpu = <<>>
    /\ given = {} /\ userEvents = {} /\ userKernels = Kernels
    /\ owner = [l \in Locks |-> NULL]
    /\ todo = [th \in Threads |-> <<>>]
    /\ loaded = [th \in Threads |-> NULL]
    /\ torn = {}

-----------------------------------------------------------------------------
(***************************************************************************)
(* What calls do, as sequences of steps: <<name, argument>>.               *)
(***************************************************************************)
Up(c) == <<"up", c>>
Down(c) == <<"down", c>>
Locked(l, steps) == <<<<"lock", l>>>> \o steps \o <<<<"unlock", l>>>>

\* CmKernelData::AcquireKernel.
AcquireKernel(d) ==
    Locked("kernels", <<Up(Kernel(KernelOf[d])), Up(KernelRef(d))>>)

\* The count of the kernel changes without the lock.
MutDestroyKernelSteps(k) == <<Down(Kernel(k))>>

\* CmDevice_RT::DestroyKernel.
DestroyKernelSteps(k) == Locked("kernels", <<Down(Kernel(k))>>)

\* CmKernelData::ReleaseKernel, for data with m_KernelRef > 0.
ReleaseKernelSteps(d) == DestroyKernelSteps(KernelOf[d]) \o <<Down(KernelRef(d))>>

\* The task does not acquire the data it shares.
MutShareData(d) == AcquireKernel(d)

\* CreateKernelData with data that can be used again, as it is or updated.
ShareData(d) == <<Up(Data(d))>> \o AcquireKernel(d)

\* The kernel keeps its reference to the data it used before.
MutNewData(t, old) == AcquireKernel(t) \o <<<<"setLast", t>>, Up(Data(t))>>

\* CreateKernelData with new data, then UpdateLastKernelData.
NewData(t, old) ==
    AcquireKernel(t)
        \o (IF old = NULL THEN <<>> ELSE <<Down(Data(old))>>)
        \o <<<<"setLast", t>>, Up(Data(t))>>

\* The slot is cleared whether or not the event was deleted.
MutDropEvent(t) == <<<<"check", t>>, Down(Event(t)), <<"clear", t>>>>

\* CmQueue_RT::DestroyEvent: CM_ASSERT, then SafeRelease.
DropEvent(t) == <<<<"check", t>>, Down(Event(t))>>

\* ~CmTaskInternal.
DestroyTask(t) == <<Down(Data(dataOf[t]))>> \o DropEvent(t)

\* What follows SafeRelease when it has deleted the object: ~CmKernel_RT, or
\* the slot of the event.
Destructor(c) ==
    IF c[1] = "event" THEN <<<<"clear", c[2]>>>>
    ELSE IF c[1] = "kernel" /\ lastData[c[2]] # NULL
      THEN <<Down(Data(lastData[c[2]]))>>
    ELSE <<>>

-----------------------------------------------------------------------------
(***************************************************************************)
(* Calls of the application.                                               *)
(***************************************************************************)
Idle(th) == todo[th] = <<>>

\* The task of the Enqueue that a thread is in.
InEnqueue(t) == \E th \in Threads : ~Idle(th) /\ Last(todo[th]) = <<"return", t>>

KernelFree(k) ==
    k \in userKernels /\ \A t \in Tasks : KernelOf[t] = k => ~InEnqueue(t)

Begin(th, steps) ==
    /\ torn = {} /\ Idle(th)
    /\ todo' = [todo EXCEPT ![th] = steps]
    /\ UNCHANGED <<deleted, lastData, arrayVars, listVars, owner, loaded, torn>>

\* CmTaskInternal::Create, then Enqueue under the lock of the queue.
Enqueue(th, t) ==
    LET old == lastData[KernelOf[t]]
        queue == Locked("queue", <<<<"push", t>>, <<"flush", NULL>>>>)
                    \o <<<<"return", t>>>>
    IN
    /\ t \notin given /\ given' = given \cup {t}
    /\ KernelFree(KernelOf[t])
    /\ \/ /\ old # NULL
          /\ Begin(th, ShareData(old) \o queue)
          /\ dataOf' = [dataOf EXCEPT ![t] = old]
          /\ UNCHANGED count
       \/ /\ Begin(th, NewData(t, old) \o queue)
          /\ dataOf' = [dataOf EXCEPT ![t] = t]
          /\ count' = [count EXCEPT ![Data(t)] = 1]
    /\ UNCHANGED <<userEvents, userKernels>>

TouchFlushedTasks(th) ==
    /\ Begin(th, Locked("queue", <<<<"touch", NULL>>>>))
    /\ UNCHANGED <<count, dataOf, userVars>>

DestroyEvent(th, t) ==
    /\ t \in userEvents /\ ~InEnqueue(t)
    /\ userEvents' = userEvents \ {t}
    /\ Begin(th, DropEvent(t))
    /\ UNCHANGED <<count, dataOf, given, userKernels>>

DestroyKernel(th, k) ==
    /\ KernelFree(k)
    /\ userKernels' = userKernels \ {k}
    /\ Begin(th, DestroyKernelSteps(k))
    /\ UNCHANGED <<count, dataOf, given, userEvents>>

-----------------------------------------------------------------------------
(***************************************************************************)
(* The next step of a thread.                                              *)
(***************************************************************************)
At(th, name) == torn = {} /\ ~Idle(th) /\ Head(todo[th])[1] = name
Arg(th) == Head(todo[th])[2]

\* The step is done, and these come before the others.
Go(th, steps) == todo' = [todo EXCEPT ![th] = steps \o Tail(@)]

TakeLock(th) ==
    /\ At(th, "lock") /\ owner[Arg(th)] = NULL
    /\ owner' = [owner EXCEPT ![Arg(th)] = th]
    /\ Go(th, <<>>)
    /\ UNCHANGED <<objectVars, arrayVars, listVars, userVars, loaded, torn>>

ReleaseLock(th) ==
    /\ At(th, "unlock")
    /\ owner' = [owner EXCEPT ![Arg(th)] = NULL]
    /\ Go(th, <<>>)
    /\ UNCHANGED <<objectVars, arrayVars, listVars, userVars, loaded, torn>>

\* Another thread is between the read and the write of a place.
Changing(th, place) ==
    \E other \in Threads \ {th} :
        loaded[other] # NULL /\ Head(todo[other])[2] = place

\* A read or a write in the middle of a change tears it.
Access(th, place) == torn' = IF Changing(th, place) THEN torn \cup {place} ELSE torn

Read(th) ==
    /\ At(th, "up") \/ At(th, "down")
    /\ loaded[th] = NULL
    /\ loaded' = [loaded EXCEPT ![th] = count[Arg(th)]]
    /\ Access(th, Arg(th))
    /\ UNCHANGED <<objectVars, arrayVars, listVars, userVars, owner, todo>>

\* The build tests the value it writes.
Write(th) ==
    LET c == Arg(th)
        value == IF At(th, "up") THEN loaded[th] + 1 ELSE loaded[th] - 1
        last == c[1] # "m_KernelRef" /\ value = 0
    IN
    /\ At(th, "up") \/ At(th, "down")
    /\ loaded[th] # NULL
    /\ count' = [count EXCEPT ![c] = value]
    /\ loaded' = [loaded EXCEPT ![th] = NULL]
    /\ deleted' = IF last THEN deleted \cup {c} ELSE deleted
    /\ Go(th, IF last THEN Destructor(c) ELSE <<>>)
    /\ UNCHANGED <<lastData, dataOf, arrayVars, listVars, userVars, owner, torn>>

SetLastKernelData(th) ==
    /\ At(th, "setLast")
    /\ lastData' = [lastData EXCEPT ![KernelOf[Arg(th)]] = Arg(th)]
    /\ Go(th, <<>>)
    /\ UNCHANGED <<count, deleted, dataOf, arrayVars, listVars, userVars, owner,
                   loaded, torn>>

FreeSlots == {i \in DOMAIN slots : slots[i] = NULL}

\* Push of the task and CreateEvent, which may first have to grow the array.
\* The task has a reference to the event, and the application if it asked.
Push(th) ==
    LET t == Arg(th) IN
    /\ At(th, "push")
    /\ IF FreeSlots = {}
         THEN /\ Go(th, <<<<"grow", EventArray>>, <<"push", t>>>>)
              /\ UNCHANGED <<count, arrayVars, enqueued, userEvents>>
         ELSE /\ enqueued' = Append(enqueued, t)
              /\ \E visible \in BOOLEAN :
                    /\ count' = [count EXCEPT ![Event(t)] = IF visible THEN 2 ELSE 1]
                    /\ userEvents' = IF visible THEN userEvents \cup {t} ELSE userEvents
              /\ slotOf' = [slotOf EXCEPT ![t] = Min(FreeSlots)]
              /\ slots' = [slots EXCEPT ![Min(FreeSlots)] = t]
              /\ Go(th, <<>>)
    /\ UNCHANGED <<deleted, lastData, dataOf, flushed, gpu, given, userKernels,
                   owner, loaded, torn>>

\* CreateArray copies the array, then the copy takes its place.
GrowArray(th) ==
    /\ At(th, "grow")
    /\ IF loaded[th] = NULL
         THEN /\ loaded' = [loaded EXCEPT ![th] = Len(slots)]
              /\ UNCHANGED <<slots, todo>>
         ELSE /\ slots' = Append(slots, NULL)
              /\ loaded' = [loaded EXCEPT ![th] = NULL]
              /\ Go(th, <<>>)
    /\ UNCHANGED <<objectVars, slotOf, listVars, userVars, owner, torn>>

\* GetElement in DestroyEvent, and SetElement(index, NULL).
UseSlot(th) ==
    /\ At(th, "check") \/ At(th, "clear")
    /\ slots' = IF At(th, "clear") THEN [slots EXCEPT ![slotOf[Arg(th)]] = NULL]
                                   ELSE slots
    /\ Access(th, EventArray)
    /\ Go(th, <<>>)
    /\ UNCHANGED <<objectVars, slotOf, listVars, userVars, owner, loaded>>

\* FlushTaskWithoutSync: the HAL takes the oldest task, which then releases its
\* kernel and goes to the flushed list.  A full list is queried once.
Flush(th) ==
    LET t == Head(enqueued) IN
    /\ At(th, "flush") \/ At(th, "flushFull")
    /\ IF enqueued = <<>> \/ (At(th, "flushFull") /\ Len(flushed) >= MaxTasks)
         THEN Go(th, <<>>) /\ UNCHANGED <<enqueued, gpu>>
       ELSE IF Len(flushed) >= MaxTasks
         THEN /\ Go(th, <<<<"query", NULL>>, <<"flushFull", NULL>>>>)
              /\ UNCHANGED <<enqueued, gpu>>
       ELSE /\ enqueued' = Tail(enqueued)
            /\ gpu' = Append(gpu, t)
            /\ Go(th, <<<<"releaseKernel", dataOf[t]>>, <<"pushFlushed", t>>,
                        <<"flush", NULL>>>>)
    /\ UNCHANGED <<objectVars, arrayVars, flushed, userVars, owner, loaded, torn>>

\* The test reads one value or the other of a change in progress.
ReleaseKernel(th) ==
    /\ At(th, "releaseKernel")
    /\ Go(th, IF count[KernelRef(Arg(th))] > 0 THEN ReleaseKernelSteps(Arg(th))
                                               ELSE <<>>)
    /\ UNCHANGED <<objectVars, arrayVars, listVars, userVars, owner, loaded, torn>>

PushFlushed(th) ==
    /\ At(th, "pushFlushed")
    /\ flushed' = Append(flushed, Arg(th))
    /\ Go(th, <<>>)
    /\ UNCHANGED <<objectVars, arrayVars, enqueued, gpu, userVars, owner, loaded, torn>>

\* QueryFlushedTasks: pops the oldest task if the GPU has ended it.
Query(th) ==
    LET t == Head(flushed) IN
    /\ At(th, "query")
    /\ IF flushed # <<>> /\ ~Contains(gpu, t)
         THEN /\ flushed' = Tail(flushed)
              /\ Go(th, DestroyTask(t) \o <<<<"query", NULL>>>>)
         ELSE Go(th, <<>>) /\ UNCHANGED flushed
    /\ UNCHANGED <<objectVars, arrayVars, enqueued, gpu, userVars, owner, loaded, torn>>

Touch(th) ==
    /\ At(th, "touch")
    /\ Go(th, IF flushed # <<>> THEN <<<<"query", NULL>>>>
              ELSE IF enqueued # <<>> THEN <<<<"flush", NULL>>, <<"query", NULL>>>>
              ELSE <<>>)
    /\ UNCHANGED <<objectVars, arrayVars, listVars, userVars, owner, loaded, torn>>

EnqueueReturns(th) ==
    /\ At(th, "return")
    /\ Go(th, <<>>)
    /\ UNCHANGED <<objectVars, arrayVars, listVars, userVars, owner, loaded, torn>>

Gpu ==
    /\ torn = {} /\ gpu # <<>>
    /\ gpu' = Tail(gpu)
    /\ UNCHANGED <<objectVars, arrayVars, enqueued, flushed, userVars, owner, todo,
                   loaded, torn>>

\* Nothing is said of what follows.
Undefined == torn # {} /\ UNCHANGED vars

Call(th) ==
    \/ \E t \in Tasks : Enqueue(th, t) \/ DestroyEvent(th, t)
    \/ \E k \in Kernels : DestroyKernel(th, k)
    \/ TouchFlushedTasks(th)

Step(th) ==
    \/ TakeLock(th) \/ ReleaseLock(th) \/ Read(th) \/ Write(th)
    \/ SetLastKernelData(th) \/ Push(th) \/ GrowArray(th) \/ UseSlot(th)
    \/ Flush(th) \/ ReleaseKernel(th) \/ PushFlushed(th) \/ Query(th) \/ Touch(th)
    \/ EnqueueReturns(th)

Next == (\E th \in Threads : Call(th) \/ Step(th)) \/ Gpu \/ Undefined

Spec == Init /\ [][Next]_vars

-----------------------------------------------------------------------------
(***************************************************************************)
(* Properties.                                                             *)
(***************************************************************************)

\* The objects the next step of a thread reads or writes.
Touched(th) ==
    IF At(th, "up") \/ At(th, "down") THEN {ObjectOf(Arg(th))}
    ELSE IF At(th, "check") THEN {Event(Arg(th))}
    ELSE IF At(th, "setLast") THEN {Kernel(KernelOf[Arg(th)]), Data(Arg(th))}
    ELSE IF At(th, "releaseKernel") THEN {Data(Arg(th)), Kernel(KernelOf[Arg(th)])}
    ELSE IF At(th, "query") /\ flushed # <<>> THEN {Event(Head(flushed))}
    ELSE {}

\* Until a change is torn no thread reads or writes an event, kernel data or a
\* kernel that another one has deleted, whatever locks the two hold: the task
\* acquires its data before it lets go of anything, and a flush drops the kernel
\* while the task still holds the data (cm_kernel.cpp:2188-2240,
\* cm_kernel_data.cpp:160-172).
DeletedIsNotTouched ==
    torn = {} => \A th \in Threads : Touched(th) \cap deleted = {}

\* Between the calls every count is the number of its holders, an object without
\* any is deleted, and an event lies in its slot as long as it has one.
CountsAreHolders ==
    LET Pending == ToSet(enqueued) \cup ToSet(flushed)
        Uses(S, d) == Cardinality({t \in S : dataOf[t] = d})
        One(b) == IF b THEN 1 ELSE 0
    IN
    torn = {} /\ (\A th \in Threads : Idle(th)) =>
      /\ \A t \in given :
           /\ count[Event(t)] = One(t \in Pending) + One(t \in userEvents)
           /\ count[Event(t)] = 0 <=> Event(t) \in deleted
           /\ Contains(slots, t) <=> count[Event(t)] > 0
           /\ count[KernelRef(t)] = Uses(ToSet(enqueued), t)
           /\ count[Data(t)] = Uses(Pending, t)
                + One(lastData[KernelOf[t]] = t /\ Kernel(KernelOf[t]) \notin deleted)
           /\ dataOf[t] = t => (count[Data(t)] = 0 <=> Data(t) \in deleted)
      /\ \A k \in Kernels :
           /\ count[Kernel(k)] = One(k \in userKernels)
                + Cardinality({t \in ToSet(enqueued) : KernelOf[t] = k})
           /\ count[Kernel(k)] = 0 <=> Kernel(k) \in deleted

\* The counts of kernels are changed by tasks in the making, by flushes and by
\* the application, and never by two of them at a time.
KernelCountsAreWhole == \A c \in torn : c[1] # "kernel"

\* CM_ASSERT(m_EventArray.GetElement(index) == pEvent), cm_queue.cpp:709: who
\* still has a reference finds the event in its slot, though another thread may
\* have dropped its own and the slot is cleared apart from the last one.
SlotHoldsEvent ==
    \A th \in Threads : At(th, "check") => slots[slotOf[Arg(th)]] = Arg(th)
=============================================================================
