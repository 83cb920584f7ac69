# A TLA+ verification of the C for Media runtime (cmrt)

The C for Media runtime takes media kernels, their arguments and their surfaces
from an application, turns them into command buffers for an Intel GPU, submits
them and reports their end.  This directory holds TLA+ modules translated from
its source (`src/src/`), the TLC configurations that check them on small
instances, and TLAPS proofs of what holds on every instance.  File names below
are relative to `src/src/`.

## 1. Inventory

| Component | Files | State | Operations | Talks to |
|---|---|---|---|---|
| Task queue `CmQueue_RT` | `cm_queue.cpp` | `m_EnqueuedTasks`, `m_FlushedTasks`, `m_EventArray`, locks `Queue`, `Event`, `HalExecute` | Enqueue, EnqueueWithGroup, EnqueueWithHints, FlushTaskWithoutSync, QueryFlushedTasks, TouchFlushedTasks, DestroyEvent, CleanQueue, Destroy | internal tasks, events, HAL, surface manager |
| Event `CmEvent_RT` | `cm_event.cpp` | `m_Status`, `m_TaskDriverId`, `m_RefCount`, `m_Index`, `m_OsData` | Create, Acquire, SafeRelease, GetStatus, Query, WaitForTaskFinished, getters | queue (calls back FlushTaskWithoutSync), HAL |
| Internal task `CmTaskInternal` | `cm_task_internal.cpp` | kernels and kernel data, `m_SurfaceArray`, event | Create, Destroy, GetTaskStatus | event, kernels, surface manager |
| HAL task table | `hal_cm.cpp`, `hal_cm.h`, `hal_cm_g75/g8/g9.cpp` | `pTaskStatusTable`, time stamp buffer, batch buffers, kernel heap | HalCm_ExecuteTask, ..GroupTask, ..HintsTask, HalCm_QueryTask, SubmitCommands | hardware interface, OS interface |
| Surface manager | `cm_surface_manager.cpp` | surface array, sizes, `m_SurfaceState`, counters | Create*, Destroy*, DestroySurfaceInPool, TouchSurfaceInPoolForDestroy | queue (TouchFlushedTasks), surfaces |
| Surfaces | `cm_surface.cpp`, `cm_buffer.cpp`, `cm_surface_2d.cpp`, `cm_surface_2d_up.cpp` | handle, index, properties | WriteSurface, ReadSurface, InitSurface, FlushDeviceQueue | queue, HAL |
| Kernel | `cm_kernel.cpp`, `cm_kernel_data.cpp` | arguments, dirty flags, kernel data, reference counts | SetKernelArg, SetThreadArg, CreateKernelData, Acquire, SafeRelease | task, surface manager |
| Program | `cm_program.cpp` | kernel table, reference count | Initialize, Acquire, SafeRelease | kernel, device |
| Task, thread spaces | `cm_task.cpp`, `cm_thread_space.cpp`, `cm_group_space.cpp` | kernel list, dependency board, walking pattern | AddKernel, AddSync, Associate, Wavefront* | internal task |
| Device | `cm_device.cpp` | owns all managers | Create, Destroy, Create*, Destroy* | all |
| HAL heaps | `hal_cm.cpp`, `hw_interface*.c` | kernel heap, batch buffers, media states | LoadKernel, GetBatchBuffer, AssignMediaState | OS interface |
| Command emission | `hw_interface_g*.c`, `hw_cmd*` | none of its own | Send*, Setup* | OS interface |
| OS interface | `os_interface.c`, `os_utilities.c` | allocation and patch lists, buffer objects | GetCommandBuffer, SubmitCommandBuffer | kernel driver |
| Containers, lock | `cm_basic_list.cpp`, `cm_basic_queue.cpp`, `cm_array.cpp`, `cm_csync.h` | lists with a free pool, growing array, plain (not recursive) mutex | Push, Pop, Top, SetElement, GetFirstFreeIndex | |
| Debugger, tracing, configuration | `debugger.cpp`, `cm_perf.cpp`, `readconf.cpp` | files | | |

**How a task travels.**  Enqueue makes a `CmTaskInternal`, pushes it on the
enqueued list, gives it an event and flushes.  The flush pops tasks while the
flushed list has room (as many as the HAL has slots), asks the HAL to execute
each, hands the slot to the event and pushes the task on the flushed list.  The
GPU runs the batches in order and writes two time stamps per slot.  A query of
the oldest flushed task reads these words through its event; a task that has
finished is popped and deleted.  `GetStatus` of an event that is still QUEUED
calls the flush again, so flush and query are mutually recursive.

**What is hard here.**  The GPU and the CPU share the sync words of a slot and
nothing says to whom they belong but the table.  The same lists are changed at
every level of the recursion.  An event is held by its task and by the
application.  A HAL failure leaves a task in an in-between state.  `GetStatus`
is called with and without the queue lock.  The queue lock and the surface lock
are taken in both orders.  Waiting calls spin with the queue lock held.  The
counts of events and kernel data, and the array of the events, are changed with
different locks or none.

**What makes each component correct.**

 - Task table: a query answers for the task that owns the slot; the GPU writes
   for the owner; a slot is always found when the queue has room.
 - Queue: no task lost, duplicated, overtaken or popped before it ran; every
   call returns; destroying it runs what it holds.
 - Event: status goes forward only; deleted by its last holder only; its array
   slot is its own.
 - Surface manager: a surface is destroyed only when no queued task uses it, and
   is destroyed in the end.
 - Kernel data: what a queued task executes is what the application had set when
   it was enqueued.
 - Heaps: memory of a batch or a kernel the GPU may still read is not reused.
 - Program, kernel: freed by the last holder.

`PROJECT.json` lists the hazards line by line.

## 2. Modules

| Module | Models | Holds |
|---|---|---|
| `HalCmTask` | `HalCm_GetNewTaskId`, `HalCm_ExecuteTask`, `HalCm_SubmitCommands_g75`, `HalCm_QueryTask`, the GPU | state machine, three invariants, inductive `HalInv` |
| `CmQueue` | `cm_queue.cpp`, `cm_event.cpp`, the parts of `cm_task_internal.cpp` and `cm_array.cpp` they use; extends `HalCmTask` | state machine, safety, action and liveness properties |
| `CmQueueInv` | | the inductive invariants `QueueInv` and `OrderInv` of `CmQueue`, in parts, and the refinement mapping to `CmTaskOrder` |
| `CmTaskOrder` | the promise of the queue | abstract specification |
| `CmThreads` | the reference counts of events, kernel data and kernels, and the event array, when threads share the device (`cm_event.cpp`, `cm_kernel_data.cpp`, `cm_queue.cpp`, `cm_array.cpp`) | state machine, safety |
| `CmSurfaces` | `cm_surface_manager.cpp`, the waits of `cm_surface.cpp` and of the buffers, the surface calls and the destructor of `cm_device.cpp`, the use counts of `cm_queue.cpp`; the queue as `CmTaskOrder` has it | state machine of threads and locks, safety, action and liveness properties |
| `KernelHeap` | the table of the instruction heap: `CmSearchFreeSlotSize`, `CmAddCurrentKerenelToFreeSlot`, `HalCm_TouchKernel`, `CmDeleteOldestKernel` | operators on a record |
| `HalHeaps` | how a batch is built: sync tags, media states, batch buffers, kernels, in steps that interleave with the GPU; extends `HalCmTask` and `KernelHeap` | state machine, safety properties, refinement of `HalCmTask` |
| `CmKernelData` | arguments, dirty flags, sharing and updating of kernel data, reuse of batch buffers (`cm_kernel.cpp`, `cm_kernel_data.cpp`, `cm_task_internal.cpp`) | state machine, safety |
| `CmPrograms` | reference counts of programs, kernel information, kernels and kernel data (`cm_program.cpp`, `cm_device.cpp`) | state machine, safety |
| `KernelPrologue` | packing of arguments, CURBE and payload, the moves in front of a kernel (`cm_kernel.cpp`, `cm_mov_inst.h`) | state machine, safety |
| `DispatchOrder` | the sequences of `cm_thread_space.cpp` and the programs of the media walker | operators on sequences |
| `CmThreadSpace` | a thread space between the calls that shape it and its Enqueues; extends `DispatchOrder` | state machine, safety |
| `HalHints` | `EnqueueWithHints`: groups, sub-slices, mixing and splitting (`HalCm_FinishStatesForKernelMix`); extends `DispatchOrder` | state machine, safety and an action property |
| `OsCommandBuffer` | allocation and patch lists, command buffers and their ring (`os_interface.c`) | operators, the GPU's queue |
| `HwLayouts` | structures of `hw_cmd.h`, `hw_cmd_g9.h`: their length and address fields | constants |
| `SurfaceHeap` | binding tables and surface states (`hw_interface*.c`, `hal_cm.cpp`); extends `OsCommandBuffer`, `HwLayouts` | operators on a record |
| `HwCommands` | the emitters of `hw_interface*.c`; extends `SurfaceHeap` | operators |
| `HalSubmit` | a general or group task from its kernels to the GPU, on three generations (`HalCm_SubmitCommands_g75/g8/g9`); extends `HwCommands` | state machine, safety |
| `MC*` | | instances for TLC |
| `CmSurfacesInv`, `HalHeapsInv`, `CmKernelDataInv`, `CmProgramsInv`, `HalSubmitInv` | | the inductive invariants of those modules, in parts |
| `HalCmTask_proofs`, `CmQueue_proofs`, `CmQueueOrder_proofs`, `CmSurfaces_proofs`, `HalHeaps_proofs`, `CmKernelData_proofs`, `CmPrograms_proofs`, `HalSubmit_proofs` | | TLAPS proofs (section 4) |

### `HalCmTask`

`taskStatusTable[i]` is the entry of `pTaskStatusTable`, with the task it was
given to where the code stores the index itself; `sync[i]` is the pair of 64-bit
words at the sync location of slot `i`: `"reset"` (both -1), `"start"`, `"end"`.
`ring` is the order in which the kernel driver runs the batches of one context.
`HalCm_ExecuteTask` stands for the three execute functions, which choose a slot,
submit and mark the slot in the same order; `HalCm_ExecuteTaskFails` for their
error exits, all of which come before the slot is marked (the submission is the
last thing that can fail) but may come after the sync words were reset.
`HalCm_QueryTask` tests the words and frees the slot of an ended task.
The status table holds `CHAR`s; `iMaxTasks` is at most 64 (`cm_device.cpp:1851`),
so the index fits.

Abstracted: the contents of a batch; the conversion of time stamps, and its
failure; a GPU hang, after which the driver resets the context.

### `CmQueue`

The application makes one call at a time, `DestroyEvent` included, which takes no
lock in the code and is a single step here, as the drop of an event by a pop is
(`ReleaseEvent`): with several threads that is not so, see `CmThreads`.  `stack` is the call stack of that call, one frame
per C++ frame that can be re-entered, and each frame names the place in its
function.  A step is one iteration of a loop of the code, or a call or a return.
The GPU interleaves between the steps.

| Action | Code |
|---|---|
| `Enqueue`, `EnqueueWithoutEvent` | `Enqueue_RT` after the internal task is built: Push, CreateEvent, UpdateSurfaceStateOnPush, then the flush; or the failure of CreateEvent |
| `FlushLoop`, `FlushRoom`, `FlushStillFull`, `FlushOne` | `FlushTaskWithoutSync`, both forms |
| `FlushSucceeds`, `FlushWithoutEvent`, `FlushFails` | the three `Flush*Task` and the HAL's answer |
| `QueryTop`, `PopTaskFromFlushedQueue`, `QueryBreak` | `QueryFlushedTasks` |
| `GetStatus`, `Query` | `CmEvent_RT` |
| `WaitForTaskFinished`, `WaitFlush`, `WaitBo`, `WaitReturns`, `WaitTimeout` | `CmEvent_RT::WaitForTaskFinished` |
| `TouchFlushedTasks`, `TouchQuery` | the call of the surface manager |
| `CleanQueue`, `CleanLoop`, `CleanPoll`, `DestroyQueue` | `CmQueue_RT::Destroy` |

Constants switch the failures on: `HalMayFail`, `AllocMayFail`, `MayTimeout`.
`MaxDepth` bounds the stack; the frame that does not fit gives `"crashed"`.
The branch of `QueryFlushedTasks` under `bMediaReset` is left out: the flag is
FALSE on every path (`cm_device.cpp:1858`).

Abstracted: what a task executes; `EnqueueWithHints`, which splits a task in
several, is several `Enqueue`s whose earlier events are held for ever by nobody
(the model's application may hold an event for ever too);
of `UpdateSurfaceStateOnPush` only the counts (`CmSurfaces` has the delayed
destruction of surfaces in it);
`TouchFlushedTasks` returns early when the *last* task flushed failed, the model
allows it when any did.

### `CmThreads`

The other modules say what the counts are for one call at a time.  The code lets
several threads in, with these locks:

| Place | Changed | Lock |
|---|---|---|
| count of an event, slot of the event array | `DestroyEvent` of the application | none |
| | pop of a task (`~CmTaskInternal`) | queue |
| | `CreateEvent` in `Enqueue` | queue, event |
| count of kernel data | `CmTaskInternal::Create`, before `Enqueue` takes the queue lock | none |
| | pop of a task | queue |
| | `~CmKernel_RT` | programs and kernels, and the queue's in a flush |
| `m_KernelRef` | `AcquireKernel` | programs and kernels |
| | `ReleaseKernel` of a flush, after `DestroyKernel` | queue |
| count of a kernel (and of its program) | all | programs and kernels |

A call is a sequence of steps (`todo`), made by the operators named after the
functions; a change of a count is a `Read` and a `Write`, the growth of the array
a copy and its exchange, a cleared slot a step of its own after the event is
deleted.  Two threads that are in the change of one place at a time tear it
(`torn`): the build may then do anything, and the behaviours end.  TLC reaches
this for the count of an event, the count of kernel data, `m_KernelRef` and the
array.  It cannot be avoided by giving each thread its own kernels and events, as
every `Enqueue`, and every query by a surface that is created or read, flushes
and pops the tasks of all; the application has to make one call at a time, and
the theorems about the counts (section 4) say that they are about this case.
The properties say what holds even so.  Nothing that was deleted is used and every
count is right in any order of the steps that tears nothing, though the locks
differ (`DeletedIsNotTouched`, `CountsAreHolders`); an event is in its slot when a
holder looks for it (`SlotHoldsEvent`); the counts of kernels are never torn
(`KernelCountsAreWhole`).

Left out: failures, the end of the device (`CmPrograms`), waiting, surfaces; the
choice between kernel data that is shared and new is open.  `SafeRelease` tests
the value it has written, as the build keeps it in a register.  The application uses a kernel in one
call at a time, and an event after the `Enqueue` that made it.

### `CmSurfaces`

`array[i]`, `released[i]`, `cached[i]`, `state[i]`, `destroyId[i]` are the five
arrays the surface manager keeps per index, `count` its three counters, `halUsed`
the entries in use of the three tables of the HAL.  `held` is what the
application holds a pointer to.  A thread is in a `call`, at a place `at` of it,
with an argument `arg`; `surfLock` and `queueLock` are the two locks, plain
mutexes, and a thread is blocked when the lock its next step takes is not free.

The queue is what `CmTaskOrder` promises, which `CmQueue` implements as long as
the HAL accepts every task (run `queue_safe`): `outstanding` holds the tasks in
the order of the Enqueue calls, `executed` those the GPU has run, and a task is
popped when it is the oldest and has run.  A task whose event failed
(`eventless`) is never popped, as `GetTaskStatus` fails for it
(`cm_task_internal.cpp:488`), nor is any task behind it (`Stuck`).  `uses[t]` remembers, with the index,
the `destroyId` the surface had: two surfaces at one index are told apart.

| Action | Code |
|---|---|
| `CreateSurface`, `GcPass`, `ReuseSurface`, `CollectForIndex`, `AllocateSurface`, `AllocateFails`, `Refuse` | `CreateBuffer`, `CreateSurface2D`, `CreateSurface2DUP` with `AllocateSurfaceIndex`, `TouchSurfaceInPoolForDestroy`, `GetReuseSurfaceIndex`, `GetFreeSurfaceIndex` |
| `DestroySurface` | the `DestroySurface` of each kind, `APP_DESTROY` |
| `ForceDestroy`, `ForceDestroyed` | `ForceDestroyBufferUP`, `FORCE_DESTROY` |
| `AccessSurface`, `FlushReturns`, `FlushTimesOut`, `Accessed` | `ReadSurface`, `WriteSurface`, with `FlushDeviceQueue` |
| `WaitForReferenceFree`, `Touch`, `PopTask`, `QueryReturns` | `WaitForReferenceFree`, `TouchFlushedTasks`, `QueryFlushedTasks`, `UpdateSurfaceStateOnPop` |
| `Enqueue`, `UpdateSurfaceStateOnPush`, `EnqueueWithoutEvent` | `Enqueue_RT` |
| `DestroyDevice`, `TeardownNext`, `TeardownDestroy`, `CleanQueue` | `~CmDevice_RT`, `~CmSurfaceManager`, `CleanQueue` |

`RealDestroy`, `Collectable` and `Garbage` stand for the `UPDATE_STATE_FOR_*`
macros and the tests before them, by the kind of destruction.

A section that runs under the surface lock and neither waits nor reads what
other threads change is one step.  One pass of the collection over the pool is
one step too: the code reads the counts one after the other, while another
thread may lower them in `UpdateSurfaceStateOnPop` (only the surface lock lets it
raise them), so a count it found zero is zero for the rest of the pass.

Abstracted: sizes and formats, so which of the cached surfaces fits a creation,
and which free index it gets, are open; `GetSurface2DInPool`, a creation that
only reuses; the second attempt after the HAL reports that memory is short.
Assumed of the application: it does not destroy a surface while another of its
calls uses it, enqueues tasks with surfaces it holds, and deletes the device
when no other call is in progress.

### `HalHeaps` and `KernelHeap`

`HalCmTask` submits in one step.  `HalHeaps` opens that step: `call` is the
execute function in progress and `pc` the next memory it asks for.

| State | Code |
|---|---|
| `heap` | `pKernelAllocation` and `pTotalKernelSize`, `iNumKernels`, and, as a sequence, the order that `dwCount` gives the loaded kernels |
| `mem` | the code in the heap itself, block by block |
| `media`, `nextMedia` | `pMediaStates` with the interface descriptors in it, `iNextMediaState` |
| `buffers` | `pBatchBuffers`: size, `bBusy`, `dwSyncTag`, the kernels it is found by, `bLatest`, `bLocked` |
| `nextTag`, `gpuTag`, `syncTag` | `dwNextTag`, the word the GPU writes, the copy `IntelGen_HwRefreshSync` makes of it |
| `job` | what a submitted batch refers to: its media state, its buffer, its tag |

| Action | Code |
|---|---|
| `Begin` | `HalCm_ExecuteTask`, `..GroupTask`, `..HintsTask` up to the media state |
| `IntelGen_HwAssignMediaState`, `WaitForMediaState` | the function of that name, without and with its spin |
| `ReuseBatchBuffer`, `TakeBatchBuffer`, `IntelGen_HwLockBB`, `AlreadyLocked` | `HalCm_GetBatchBuffer`, `HalCm_LockBatchBuffer` |
| `LoadedKernel`, `HalCm_LoadKernel`, `EvictKernel`, `NothingToEvict` | `HalCm_LoadKernel` with `HalCm_AllocateMediaID` |
| `Submit`, `SubmitFails`, `Fails` | the submission and the error exits |
| `GpuBegin`, `GpuFinish` | a batch writes its tag when it begins, and gives its memory back when it ends |

The tag is the whole synchronisation: a batch writes it at its *beginning*, and
a media state, a batch buffer or a kernel whose tag is smaller than the one
written is given out again.  `BatchRunsItsKernels` therefore speaks of batches
that have not begun.

Four shortcuts of the code let a batch refer to something else than its task
meant, and are recorded with the batch as `doubt`: an entry of the heap that a
call had named by its index moved when a later kernel of the same call
evicted another one (`"moved"`); a buffer kept the key of a call that failed
before it was written (`"failed"`); a buffer kept the ids behind those of a
shorter task (`"longer"`); a reused buffer names the descriptor of a kernel that
has been evicted since (`"evicted"`).  `heap.phantom` records that a deletion
took the entry behind the last one for a free neighbour.  The properties hold as
long as none of these has happened, and each is a hazard of `PROJECT.json`.

Abstracted: samplers and CURBE data, which have a
place per media state and no allocation of their own; surface states
(`HalSubmit`) and the merging of a task with hints (`HalHints`); the contents of a batch apart from the descriptors it names; sizes of
batch buffers, which count kernels.  Calls and queries hold the queue lock, so a
query does not come between the steps of a call.

### `CmKernelData`

A kernel has its arguments, a dirty flag per kind (`m_Dirty`) and the data of its
last Enqueue (`m_pLastKernelData`); a thread space has its units and its dirty
status.  `Choice` is `CreateKernelData`: reuse the last data, update it in place,
or build anew.  `Flush` takes or generates the batch buffer the way
`HalCm_GetBatchBuffer` finds it, by ids that `IdAfter` renames.  `task[t].wanted`
is what the kernel had at the Enqueue, `task[t].ran` what the buffer gave it.

The flags do not always suffice; with `Careful` the caller keeps the rules under
which they do, listed at the head of the module: nothing is set while two tasks
wait with the data; a kernel keeps to one thread space; all units are
associated, once between Enqueues, and the last one gets another thread id if
any does; groups change only arguments per kernel.
Without any one of them TLC finds a task that runs with another's arguments.
The rule about the last unit is due to `AssociateThread`, which sets the dirty
status of the thread space anew in every call (`cm_thread_space.cpp:203`): the
status of all calls between two Enqueues is that of the last one.

Left out: surface arguments as such (a value is a value), dependency masks of
units (a reused buffer writes none of them where it means to, `hal_cm.cpp:4476`),
`SetStaticBuffer`, `SetSurfaceBTI`, kernel payloads.

### `CmPrograms`

`heap` has the counted objects: programs, kernel information of each name (with
its `parsed` strings), kernels, kernel data.  Actions are the calls of the
device (`LoadProgram`, `CreateKernel` with or without success, `DestroyKernel`,
`DestroyProgram`), an Enqueue of one kernel or two that works or fails half way,
the flush (with or without an event, or refused), the end of a task, and
`~CmDevice_RT`: from `DestroyDevice` on no call is made any more; the loops of
the destructor take one kernel of the array after the other
(`DestroyNextKernel`), then the programs (`DestroyNextProgram`); then the
destructor of the queue flushes and pops what is left (`Flush` and `PopTask`
again, which find no kernel to release) until it is done or gives up
(`DestroyQueue`).  The application destroys what it created, once.  `failed` are the kernels whose task
failed: nobody releases those again, so `DeadWhenUnused` excepts them.

### `KernelPrologue`

The hardware gives all threads one buffer (CURBE) and each thread another
(payload); the compiler knows of neither.  `TempArgs` packs the arguments,
`CreateMovInstructions` makes the moves that bring each byte where the kernel
reads it, `Load` keeps a kernel with its moves as long as the upper half of its
id is the same.  `Delivered` and `Origin` are the hardware: what is in the
registers at the start, and after the moves.  `IsPrologueDirty` renames the
prologue only between one thread and several, so `Careful` asks that tasks of
several threads, one after the other, have the same arguments per thread.
Left out: the adjustment of scoreboard Y, kernels without CURBE, indirect
payloads, payload and surface setters of the kernel.  The compiler is taken to
align arguments: an unaligned vector would be moved in units that the hardware
does not move from there.

### `DispatchOrder` and `CmThreadSpace`

A sequence of `cm_thread_space.cpp` is a nest of loops that puts a unit on the
list when it first meets it; `FirstVisits` of the units met.  `CmThreadSpace`
selects patterns, blocks and walking patterns in any order and Enqueues: `Sorted`
sorts again only if the code does, `Launch` is what the GPU then launches, media
objects in the order of the board or the walker by itself.  Every selection of
26Z makes a new list of waves, all zero (`WavesAfter`, `cm_thread_space.cpp:316`),
which only a sort fills: selected again while the board is sorted for 26Z, it
gives the next task waves of no thread.  A rule excludes that; the rules of a
careful caller are at the head of the module.  `WalkerLaunches` models the
hardware from the parameters the code programs.

### `HalHints`

`mix` is the loop of `HalCm_FinishStatesForKernelMix` between two threads,
`hint` the place in the kernels that `pState->HintIndexes` keeps between the
tasks of a split, `buffers` the batch buffers found again by tagged ids.  A step
of the model ends a step of the code's dispatch (a wave, a frequency).
`Levelled` gives out and takes back sub-slices.  `ThreadsPerSubSlice` scales the
GPUs to small boards.  Rules of the callers and of the jobs are at the head of
the module; `few` threads in a second group, for example, make a split task
leave threads out (`hal_cm.cpp:2683`, `3678`).

### `OsCommandBuffer`, `HwLayouts`, `SurfaceHeap`, `HwCommands`, `HalSubmit`

A task registers buffer objects (`os.list`), binds surfaces in the heap, gets a
command buffer from a ring of `MaxCmdBufs` (waiting for the slot), appends
commands with patches, and submits; every step may fail for want of room, and
what it leaves behind meets the next task.  The layouts of `HwLayouts` say which
dwords of a command are addresses; emitters say which they patch: the property
`CommandsNameTheirBuffers` compares the two.  `EveryArgumentReadsItsSurface`
follows each index of a payload through the binding table, the surface state
and its relocation to the surface the task was given.

`call` is the step of the HAL in progress and `running` what the GPU has been
given.  The queue calls for one task at a time.  `GpuFinish` is enabled only
where the HAL looks at it (idle, or waiting for the ring), which loses no
behaviour the properties can tell apart; command buffer objects are symmetric
(the code takes any that is free).  `MayReuse` leaves out the reuse of a batch
buffer whose payloads the code would rebind in another order than it wrote them
(`hal_cm.cpp:4416`).  A resource that is not registered for a task has no index in
its list (0) here; in the code it keeps that of an earlier task
(`os_interface.c:1016`), and a patch would lead to another buffer.  The two agree
because no task patches what it has not registered, which
`CommandsNameTheirBuffers` and `EveryArgumentReadsItsSurface` show.

## 3. Runs

| Run | Instance | Shows |
|---|---|---|
| `hal_heaps` | 4 tasks, 2 slots, 5 kernels, 3 entries and 4 blocks in the heap, 4 calls, all failures | memory is reused only after the GPU; slots and ring as in `HalCmTask`, which it refines |
| `hal_heap_lost` | the same, no failures | finding: the kernel heap is lost after its table was full |
| `queue_safe` | 3 tasks, 2 slots, 2 surfaces, no failures, depth 5, with fairness | refinement of `CmTaskOrder`; no pop of an empty list; liveness |
| `queue_fail` | 3 tasks, 2 slots, all failures, depth 5 | the safety properties |
| `threads_counts` | 2 threads, 3 tasks, 2 kernels (one of two tasks), flushed list of 1 | what the counts and the event array promise to several threads, and where they do not |
| `surfaces` | 2 threads, 2 tasks, 2 indices, one buffer and two 2D surfaces at most, reuse, failing allocations and events, time-outs, with fairness | what a task uses or the application holds stays; who can block whom; every call returns unless a collecting thread and one in Enqueue hold each other's locks, a time-out left the queue locked, or the oldest task has no event |
| `kernel_data` | 2 kernels (one in groups), 3 tasks, 1 thread space of 3 units, 3 setting calls | a task runs with what its kernel had at the Enqueue; counts of kernel data |
| `programs` | 2 programs, 2 names, 2 kernels, 2 tasks, 5 creations, all failures | what is used is alive; what is not used is gone |
| `prologue` | 5 layouts, 1 to 3 threads, 2 renamings | arguments and ids reach the threads |
| `thread_space` | 5 boards, 3 block sizes, 4 calls between Enqueues | each thread once, after what it depends on |
| `hal_hints` | 6 jobs of one to three kernels, 4 GPUs, 3 calls | mixing, splitting and masks |
| `submission` | 7 tasks, 3 generations, ring of 2, list of 7, 5 surface states, 175 dwords, 3 tags | failures leave nothing in the way; batches name their buffers and surfaces |

**Finding.**  `hal_heap_lost` ends in a state that a message of the code calls
impossible: `CmDeleteOldestKernel` looks at the entry behind the last one, and
past the array when the table is full; deleting the kernels of a full table can
leave it without any entry, and every later `HalCm_LoadKernel` fails.

**Where the code needs a rule.**  The following are behaviours of the modules
(and hazards of `PROJECT.json`) that the runs above exclude by a constant or a
rule, because the property is false with them:

 - a task the HAL refused makes `GetStatus` flush inside `QueryFlushedTasks`,
   and with three slots the outer flush pops the list it emptied
   (`CM_ASSERT(0)`, `cm_basic_queue.cpp:52`): `NoPopOfEmptyList` is checked
   without refusals.  The same refusal makes flush and query call each other
   without bound (state `"crashed"`);
 - `Enqueue_RT` returns the error of `CreateEvent` with the task pushed and its
   surfaces not counted: `PendingSurfacesAlive` and `WaitsForTheGpu` leave such a
   task out (`Counted`).  It is never popped: a call that waits for a count, or for a surface to
   collect, behind it asks for ever (`cm_surface_manager.cpp:424`,
   `cm_surface.cpp:123`), which `CallsReturn` of `CmSurfaces` excuses (`Stuck`);
 - counts and the event array are changed without a common lock (`CmThreads`): the
   other modules take one call at a time;
 - `~CmDevice_RT` deletes the surface manager, the kernels and the programs
   before the queue, whose last tasks are flushed and popped without them;
 - `HalCm_AllocateBuffer` fills its entry when user memory was not pinned, and
   nobody frees it: the table fills up (`AllocateFails`);
 - `CleanQueue` gives up after its time-out with tasks on the list;
 - `FlushDeviceQueue` returns its time-out with the queue lock held: the thread
   that gave up then waits for itself, and every later call that needs the queue
   for it, which `CallsReturn` excuses (`LeftLocked`);
 - the four doubts of `HalHeaps`; the rules of `CmKernelData`,
   `CmThreadSpace`, `HalHints`, `KernelPrologue` and `MayReuse` of `HalSubmit`.

**Bounds.**  One task more than slots makes the queue full, makes a flush query,
and makes a slot change hands; depth 5 allows two nested flushes, one more than
it takes to change the list under an outer flush.  In the
heap run two slots make three media states and three batch buffers, so that a
fourth call comes round to the first ones; the kernels need more than twice the heap, so
that loading them evicts others; one kernel fills the heap and another two
blocks of it, so that regions are split, joined and taken over from the
neighbour; `MaxCalls` bounds the calls.  A full table, a batch waited for, the
doubts `"failed"` and `"evicted"`, and a buffer already locked all occur within
these bounds; `"moved"` and `"longer"` occur only in larger instances than this
one, and `MediaStateWillBeFree` is bounded by a number of failures
(two more than the slots: a call that waits has seen two, and the states in turn
after its own one each) that four calls just reach.
In the surface run the pool is full with two surfaces and the table of buffers
with one, so that creations collect in the class and in the pool; `MaxDestroyId`
lets no creation begin once a surface was destroyed, but one in progress, and one
that reuses, take an index a second time.  Two action constraints of
`MCCmSurfaces` keep the graph small enough for liveness: `InOrder` takes tasks,
which are interchangeable, and free indices in order, and `NoCallsOnceStuck`
lets no call begin once the queue is locked for ever or blocked by a task without
an event, from where `CallsReturn` asks nothing any more (the safety properties
beyond that are the proofs').  User buffers and 2D surfaces take the two ways a
destruction has, at once or delayed and through the cache; plain buffers go the
way of 2D surfaces.  2D user surfaces, which neither collect nor are reused, and
buffers of an OS resource would double the states and take no other way.
`threads_counts`: two threads suffice to tear a place, as each change has one
read and one write; two tasks share kernel data and its kernel, a third keeps the
flushed list full; an application that drops its events and kernels early or late
makes every holder the last one.
`kernel_data`: two tasks share data while the third is built, and three settings
suffice to change, change back and change again.  `programs`: each kernel can be
in both tasks; five creations use each address again.  `prologue`: the layouts
have bytes, words, whole and split registers, and arguments out of order.
`thread_space`: even, odd and narrow boards, blocks wider than the board and of
one row.  `hal_hints`: groups with and without dependencies, steps that end
unevenly, one sub-slice, as many as groups, and more.  `submission`: each of the
four limits is met by some task and fits the others exactly or nearly.
Deadlock is checked except where the system really stops: the device is closed
(`surfaces`, `programs`), the calls are used up (`thread_space`, `hal_hints`,
`prologue`, `submission`), or two locks really block two threads.

**Fairness.**  Weak fairness of the steps of the call in progress (its thread
keeps running) and of the GPU (its context keeps running batches, no hang).  The
application is under no obligation.  Liveness is checked without failures: with
a refused task `WaitForTaskFinished` and the blocking flush do spin for ever.
In `CmSurfaces` a thread in a call has strong fairness: it gets a lock that is
released again and again.  A pthread mutex is not a queue, so this is an
assumption about the scheduler: without it one thread may starve another.
`CallsReturn` says there that a call returns, or that two threads hold each
other's locks, or that a time-out has left the queue locked, or that the oldest
task has no event.

## 4. Proofs

Every theorem holds for all values of the constants that the named assumptions
of its module allow; what it needs beyond those is in the column "if".

| Theorem | States | If |
|---|---|---|
| `HalTypeCorrect`, `HalFinishedIsTrue`, `HalRingOwnsItsSlots` | the table of tasks | |
| `QueueTypeCorrect`, `QueueLosesNoTask`, `QueueEventOwnsItsSlot`, `QueueFinishedMeansRan`, `QueueSlotForEveryFlush`, `QueueStatusNeverRegresses` | `TypeOK`, `NoTaskLost`, `EventOwnsItsSlot`, `FinishedMeansRan`, `SlotForEveryFlush`, `StatusNeverRegresses` | |
| `QueueEventReferences` | `EventReferences` | one call at a time |
| `QueueNeverPopsEmpty` | `NoPopOfEmptyList` | nothing fails |
| `QueueImplementsTaskOrder` | `CmQueue` implements `CmTaskOrder` | nothing fails |
| `SurfacesTyped`, `HeldSurfacesStayAlive`, `DeadlockOnlyWhenReclaiming` | types, `HeldSurfacesAlive`, `DeadlockNeedsReclaim` | |
| `TasksKeepTheirSurfaces`, `StateCountsUsers`, `AccessWaitsForTheGpu` | `PendingSurfacesAlive`, the meaning of `m_SurfaceState`, the wait of an access, for tasks with an event | |
| `HeapsImplementHalCmTask`, `HeapsFinishedIsTrue`, `HeapsRingOwnsItsSlots` | `HalHeaps` implements `HalCmTask`, and what that gives | |
| `AlwaysHeap`, `LoadedKernelsStayIntact` | the table of the kernel heap, `LoadedKernelsAreIntact` | no phantom entry taken |
| `AlwaysTurns`, `WaitsForASubmittedBatch` | sync tags and media states, `MediaStateWillBeFree` | at most `MaxTasks + 2` calls have failed |
| `AlwaysRuns`, `BatchesRunTheirKernels` | what calls, buffers and batches lead to, `BatchRunsItsKernels` | no doubt about the batch, no phantom entry taken |
| `DataIsCounted` | `DataReferences` | one call at a time |
| `TasksRunAsEnqueued`, `OnlyUnusedDataChanges` | `RunsAsEnqueued`, `UpdatesUnusedData` | the caller is careful |
| `ProgramsInvariant`, `NothingUsedIsDeleted`, `NothingUnusedIsLeft` | what each count counts, `AliveWhileUsed`, `DeadWhenUnused` | one call at a time |
| `SubmitInvariant`, `RingBoundsWork`, `ReferencesAreOwned` | who owns a command buffer, `RingBoundsTheGpu`, `ReferencesOwned` | |

The conditions are those of the runs, and the code is what asks for them (section
3): a refused task makes flush and query nest, so that an empty list is popped;
the heap loses
track once `CmDeleteOldestKernel` took the entry behind the last one for a free
neighbour (the theorem is about every state before that); the dirty flags of a
kernel need the rules.  "One call at a time" is how the modules have the calls of
the application: the counts have no lock that would make more than that safe, and
`CmThreads` shows on a small instance what is left with several threads.
`NoFailures` of `CmQueueOrder_proofs` is that the HAL
accepts every task, events can be allocated and no wait times out, as in
`queue_safe`; each of the other conditions leaves every other failure in.

**`HalCmTask_proofs`.**  `HalInv` is inductive: the three checked invariants and
`RingNotEnded`, which says that no slot of a batch in the ring looks ended, so
that no query can free it.  It is needed because "the ring owns its slots"
alone is broken by a query of a slot that falsely says "end".

**`CmQueue_proofs`.**  `QueueInv` of `CmQueueInv` has one part per concern: the
lists (`ListInv`), the statuses (`StatusInv`), the references (`RefInv`), the
slots (`SlotInv`), the frames (`FrameInv`).  There is one lemma per action.  The
parts need one another: the slot of an event is freed only when the
event becomes FINISHED (`SlotInv` with `HalInv`); the event of a pending task
cannot be deleted by the application (`RefInv` with `StatusInv`); and a frame of
`QueryFlushedTasks` that looks at the oldest task after a nested flush looks at
the same task (`FrameInv`: a nested flush happens only behind a refused task,
which nothing pops).  `QueueSlotForEveryFlush` counts: the owners of the taken
slots are distinct flushed tasks.

**`CmQueueOrder_proofs`.**  The event array: an event is in the slot its index
names as long as it has a reference, and in no other; `CreateEvent` takes a free
slot or the first one behind the last.  The order: `OrderInv` adds
to `QueueInv` that the ring is the end of the flushed list (`RingInv`), what a
list says of the status of its tasks (`AcceptedInv`), and that no flush is
nested in a query and none changes the enqueued list while another asks for room
(`OrderlyInv`, which is what `NoPopOfEmptyList` rests on).  For the refinement
the actions fall into a few kinds by what they do to the lists and the statuses
(nothing the abstract specification sees; a task moves from one list to the
other; one is accepted, ends, is reported, is popped), and each kind maps to a
step of `CmTaskOrder` or a stutter.

**`CmSurfaces_proofs`.**  `PoolInv` holds whatever fails: the locks (`LockInv`),
which thread may be where with what (`FrameInv`, `DeviceInv`), and that a
destruction by force concerns a surface the application no longer holds
(`ForceInv`).  That gives `HeldSurfacesAlive`, and from the places at which a
thread keeps the lock of the surfaces, `DeadlockNeedsReclaim`.  `UseInv` counts:
the use count of an index is the number of queued tasks with an event that use
it (`CountInv`; a task whose event failed is pushed but not counted, and never
popped either, so that it disturbs no count); between the push of a task and its count the application still
holds its surfaces (`PushInv`); and who waited until a count was zero finds it
so until it is done, because the count only rises under the lock of the queue
for surfaces that are held (`UnusedInv`).

**`HalHeaps_proofs`.**  For the refinement all steps of a call but the
submission leave the table of tasks alone, and the task in the call owns no
slot yet (`TaskInv`).  For the heap `TableInv` says that the regions of the
entries in use tile the heap in the order of the table (`Tiled`), each at least
as large as its kernel (`Sized`), each kernel once (`Known`); splitting a
region, merging two and dropping the last keep that, case by case of
`CmAddCurrentKerenelToFreeSlot` and `CmDeleteOldestKernel`.  For the media
states `TurnsInv` counts: the states go round, so that since a state was taken
as many calls have taken one as there are states behind it (`Since`); each of
those is in progress, in the ring with a larger tag, or has failed (`TurnInv`),
and those in the ring have slots of their own (`LaterFits`).  A call begins only
while a slot is free, so that the one that waits has seen two failures.  The
proof of the bound first written, `2 * MaxTasks` failures, failed at three
slots, and TLC gave the run: six failures are enough there.

`RunInv` follows the descriptors of a batch to its kernels.  Of a batch the GPU
has still to begin it says that each kernel is loaded at the offset its
descriptor holds, with a tag no smaller than that of its media state
(`BatchRuns`).  That tag is not yet written (`TurnsInv`), so that no call takes
the state and no call evicts the kernel: an eviction asks for a smaller tag.
The call in progress is on the way there (`CallRuns`): what it has loaded has the
tag to come and is still in the entry it noted, unless `doubt` says otherwise.
The hard part is the batch buffer that is reused, as its commands name the
descriptors an earlier call gave.  They are right because a descriptor is a
function of the kernels alone: every kernel that is loaded prefers one
(`KidInv`), a call gives it that one unless another of its kernels has it, and
otherwise the first free one (`Assigned`).  So the same kernels get the same
descriptors in every call, as long as each has stayed loaded (`BufferInv`), which
is why the eviction of one casts doubt on the buffers that name it and on no
others; `CallWrites` carries that through the call.  A step either leaves the
heap alone and the commands as they are (`QuietBuffers`, `QuietBatches`), or it
loads a kernel and keeps all others (`FoundKeeps`), or it evicts one no batch
needs (`EvictKeeps`).

**`CmKernelData_proofs`.**  `SharingInv` counts the holders of kernel data and of
kernels and needs no rule.  `CarefulInv` is about the flags: data that would be
updated waits with one task at most (`ExposedInv`); what no flag reports is as
it was at the last Enqueue (`PlacedInv`, `FreshInv`); a waiting task's data is
what its caller wanted (`KeepsInv`); and the id of a kernel stands for one
content of a batch buffer, in the last data, in every waiting task and in every
buffer that is left (`ClaimsInv`), so that a buffer found by ids is the right
one.  The first attempt at `FreshInv` failed, rightly: with three units the
status of a thread space forgets a change that is not made by the last call, and
the run found it once the thread space had three units (the rule above).

**`CmPrograms_proofs`.**  `Inv` of `CmProgramsInv` says of every count that it is
the number of those who count on the object: a program has the application and
each reference of each of its kernels (`ProgramCount`); the information of a
name has its program and the kernels of that name, and is parsed as long as
there is such a kernel (`InfoCount`); a kernel has the application and each
reference its data acquired (`KernelCount`); kernel data has the tasks that
hold it and the kernel whose last it is (`DataCount`), and acquired the kernel
once for each task that still waits with it (`WaitCount`).  None of them is
inductive alone: the deletion of a kernel gives up a program, an information and
its last data in turn, and in the middle of that one count is one ahead (the
argument `q`).  A kernel whose task failed may have too many references, never
too few (`F` is `failed`), which is what a lost release does.  That there is
free kernel data for every Enqueue is the pigeonhole principle: the constants
leave one more for each kernel than its tasks can hold.  From `DestroyDevice` on
the counts of kernels hold no more, as kernels go before the tasks that wait with
them; what stays is `ClosingInv`, by which the loops of the destructor leave no
kernel but those that failed.

**`HalSubmit_proofs`.**  Every step of a call between the fetch of a command
buffer and its submission changes the allocation list, the patches and the room
of the buffer and nothing else of the context (`Keeps`), and what it computes on
the way does not matter here: the lists, the surfaces and the commands stay
opaque.  `SubmitInv` says who owns a buffer object: what the GPU has lies
in the ring, each in a slot of its own (`RingInv`); a buffer that is not flushed
is in the ring and nobody else's, and one that waits for its slot is nobody's
yet (`PreparedInv`); the reference count is the number of these owners
(`OwnersInv`).  The slot taken next is idle because the call has waited for it.
That the batches fit the ring is the pigeonhole principle.

**Only model-checked.**
 - Liveness under fairness (`queue_safe`, `surfaces`): beyond the prover.
 - `CmThreads`: the counts with several threads.
 - What is computed by folds or recursion over data, for which induction is
   beyond the prover: `CmThreadSpace`, `HalHints` and `KernelPrologue`, and, of
   `HalSubmit`, `EveryArgumentReadsItsSurface`, `CommandsNameTheirBuffers` and
   `KernelsWaitForTheirVectors`.

## 5. Not modelled

 - `GetStatus` without the queue lock against a call that holds it: the lists
   themselves are then undefined, and what a model would show is its own choice.
 - The free pool of list nodes (`cm_basic_list.cpp`): a sequence is what its
   callers see.
 - The parser of the program file, but for what a kernel needs of it.
 - Samplers, AVS tables, fields of commands that are neither an address nor a
   choice: data without control.
 - Debugger, tracing, configuration: input and output only.
 - Copies between CPU and surfaces, formats, pitches.
 - GPU hangs and the reset of the context, which the code leaves to the kernel.

## 6. Plan

The modules of the inventory are written, and their invariants proved where no
induction over data is needed.  What is left are the operators of
`DispatchOrder` and `HalHints` that are no folds, as lemmas.
