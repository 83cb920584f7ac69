------------------------------ MODULE HalHeapsInv ------------------------------
(***************************************************************************)
(* The inductive invariants of HalHeaps.  TaskInv holds whatever happens   *)
(* to the heap; HeapInv as long as CmDeleteOldestKernel has not taken an   *)
(* entry behind the last one for a free neighbour (heap.phantom).          *)
(***************************************************************************)
EXTENDS HalHeaps

\* The task of the call in progress has no slot yet.
TaskInv ==
    call # NoCall => /\ {"pc", "task"} \subseteq DOMAIN call
                     /\ call.task \in Tasks
                     /\ ~Owned(call.task) /\ call.task \notin completed

-----------------------------------------------------------------------------
(***************************************************************************)
(* The table of the instruction heap.                                      *)
(***************************************************************************)
HeapFields == {"alloc", "total", "n", "used", "phantom"}

EntryType == [kernel : Kernels \cup {NoKernel}, offset : Int, size : Nat,
              sync : Int, kid : MediaIds \cup {NoEntry}]

HeapType ==
    [alloc : [Entries -> EntryType], total : [Entries -> Nat],
     n : 1 .. MaxEntries, used : Seq(Kernels), phantom : BOOLEAN]

\* A region is as large as its kernel at least.
Sized(h) ==
    \A i \in Entries : i < h.n =>
        /\ h.alloc[i].size <= h.total[i]
        /\ h.alloc[i].size = IF bIsFree(h, i) THEN 0 ELSE Size[h.alloc[i].kernel]

\* The regions lie in the heap, each behind the one before.
Tiled(h) ==
    /\ 0 <= h.alloc[0].offset
    /\ \A i \in Entries : i + 1 < h.n =>
         h.alloc[i].offset + h.total[i] = h.alloc[i + 1].offset
    /\ h.alloc[h.n - 1].offset + h.total[h.n - 1] <= HeapSize

\* A kernel is loaded once, and has its place in the order of use.
Known(h) ==
    /\ \A i \in Used(h) : \E p \in DOMAIN h.used : h.used[p] = h.alloc[i].kernel
    /\ \A i, j \in Used(h) : h.alloc[i].kernel = h.alloc[j].kernel => i = j

TableInv(h) == h \in HeapType /\ Sized(h) /\ Tiled(h) /\ Known(h)

\* The kernel in entry i of h is in the memory m, whole.
Holds(m, h, i) ==
    \A s \in 0 .. Size[h.alloc[i].kernel] - 1 :
        m[h.alloc[i].offset + s] = h.alloc[i].kernel

-----------------------------------------------------------------------------
(***************************************************************************)
(* The call in progress.                                                   *)
(***************************************************************************)
\* It has loaded the first kernels of its task, and given an interface
\* descriptor to each.
CallInv ==
    call # NoCall =>
      /\ {"pc", "kernels", "ids", "allocation"} \subseteq DOMAIN call
      /\ call.kernels \in Seq(Kernels) /\ call.ids \in Seq(MediaIds)
      /\ call.allocation \in [MediaIds -> Entries \cup {NoEntry}]
      /\ Len(call.kernels) <= Cardinality(MediaIds)
      /\ IF call.pc = "submit" THEN Len(call.ids) = Len(call.kernels)
                               ELSE Len(call.ids) < Len(call.kernels)
      /\ Cardinality({d \in MediaIds : call.allocation[d] # NoEntry})
           <= Len(call.ids)

HeapInv ==
    /\ DOMAIN heap = HeapFields /\ heap.phantom \in BOOLEAN
    /\ nextTag \in Nat
    /\ ~heap.phantom =>
         /\ TableInv(heap)
         /\ mem \in [0 .. HeapSize - 1 -> Kernels \cup {NoKernel}]
         /\ \A i \in Used(heap) : Holds(mem, heap, i)
         /\ CallInv

-----------------------------------------------------------------------------
(***************************************************************************)
(* The sync tags: which batches the GPU has still to begin.                *)
(***************************************************************************)
CallFields == {"pc", "task", "kernels", "walker", "dirty", "mask", "media",
               "ids", "allocation", "buffer", "write", "doubt"}
JobFields == {"kernels", "media", "buffer", "tag", "ids", "doubt"}

JobOf(n) == job[ring[n].task]

\* Every batch of the ring has a job, and the tags rise with the ring; the GPU
\* has written that of the first batch if it has begun it, and none behind.
TagInv ==
    /\ gpuTag \in Nat /\ nextTag \in Nat /\ gpuTag <= nextTag
    /\ DOMAIN job = Tasks
    /\ \A t \in Tasks : job[t] # NoCall =>
         /\ DOMAIN job[t] = JobFields
         /\ job[t].tag \in Nat /\ job[t].tag <= nextTag
         /\ \E n \in DOMAIN ring : ring[n].task = t
    /\ \A n \in DOMAIN ring :
         /\ JobOf(n) # NoCall
         /\ IF sync[ring[n].id] = "reset" THEN JobOf(n).tag > gpuTag
                                          ELSE n = 1 /\ JobOf(n).tag <= gpuTag
    /\ \A m, n \in DOMAIN ring : m < n => JobOf(m).tag < JobOf(n).tag

\* A call has looked at the GPU's tag before it asks what is free.
FreshInv ==
    call # NoCall => /\ DOMAIN call = CallFields /\ call.pc # "idle"
                     /\ FreeIds # {}
                     /\ call.pc # "media" => syncTag \in Int /\ syncTag < gpuTag

-----------------------------------------------------------------------------
(***************************************************************************)
(* The media states.                                                       *)
(***************************************************************************)
MediaFields == {"busy", "tag", "offset"}

\* The call has a media state.
Taken == call.pc \in {"buffer", "lock", "kernel", "submit"}

\* A batch the GPU has still to begin has a busy state, with the tag before the
\* one it writes.
RingStates ==
    \A n \in DOMAIN ring : sync[ring[n].id] = "reset" =>
      /\ JobOf(n).media \in States
      /\ media[JobOf(n).media].busy
      /\ media[JobOf(n).media].tag + 1 = JobOf(n).tag

\* A state has the tag it was taken with, that of the call in progress.
MediaInv ==
    /\ nextMedia \in States /\ DOMAIN media = States
    /\ \A m \in States : /\ DOMAIN media[m] = MediaFields
                         /\ media[m].busy \in BOOLEAN
                         /\ media[m].tag \in Nat /\ media[m].tag <= nextTag
                         /\ DOMAIN media[m].offset = MediaIds
    /\ Taken => call.media \in States /\ media[call.media].tag = nextTag
    /\ RingStates

\* How many states have been taken since m was, and how many of the calls that
\* took them have ended.
Since(m, next) == IF m < next THEN next - 1 - m ELSE next + MaxTasks - m
Ended(m, next, taken) == IF taken THEN Since(m, next) ELSE Since(m, next) + 1

\* The batches that write a larger tag.
Later(jobs, tag) == {t \in Tasks : jobs[t] # NoCall /\ jobs[t].tag > tag}

\* Every call that has had a state since m was taken is in the ring, or it has
\* failed; if the tag of a busy state is still to be taken they have all failed,
\* and two before them, for whose end the call waited that took it.
TurnInv ==
    /\ fails \in Nat
    /\ call # NoCall /\ call.pc = "wait" => fails >= 2
    /\ \A m \in States :
         (media[m].busy \/ (Taken /\ m = call.media)) /\ media[m].tag >= gpuTag
           => Ended(m, nextMedia, Taken) <= Cardinality(Later(job, media[m].tag)) + fails
    /\ \A m \in States :
         media[m].busy /\ media[m].tag = nextTag => Ended(m, nextMedia, Taken) + 2 <= fails
    /\ Taken => Since(call.media, nextMedia) = 0

TurnsInv == TagInv /\ FreshInv /\ MediaInv /\ TurnInv

-----------------------------------------------------------------------------
(***************************************************************************)
(* What a batch runs: ids are the descriptors that were given to the       *)
(* kernels ks.                                                             *)
(***************************************************************************)
BufferFields == {"size", "busy", "tag", "key", "reused", "latest", "locked",
                 "ids", "doubt"}

\* The commands a call is writing are not whole yet.
Writing(b) == Taken /\ call.write /\ call.buffer = b

\* A call has given no descriptor before it is at its kernels, and only tasks
\* without walker have a buffer.
StartInv ==
    /\ DOMAIN buffers = States
    /\ \A b \in States : /\ DOMAIN buffers[b] = BufferFields
                         /\ buffers[b].key \in Seq(Kernels)
                         /\ buffers[b].ids \in Seq(MediaIds)
    /\ call # NoCall =>
         /\ {call.walker, call.write} \subseteq BOOLEAN
         /\ call.pc \in {"media", "wait", "buffer", "lock"} =>
              call.ids = <<>> /\ \A d \in MediaIds : call.allocation[d] = NoEntry
         /\ call.pc \in {"media", "wait", "buffer"} => ~call.write
         /\ call.pc \in {"buffer", "lock"} \/ call.write => ~call.walker

\* A kernel that is loaded prefers a descriptor.
KidInv == \A i \in Used(heap) : heap.alloc[i].kid # NoEntry

\* Kernel k is loaded and prefers the descriptor d.
Prefers(h, k, d) == \E i \in Used(h) : h.alloc[i].kernel = k /\ h.alloc[i].kid = d

\* The descriptor of kernel n is the one it prefers, or if another kernel has
\* that the first free one.
Assigned(ids, ks, n, d) ==
    IF \A m \in 1 .. n - 1 : ids[m] = d => ks[m] = ks[n]
      THEN ids[n] = d
      ELSE ids[n] = Min({e \in MediaIds : \A m \in 1 .. n - 1 : ids[m] # e})

\* A call on the heap h gives these descriptors.
AsAssigned(h, ids, ks) ==
    \A n \in DOMAIN ids : \E d \in MediaIds :
        Prefers(h, ks[n], d) /\ Assigned(ids, ks, n, d)

\* Kernel k is at offset o, and no call may unload it before the GPU has written
\* a tag larger than tag.
LoadedUntil(h, k, o, tag) ==
    \E i \in Used(h) : /\ h.alloc[i].kernel = k /\ h.alloc[i].offset = o
                       /\ h.alloc[i].sync >= tag

\* The descriptors of the call lead to its kernels.
CallRuns ==
    Taken /\ call.doubt = {} =>
      /\ \A n \in DOMAIN call.ids :
           LET i == call.allocation[call.ids[n]] IN
           /\ i \in Used(heap) /\ heap.alloc[i].kernel = call.kernels[n]
           /\ heap.alloc[i].offset = media[call.media].offset[call.ids[n]]
           /\ heap.alloc[i].sync >= nextTag
      /\ \A d \in MediaIds : call.allocation[d] # NoEntry =>
           \E n \in DOMAIN call.ids : call.ids[n] = d
      /\ AsAssigned(heap, call.ids, call.kernels)

\* The call writes its own commands, or finds those it would write.
CallWrites ==
    Taken /\ ~call.walker /\ call.pc # "buffer" =>
      LET b == buffers[call.buffer] IN
      /\ call.buffer \in States
      /\ call.write => /\ b.ids = call.ids
                       /\ b.doubt = {} => b.key = call.kernels
      /\ ~call.write /\ call.doubt = {} =>
           /\ b.key = call.kernels /\ b.doubt = {} /\ b.size # 0
           /\ \A n \in DOMAIN call.ids : b.ids[n] = call.ids[n]

\* The commands of a buffer name the descriptors every call will give.
BufferInv ==
    \A b \in States :
      buffers[b].size # 0 /\ buffers[b].doubt = {} /\ ~Writing(b) =>
        /\ Len(buffers[b].ids) = Len(buffers[b].key)
        /\ AsAssigned(heap, buffers[b].ids, buffers[b].key)

\* The descriptors of a batch the GPU has still to begin lead to its kernels.
BatchRuns ==
    \A n \in DOMAIN ring :
      LET j == JobOf(n) IN
      sync[ring[n].id] = "reset" /\ j.doubt = {} =>
        /\ j.kernels \in Seq(Kernels) /\ j.ids \in Seq(MediaIds)
        /\ Len(j.ids) = Len(j.kernels)
        /\ \A m \in DOMAIN j.ids :
             LoadedUntil(heap, j.kernels[m], media[j.media].offset[j.ids[m]], j.tag - 1)

RunInv ==
    ~heap.phantom =>
      StartInv /\ KidInv /\ CallRuns /\ CallWrites /\ BufferInv /\ BatchRuns
=============================================================================
