------------------------------ MODULE KernelHeap ------------------------------
(***************************************************************************)
(* The instruction heap of the HAL: the table pKernelAllocation of the     *)
(* general state heap with the sizes pTotalKernelSize the CM layer keeps   *)
(* beside it (hal_cm.cpp).                                                 *)
(*                                                                         *)
(* Entries 0 .. n-1 cut the heap in regions, in the order of their         *)
(* offsets.  Loading a kernel splits a free region as long as the table    *)
(* has room for one more entry; deleting one joins it with its free        *)
(* neighbours.  Sizes and offsets count blocks of 64 bytes, to which the   *)
(* code aligns every region, and offsets are relative to dwKernelBase.     *)
(***************************************************************************)
EXTENDS Integers, Sequences, SequencesExt, FiniteSetsExt

CONSTANTS
    Kernels,     \* kernels, told apart by the upper half of uiKernelId
    Size,        \* kernel -> iKernelBinarySize, in blocks
    HeapSize,    \* CM_FIXED_GSH_SPACE, in blocks
    MaxEntries,  \* CM_MAX_GSH_KERNEL_ENTRIES
    NoKernel     \* dwFlags = GENHW_KERNEL_ALLOCATION_FREE

ASSUME KernelsAssumption == NoKernel \notin Kernels
ASSUME SizeAssumption == Size \in [Kernels -> Nat \ {0}]
ASSUME HeapAssumption == HeapSize \in Nat /\ MaxEntries \in Nat \ {0}

Entries == 0 .. MaxEntries - 1

NoEntry == -1

\* A zeroed allocation: free, at the base of the heap.
FreshEntry == [kernel |-> NoKernel, offset |-> 0, size |-> 0,
               sync |-> 0, kid |-> NoEntry]

\* One entry holds the whole heap; those behind it are zero.  used has the
\* loaded kernels in the order their dwCount gives them.  phantom is history: an
\* entry behind the last one was taken for a free neighbour.
InitHeap ==
    [alloc |-> [i \in Entries |-> FreshEntry],
     total |-> [i \in Entries |-> IF i = 0 THEN HeapSize ELSE 0],
     n |-> 1, used |-> <<>>, phantom |-> FALSE]

bIsFree(h, i) == h.alloc[i].kernel = NoKernel

LoadedAt(h, k) == {i \in Entries : i < h.n /\ h.alloc[i].kernel = k}

FreeSlots(h, k) ==
    {i \in Entries : i < h.n /\ bIsFree(h, i) /\ h.total[i] >= Size[k]}

CmSearchFreeSlotSize(h, k) ==
    IF FreeSlots(h, k) = {} THEN NoEntry ELSE Min(FreeSlots(h, k))

\* Where a kernel is in the order of use: dwCount counts the uses of all.
Place(h, k) == CHOOSE n \in DOMAIN h.used : h.used[n] = k

-----------------------------------------------------------------------------
\* CmLoadKernel with a kernel, and with NULL.
CmLoadKernel(e, k, tag) ==
    [e EXCEPT !.kernel = k, !.size = Size[k], !.sync = tag, !.kid = NoEntry]

CmFreeKernel(e) ==
    [e EXCEPT !.kernel = NoKernel, !.size = 0, !.sync = 0, !.kid = NoEntry]

\* Entry slot of f, then new, then the entries of f from slot + 1 on.
InsertAfter(f, slot, last, here, new) ==
    [i \in Entries |-> CASE i = slot -> here
                         [] i = slot + 1 -> new
                         [] slot + 1 < i /\ i <= last -> f[i - 1]
                         [] OTHER -> f[i]]

\* The remainder of a split region is placed where the region began.
MutAddToFreeSlot(h, slot, k, tag) ==
    LET e == h.alloc[slot] IN
    [h EXCEPT !.alloc = InsertAfter(@, slot, h.n,
                                    CmLoadKernel(e, k, tag),
                                    CmFreeKernel(e)),
              !.total = InsertAfter(@, slot, h.n, Size[k], @[slot] - Size[k]),
              !.n = @ + 1, !.used = Append(@, k)]

\* Splits the free region, unless the table is full or the sizes are equal
\* (a free entry has size 0, so they are not).
CmAddCurrentKerenelToFreeSlot(h, slot, k, tag) ==
    LET e == h.alloc[slot]
        loaded == CmLoadKernel(e, k, tag)
        rest == [CmFreeKernel(e) EXCEPT !.offset = e.offset + Size[k]]
        split == [h EXCEPT
            !.alloc = InsertAfter(@, slot, h.n, loaded, rest),
            !.total = InsertAfter(@, slot, h.n, Size[k], @[slot] - Size[k]),
            !.n = @ + 1, !.used = Append(@, k)]
        whole == [h EXCEPT !.alloc[slot] = loaded, !.used = Append(@, k)]
    IN CASE h.n < MaxEntries /\ e.size # Size[k] -> split
         [] h.n < MaxEntries /\ e.size = Size[k] ->
                [whole EXCEPT !.total[slot] = Size[k]]
         [] OTHER -> whole

\* The touched kernel keeps the tag of the task that used it before.
MutTouchKernel(h, i, tag) ==
    LET k == h.alloc[i].kernel IN
    [h EXCEPT !.used = Append(RemoveAt(@, Place(h, k)), k)]

HalCm_TouchKernel(h, i, tag) ==
    LET k == h.alloc[i].kernel IN
    [h EXCEPT !.used = Append(RemoveAt(@, Place(h, k)), k), !.alloc[i].sync = tag]

-----------------------------------------------------------------------------
\* Kernels of tasks the GPU is known to have begun.
Unloadable(h, syncTag) ==
    {i \in Entries : /\ i < h.n /\ ~bIsFree(h, i)
                     /\ syncTag - h.alloc[i].sync >= 0}

Oldest(h, S) ==
    LET Age(i) == Place(h, h.alloc[i].kernel) IN
    CHOOSE i \in S : \A j \in S : Age(i) <= Age(j)

\* What the code reads as entry MaxEntries when it closes a gap in a full
\* table: memory of the first media state, whose iCurbeOffset lies where
\* dwFlags would and is a multiple of 16, so that the entry looks free; its
\* size is the GENOS_GPU_CONTEXT behind pTotalKernelSize, RENDER = 0.
EntryAt(f, i, beyond) == IF i \in Entries THEN f[i] ELSE beyond

\* The loop that moves the entries behind a gap, up to the last one, by d.
CloseGap(f, from, last, d, beyond) ==
    [i \in Entries |-> IF from <= i /\ i <= last
                         THEN EntryAt(f, i + d, beyond) ELSE f[i]]

\* What the region before i does not use goes over to region i.
TakeRemainder(h, i) ==
    LET shift == h.total[i - 1] - h.alloc[i - 1].size IN
    IF i = 0 THEN h
    ELSE [h EXCEPT !.total[i - 1] = @ - shift, !.total[i] = @ + shift,
                   !.alloc[i].offset = @ - shift]

\* CmDeleteOldestKernel from HalCm_UnloadKernel on: frees entry i and joins it
\* with its free neighbours.  The neighbour behind is looked at even if it lies
\* behind the last entry.
CmDeleteOldestKernel(h, i) ==
    LET u == [h EXCEPT !.alloc[i] = CmFreeKernel(@),
                       !.used = RemoveAt(@, Place(h, h.alloc[i].kernel))]
        before == i > 0 /\ bIsFree(h, i - 1)
        behind == i < MaxEntries - 1 /\ bIsFree(h, i + 1)
        joined == [u EXCEPT !.phantom = @ \/ (behind /\ i + 1 >= h.n)]
    IN CASE before /\ behind ->
              [joined EXCEPT
                !.total = CloseGap([h.total EXCEPT ![i - 1] = @ + h.total[i] + h.total[i + 1]],
                                   i, h.n - 3, 2, 0),
                !.alloc = CloseGap(@, i, h.n - 3, 2, FreshEntry),
                !.n = @ - 2]
         [] before /\ ~behind ->
              [joined EXCEPT
                !.total = CloseGap([h.total EXCEPT ![i - 1] = @ + h.total[i]],
                                   i, h.n - 2, 1, 0),
                !.alloc = CloseGap(@, i, h.n - 2, 1, FreshEntry),
                !.n = @ - 1]
         [] ~before /\ behind ->
              LET t == TakeRemainder([joined EXCEPT !.total[i] = @ + h.total[i + 1]], i) IN
              [t EXCEPT
                !.total = CloseGap(@, i + 1, h.n - 1, 1, 0),
                !.alloc = CloseGap(@, i + 1, h.n - 1, 1, FreshEntry),
                !.n = @ - 1]
         [] OTHER -> TakeRemainder(joined, i)

-----------------------------------------------------------------------------
Used(h) == {i \in Entries : i < h.n /\ ~bIsFree(h, i)}

=============================================================================
