--------------------------- MODULE KernelPrologue ---------------------------
(***************************************************************************)
(* How the arguments of a kernel get to its threads (cm_kernel.cpp,        *)
(* cm_mov_inst.h, the CURBE of hal_cm.cpp).                                *)
(*                                                                         *)
(* The compiler gives each argument an offset in the registers of a        *)
(* thread.  The hardware delivers one buffer to all threads and another to *)
(* each, so as soon as a task has several threads the arguments are packed *)
(* anew, and moves in front of the kernel put each where it was compiled   *)
(* to.  The HAL keeps a loaded kernel, moves and all, for as long as the   *)
(* upper half of its id stays the same.                                    *)
(*                                                                         *)
(* Data that waits in the queue is CmKernelData's; the adjustment of the   *)
(* scoreboard that a hint adds to the moves, kernels without CURBE and     *)
(* indirect payloads are left out.                                         *)
(***************************************************************************)
EXTENDS Integers, Sequences, FiniteSets, FiniteSetsExt, SequencesExt

CONSTANTS
    Layouts,      \* the arguments of the kernels: sequences of records
    ThreadCounts,
    MaxPrologues  \* bound: names of the prologue

ASSUME KernelPrologueAssumption ==
    /\ ThreadCounts \subseteq Nat \ {0}
    /\ MaxPrologues \in Nat

VARIABLES
    compiled,        \* offset, size and kind of each argument
    args,            \* unitCount, zero without a value, and bIsSet of each
    threadCount,     \* m_ThreadCount
    lastThreadCount, \* m_LastThreadCount
    prologue,        \* m_Id >> 48
    loaded,          \* the loaded kernel with that prologue: its moves
    kinds,           \* what a careful caller keeps: see Careful
    ran              \* the task of the last call: its moves and its data

vars == <<compiled, args, threadCount, lastThreadCount, prologue, loaded, kinds, ran>>

GRF == 32
PAYLOAD_OFFSET == 32
R64_OFFSET == 32 * 64

RoundUp(x, unit) == ((x + unit - 1) \div unit) * unit

NoTask == [kind |-> "none"]
NoKernel == [name |-> -1]
Unset == [count |-> 0, set |-> FALSE]

Init ==
    /\ compiled \in Layouts
    /\ args = [i \in DOMAIN compiled |-> Unset]
    /\ threadCount = 0 /\ lastThreadCount = 0
    /\ prologue = 0
    /\ loaded = NoKernel
    /\ kinds = {}
    /\ ran = NoTask

-----------------------------------------------------------------------------
(***************************************************************************)
(* Thread counts and arguments.                                            *)
(***************************************************************************)
\* Another count than before forgets the arguments.
SetThreadCount(n) ==
    /\ n # threadCount
    /\ threadCount' = n
    /\ args' = IF threadCount = 0 THEN args ELSE [i \in DOMAIN args |-> Unset]
    /\ ran' = NoTask
    /\ UNCHANGED <<compiled, lastThreadCount, prologue, loaded, kinds>>

\* SetArgsInternal: an argument that has a value for another number of threads
\* keeps it, and counts as not set.
SetTo(i, count) ==
    args' = [args EXCEPT ![i] = IF @.count \in {0, count} THEN [count |-> count, set |-> TRUE]
                                ELSE [@ EXCEPT !.set = FALSE]]

SetKernelArg(i) ==
    /\ SetTo(i, 1)
    /\ ran' = NoTask
    /\ UNCHANGED <<compiled, threadCount, lastThreadCount, prologue, loaded, kinds>>

SetThreadArg(i) ==
    /\ threadCount > 0
    /\ SetTo(i, threadCount)
    /\ ran' = NoTask
    /\ UNCHANGED <<compiled, threadCount, lastThreadCount, prologue, loaded, kinds>>

-----------------------------------------------------------------------------
(***************************************************************************)
(* Pieces: an array of surfaces is one argument for each surface.          *)
(***************************************************************************)
PiecesOf(i) ==
    LET a == compiled[i]
        whole == [arg |-> i, first |-> 0, size |-> a.size,
                  offset |-> a.offset, count |-> args[i].count]
    IN IF a.kind = "surfaces"
       THEN [k \in 1 .. a.size \div 4 |->
               [whole EXCEPT !.first = 4 * (k - 1), !.size = 4, !.offset = @ + 4 * (k - 1)]]
       ELSE <<whole>>

TempArgs == FlattenSeq([i \in DOMAIN compiled |-> PiecesOf(i)])

\* Partition and QuickSort: no two start at one offset.
SortedPieces == SortSeq(TempArgs, LAMBDA p, q : p.offset < q.offset)

IsKernelArg(p) == p.count = 1

-----------------------------------------------------------------------------
(***************************************************************************)
(* CreateMovInstructions, part one: where the pieces travel.  What all     *)
(* threads share keeps its place until a piece comes that each thread has  *)
(* of its own; then it follows at the next dword.  What a thread has of    *)
(* its own begins at a register of its own.                                *)
(***************************************************************************)
BeforeThreadArgs(ps, j) == \A i \in 1 .. j : IsKernelArg(ps[i])

KernelArgAt(ps, j, end) ==
    IF BeforeThreadArgs(ps, j) THEN ps[j].offset ELSE RoundUp(end, 4)

\* Where the shared pieces among the first j end.
KernelArgEnd(ps) ==
    LET end[j \in 0 .. Len(ps)] ==
          IF j = 0 THEN PAYLOAD_OFFSET
          ELSE IF IsKernelArg(ps[j]) THEN KernelArgAt(ps, j, end[j - 1]) + ps[j].size
          ELSE end[j - 1]
    IN end

ThreadArgStart(ps) == RoundUp(KernelArgEnd(ps)[Len(ps)], GRF)

\* Where the threads' own among the first j end.
ThreadArgEnd(ps) ==
    LET end[j \in 0 .. Len(ps)] ==
          IF j = 0 THEN ThreadArgStart(ps)
          ELSE IF IsKernelArg(ps[j]) THEN end[j - 1]
          ELSE RoundUp(end[j - 1] + ps[j].size, 4)
    IN end

PackedAt(ps, j) ==
    IF IsKernelArg(ps[j]) THEN KernelArgAt(ps, j, KernelArgEnd(ps)[j - 1])
    ELSE ThreadArgEnd(ps)[j - 1]

-----------------------------------------------------------------------------
(***************************************************************************)
(* MovInst_RT::CreateMoves: moves of a power of two bytes that stay within *)
(* a register of the destination.  A move whose source goes on in the next *)
(* register is followed by others for that part.                           *)
(***************************************************************************)
\* CreateSingleMove: one register, or a power of two less.
MoveSizes == {1, 2, 4, 8, 16, 32}

LargestMove(n) == Max({size \in MoveSizes : size <= n})

RECURSIVE CreateMoves(_, _, _)
CreateMoves(dst, src, size) ==
    IF size = 0 THEN <<>>
    ELSE LET n == LargestMove(Min({size, GRF - (dst % GRF)}))
             lastRegister == ((src + n - 1) \div GRF) * GRF
             beyond == IF lastRegister > src THEN src + n - lastRegister ELSE 0
         IN <<[dst |-> dst, src |-> src, size |-> n]>>
              \o CreateMoves(dst + n - beyond, lastRegister, beyond)
              \o CreateMoves(dst + n, src + n, size - n)

\* Part two: all that travels is saved from R64 on, then what does not travel
\* where it belongs is put there.
CreateMovInstructions ==
    LET ps == SortedPieces
        Back(j) == IF BeforeThreadArgs(ps, j) THEN <<>>
                   ELSE CreateMoves(ps[j].offset,
                                    R64_OFFSET + PackedAt(ps, j) - PAYLOAD_OFFSET, ps[j].size)
    IN IF threadCount <= 1 THEN <<>>
       ELSE CreateMoves(R64_OFFSET, PAYLOAD_OFFSET,
                        RoundUp(ThreadArgEnd(ps)[Len(ps)], GRF) - PAYLOAD_OFFSET)
              \o FlattenSeq([j \in DOMAIN ps |-> Back(j)])

\* The pieces as they travel.
Travelling ==
    LET ps == SortedPieces
    IN {[ps[j] EXCEPT !.offset = IF threadCount > 1 THEN PackedAt(ps, j) ELSE @]
          : j \in DOMAIN ps}

-----------------------------------------------------------------------------
(***************************************************************************)
(* CreateKernelDataInternal.                                               *)
(***************************************************************************)
CurbeEnd(ps) == Max({0} \cup {p.offset - PAYLOAD_OFFSET + p.size : p \in {q \in ps : IsKernelArg(q)}})

\* The CURBE, and the payload of each thread behind it.
MediaData ==
    LET ps == Travelling
        curbe == RoundUp(CurbeEnd(ps), GRF)
        own == {p \in ps : ~IsKernelArg(p)}
        bottom == Min({1024} \cup {p.offset - PAYLOAD_OFFSET : p \in own})
        top == Max({p.offset - PAYLOAD_OFFSET + p.size : p \in own})
    IN [kind    |-> "media",
        curbe   |-> curbe,
        payload |-> IF own = {} THEN 0 ELSE RoundUp(top - bottom, 4),
        pieces  |-> {[p EXCEPT !.offset = @ - PAYLOAD_OFFSET - (IF IsKernelArg(p) THEN 0 ELSE curbe)]
                       : p \in ps}]

\* Group and thread space sizes and the two local ids follow the arguments;
\* the ids are what each thread of the group has of its own.
IMPLICIT_ARGS == 6

PerThreadCurbe(size) == IF size % GRF = 4 THEN 2 * GRF ELSE GRF

GroupData ==
    LET ps == Travelling
        ids == RoundUp(CurbeEnd(ps), 4)
        size == ids + 4 * IMPLICIT_ARGS
        own == PerThreadCurbe(size)
    IN [kind   |-> "group",
        idX    |-> ids + 4 * (IMPLICIT_ARGS - 2),
        idY    |-> ids + 4 * (IMPLICIT_ARGS - 1),
        own    |-> own,
        shared |-> RoundUp(size, GRF) - own,
        pieces |-> {[p EXCEPT !.offset = @ - PAYLOAD_OFFSET] : p \in ps}]

\* The prologue has a new name when one thread become several or several one.
MutIsPrologueDirty == FALSE

IsPrologueDirty ==
    /\ threadCount # lastThreadCount /\ lastThreadCount # 0
    /\ threadCount = 1 \/ lastThreadCount = 1

\* HalCm_LoadKernel: a kernel that is loaded is loaded.  No task asks for an
\* earlier name again.
Load(name, moves) ==
    loaded' = IF loaded.name = name THEN loaded ELSE [name |-> name, moves |-> moves]

AllSet == \A i \in DOMAIN args : args[i].set

PerThread == {i \in DOMAIN args : args[i].count > 1}

\* Between tasks of several threads or in groups the caller keeps which
\* arguments are the threads' own: the prologue keeps its name then, whatever
\* the thread counts are.  After a task of one thread all is free.
Careful == kinds \subseteq {PerThread}

Enqueue ==
    /\ threadCount > 0 /\ AllSet /\ Careful
    /\ prologue < MaxPrologues
    /\ lastThreadCount' = threadCount
    /\ prologue' = IF IsPrologueDirty THEN prologue + 1 ELSE prologue
    /\ Load(prologue', CreateMovInstructions)
    /\ ran' = [moves |-> loaded'.moves] @@ MediaData
    /\ kinds' = IF threadCount = 1 THEN {} ELSE {PerThread}
    /\ UNCHANGED <<compiled, args, threadCount>>

\* The threads of a group have no arguments of their own.
EnqueueWithGroup ==
    /\ AllSet /\ PerThread = {} /\ Careful
    /\ Load(prologue, CreateMovInstructions)
    /\ ran' = [moves |-> loaded'.moves] @@ GroupData
    /\ kinds' = {PerThread}
    /\ UNCHANGED <<compiled, args, threadCount, lastThreadCount, prologue>>

\* HalCm_UnloadKernel makes room for other kernels.
FreeKernel ==
    /\ loaded' = NoKernel
    /\ ran' = NoTask
    /\ UNCHANGED <<compiled, args, threadCount, lastThreadCount, prologue, kinds>>

Next ==
    \/ \E n \in ThreadCounts : SetThreadCount(n)
    \/ \E i \in DOMAIN compiled : SetKernelArg(i) \/ SetThreadArg(i)
    \/ Enqueue \/ EnqueueWithGroup
    \/ FreeKernel

Spec == Init /\ [][Next]_vars

-----------------------------------------------------------------------------
(***************************************************************************)
(* What a thread finds in its registers.  Its header is R0; the CURBE      *)
(* follows at R1 and the payload behind the CURBE.                         *)
(***************************************************************************)
Nothing == <<0, 0>>

Covers(p, at) == at >= p.offset /\ at < p.offset + p.size

\* The argument and the byte of it that are at a byte of a buffer.
ByteAt(ps, at) ==
    LET here == {p \in ps : Covers(p, at)}
    IN IF Cardinality(here) # 1 THEN Nothing
       ELSE LET p == CHOOSE q \in here : TRUE
            IN <<p.arg, p.first + at - p.offset>>

Delivered(r) ==
    LET at == r - PAYLOAD_OFFSET
        shared == {p \in ran.pieces : IsKernelArg(p)}
    IN CASE at < 0 -> Nothing
         [] at >= 0 /\ ran.kind = "group" ->
              IF at < ran.shared + ran.own THEN ByteAt(ran.pieces, at) ELSE Nothing
         [] at >= 0 /\ ran.kind = "media" /\ at < ran.curbe -> ByteAt(shared, at)
         [] OTHER -> IF at - ran.curbe < ran.payload
                     THEN ByteAt(ran.pieces \ shared, at - ran.curbe) ELSE Nothing

\* The register byte whose first content is at r when the moves are done.  A
\* move reads its first register only.
Origin(r) ==
    FoldRight(LAMBDA m, x :
                LET s == x - m.dst + m.src
                IN IF x < m.dst \/ x >= m.dst + m.size THEN x
                   ELSE IF s \div GRF = m.src \div GRF THEN s ELSE 0,
              ran.moves, r)

\* When its prologue is done each thread finds every byte of every argument
\* where the kernel was compiled to read it, whichever arguments are the
\* thread's own, and whether the prologue was loaded for this task or kept
\* from an earlier one.
EveryArgumentArrives ==
    ran.kind # "none" =>
      \A i \in DOMAIN compiled : \A k \in 0 .. compiled[i].size - 1 :
        Delivered(Origin(compiled[i].offset + k)) = <<i, k>>

\* HalCm_SetupStatesForKernel writes both ids into a thread's own part of the
\* CURBE, behind the arguments and not in what all threads share.
GroupThreadsKnowTheirIds ==
    ran.kind = "group" =>
      \A id \in {ran.idX, ran.idY} :
        /\ id >= ran.shared /\ id + 4 <= ran.shared + ran.own
        /\ \A p \in ran.pieces : p.offset + p.size <= id

\* A thread finds all it was given: its arguments where it reads them and, in
\* a group, its ids behind them.
ThreadsFindTheirInputs == EveryArgumentArrives /\ GroupThreadsKnowTheirIds
=============================================================================
