---------------------------- MODULE CmThreadSpace ----------------------------
(***************************************************************************)
(* A thread space between the calls that shape it and the Enqueues that    *)
(* use it as the space of a task (cm_thread_space.cpp): which patterns are *)
(* selected, which pattern the board was last sorted for, and in which     *)
(* order the threads of a task are launched in the end, by media objects   *)
(* in the order of the board or by the media walker (hal_cm.cpp).          *)
(*                                                                         *)
(* The code sorts again only when the selected pattern is not the one of   *)
(* the last sort.  With Careful the caller keeps the rules under which     *)
(* that is enough:                                                         *)
(*   - the block size of 26ZI is set before the board is sorted for 26ZI,  *)
(*     and VVERTICAL26_HHORIZONTAL26 has rows of one on a narrow board;    *)
(*   - 26Z is for spaces of even width and height, and is not selected     *)
(*     again while the board is sorted for it: each selection has a new,   *)
(*     empty list of waves, which only a sort fills;                       *)
(*   - threads are associated with a pattern to sort them for;             *)
(*   - a kernel with arguments per thread has its threads associated when  *)
(*     a pattern is selected.                                              *)
(***************************************************************************)
EXTENDS DispatchOrder

CONSTANTS
    Boards,        \* sizes <<w, h>>
    Blocks,        \* block sizes <<bw, bh>> of 26ZI
    DefaultBlock,  \* CM_26ZI_BLOCK_WIDTH and _HEIGHT
    MaxWidth,      \* CM_MAX_THREAD_WIDTH
    MaxCalls,      \* bound: calls between Create and the last Enqueue
    Careful        \* the caller keeps the rules above

ASSUME CmThreadSpaceAssumption ==
    /\ \A b \in Boards : b[1] \in 1 .. MaxWidth /\ b[2] >= 1
    /\ DefaultBlock \in Blocks
    /\ \A b \in Blocks : b[1] >= 1 /\ b[2] >= 1
    /\ MaxCalls \in Nat /\ Careful \in BOOLEAN

Patterns == {"NONE", "HORIZONTAL", "VERTICAL", "WAVEFRONT", "WAVEFRONT26",
             "WAVEFRONT26Z", "WAVEFRONT26ZI"}
ZIPatterns == {"VVHV26", "VVHH26", "VV26HH26", "VV1x26HH1x26"}
WalkingPatterns == {"DEFAULT", "HORIZONTAL", "VERTICAL", "WAVEFRONT", "WAVEFRONT26"}

Unsorted == <<>>

VARIABLES
    size,      \* m_Width, m_Height
    selected,  \* m_DependencyPatternType, m_26ZIDispatchPattern, block, m_WalkingPattern
    sorted,    \* m_CurrentDependencyPattern, m_Current26ZIDispatchPattern,
               \* m_pBoardOrderList, m_Wavefront26ZDispatchInfo; block is
               \* history: the block size of the last sort
    associated, dirty,
    launched,  \* how the last task launched its threads
    calls      \* bound

vars == <<size, selected, sorted, associated, dirty, launched, calls>>

W == size[1]
H == size[2]

\* Before the first sort the list is all zeroes: unit 0.
Init ==
    /\ size \in Boards
    /\ selected = [pattern |-> "NONE", zi |-> "VVHV26", block |-> DefaultBlock,
                   walk |-> "DEFAULT"]
    /\ sorted = [pattern |-> "NONE", zi |-> "VVHV26", block |-> DefaultBlock,
                 order |-> Unsorted, waves |-> <<>>]
    /\ associated = FALSE /\ dirty = FALSE
    /\ launched = [by |-> "nothing"]
    /\ calls = 0

Call == calls < MaxCalls /\ calls' = calls + 1

----------------------------------------------------------------------------
\* AssociateThread for all units, with the thread ids in the order of the
\* units.
AssociateThread ==
    /\ Call
    /\ associated' = TRUE /\ dirty' = TRUE
    /\ UNCHANGED <<size, selected, sorted, launched>>

\* The caller's rules for a pattern.
MaySelect(p) ==
    Careful => (p = "WAVEFRONT26Z" =>
                  W % 2 = 0 /\ H % 2 = 0 /\ sorted.pattern # "WAVEFRONT26Z")

\* A new zeroed array for 26Z; m_Wavefront26ZDispatchInfo.numWaves stays.
WavesAfter(p) ==
    IF p = "WAVEFRONT26Z" THEN [n \in DOMAIN sorted.waves |-> 0] ELSE sorted.waves

\* The mutant forgets that the board is sorted for another pattern.
MutSelectThreadDependencyPattern ==
    \E p \in Patterns :
      /\ Call
      /\ p = "NONE" \/ selected.walk = "DEFAULT"
      /\ MaySelect(p)
      /\ selected' = [selected EXCEPT !.pattern = p]
      /\ sorted' = [sorted EXCEPT !.waves = WavesAfter(p)]
      /\ LET units == p \in {"WAVEFRONT26Z", "WAVEFRONT26ZI"} /\ ~ associated IN
           /\ associated' = (associated \/ units)
           /\ dirty' = (dirty \/ units)
      /\ UNCHANGED <<size, launched>>

\* Refused for a space with a walking pattern.  26Z and 26ZI associate the
\* threads of a space that has none.
SelectThreadDependencyPattern ==
    \E p \in Patterns :
      /\ Call
      /\ p = "NONE" \/ selected.walk = "DEFAULT"
      /\ MaySelect(p)
      /\ selected' = [selected EXCEPT !.pattern = p]
      /\ sorted' = [sorted EXCEPT !.waves = WavesAfter(p)]
      /\ LET units == p \in {"WAVEFRONT26Z", "WAVEFRONT26ZI"} /\ ~ associated IN
           /\ associated' = (associated \/ units)
           /\ dirty' = (dirty \/ units \/ p # sorted.pattern)
      /\ UNCHANGED <<size, launched>>

Set26ZIDispatchPattern ==
    \E zi \in ZIPatterns :
      /\ Call
      /\ selected' = [selected EXCEPT !.zi = zi]
      /\ dirty' = (dirty \/ zi # sorted.zi)
      /\ UNCHANGED <<size, sorted, associated, launched>>

Set26ZIMacroBlockSize ==
    \E b \in Blocks :
      /\ Call
      /\ Careful => sorted.pattern # "WAVEFRONT26ZI"
      /\ selected' = [selected EXCEPT !.block = b]
      /\ UNCHANGED <<size, sorted, associated, dirty, launched>>

\* Refused for a space with a dependency pattern.
SelectMediaWalkingPattern ==
    \E p \in WalkingPatterns :
      /\ Call
      /\ selected.pattern = "NONE"
      /\ selected' = [selected EXCEPT !.walk = p]
      /\ UNCHANGED <<size, sorted, associated, dirty, launched>>

----------------------------------------------------------------------------
Order26ZI(zi, b) ==
    CASE zi = "VVHV26" -> Wavefront26ZISeqVVHV26(W, H, b)
      [] zi = "VVHH26" -> Wavefront26ZISeqVVHH26(W, H, b)
      [] zi = "VV26HH26" -> Wavefront26ZISeqVV26HH26(W, H, b)
      [] zi = "VV1x26HH1x26" -> Wavefront26ZISeqVV1x26HH1x26(W, H, b)

\* A shorter list than the board leaves the old entries behind it.
Overwrite(old, new) ==
    [i \in 1 .. W * H |-> IF i \in DOMAIN new THEN new[i]
                          ELSE IF i \in DOMAIN old THEN old[i] ELSE <<0, 0>>]

\* SortThreadSpace: nothing for the pattern of the last sort, and for none.
\* 26Z of an odd size notes the pattern and keeps the list.
Sorted ==
    LET p == selected.pattern
        New(order, waves) ==
          [sorted EXCEPT !.pattern = p, !.order = Overwrite(@, order), !.waves = waves]
    IN CASE p = "NONE" \/ (p = sorted.pattern /\ p # "WAVEFRONT26ZI") -> sorted
         [] p = "WAVEFRONT" -> New(Wavefront45Sequence(W, H), sorted.waves)
         [] p = "WAVEFRONT26" -> New(Wavefront26Sequence(W, H), sorted.waves)
         [] p = "HORIZONTAL" -> New(HorizentalSequence(W, H), sorted.waves)
         [] p = "VERTICAL" -> New(VerticalSequence(W, H), sorted.waves)
         [] p = "WAVEFRONT26Z" ->
              IF W % 2 # 0 \/ H % 2 # 0 THEN [sorted EXCEPT !.pattern = p]
              ELSE LET z == Wavefront26ZSequence(W, H) IN New(z.order, z.waves)
         [] OTHER ->
              IF p = sorted.pattern /\ selected.zi = sorted.zi THEN sorted
              ELSE [New(Order26ZI(selected.zi, selected.block), sorted.waves)
                    EXCEPT !.zi = selected.zi, !.block = selected.block]

\* The pattern the walker is programmed with: a dependency pattern comes
\* before the walking pattern.
WalkPattern ==
    CASE selected.pattern = "NONE" -> selected.walk
      [] OTHER -> selected.pattern

\* What a task launches: the walker if the kernel has no payload and its
\* threads are not associated, else a media object per thread in the order of
\* the board, or of the thread ids when they are not associated; those have
\* no scoreboard.
Launch(order, waves, payload) ==
    IF associated
    THEN [by |-> "media objects", seq |-> order, waves |-> waves,
          pattern |-> selected.pattern, zi |-> sorted'.zi, block |-> selected.block]
    ELSE IF payload
         THEN [by |-> "media objects", seq |-> Raster(W, H), waves |-> <<>>,
               pattern |-> selected.pattern]
         ELSE [by |-> "walker",
               seq |-> WalkerLaunches(WalkerParams(WalkPattern, W, H, W * H, MaxWidth)),
               waves |-> <<>>, pattern |-> WalkPattern]

\* Enqueue of a task with this thread space, and the flush of the task: the
\* board of a space whose threads are associated is sorted with new kernel
\* data, which a dirty space always makes the kernel build (CreateKernelData),
\* then its units are listed in that order (CreateThreadSpaceData).
Enqueue ==
    \E payload, built \in BOOLEAN :
      /\ Careful => (associated => selected.pattern # "NONE" \/ sorted.pattern # "NONE")
      /\ Careful => (payload => associated \/ selected.pattern = "NONE")
      /\ Careful => (selected.pattern = "WAVEFRONT26ZI" /\ selected.zi = "VV26HH26"
                     /\ W <= selected.block[1] => selected.block[2] = 1)
      /\ sorted' = (IF associated /\ (dirty \/ built) THEN Sorted ELSE sorted)
      /\ launched' = Launch(Overwrite(sorted'.order, <<>>), sorted'.waves, payload)
      /\ dirty' = FALSE
      /\ UNCHANGED <<size, selected, associated, calls>>

Next ==
    \/ AssociateThread
    \/ SelectThreadDependencyPattern
    \/ Set26ZIDispatchPattern
    \/ Set26ZIMacroBlockSize
    \/ SelectMediaWalkingPattern
    \/ Enqueue

Spec == Init /\ [][Next]_vars

----------------------------------------------------------------------------
Launched == launched.by # "nothing"

\* Every thread is launched, and none twice, however the pattern was changed
\* between two Enqueues: the board is a permutation of the units, and the
\* walker of the GPU meets each unit of its block once.
LaunchesEachThreadOnce ==
    Launched => /\ Len(launched.seq) = W * H
                /\ Range(launched.seq) = Board(W, H)

\* The vectors of the patterns, at cm_thread_space.cpp:33.
WavefrontPattern == {<<-1, 0>>, <<-1, -1>>, <<0, -1>>}
Wavefront26Pattern == WavefrontPattern \cup {<<1, -1>>}
Wavefront26ZPattern == Wavefront26Pattern \cup {<<-1, 1>>}
Wavefront26ZIPattern == Wavefront26ZPattern \cup {<<-2, 0>>, <<1, 0>>}

Vectors(p) ==
    CASE p = "WAVEFRONT" -> WavefrontPattern
      [] p = "WAVEFRONT26" -> Wavefront26Pattern
      [] p = "WAVEFRONT26Z" -> Wavefront26ZPattern
      [] p = "WAVEFRONT26ZI" -> Wavefront26ZIPattern
      [] p = "HORIZONTAL" -> {<<0, -1>>}
      [] p = "VERTICAL" -> {<<-1, 0>>}
      [] OTHER -> {}

\* Two patterns have vectors in opposite directions: a unit depends on those
\* of their targets that come before it in a scan of blocks, the blocks row by
\* row.  26Z: by rows in blocks of two by two.  26ZI: even columns first.
ScanKey(c, p, b) ==
    IF p = "WAVEFRONT26Z"
    THEN <<c[2] \div 2, c[1] \div 2, c[2] % 2, c[1] % 2>>
    ELSE <<c[2] \div b[2], c[1] \div b[1], (c[1] % b[1]) % 2, 0>>

Before(k1, k2) ==
    \E i \in DOMAIN k1 : k1[i] < k2[i] /\ \A j \in 1 .. i - 1 : k1[j] = k2[j]

DependsOn(c, p, b) ==
    {t \in {Plus(c, v) : v \in Vectors(p)} :
       /\ t \in Board(W, H)
       /\ p \in {"WAVEFRONT26Z", "WAVEFRONT26ZI"} =>
            Before(ScanKey(t, p, b), ScanKey(c, p, b))}

\* A thread is launched after the threads it depends on: the scoreboard holds
\* a thread back only for threads launched before it, so one launched too
\* early runs on data that is not there.
DependenciesLaunchFirst ==
    Launched =>
      \A i \in DOMAIN launched.seq :
        \A t \in DependsOn(launched.seq[i], launched.pattern,
                           IF launched.pattern = "WAVEFRONT26ZI" THEN launched.block
                           ELSE <<1, 1>>) :
          \E j \in 1 .. i - 1 : launched.seq[j] = t

\* The threads of a wave of 26Z do not depend on each other, and the waves
\* make up the board: HalCm_FinishStatesForKernelMix dispatches by waves.
WavesAreIndependent ==
    Launched /\ launched.by = "media objects" /\ launched.pattern = "WAVEFRONT26Z" =>
      LET End(n) == FoldLeft(+, 0, SubSeq(launched.waves, 1, n))
          Wave(n) == {launched.seq[i] : i \in End(n - 1) + 1 .. End(n)}
      IN /\ End(Len(launched.waves)) = W * H
         /\ \A n \in DOMAIN launched.waves : \A c \in Wave(n) :
              DependsOn(c, "WAVEFRONT26Z", <<1, 1>>) \cap Wave(n) = {}
=============================================================================
