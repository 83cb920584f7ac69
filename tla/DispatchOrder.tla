---------------------------- MODULE DispatchOrder ----------------------------
(***************************************************************************)
(* The orders in which the threads of a thread space are dispatched: the   *)
(* sequences of cm_thread_space.cpp, which sort the media objects of a     *)
(* batch buffer, and the programs hal_cm.cpp gives the media walker of the *)
(* GPU, which launches the threads by itself.                              *)
(*                                                                         *)
(* A unit of a thread space is its coordinate <<x, y>>; the code holds the *)
(* offset y * m_Width + x.  Every sequence of the code is a nest of loops  *)
(* that puts a unit on the list the first time it meets it (m_pBoardFlag): *)
(* here the units met, in order, and FirstVisits of them.                  *)
(***************************************************************************)
EXTENDS Integers, Sequences, FiniteSets, SequencesExt

Board(w, h) == (0 .. w - 1) \X (0 .. h - 1)

FirstVisits(met, w, h) ==
    FoldLeft(LAMBDA order, c : IF c \in Board(w, h) /\ ~ Contains(order, c)
                               THEN Append(order, c) ELSE order,
             <<>>, met)

Plus(c, d) == <<c[1] + d[1], c[2] + d[2]>>

\* n units from c on in steps of d.
Chain(c, d, n) == [i \in 1 .. n |-> <<c[1] + (i - 1) * d[1], c[2] + (i - 1) * d[2]>>]

Chains(starts, d, n) == FlattenSeq([i \in DOMAIN starts |-> Chain(starts[i], d, n)])

Raster(w, h) == [i \in 1 .. w * h |-> <<(i - 1) % w, (i - 1) \div w>>]

Ceil(a, b) == (a + b - 1) \div b

----------------------------------------------------------------------------
Wavefront45Sequence(w, h) == FirstVisits(Chains(Raster(w, h), <<-1, 1>>, h), w, h)

Wavefront26Sequence(w, h) == FirstVisits(Chains(Raster(w, h), <<-2, 1>>, h), w, h)

HorizentalSequence(w, h) == FirstVisits(Chains(Raster(w, h), <<1, 0>>, w), w, h)

VerticalSequence(w, h) ==
    FirstVisits(Chains([i \in 1 .. w |-> <<i - 1, 0>>], <<0, 1>>, h), w, h)

(***************************************************************************)
(* Wavefront26Z goes in waves.  Each column has a front; a unit at a front *)
(* joins the wave when the units its parities name (pMask) are on the      *)
(* list, and the front moves on unless it is at the last row.              *)
(***************************************************************************)
MutMasks26Z(x, y, w) ==
    CASE x % 2 = 0 /\ y % 2 = 0 ->
           (IF x = 0 THEN {} ELSE {<<-1, 1>>, <<-1, 0>>})
           \cup (IF y = 0 THEN {} ELSE {<<0, -1>>})
      [] x % 2 = 0 /\ y % 2 = 1 -> {<<0, -1>>}
      [] OTHER -> {<<-1, 0>>} \cup (IF y = 0 THEN {} ELSE {<<0, -1>>})

Masks26Z(x, y, w) ==
    CASE x % 2 = 0 /\ y % 2 = 0 ->
           (IF x = 0 THEN {} ELSE {<<-1, 1>>, <<-1, 0>>})
           \cup (IF y = 0 THEN {} ELSE {<<0, -1>>, <<1, -1>>})
      [] x % 2 = 0 /\ y % 2 = 1 ->
           {<<0, -1>>, <<1, -1>>} \cup (IF x = 0 THEN {} ELSE {<<-1, 0>>})
      [] x % 2 = 1 /\ y % 2 = 0 ->
           {<<-1, 0>>} \cup (IF y = 0 THEN {} ELSE {<<0, -1>>})
           \cup (IF y = 0 \/ x = w - 1 THEN {} ELSE {<<1, -1>>})
      [] OTHER -> {<<-1, 0>>, <<0, -1>>}

Wave26Z(s, w, h) ==
    LET black == Range(s.order)
        Joins(x) == LET c == <<x, s.front[x]>> IN
                      c \notin black
                      /\ \A m \in Masks26Z(c[1], c[2], w) : Plus(c, m) \in black
        wave == SelectSeq([i \in 1 .. w |-> i - 1], Joins)
    IN [order |-> s.order \o [i \in DOMAIN wave |-> <<wave[i], s.front[wave[i]]>>],
        front |-> [x \in 0 .. w - 1 |->
                     IF Joins(x) /\ s.front[x] < h - 1 THEN s.front[x] + 1
                     ELSE s.front[x]],
        waves |-> Append(s.waves, Len(wave))]

\* At least one unit joins each wave: w * h waves are enough.
Wavefront26ZSequence(w, h) ==
    FoldLeft(LAMBDA s, n : IF Len(s.order) = w * h THEN s ELSE Wave26Z(s, w, h),
             [order |-> <<<<0, 0>>>>, waves |-> <<1>>,
              front |-> [x \in 0 .. w - 1 |-> IF x = 0 THEN 1 ELSE 0]],
             [n \in 1 .. w * h |-> n])

----------------------------------------------------------------------------
(***************************************************************************)
(* Wavefront26ZI goes over blocks of bw by bh units, b == <<bw, bh>>.      *)
(***************************************************************************)
EvenColumns(b) == [i \in 1 .. Ceil(b[1], 2) |-> 2 * (i - 1)]
OddColumns(b) == [i \in 1 .. b[1] \div 2 |-> 2 * i - 1]
Rows(b) == [i \in 1 .. b[2] |-> i - 1]

Column(o, x, b) == Chain(Plus(o, <<x, 0>>), <<0, 1>>, b[2])
OddsOfRow(o, y, b) == Chain(Plus(o, <<1, y>>), <<2, 0>>, b[1] \div 2)

\* For each item of outer, for each item of inner.
Nest(Visit(_, _), outer, inner) ==
    FlattenSeq([i \in DOMAIN outer |->
      FlattenSeq([j \in DOMAIN inner |-> Visit(outer[i], inner[j])])])

\* The blocks from the first row on, each followed by the ones two to its
\* left in the next rows.
BlockWavefronts(w, h, b) ==
    Chains([i \in 1 .. Ceil(w, b[1]) * Ceil(h, b[2]) |->
              <<((i - 1) % Ceil(w, b[1])) * b[1], ((i - 1) \div Ceil(w, b[1])) * b[2]>>],
           <<-2 * b[1], b[2]>>, Ceil(h, b[2]))

\* Blocks outside the board are met, and give nothing, only in the chains.
OnBoard(starts, w, h) == SelectSeq(starts, LAMBDA c : c \in Board(w, h))

Wavefront26ZISeqVVHV26(w, h, b) ==
    LET Block(o, cols) ==
          FlattenSeq([i \in DOMAIN cols |-> Column(o, cols[i], b)])
    IN FirstVisits(Nest(Block, OnBoard(BlockWavefronts(w, h, b), w, h),
                        <<EvenColumns(b), OddColumns(b)>>), w, h)

Wavefront26ZISeqVVHH26(w, h, b) ==
    LET Block(o, part) ==
          IF part = "even" THEN Nest(LAMBDA p, x : Column(p, x, b), <<o>>, EvenColumns(b))
          ELSE Nest(LAMBDA p, y : OddsOfRow(p, y, b), <<o>>, Rows(b))
    IN FirstVisits(Nest(Block, OnBoard(BlockWavefronts(w, h, b), w, h),
                        <<"even", "odd">>), w, h)

\* Where a wavefront of VV26HH26 and of VV1x26HH1x26 starts: after two
\* per row of blocks, along the last row.  A board no wider than a block has
\* one wavefront per row of blocks, step apart.
MutWavefrontStarts(w, h, b, step) ==
    LET rows == Ceil(h, b[2])
        Start(n) == IF n < 2 * rows THEN <<(n % 2) * b[1], (n \div 2) * b[2]>>
                    ELSE <<(n - 2 * rows + 1) * b[1], (rows - 1) * b[2]>>
    IN IF w <= b[1] THEN [i \in 1 .. Ceil(h, step) |-> <<0, (i - 1) * step>>]
       ELSE [i \in 1 .. 2 * (h \div b[2]) |-> Start(i - 1)]

WavefrontStarts(w, h, b, step) ==
    LET rows == Ceil(h, b[2])
        Start(n) == IF n < 2 * rows THEN <<(n % 2) * b[1], (n \div 2) * b[2]>>
                    ELSE <<(n - 2 * rows + 2) * b[1], (rows - 1) * b[2]>>
    IN IF w <= b[1] THEN [i \in 1 .. Ceil(h, step) |-> <<0, (i - 1) * step>>]
       ELSE [i \in 1 .. 2 * rows + Ceil(w, b[1]) |-> Start(i - 1)]

\* The code stops at the first start outside the board.
TakeOnBoard(starts, w, h) ==
    LET off == {i \in DOMAIN starts : starts[i] \notin Board(w, h)}
    IN IF off = {} THEN starts
       ELSE SubSeq(starts, 1, (CHOOSE i \in off : \A j \in off : i <= j) - 1)

\* The blocks of a wavefront, upwards and to the right.
Upwards(o, w, h, b) == OnBoard(Chain(o, <<2 * b[1], - b[2]>>, Ceil(h, b[2])), w, h)

\* All even columns of a wavefront, then all its odd units row by row.  On a
\* narrow board the next row is counted from the last row met, not from the
\* start (cm_thread_space.cpp:1343).
Wavefront26ZISeqVV26HH26(w, h, b) ==
    LET Wavefront(o) ==
          Nest(LAMBDA p, x : Column(p, x, b), Upwards(o, w, h, b), EvenColumns(b))
          \o Nest(LAMBDA p, y : OddsOfRow(p, y, b), Upwards(o, w, h, b), Rows(b))
        starts == TakeOnBoard(WavefrontStarts(w, h, b, 2 * b[2] - 1), w, h)
    IN FirstVisits(FlattenSeq([i \in DOMAIN starts |-> Wavefront(starts[i])]), w, h)

\* The same, one column and one row of all blocks of the wavefront at a time.
Wavefront26ZISeqVV1x26HH1x26(w, h, b) ==
    LET Wavefront(o) ==
          Nest(LAMBDA x, p : Column(p, x, b), EvenColumns(b), Upwards(o, w, h, b))
          \o Nest(LAMBDA y, p : OddsOfRow(p, y, b), Rows(b), Upwards(o, w, h, b))
        starts == TakeOnBoard(WavefrontStarts(w, h, b, b[2]), w, h)
    IN FirstVisits(FlattenSeq([i \in DOMAIN starts |-> Wavefront(starts[i])]), w, h)

----------------------------------------------------------------------------
(***************************************************************************)
(* The media walker: for k in 0 .. count it starts at k times outer and    *)
(* steps by inner; what lies in the block is launched.                     *)
(***************************************************************************)
WalkerLaunches(p) ==
    SelectSeq(
      FlattenSeq([k \in 1 .. p.count + 1 |->
        Chain(<<(k - 1) * p.outer[1], (k - 1) * p.outer[2]>>, p.inner,
              IF p.inner[2] = 0 THEN p.w ELSE p.h)]),
      LAMBDA c : c \in Board(p.w, p.h))

\* LoopExecCount, LocalOutLoopStride, LocalInnerLoopUnit and BlockResolution
\* for n threads in a space of w by h.  maxWidth is CM_MAX_THREAD_WIDTH.
WalkerParams(pattern, w, h, n, maxWidth) ==
    CASE pattern = "WAVEFRONT" ->
           [w |-> w, h |-> h, count |-> w + (h - 1) - 1,
            outer |-> <<1, 0>>, inner |-> <<-1, 1>>]
      [] pattern = "WAVEFRONT26" ->
           [w |-> w, h |-> h, count |-> w + (h - 1) * 2 - 1,
            outer |-> <<1, 0>>, inner |-> <<-2, 1>>]
      [] pattern = "VERTICAL" ->
           [w |-> w, h |-> h, count |-> w - 1, outer |-> <<1, 0>>, inner |-> <<0, 1>>]
      [] OTHER ->
           LET linear == w = n /\ h = 1
               rows == IF linear THEN 1 + n \div maxWidth ELSE h
           IN [w |-> IF linear /\ n > maxWidth THEN maxWidth ELSE w, h |-> rows,
               count |-> rows - 1, outer |-> <<0, 1>>, inner |-> <<1, 0>>]
=============================================================================
