---------------------------- MODULE HalSubmit_proofs ----------------------------
(***************************************************************************)
(* Proofs about the buffer objects of command buffers, for every set of    *)
(* tasks, every size of the lists and of the ring, and whatever fails.     *)
(***************************************************************************)
EXTENDS HalSubmitInv, TLAPS, FiniteSetTheorems, SequenceTheorems

-----------------------------------------------------------------------------
(***************************************************************************)
(* What a step of a call does to the lists of the context leaves the       *)
(* command buffers alone.                                                  *)
(***************************************************************************)
Keeps(o, p) ==
    /\ Context(p)
    /\ p.refs = o.refs /\ p.pool = o.pool /\ p.fetch = o.fetch
    /\ p.flushed = o.flushed
    /\ ~o.flushed => p.cb.bo = o.cb.bo

LEMMA RegisterKeeps ==
  ASSUME NEW o, Context(o), NEW r
  PROVE  Keeps(o, RegisterResource(o, r))
  BY DEF Keeps, Context, ContextFields, RegisterResource

LEMMA RegisteredKeeps ==
  ASSUME NEW o, Context(o), NEW resources
  PROVE  Keeps(o, Registered(o, resources))
  BY DEF Keeps, Context, ContextFields, Registered

LEMMA PatchedKeeps ==
  ASSUME NEW o, Context(o), NEW patches
  PROVE  Keeps(o, Patched(o, patches))
  BY DEF Keeps, Context, ContextFields, Patched

LEMMA ResetKeeps ==
  ASSUME NEW o, Context(o)
  PROVE  Keeps(o, ResetOsStates(o))
  BY DEF Keeps, Context, ContextFields, ResetOsStates

LEMMA ReturnKeeps ==
  ASSUME NEW o, Context(o), NEW cmd
  PROVE  /\ Keeps(o, ReturnCommandBuffer(o, cmd))
         /\ ReturnCommandBuffer(o, cmd).cb.bo = o.cb.bo
  BY DEF Keeps, Context, ContextFields, ReturnCommandBuffer

LEMMA SendKeeps ==
  ASSUME NEW o, Context(o), NEW h, NEW dw
  PROVE  Keeps(o, SendSurfaces(h, o, dw))
  BY DEF Keeps, Context, ContextFields, SendSurfaces

LEMMA KeepsBoth ==
  ASSUME NEW o, NEW p, NEW q, Keeps(o, p), Keeps(p, q)
  PROVE  Keeps(o, q)
  BY DEF Keeps

LEMMA KeepsItself ==
  ASSUME NEW o, Context(o)
  PROVE  Keeps(o, o)
  BY DEF Keeps
-----------------------------------------------------------------------------
(***************************************************************************)
(* Setting up a surface.                                                   *)
(***************************************************************************)
\* Of the steps' common state, the context.
Holder(x, o) == "o" \in DOMAIN x /\ Keeps(o, x.o)

LEMMA BoundKeeps ==
  ASSUME NEW o, NEW x, Context(o), Holder(x, o), NEW s, NEW bti
  PROVE  Holder(Bound(x, s, bti), o)
<1>1. Context(x.o) /\ Keeps(o, x.o)
  BY DEF Holder, Keeps
<1>2. "o" \in DOMAIN Bound(x, s, bti) /\ Bound(x, s, bti).o = RegisterResource(x.o, s)
  BY DEF Bound, Holder
<1>3. Keeps(x.o, RegisterResource(x.o, s))
  BY <1>1, RegisterKeeps
<1> QED BY <1>1, <1>2, <1>3, KeepsBoth DEF Holder

LEMMA WriteKeeps ==
  ASSUME NEW o, NEW x, Holder(x, o), NEW slot, NEW bti
  PROVE  Holder(Write(x, slot, bti), o)
  BY DEF Holder, Write

LEMMA SetUpKeeps ==
  ASSUME NEW o, NEW x, Context(o), Holder(x, o), NEW surface
  PROVE  Holder(SetUp(x, surface), o)
<1>1. ASSUME NEW s, NEW slot
      PROVE  Holder(SetupArgument(x, s, slot), o)
  <2> DEFINE bti == FreeBindingIndex(x.gen, x.taken, NumPlanes(s))
             y == [Bound(x, s, bti) EXCEPT !.taken = TakenAfter(x.gen, @, NumPlanes(s))]
  <2>1. Holder(Bound(x, s, bti), o)
    BY BoundKeeps
  <2>2. Holder(y, o)
    <3> HIDE DEF bti
    <3> QED BY <2>1 DEF Holder
  <2>3. Holder(Write(y, slot, bti), o)
    <3> HIDE DEF y, bti
    <3> QED BY <2>2, WriteKeeps
  <2>4. /\ Holder(Write(x, slot, CM_NULL_SURFACE_BINDING_INDEX), o)
        /\ Holder(Write(x, slot, x.bound[s]), o)
    BY WriteKeeps
  <2> HIDE DEF y, bti
  <2>5. \/ SetupArgument(x, s, slot) = Write(x, slot, CM_NULL_SURFACE_BINDING_INDEX)
        \/ SetupArgument(x, s, slot) = Write(x, slot, x.bound[s])
        \/ SetupArgument(x, s, slot) = Write(y, slot, bti)
    BY DEF SetupArgument, y, bti
  <2> QED BY <2>3, <2>4, <2>5
<1>2. ASSUME NEW s, NEW bti
      PROVE  Holder(SetupWithBTIndex(x, s, bti), o)
  BY BoundKeeps DEF SetupWithBTIndex
<1>3. ASSUME NEW s, NEW i
      PROVE  Holder(SetupGlobal(x, s, i), o)
  BY BoundKeeps DEF SetupGlobal
<1> QED BY <1>1, <1>2, <1>3 DEF SetUp

LEMMA CurrentHolds ==
  ASSUME Context(os)
  PROVE  Holder(Current, os)
  BY KeepsItself DEF Holder, Current
-----------------------------------------------------------------------------
(***************************************************************************)
(* Sequences: what the GPU has been given.                                 *)
(***************************************************************************)
LEMMA SeqOfItself ==
  ASSUME NEW S, NEW s \in Seq(S)
  PROVE  s \in Seq(ToSet(s))
<1>1. s = [i \in 1 .. Len(s) |-> s[i]] /\ Len(s) \in Nat /\ DOMAIN s = 1 .. Len(s)
  OBVIOUS
<1>2. \A i \in 1 .. Len(s) : s[i] \in ToSet(s)
  BY <1>1 DEF ToSet
<1>3. s \in [1 .. Len(s) -> ToSet(s)]
  BY <1>1, <1>2
<1> QED BY <1>1, <1>3

LEMMA AppendItself ==
  ASSUME NEW s, s \in Seq(ToSet(s)), NEW e
  PROVE  /\ Append(s, e) \in Seq(ToSet(Append(s, e)))
         /\ Len(s) \in Nat /\ DOMAIN s = 1 .. Len(s)
         /\ DOMAIN Append(s, e) = 1 .. Len(s) + 1
         /\ Append(s, e)[Len(s) + 1] = e
         /\ \A i \in 1 .. Len(s) : Append(s, e)[i] = s[i]
<1>1. s \in Seq(ToSet(s) \cup {e}) /\ e \in ToSet(s) \cup {e}
  <2>1. ToSet(s) \subseteq ToSet(s) \cup {e}
    OBVIOUS
  <2> QED BY <2>1
<1>2. Append(s, e) \in Seq(ToSet(s) \cup {e})
  BY <1>1
<1>3. Append(s, e) \in Seq(ToSet(Append(s, e)))
  BY <1>2, SeqOfItself
<1> QED BY <1>1, <1>3

LEMMA TailItself ==
  ASSUME NEW s, s \in Seq(ToSet(s)), s # <<>>
  PROVE  /\ Tail(s) \in Seq(ToSet(Tail(s)))
         /\ Len(s) \in Nat /\ DOMAIN s = 1 .. Len(s)
         /\ DOMAIN Tail(s) = 1 .. Len(s) - 1
         /\ \A i \in 1 .. Len(s) - 1 : Tail(s)[i] = s[i + 1]
<1>1. Tail(s) \in Seq(ToSet(s))
  OBVIOUS
<1>2. Tail(s) \in Seq(ToSet(Tail(s)))
  BY <1>1, SeqOfItself
<1> QED BY <1>2

-----------------------------------------------------------------------------
(***************************************************************************)
(* The steps that leave the command buffers alone.                         *)
(***************************************************************************)
QuietCall ==
    /\ "at" \in DOMAIN call' /\ call'.at \in {"idle", "kernel"} \cup Writing
    /\ call'.at = "kernel" => "bo" \in DOMAIN call'
    /\ call'.at \in Writing => ~os.flushed

LEMMA QuietStep ==
  ASSUME SubmitInv, Keeps(os, os'), QuietCall, call.at # "wait",
         UNCHANGED <<running, hw, osData>>
  PROVE  SubmitInv'
<1>1. /\ Context(os') /\ os'.refs = os.refs /\ os'.pool = os.pool
      /\ os'.fetch = os.fetch /\ os'.flushed = os.flushed
      /\ ~os.flushed => os'.cb.bo = os.cb.bo
      /\ running' = running /\ hw' = hw /\ osData' = osData
  BY DEF Keeps
<1>2. call'.at # "wait"
  BY DEF QuietCall, Writing
<1>3. TypeOK'
  <2>1. TypeOK
    BY DEF SubmitInv
  <2> QED BY <1>1, <2>1 DEF TypeOK, QuietCall
<1>4. \A b : InRing(b)' <=> InRing(b)
  BY <1>1 DEF InRing
<1>5. RingInv'
  BY <1>1, <1>4 DEF SubmitInv, RingInv
<1>6. PreparedInv'
  BY <1>1, <1>2, <1>4 DEF SubmitInv, PreparedInv, Unshared, Idle, QuietCall
<1>7. OwnersInv'
  <2>1. ASSUME NEW b \in CmdBos
        PROVE  (os.refs[b] = One(InRing(b)) + One(b \in osData)
                        + One(call.at = "wait" /\ call.bo = b))'
    BY <1>1, <1>2, <1>4 DEF SubmitInv, OwnersInv, One
  <2> QED BY <2>1 DEF OwnersInv
<1> QED BY <1>3, <1>5, <1>6, <1>7 DEF SubmitInv

LEMMA GoesOn ==
  ASSUME "at" \in DOMAIN call, NEW next \in Writing, ~os.flushed,
         \/ call' = Idling
         \/ "at" \in DOMAIN call' /\ call'.at = next
  PROVE  QuietCall
  BY DEF QuietCall, Idling, Writing

LEMMA BeginStep ==
  ASSUME SubmitInv, NEW t \in DOMAIN Jobs, Begin(t)
  PROVE  SubmitInv'
<1>1. Context(os) /\ call.at = "idle" /\ UNCHANGED <<running, hw, osData>>
  BY DEF SubmitInv, TypeOK, Begin
<1>2. Keeps(os, os')
  <2>1. os' = RegisterResource(ResetOsStates(os), GSH)
    BY DEF Begin
  <2>2. Keeps(os, ResetOsStates(os))
    BY <1>1, ResetKeeps
  <2>3. Keeps(ResetOsStates(os), RegisterResource(ResetOsStates(os), GSH))
    BY <2>2, RegisterKeeps DEF Keeps
  <2> QED BY <2>1, <2>2, <2>3, KeepsBoth
<1>3. QuietCall
  <2>1. \/ call' = Idling
        \/ {"at", "bo"} \subseteq DOMAIN call' /\ call'.at = "kernel"
    BY DEF Begin, Fail
  <2> QED BY <2>1 DEF QuietCall, Idling, Writing
<1> QED BY <1>1, <1>2, <1>3, QuietStep

LEMMA StartKernelStep ==
  ASSUME SubmitInv, StartKernel
  PROVE  SubmitInv'
<1>1. /\ Context(os) /\ call.at = "kernel" /\ {"at", "bo"} \subseteq DOMAIN call
      /\ UNCHANGED <<os, running, hw, osData>>
  BY DEF SubmitInv, TypeOK, StartKernel
<1>2. Keeps(os, os')
  BY <1>1, KeepsItself
<1>3. {"at", "bo"} \subseteq DOMAIN call' /\ call'.at = "kernel"
  BY <1>1 DEF StartKernel
<1>4. QuietCall
  BY <1>3 DEF QuietCall, Writing
<1> QED BY <1>1, <1>2, <1>4, QuietStep

LEMMA SetUpSurfaceStep ==
  ASSUME SubmitInv, SetUpSurface
  PROVE  SubmitInv'
<1>1. /\ Context(os) /\ call.at = "kernel" /\ {"at", "bo"} \subseteq DOMAIN call
      /\ UNCHANGED <<running, hw, osData>>
  BY DEF SubmitInv, TypeOK, SetUpSurface
<1>2. Keeps(os, os')
  <2>1. Keeps(os, os) /\ \A r : Keeps(os, RegisterResource(os, r))
    BY <1>1, KeepsItself, RegisterKeeps
  <2>2. \A surface : Keeps(os, SetUp(Current, surface).o)
    BY <1>1, CurrentHolds, SetUpKeeps DEF Holder
  <2>3. \/ os' = os
        \/ os' = RegisterResource(os, Head(call.work).s)
        \/ os' = SetUp(Current, Head(call.work)).o
    BY DEF SetUpSurface
  <2> QED BY <2>1, <2>2, <2>3
<1>3. \/ call' = Idling
      \/ {"at", "bo"} \subseteq DOMAIN call' /\ call'.at = "kernel"
  BY <1>1 DEF SetUpSurface, Fail
<1>4. QuietCall
  BY <1>3 DEF QuietCall, Idling, Writing
<1> QED BY <1>1, <1>2, <1>4, QuietStep

-----------------------------------------------------------------------------
(***************************************************************************)
(* The command buffer.                                                     *)
(***************************************************************************)
LEMMA WithBufferKeeps ==
  ASSUME NEW o, Context(o), WithBuffer(o)
  PROVE  /\ Keeps(o, os') /\ os'.cb.bo = o.cb.bo
         /\ \/ call' = Idling
            \/ "at" \in DOMAIN call' /\ call'.at = "state"
<1>1. CASE MayRegister(o, o.cb.bo)
  <2>1. os' = RegisterResource(o, o.cb.bo)
    BY <1>1 DEF WithBuffer
  <2>2. Keeps(o, os')
    BY <2>1, RegisterKeeps
  <2>3. os'.cb.bo = o.cb.bo
    BY <2>1 DEF RegisterResource, Context, ContextFields
  <2>4. "at" \in DOMAIN call' /\ call'.at = "state"
    BY <1>1 DEF WithBuffer
  <2> QED BY <2>2, <2>3, <2>4
<1>2. CASE ~MayRegister(o, o.cb.bo)
  <2>1. /\ os' = o \/ os' = [o EXCEPT !.cb.used = CmdRoom, !.cb.room = 0]
        /\ call' = Idling
    BY <1>2 DEF WithBuffer, Fail
  <2>2. Keeps(o, os') /\ os'.cb.bo = o.cb.bo
    BY <2>1 DEF Keeps, Context, ContextFields
  <2> QED BY <2>1, <2>2
<1> QED BY <1>1, <1>2

\* A buffer nobody holds.
LEMMA FreeBoFacts ==
  ASSUME SubmitInv, call.at # "wait", NEW b \in FreeBos
  PROVE  Unshared(b) /\ ~InRing(b) /\ os.refs[b] = 0
<1>1. b \in CmdBos /\ os.refs[b] = 0 /\ Idle(b)
  BY DEF FreeBos
<1>2. os.refs[b] = One(InRing(b)) + One(b \in osData)
  BY <1>1 DEF SubmitInv, OwnersInv, One
<1>3. ~InRing(b) /\ b \notin osData
  BY <1>1, <1>2 DEF One
<1> QED BY <1>1, <1>3 DEF Unshared

\* A buffer is allocated for the next slot.
LEMMA AllocateStep ==
  ASSUME SubmitInv, call.at = "kernel", os.flushed, NEW b \in FreeBos,
         NEW o, Keeps(os, o), os' = CtxGetCommandBuffer(o, b),
         call' = [call EXCEPT !.at = "wait", !.bo = b],
         UNCHANGED <<running, hw, osData>>
  PROVE  SubmitInv'
<1>1. Unshared(b) /\ ~InRing(b) /\ os.refs[b] = 0 /\ b \in CmdBos
  BY FreeBoFacts DEF Unshared
<1>2. /\ Context(os') /\ os'.refs = [os.refs EXCEPT ![b] = 1] /\ os'.pool = os.pool
      /\ os'.fetch = os.fetch /\ os'.flushed = os.flushed
  BY DEF Keeps, Context, ContextFields, CtxGetCommandBuffer
<1>3. "at" \in DOMAIN call' /\ call'.at = "wait" /\ call'.bo = b
  BY DEF SubmitInv, TypeOK
<1>4. TypeOK'
  <2>1. TypeOK
    BY DEF SubmitInv
  <2>2. os.refs \in [CmdBos -> Int]
    BY <2>1 DEF TypeOK
  <2>3. os'.refs \in [CmdBos -> Int]
    BY ONLY <1>1, <1>2, <2>2
  <2> QED BY <1>2, <1>3, <2>1, <2>3 DEF TypeOK
<1>5. \A c : InRing(c)' <=> InRing(c)
  BY <1>2 DEF InRing
<1>6. RingInv'
  BY <1>2, <1>5 DEF SubmitInv, RingInv
<1>7. PreparedInv'
  BY <1>1, <1>2, <1>3, <1>5 DEF PreparedInv, Unshared, Idle, Writing
<1>8. OwnersInv'
  <2>1. ASSUME NEW c \in CmdBos
        PROVE  os'.refs[c] = One(InRing(c)) + One(c \in osData) + One(b = c)
    <3>1. os.refs[c] = One(InRing(c)) + One(c \in osData)
      BY DEF SubmitInv, OwnersInv, One
    <3>2. CASE c = b
      BY <1>1, <1>2, <3>2 DEF SubmitInv, TypeOK, Unshared, One
    <3>3. CASE c # b
      BY <1>2, <3>1, <3>3 DEF SubmitInv, TypeOK, One
    <3> QED BY <3>2, <3>3
  <2>2. ASSUME NEW c \in CmdBos
        PROVE  (os.refs[c] = One(InRing(c)) + One(c \in osData)
                        + One(call.at = "wait" /\ call.bo = c))'
    BY <1>3, <1>5, <2>1 DEF One
  <2> QED BY <2>2 DEF OwnersInv
<1> QED BY <1>4, <1>6, <1>7, <1>8 DEF SubmitInv

LEMMA GetCommandBufferStep ==
  ASSUME SubmitInv, GetCommandBuffer
  PROVE  SubmitInv'
<1>0. PICK o : o = Registered(os, ToRegister(call.task))
  OBVIOUS
<1>1. /\ Context(os) /\ call.at = "kernel" /\ "at" \in DOMAIN call
      /\ UNCHANGED <<running, hw, osData>>
  BY DEF SubmitInv, TypeOK, GetCommandBuffer
<1>2. Keeps(os, os) /\ Keeps(os, o)
  BY <1>0, <1>1, KeepsItself, RegisteredKeeps
<1>3. Context(o) /\ o.flushed = os.flushed
  BY <1>2 DEF Keeps
<1>4. \/ os' = os /\ call' = Idling
      \/ os' = o /\ call' = Idling
      \/ ~o.flushed /\ WithBuffer(o)
      \/ /\ o.flushed
         /\ \E b \in FreeBos : /\ os' = CtxGetCommandBuffer(o, b)
                               /\ call' = [call EXCEPT !.at = "wait", !.bo = b]
  BY <1>0 DEF GetCommandBuffer, Fail
<1>5. CASE (os' = os \/ os' = o) /\ call' = Idling
  <2>1. QuietCall
    BY <1>5 DEF QuietCall, Idling, Writing
  <2> QED BY <1>1, <1>2, <1>5, <2>1, QuietStep
<1>6. CASE ~o.flushed /\ WithBuffer(o)
  <2>1. /\ Keeps(o, os')
        /\ \/ call' = Idling
           \/ "at" \in DOMAIN call' /\ call'.at = "state"
    BY <1>3, <1>6, WithBufferKeeps
  <2>2. Keeps(os, os')
    BY <1>2, <2>1, KeepsBoth
  <2>3. QuietCall
    BY <1>1, <1>3, <1>6, <2>1, GoesOn DEF Writing
  <2> QED BY <1>1, <2>2, <2>3, QuietStep
<1>7. CASE /\ o.flushed
           /\ \E b \in FreeBos : /\ os' = CtxGetCommandBuffer(o, b)
                                 /\ call' = [call EXCEPT !.at = "wait", !.bo = b]
  BY <1>1, <1>2, <1>3, <1>7, AllocateStep
<1> QED BY <1>4, <1>5, <1>6, <1>7

\* The slot is free: its old buffer object gives way to the new one.
LEMMA InsertFacts ==
  ASSUME SubmitInv, call.at = "wait", WaitForAvailableCmdBo,
         NEW o, o = InsertCmdBufferToPool(os, call.bo)
  PROVE  /\ Context(o)
         /\ o.pool = [os.pool EXCEPT ![os.fetch] = call.bo]
         /\ o.fetch \in Slots
         /\ o.flushed = FALSE /\ o.cb.bo = call.bo
         /\ o.refs \in [CmdBos -> Int]
         /\ \A b \in CmdBos :
              o.refs[b] = IF os.pool[os.fetch] = b THEN os.refs[b] - 1 ELSE os.refs[b]
<1>1. /\ Context(os) /\ os.pool \in [Slots -> CmdBos \cup {NoBo}] /\ os.fetch \in Slots
      /\ os.refs \in [CmdBos -> Int] /\ NoBo \notin CmdBos
      /\ MaxCmdBufs \in Nat /\ MaxCmdBufs > 0
  BY OsAssumption DEF SubmitInv, TypeOK
<1>2. /\ Context(o) /\ o.flushed = FALSE /\ o.cb.bo = call.bo
      /\ o.pool = [os.pool EXCEPT ![os.fetch] = call.bo]
      /\ o.refs = ReleaseFetched(os)
      /\ o.fetch = (os.fetch + 1) % MaxCmdBufs
  BY <1>1 DEF InsertCmdBufferToPool, Context, ContextFields
<1>3. o.fetch \in Slots
  <2>1. os.fetch \in 0 .. MaxCmdBufs - 1
    BY <1>1 DEF Slots
  <2>2. (os.fetch + 1) % MaxCmdBufs \in 0 .. MaxCmdBufs - 1
    BY <1>1, <2>1, SMT
  <2> QED BY <1>2, <2>2 DEF Slots
<1>4. /\ o.refs \in [CmdBos -> Int]
      /\ \A b \in CmdBos :
           o.refs[b] = IF os.pool[os.fetch] = b THEN os.refs[b] - 1 ELSE os.refs[b]
  <2>1. CASE os.pool[os.fetch] = NoBo
    BY <1>1, <1>2, <2>1 DEF ReleaseFetched
  <2>2. CASE os.pool[os.fetch] # NoBo
    <3>1. os.pool[os.fetch] \in CmdBos
      BY <1>1, <2>2
    <3>2. o.refs = [os.refs EXCEPT ![os.pool[os.fetch]] = os.refs[os.pool[os.fetch]] - 1]
      BY <1>2, <2>2 DEF ReleaseFetched
    <3> QED BY <1>1, <3>1, <3>2
  <2> QED BY <2>1, <2>2
<1> QED BY <1>2, <1>3, <1>4

LEMMA WaitForSlotStep ==
  ASSUME SubmitInv, WaitForSlot
  PROVE  SubmitInv'
<1>0. PICK o : o = InsertCmdBufferToPool(os, call.bo)
  OBVIOUS
<1>1. /\ call.at = "wait" /\ WaitForAvailableCmdBo /\ WithBuffer(o)
      /\ UNCHANGED <<running, hw, osData>>
  BY <1>0 DEF WaitForSlot
<1>2. /\ Context(o)
      /\ o.pool = [os.pool EXCEPT ![os.fetch] = call.bo]
      /\ o.fetch \in Slots
      /\ o.flushed = FALSE /\ o.cb.bo = call.bo
      /\ o.refs \in [CmdBos -> Int]
      /\ \A b \in CmdBos :
           o.refs[b] = IF os.pool[os.fetch] = b THEN os.refs[b] - 1 ELSE os.refs[b]
  BY <1>0, <1>1, InsertFacts
<1>3. /\ Keeps(o, os') /\ os'.cb.bo = o.cb.bo
      /\ \/ call' = Idling
         \/ "at" \in DOMAIN call' /\ call'.at = "state"
  BY <1>1, <1>2, WithBufferKeeps
<1>4. /\ Context(os') /\ os'.refs = o.refs /\ os'.pool = o.pool
      /\ os'.fetch = o.fetch /\ os'.flushed = FALSE /\ os'.cb.bo = call.bo
  BY <1>2, <1>3 DEF Keeps
<1>5. "at" \in DOMAIN call' /\ call'.at \in {"idle", "state"}
  BY <1>3 DEF Idling
<1>6. /\ os.pool \in [Slots -> CmdBos \cup {NoBo}] /\ os.fetch \in Slots
      /\ os.refs \in [CmdBos -> Int] /\ NoBo \notin CmdBos
      /\ Unshared(call.bo) /\ ~InRing(call.bo) /\ call.bo \in CmdBos
      /\ \A r, s \in Slots : os.pool[r] = os.pool[s] /\ os.pool[r] # NoBo => r = s
  BY <1>1, OsAssumption DEF SubmitInv, TypeOK, RingInv, PreparedInv, Unshared
<1>7. \A s \in Slots : os'.pool[s] = IF s = os.fetch THEN call.bo ELSE os.pool[s]
  BY ONLY <1>2, <1>4, <1>6
<1>8. \A s \in Slots : os.pool[s] # call.bo
  BY <1>6 DEF InRing
<1>9. ASSUME NEW b \in CmdBos
      PROVE  InRing(b)' <=> b = call.bo \/ (InRing(b) /\ b # os.pool[os.fetch])
  BY <1>6, <1>7, <1>8 DEF InRing
<1>10. TypeOK'
  <2>1. TypeOK
    BY DEF SubmitInv
  <2>2. os'.pool \in [Slots -> CmdBos \cup {NoBo}]
    BY ONLY <1>2, <1>4, <1>6
  <2> QED BY <1>1, <1>2, <1>4, <1>5, <2>1, <2>2 DEF TypeOK, Writing
<1>11. RingInv'
  <2>1. \A i, j \in DOMAIN running' : running'[i].bo = running'[j].bo => i = j
    BY <1>1 DEF SubmitInv, RingInv
  <2>2. ASSUME NEW i \in DOMAIN running
        PROVE  InRing(running[i].bo)'
    <3>1. /\ running[i].bo \in CmdBos /\ InRing(running[i].bo)
          /\ running[i].bo # os.pool[os.fetch]
      BY <1>1 DEF SubmitInv, TypeOK, RingInv, WaitForAvailableCmdBo, Idle
    <3> QED BY <1>1, <1>9, <3>1
  <2>3. \A r, s \in Slots : os'.pool[r] = os'.pool[s] /\ os'.pool[r] # NoBo => r = s
    BY <1>6, <1>7, <1>8
  <2> QED BY <1>1, <2>1, <2>2, <2>3 DEF RingInv
<1>12. PreparedInv'
  <2>1. PICK c : c = call.bo
    OBVIOUS
  <2>2. Unshared(c)' /\ InRing(c)'
    BY <1>1, <1>6, <1>9, <2>1 DEF Unshared, Idle
  <2> QED BY <1>4, <1>5, <2>1, <2>2 DEF PreparedInv
<1>13. OwnersInv'
  <2>1. ASSUME NEW b \in CmdBos
        PROVE  (os.refs[b] = One(InRing(b)) + One(b \in osData)
                        + One(call.at = "wait" /\ call.bo = b))'
    <3>1. os.refs[b] = One(InRing(b)) + One(b \in osData) + One(call.bo = b)
      BY <1>1 DEF SubmitInv, OwnersInv, One
    <3>2. os.pool[os.fetch] = b => InRing(b)
      BY <1>6 DEF InRing
    <3>3. os'.refs[b] = One(b = call.bo \/ (InRing(b) /\ b # os.pool[os.fetch]))
                          + One(b \in osData)
      <4>1. b = call.bo => ~InRing(b)
        BY <1>6
      <4>2. os'.refs[b] = IF os.pool[os.fetch] = b THEN os.refs[b] - 1 ELSE os.refs[b]
        BY <1>2, <1>4
      <4> QED BY <3>1, <3>2, <4>1, <4>2 DEF One
    <3>4. One(call'.at = "wait" /\ call'.bo = b) = 0
      BY <1>5 DEF One
    <3>5. osData' = osData /\ os'.refs[b] \in Int
      BY <1>1, <1>2, <1>4
    <3> QED BY <1>9, <3>3, <3>4, <3>5 DEF One
  <2> QED BY <2>1 DEF OwnersInv
<1> QED BY <1>10, <1>11, <1>12, <1>13 DEF SubmitInv

-----------------------------------------------------------------------------
(***************************************************************************)
(* The commands.                                                           *)
(***************************************************************************)
LEMMA EmitKeeps ==
  ASSUME NEW o, Context(o), "at" \in DOMAIN call, NEW cmds, NEW next, Emit(o, cmds, next)
  PROVE  /\ Keeps(o, os')
         /\ \/ call' = Idling
            \/ "at" \in DOMAIN call' /\ call'.at = next
<1>1. PICK placed : placed = Tried(cmds)
  OBVIOUS
<1>2. PICK cmd : cmd = AddCommands(call.cmd, Dwords(placed, Len(placed)))
  OBVIOUS
<1>3. \/ /\ os' = Patched(o, Patches(placed))
         /\ call' = [call EXCEPT !.at = next, !.cmd = cmd, !.out = @ \o placed]
      \/ /\ os' = ReturnCommandBuffer(Patched(o, Patches(placed)), Restored(cmd))
         /\ call' = Idling
  BY <1>1, <1>2 DEF Emit, Fail
<1>4. Keeps(o, Patched(o, Patches(placed)))
  BY PatchedKeeps
<1>5. Keeps(o, ReturnCommandBuffer(Patched(o, Patches(placed)), Restored(cmd)))
  <2>1. Context(Patched(o, Patches(placed)))
    BY <1>4 DEF Keeps
  <2> QED BY <1>4, <2>1, ReturnKeeps, KeepsBoth
<1> QED BY <1>3, <1>4, <1>5

LEMMA WritingFacts ==
  ASSUME SubmitInv, call.at \in Writing
  PROVE  Context(os) /\ "at" \in DOMAIN call /\ ~os.flushed /\ call.at # "wait"
         /\ hw.gen \in Gens
  BY SubmitAssumption DEF SubmitInv, TypeOK, PreparedInv, Writing

LEMMA EmitStep ==
  ASSUME SubmitInv, call.at \in Writing, NEW next \in Writing, NEW o, Keeps(os, o),
         NEW cmds, Emit(o, cmds, next), UNCHANGED <<running, hw, osData>>
  PROVE  SubmitInv'
<1>1. Context(os) /\ Context(o) /\ "at" \in DOMAIN call /\ ~os.flushed /\ call.at # "wait"
  BY WritingFacts DEF Keeps
<1>2. /\ Keeps(o, os')
      /\ \/ call' = Idling
         \/ "at" \in DOMAIN call' /\ call'.at = next
  BY <1>1, EmitKeeps
<1>3. Keeps(os, os')
  BY <1>2, KeepsBoth
<1>4. QuietCall
  BY <1>1, <1>2, GoesOn
<1> QED BY <1>1, <1>3, <1>4, QuietStep

LEMMA EmitStateStep ==
  ASSUME SubmitInv, EmitState
  PROVE  SubmitInv'
<1>1. call.at \in Writing /\ "surfaces" \in Writing /\ UNCHANGED <<running, hw, osData>>
  BY DEF EmitState, Writing
<1>2. Keeps(os, os)
  BY <1>1, WritingFacts, KeepsItself
<1>3. \E cmds : Emit(os, cmds, "surfaces")
  BY DEF EmitState
<1> QED BY <1>1, <1>2, <1>3, EmitStep

LEMMA EmitSurfacesStep ==
  ASSUME SubmitInv, EmitSurfaces
  PROVE  SubmitInv'
<1>1. call.at \in Writing /\ UNCHANGED <<running, hw, osData>>
  BY DEF EmitSurfaces, Writing
<1>2. Context(os) /\ "at" \in DOMAIN call /\ ~os.flushed /\ call.at # "wait"
      /\ hw.gen \in Gens
  BY <1>1, WritingFacts
<1>3. \E dw : os' = SendSurfaces(heap, os, dw)
  BY <1>2 DEF EmitSurfaces, Gens, SendSurfaces_g75, SendSurfaces_g8, SendSurfaces_g9
<1>4. Keeps(os, os')
  BY <1>2, <1>3, SendKeeps
<1>5. "at" \in DOMAIN call' /\ call'.at = "work" /\ "work" \in Writing
  BY <1>2 DEF EmitSurfaces, Writing
<1>6. QuietCall
  BY <1>2, <1>5, GoesOn
<1> QED BY <1>1, <1>2, <1>4, <1>6, QuietStep

LEMMA EmitWorkStep ==
  ASSUME SubmitInv, EmitWork
  PROVE  SubmitInv'
<1>1. call.at \in Writing /\ "end" \in Writing /\ UNCHANGED <<running, hw, osData>>
  BY DEF EmitWork, Writing
<1>2. Keeps(os, os)
  BY <1>1, WritingFacts, KeepsItself
<1>3. \E cmds : Emit(os, cmds, "end")
  BY DEF EmitWork
<1> QED BY <1>1, <1>2, <1>3, EmitStep

LEMMA EmitEndStep ==
  ASSUME SubmitInv, EmitEnd
  PROVE  SubmitInv'
<1>1. call.at \in Writing /\ "submit" \in Writing /\ UNCHANGED <<running, hw, osData>>
  BY DEF EmitEnd, Writing
<1>2. Context(os) /\ "at" \in DOMAIN call /\ ~os.flushed /\ call.at # "wait"
  BY <1>1, WritingFacts
<1>3. Keeps(os, os) /\ Keeps(os, UseBufferUPs(os))
  <2>1. Keeps(os, Registered(os, BufferUPs)) /\ Keeps(os, os)
    BY <1>2, RegisteredKeeps, KeepsItself
  <2>2. \A patches : Keeps(os, Patched(Registered(os, BufferUPs), patches))
    BY <2>1, PatchedKeeps, KeepsBoth DEF Keeps
  <2> QED BY <2>1, <2>2 DEF UseBufferUPs
<1>4. PICK o : o = UseBufferUPs(os)
  OBVIOUS
<1>5. \/ \E cmds : Emit(os, cmds, "submit")
      \/ \E cmds : Emit(o, cmds, "submit")
      \/ os' = ReturnCommandBuffer(os, Restored(call.cmd)) /\ call' = Idling
  BY <1>4 DEF EmitEnd, Fail
<1>6. CASE \E cmds : Emit(os, cmds, "submit")
  BY <1>1, <1>3, <1>6, EmitStep
<1>7. CASE \E cmds : Emit(o, cmds, "submit")
  BY <1>1, <1>3, <1>4, <1>7, EmitStep
<1>8. CASE os' = ReturnCommandBuffer(os, Restored(call.cmd)) /\ call' = Idling
  <2>1. Keeps(os, os')
    BY <1>2, <1>8, ReturnKeeps
  <2>2. QuietCall
    BY <1>8 DEF QuietCall, Idling, Writing
  <2> QED BY <1>1, <1>2, <2>1, <2>2, QuietStep
<1> QED BY <1>5, <1>6, <1>7, <1>8

-----------------------------------------------------------------------------
(***************************************************************************)
(* The submission, and what follows it.                                    *)
(***************************************************************************)
LEMMA ReferenceFacts ==
  ASSUME NEW o, Context(o), NEW b
  PROVE  /\ Context(OsResourceReference(o, b))
         /\ OsResourceReference(o, b).flushed = o.flushed
         /\ OsResourceReference(o, b).pool = o.pool
         /\ OsResourceReference(o, b).fetch = o.fetch
         /\ OsResourceReference(o, b).refs = [o.refs EXCEPT ![b] = o.refs[b] + 1]
  BY DEF Context, ContextFields, OsResourceReference

\* What all ends of a submission do.
LEMMA SubmitFacts ==
  ASSUME SubmitInv, Submit
  PROVE  /\ "at" \in DOMAIN call' /\ call'.at = "idle" /\ call.at = "submit"
         /\ Unshared(os.cb.bo) /\ InRing(os.cb.bo)
         /\ Context(os') /\ os'.flushed = TRUE
         /\ os'.pool = os.pool /\ os'.fetch = os.fetch /\ hw' = hw
         /\ \/ os'.refs = os.refs /\ UNCHANGED <<running, osData>>
            \/ /\ os'.refs = [os.refs EXCEPT ![os.cb.bo] = os.refs[os.cb.bo] + 1]
               /\ osData' = osData \cup {os.cb.bo}
               /\ \E batch : batch.bo = os.cb.bo /\ running' = Append(running, batch)
<1>1. call.at = "submit" /\ call' = Idling /\ hw' = hw /\ Context(os) /\ ~os.flushed
  BY WritingFacts DEF Submit, Writing
<1>2. PICK o : o = ReturnCommandBuffer(os, call.cmd)
  OBVIOUS
<1>3. Keeps(os, o) /\ o.cb.bo = os.cb.bo
  BY <1>1, <1>2, ReturnKeeps
<1>4. \/ /\ os' = SubmissionFails(o) \/ os' = ListsCleared(o)
         /\ UNCHANGED <<running, osData>>
      \/ /\ os' = OsResourceReference(ListsCleared(o), o.cb.bo)
         /\ running' = Append(running, Batch(o))
         /\ osData' = osData \cup {o.cb.bo}
  BY <1>2 DEF Submit
<1>5. /\ Context(o) /\ o.refs = os.refs /\ o.pool = os.pool /\ o.fetch = os.fetch
  BY <1>3 DEF Keeps
<1>6. \A p : p \in {SubmissionFails(o), ListsCleared(o)} =>
        /\ Context(p) /\ p.flushed = TRUE
        /\ p.refs = os.refs /\ p.pool = os.pool /\ p.fetch = os.fetch
  BY <1>5 DEF Context, ContextFields, SubmissionFails, ListsCleared
<1>7. Batch(o).bo = o.cb.bo
  BY DEF Batch
<1>8. /\ Context(os') /\ os'.flushed = TRUE
      /\ os'.pool = os.pool /\ os'.fetch = os.fetch
      /\ \/ os'.refs = os.refs /\ UNCHANGED <<running, osData>>
         \/ /\ os'.refs = [os.refs EXCEPT ![os.cb.bo] = os.refs[os.cb.bo] + 1]
            /\ osData' = osData \cup {os.cb.bo}
            /\ \E batch : batch.bo = os.cb.bo /\ running' = Append(running, batch)
  <2>1. CASE /\ os' = SubmissionFails(o) \/ os' = ListsCleared(o)
             /\ UNCHANGED <<running, osData>>
    BY <1>6, <2>1
  <2>2. CASE /\ os' = OsResourceReference(ListsCleared(o), o.cb.bo)
             /\ running' = Append(running, Batch(o))
             /\ osData' = osData \cup {o.cb.bo}
    <3>1. PICK p : p = ListsCleared(o)
      OBVIOUS
    <3>2. /\ Context(os') /\ os'.flushed = p.flushed /\ os'.pool = p.pool
          /\ os'.fetch = p.fetch
          /\ os'.refs = [p.refs EXCEPT ![o.cb.bo] = p.refs[o.cb.bo] + 1]
      <4>1. Context(p) /\ os' = OsResourceReference(p, o.cb.bo)
        BY <1>6, <2>2, <3>1
      <4>2. PICK c : c = o.cb.bo
        OBVIOUS
      <4>3. PICK r : r = OsResourceReference(p, c)
        OBVIOUS
      <4>4. /\ Context(r) /\ r.flushed = p.flushed /\ r.pool = p.pool
            /\ r.fetch = p.fetch /\ r.refs = [p.refs EXCEPT ![c] = p.refs[c] + 1]
        BY <4>1, <4>3, ReferenceFacts
      <4>5. os' = r
        BY <4>1, <4>2, <4>3
      <4> QED BY ONLY <4>2, <4>4, <4>5
    <3> QED BY <1>3, <1>6, <1>7, <2>2, <3>1, <3>2
  <2> QED BY <1>4, <2>1, <2>2
<1>9. Unshared(os.cb.bo) /\ InRing(os.cb.bo)
  BY <1>1 DEF SubmitInv, PreparedInv
<1> QED BY <1>1, <1>8, <1>9 DEF Idling

LEMMA SubmitStep ==
  ASSUME SubmitInv, Submit
  PROVE  SubmitInv'
<1>1. PICK c : c = os.cb.bo
  OBVIOUS
<1>2. /\ "at" \in DOMAIN call' /\ call'.at = "idle" /\ call.at = "submit"
      /\ Unshared(c) /\ InRing(c) /\ c \in CmdBos
      /\ Context(os') /\ os'.flushed = TRUE
      /\ os'.pool = os.pool /\ os'.fetch = os.fetch /\ hw' = hw
      /\ \/ os'.refs = os.refs /\ UNCHANGED <<running, osData>>
         \/ /\ os'.refs = [os.refs EXCEPT ![c] = os.refs[c] + 1]
            /\ osData' = osData \cup {c}
            /\ \E batch : batch.bo = c /\ running' = Append(running, batch)
  BY <1>1, SubmitFacts DEF Unshared
<1>3. /\ os.refs \in [CmdBos -> Int] /\ osData \subseteq CmdBos
      /\ running \in Seq(ToSet(running))
      /\ \A i \in DOMAIN running : running[i].bo \in CmdBos
  BY DEF SubmitInv, TypeOK
<1>4. /\ running' \in Seq(ToSet(running'))
      /\ Len(running) \in Nat /\ DOMAIN running = 1 .. Len(running)
      /\ \/ running' = running
         \/ /\ DOMAIN running' = 1 .. Len(running) + 1
            /\ running'[Len(running) + 1].bo = c
            /\ \A i \in 1 .. Len(running) : running'[i] = running[i]
  <2>1. Len(running) \in Nat /\ DOMAIN running = 1 .. Len(running)
    BY <1>3
  <2>2. CASE running' = running
    BY <1>3, <2>1, <2>2
  <2>3. ASSUME NEW batch, batch.bo = c, running' = Append(running, batch)
        PROVE  /\ running' \in Seq(ToSet(running'))
               /\ DOMAIN running' = 1 .. Len(running) + 1
               /\ running'[Len(running) + 1].bo = c
               /\ \A i \in 1 .. Len(running) : running'[i] = running[i]
    BY <1>3, <2>3, AppendItself
  <2> QED BY <1>2, <2>1, <2>2, <2>3
<1>5. \A b : InRing(b)' <=> InRing(b)
  BY <1>2 DEF InRing
<1>6. TypeOK'
  <2>1. os'.refs \in [CmdBos -> Int] /\ osData' \subseteq CmdBos
    <3>1. \/ os'.refs = os.refs /\ osData' = osData
          \/ /\ os'.refs = [os.refs EXCEPT ![c] = os.refs[c] + 1]
             /\ osData' = osData \cup {c}
      BY <1>2
    <3>2. c \in CmdBos
      BY <1>2
    <3> QED BY ONLY <1>3, <3>1, <3>2
  <2>2. \A i \in DOMAIN running' : running'[i].bo \in CmdBos
    BY <1>2, <1>3, <1>4
  <2>3. TypeOK
    BY DEF SubmitInv
  <2> QED BY <1>2, <1>4, <2>1, <2>2, <2>3 DEF TypeOK
<1>7. RingInv'
  <2>1. /\ \A i, j \in DOMAIN running : running[i].bo = running[j].bo => i = j
        /\ \A i \in DOMAIN running : InRing(running[i].bo)
        /\ \A r, s \in Slots : os.pool[r] = os.pool[s] /\ os.pool[r] # NoBo => r = s
    BY DEF SubmitInv, RingInv
  <2>2. \A i \in DOMAIN running : running[i].bo # c
    BY <1>2 DEF Unshared, Idle
  <2>3. \A i, j \in DOMAIN running' : running'[i].bo = running'[j].bo => i = j
    BY <1>4, <2>1, <2>2
  <2>4. \A i \in DOMAIN running' : InRing(running'[i].bo)
    BY <1>2, <1>4, <2>1
  <2> QED BY <1>2, <1>5, <2>1, <2>3, <2>4 DEF RingInv
<1>8. PreparedInv'
  BY <1>2 DEF PreparedInv, Writing
<1>9. OwnersInv'
  <2>1. ASSUME NEW b \in CmdBos
        PROVE  (os.refs[b] = One(InRing(b)) + One(b \in osData)
                        + One(call.at = "wait" /\ call.bo = b))'
    <3>1. os.refs[b] = One(InRing(b)) + One(b \in osData)
      BY <1>2 DEF SubmitInv, OwnersInv, One
    <3>2. c \notin osData
      BY <1>2 DEF Unshared
    <3>3. os'.refs[b] = One(InRing(b)) + One(b \in osData')
      <4>1. CASE os'.refs = os.refs /\ osData' = osData
        BY <3>1, <4>1
      <4>2. CASE /\ os'.refs = [os.refs EXCEPT ![c] = os.refs[c] + 1]
                 /\ osData' = osData \cup {c}
        BY <1>2, <1>3, <3>1, <3>2, <4>2 DEF One
      <4> QED BY <1>2, <4>1, <4>2
    <3> QED BY <1>2, <1>5, <3>3 DEF One
  <2> QED BY <2>1 DEF OwnersInv
<1> QED BY <1>6, <1>7, <1>8, <1>9 DEF SubmitInv

LEMMA GpuFinishStep ==
  ASSUME SubmitInv, GpuFinish
  PROVE  SubmitInv'
<1>1. /\ running # <<>> /\ running' = Tail(running)
      /\ UNCHANGED <<os, call, hw, osData>>
  BY DEF GpuFinish
<1>2. /\ running \in Seq(ToSet(running))
      /\ \A i \in DOMAIN running : running[i].bo \in CmdBos
  BY DEF SubmitInv, TypeOK
<1>3. /\ running' \in Seq(ToSet(running'))
      /\ Len(running) \in Nat /\ DOMAIN running = 1 .. Len(running)
      /\ DOMAIN running' = 1 .. Len(running) - 1
      /\ \A i \in 1 .. Len(running) - 1 : running'[i] = running[i + 1]
  BY <1>1, <1>2, TailItself
<1>4. \A i \in DOMAIN running' : i + 1 \in DOMAIN running /\ running'[i] = running[i + 1]
  BY <1>3
<1>5. TypeOK'
  <2>1. \A i \in DOMAIN running' : running'[i].bo \in CmdBos
    BY <1>2, <1>4
  <2> QED BY <1>1, <1>3, <2>1 DEF SubmitInv, TypeOK
<1>6. \A b : InRing(b)' <=> InRing(b)
  BY <1>1 DEF InRing
<1>7. RingInv'
  <2>1. /\ \A i, j \in DOMAIN running : running[i].bo = running[j].bo => i = j
        /\ \A i \in DOMAIN running : InRing(running[i].bo)
    BY DEF SubmitInv, RingInv
  <2>2. \A i, j \in DOMAIN running' : running'[i].bo = running'[j].bo => i = j
    <3> SUFFICES ASSUME NEW i \in DOMAIN running', NEW j \in DOMAIN running',
                        running'[i].bo = running'[j].bo
                 PROVE  i = j
      OBVIOUS
    <3>1. i + 1 = j + 1
      BY <1>4, <2>1
    <3> QED BY <1>3, <3>1
  <2>3. \A i \in DOMAIN running' : InRing(running'[i].bo)
    BY <1>4, <2>1
  <2> QED BY <1>1, <1>6, <2>2, <2>3 DEF SubmitInv, RingInv
<1>8. \A b : Unshared(b) => Unshared(b)'
  BY <1>1, <1>4 DEF Unshared, Idle
<1>9. PreparedInv'
  BY <1>1, <1>6, <1>8 DEF SubmitInv, PreparedInv
<1>10. OwnersInv'
  BY <1>1, <1>6 DEF SubmitInv, OwnersInv
<1> QED BY <1>5, <1>7, <1>9, <1>10 DEF SubmitInv

LEMMA QueryTaskStep ==
  ASSUME SubmitInv, QueryTask
  PROVE  SubmitInv'
<1>1. PICK b \in osData : os' = OsResourceUnreference(os, b) /\ osData' = osData \ {b}
  BY DEF QueryTask
<1>2. call.at = "idle" /\ UNCHANGED <<running, call, hw>>
  BY DEF QueryTask
<1>3. Context(os) /\ os.refs \in [CmdBos -> Int] /\ osData \subseteq CmdBos
  BY DEF SubmitInv, TypeOK
<1>4. /\ Context(os') /\ os'.refs = [os.refs EXCEPT ![b] = os.refs[b] - 1]
      /\ os'.pool = os.pool /\ os'.fetch = os.fetch /\ os'.flushed = os.flushed
      /\ os'.cb = os.cb
  BY <1>1, <1>3 DEF Context, ContextFields, OsResourceUnreference
<1>5. TypeOK'
  <2>1. os'.refs \in [CmdBos -> Int]
    BY ONLY <1>1, <1>3, <1>4
  <2> QED BY <1>1, <1>2, <1>3, <1>4, <2>1 DEF SubmitInv, TypeOK
<1>6. \A c : InRing(c)' <=> InRing(c)
  BY <1>4 DEF InRing
<1>7. RingInv'
  BY <1>2, <1>4, <1>6 DEF SubmitInv, RingInv
<1>8. PreparedInv'
  BY <1>1, <1>2, <1>4, <1>6 DEF SubmitInv, PreparedInv, Unshared, Idle
<1>9. OwnersInv'
  <2>1. ASSUME NEW c \in CmdBos
        PROVE  (os.refs[c] = One(InRing(c)) + One(c \in osData)
                        + One(call.at = "wait" /\ call.bo = c))'
    <3>1. os.refs[c] = One(InRing(c)) + One(c \in osData)
      BY <1>2 DEF SubmitInv, OwnersInv, One
    <3>2. os'.refs[c] = One(InRing(c)) + One(c \in osData')
      BY <1>1, <1>3, <1>4, <3>1 DEF One
    <3> QED BY <1>2, <1>6, <3>2 DEF One
  <2> QED BY <2>1 DEF OwnersInv
<1> QED BY <1>5, <1>7, <1>8, <1>9 DEF SubmitInv

-----------------------------------------------------------------------------
(***************************************************************************)
(* The theorems.                                                           *)
(***************************************************************************)
LEMMA SubmitInvInit ==
  ASSUME Init
  PROVE  SubmitInv
<1>1. /\ os = [list |-> <<>>, patches |-> <<>>, cb |-> NoCB, flushed |-> TRUE,
               pool |-> [s \in Slots |-> NoBo], fetch |-> 0,
               refs |-> [b \in CmdBos |-> 0]]
      /\ running = <<>> /\ call = [at |-> "idle"] /\ hw \in Machines /\ osData = {}
  BY DEF Init, OsInit, Idling
<1>2. /\ Context(os) /\ os.flushed = TRUE /\ os.fetch = 0
      /\ os.pool = [s \in Slots |-> NoBo] /\ os.refs = [b \in CmdBos |-> 0]
      /\ "at" \in DOMAIN call /\ call.at = "idle"
  BY <1>1 DEF Context, ContextFields, NoCB
<1>3. 0 \in Slots
  BY OsAssumption DEF Slots
<1>4. running \in Seq(ToSet(running)) /\ DOMAIN running = {}
  BY <1>1 DEF ToSet
<1>5. \A b \in CmdBos : ~InRing(b)
  BY <1>2, OsAssumption DEF InRing
<1>6. TypeOK
  BY <1>1, <1>2, <1>3, <1>4 DEF TypeOK
<1>7. RingInv
  BY <1>2, <1>4 DEF RingInv
<1>8. PreparedInv
  BY <1>2 DEF PreparedInv, Writing
<1>9. OwnersInv
  BY <1>1, <1>2, <1>5 DEF OwnersInv, One
<1> QED BY <1>6, <1>7, <1>8, <1>9 DEF SubmitInv

LEMMA SubmitInvStep ==
  ASSUME SubmitInv, [Next]_vars
  PROVE  SubmitInv'
<1>1. CASE Next
  <2>1. ASSUME NEW t \in DOMAIN Jobs, Begin(t)  PROVE SubmitInv'
    BY <2>1, BeginStep
  <2> QED BY <1>1, <2>1, StartKernelStep, SetUpSurfaceStep, GetCommandBufferStep,
             WaitForSlotStep, EmitStateStep, EmitSurfacesStep, EmitWorkStep,
             EmitEndStep, SubmitStep, GpuFinishStep, QueryTaskStep DEF Next
<1>2. CASE UNCHANGED vars
  <2>1. UNCHANGED <<os, running, call, hw, osData>>
    BY <1>2 DEF vars
  <2>2. \A b : (InRing(b)' <=> InRing(b)) /\ (Unshared(b)' <=> Unshared(b))
    BY <2>1 DEF InRing, Unshared, Idle
  <2>3. TypeOK'
    BY <2>1 DEF SubmitInv, TypeOK
  <2>4. RingInv' /\ PreparedInv'
    BY <2>1, <2>2 DEF SubmitInv, RingInv, PreparedInv
  <2>5. OwnersInv'
    <3>1. ASSUME NEW b \in CmdBos
          PROVE  (os.refs[b] = One(InRing(b)) + One(b \in osData)
                        + One(call.at = "wait" /\ call.bo = b))'
      BY <2>1, <2>2 DEF SubmitInv, OwnersInv, One
    <3> QED BY <3>1 DEF OwnersInv
  <2> QED BY <2>3, <2>4, <2>5 DEF SubmitInv
<1> QED BY <1>1, <1>2

\* The buffer objects of command buffers have one owner each at every step of every
\* call, whatever fails in it (GetCommandBuffer, Ctx_InsertCmdBufferToPool,
\* SubmitCommandBuffer).
THEOREM SubmitInvariant == Spec => []SubmitInv
<1>1. Init => SubmitInv
  BY SubmitInvInit
<1>2. SubmitInv /\ [Next]_vars => SubmitInv'
  BY SubmitInvStep
<1> QED BY <1>1, <1>2, PTL DEF Spec

LEMMA SlotsCount ==
  IsFiniteSet(Slots) /\ Cardinality(Slots) = MaxCmdBufs
<1>1. MaxCmdBufs \in Nat /\ MaxCmdBufs > 0
  BY OsAssumption
<1>2. /\ IsFiniteSet(0 .. MaxCmdBufs - 1)
      /\ Cardinality(0 .. MaxCmdBufs - 1) =
           IF 0 > MaxCmdBufs - 1 THEN 0 ELSE (MaxCmdBufs - 1) - 0 + 1
  BY <1>1, FS_Interval
<1> QED BY <1>1, <1>2 DEF Slots

LEMMA RingBounds ==
  SubmitInv => RingBoundsTheGpu
<1> SUFFICES ASSUME SubmitInv PROVE RingBoundsTheGpu
  OBVIOUS
<1>1. /\ running \in Seq(ToSet(running))
      /\ \A i, j \in DOMAIN running : running[i].bo = running[j].bo => i = j
      /\ \A i \in DOMAIN running : \E s \in Slots : os.pool[s] = running[i].bo
  BY DEF SubmitInv, TypeOK, RingInv, InRing
<1>2. Len(running) \in Nat /\ DOMAIN running = 1 .. Len(running)
  BY <1>1
<1> DEFINE slot == [i \in DOMAIN running |->
                        CHOOSE s \in Slots : os.pool[s] = running[i].bo]
<1>3. \A i \in DOMAIN running : slot[i] \in Slots /\ os.pool[slot[i]] = running[i].bo
  BY <1>1
<1>4. slot \in Injection(1 .. Len(running), Slots)
  <2> HIDE DEF slot
  <2>1. slot \in [1 .. Len(running) -> Slots]
    <3>1. slot = [i \in DOMAIN running |-> slot[i]]
      BY DEF slot
    <3> QED BY <1>2, <1>3, <3>1
  <2>2. \A i, j \in 1 .. Len(running) : slot[i] = slot[j] => i = j
    BY <1>1, <1>2, <1>3
  <2> QED BY <2>1, <2>2 DEF Injection, IsInjective
<1>5. Cardinality(1 .. Len(running)) <= MaxCmdBufs
  BY <1>4, SlotsCount, FS_Injection
<1>6. Cardinality(1 .. Len(running)) = Len(running)
  <2>1. PICK n \in Nat : n = Len(running)
    BY <1>2
  <2>2. Cardinality(1 .. n) = IF 1 > n THEN 0 ELSE n - 1 + 1
    BY FS_Interval
  <2>3. Cardinality(1 .. n) = n
    BY <2>2
  <2> QED BY <2>1, <2>3
<1>7. ~os.flushed => Idle(os.cb.bo)
  BY DEF SubmitInv, PreparedInv, Unshared
<1> QED BY <1>1, <1>5, <1>6, <1>7 DEF RingBoundsTheGpu

\* However the calls fail and the GPU lags, it has no more batches than the ring has
\* slots, each in a buffer object of its own, and none is written while it is
\* prepared (Ctx_WaitForAvailableCmdBo).
THEOREM RingBoundsWork == Spec => []RingBoundsTheGpu
  BY SubmitInvariant, RingBounds, PTL

LEMMA OwnersCount ==
  SubmitInv => ReferencesOwned
<1> SUFFICES ASSUME SubmitInv, NEW b \in CmdBos
             PROVE  os.refs[b] = Cardinality({s \in Slots : os.pool[s] = b})
                        + (IF b \in osData THEN 1 ELSE 0)
                        + (IF call.at = "wait" /\ call.bo = b THEN 1 ELSE 0)
  BY DEF ReferencesOwned
<1>1. \A r, s \in Slots : os.pool[r] = b /\ os.pool[s] = b => r = s
  BY OsAssumption DEF SubmitInv, RingInv
<1>2. Cardinality({s \in Slots : os.pool[s] = b}) = One(InRing(b))
  <2>1. CASE InRing(b)
    <3>1. PICK r \in Slots : os.pool[r] = b
      BY <2>1 DEF InRing
    <3>2. {s \in Slots : os.pool[s] = b} = {r}
      BY <1>1, <3>1
    <3> QED BY <2>1, <3>2, FS_Singleton DEF One
  <2>2. CASE ~InRing(b)
    <3>1. {s \in Slots : os.pool[s] = b} = {}
      BY <2>2 DEF InRing
    <3> QED BY <2>2, <3>1, FS_EmptySet DEF One
  <2> QED BY <2>1, <2>2
<1>3. os.refs[b] = One(InRing(b)) + One(b \in osData)
                        + One(call.at = "wait" /\ call.bo = b)
  BY DEF SubmitInv, OwnersInv
<1> QED BY <1>2, <1>3 DEF One

\* Whatever fails, a buffer object is referenced by its slot of the ring, by the
\* event of its task and by the call that waits with it, and by nothing else: none
\* leaks and none is freed too early (Ctx_GetCommandBuffer, OsResourceUnreference).
THEOREM ReferencesAreOwned == Spec => []ReferencesOwned
  BY SubmitInvariant, OwnersCount, PTL

=============================================================================
