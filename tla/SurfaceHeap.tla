----------------------------- MODULE SurfaceHeap -----------------------------
(***************************************************************************)
(* The surface state heap (hw_interface*.c) and how the HAL binds the      *)
(* surfaces of a kernel in it (hal_cm.cpp).                                *)
(*                                                                         *)
(* The heap holds binding tables and, behind them, surface states.  A      *)
(* kernel names a surface by an index in its binding table, the entry at   *)
(* the index names a surface state, and the surface state has the format   *)
(* and the address of one plane of the surface.  Every task starts an      *)
(* empty heap, whose tables have the size that its kernels need.           *)
(*                                                                         *)
(* Operators take a heap and return one; HalSubmit holds the heap of the   *)
(* task in progress.  Table entries are numbered from the beginning of the *)
(* heap, as their addresses are.                                           *)
(***************************************************************************)
EXTENDS OsCommandBuffer, HwLayouts, Integers, Functions

CONSTANTS
    SurfaceInfo,      \* resource -> its kind, format, width and height
    NullSurface,      \* CM_NULL_SURFACE
    NumSurfaceStates  \* iSurfaceStates

ASSUME SurfaceAssumption ==
    /\ DOMAIN SurfaceInfo \subseteq Resources
    /\ NullSurface \notin Resources
    /\ NumSurfaceStates \in Nat

\* IGFX_GEN7_5, IGFX_GEN8 and IGFX_GEN9 core.
Gens == {75, 8, 9}

\* cm_def.h and hal_cm.h: binding table indices.
CM_NULL_SURFACE_BINDING_INDEX == 0
GlobalStart(gen) == IF gen = 9 THEN 1 ELSE 243
GeneralStart(gen) == IF gen = 9 THEN 8 ELSE 1
CM_MAX_GLOBAL_SURFACE_NUMBER == 4
GlobalIndices(gen) ==
    GlobalStart(gen) .. GlobalStart(gen) + CM_MAX_GLOBAL_SURFACE_NUMBER - 1
MaxSurfacesPerBT == 256

\* HalCm_InitSshSettings: 16 tables of 64 entries, aligned to 64 bytes.
InitHeap ==
    [per |-> 64,            \* iSurfacesPerBT
     tables |-> 16,         \* iBindingTables
     nextTable |-> 0,       \* iCurrentBindingTable
     nextState |-> 0,       \* iCurrentSurfaceState
     entry |-> [e \in {} |-> 0],   \* bound entries -> surface state
     state |-> [s \in {} |-> 0]]   \* surface states as last written

Alignment == 16

-----------------------------------------------------------------------------
(***************************************************************************)
(* Surface states.                                                         *)
(***************************************************************************)
Plane(id, scale, perDword, delta) ==
    [id |-> id, scale |-> scale, perDword |-> perDword, delta |-> delta]

\* g_cInitSurfacePlanes, for the formats the runs use.  delta stands for the
\* offset of the plane in its surface.
Planes ==
    [NV12 |-> <<Plane("Y", 1, 4, 0), Plane("U", 2, 2, 1)>>,
     YUY2 |-> <<Plane("all", 1, 2, 0)>>,
     L8 |-> <<Plane("all", 1, 4, 0)>>,
     A8R8G8B8 |-> <<Plane("all", 1, 1, 0)>>]

CeilDiv(a, b) == (a + b - 1) \div b

\* Packed formats of two pixels get an even height.
AdjustBoundary(info) ==
    IF info.format = "YUY2" THEN 2 * CeilDiv(info.height, 2) ELSE info.height

\* Width is counted in dwords (bWidthInDword), each plane from the dimensions of
\* the surface.
PlaneWidth(info, p) == Max({1, CeilDiv(info.width \div p.scale, p.perDword)})
PlaneHeight(info, p) == Max({1, CeilDiv(AdjustBoundary(info), p.scale)})

\* What a token carries to SendSurfaces: the allocation index the surface had when
\* its state was set up.
PlaneState(o, s, p) ==
    [surface |-> s, plane |-> p.id, delta |-> p.delta,
     width |-> PlaneWidth(SurfaceInfo[s], p),
     height |-> PlaneHeight(SurfaceInfo[s], p),
     alloc |-> GetResourceAllocationIndex(o, s)]

SurfaceStateEntries(o, s) ==
    [i \in DOMAIN Planes[SurfaceInfo[s].format] |->
        PlaneState(o, s, Planes[SurfaceInfo[s].format][i])]

\* A buffer is one state of its size, in bytes.
BufferState(o, s) ==
    <<[surface |-> s, plane |-> "all", delta |-> 0,
       width |-> SurfaceInfo[s].width, height |-> 1,
       alloc |-> GetResourceAllocationIndex(o, s)]>>

StatesOf(o, s) ==
    IF SurfaceInfo[s].kind = "buffer" THEN BufferState(o, s)
    ELSE SurfaceStateEntries(o, s)

NumPlanes(s) ==
    IF SurfaceInfo[s].kind = "buffer" THEN 1
    ELSE Len(Planes[SurfaceInfo[s].format])

MayAssignStates(h, n) == h.nextState + n <= NumSurfaceStates

AssignSurfaceStates(h, states) ==
    [h EXCEPT
        !.state = [i \in h.nextState .. h.nextState + Len(states) - 1 |->
                      states[i - h.nextState + 1]] @@ @,
        !.nextState = @ + Len(states)]

-----------------------------------------------------------------------------
(***************************************************************************)
(* Binding tables.                                                         *)
(***************************************************************************)
\* The heap starts over; the states of the task before are not used again.
AssignSshInstance(h) ==
    [h EXCEPT !.nextTable = 0, !.nextState = 0, !.state = [s \in {} |-> 0]]

\* The least power of two, at least the alignment, that holds what is needed.
TableSize(need) ==
    CHOOSE p \in {Alignment * k : k \in {1, 2, 4, 8, 16}} :
        /\ p >= need
        /\ p = Alignment \/ p \div 2 < need

Rescaled(h, need) ==
    [h EXCEPT !.per = TableSize(need),
              !.tables = (@ * h.per) \div TableSize(need)]

EntryAt(h, table, bti) == table * h.per + bti

EntriesOf(h, table) == EntryAt(h, table, 0) .. EntryAt(h, table, h.per - 1)

\* IntelGen_HwAssignBindingTable: the entries of the table are cleared.
AssignBindingTable(h) ==
    [h EXCEPT !.nextTable = @ + 1,
              !.entry = Restrict(@, DOMAIN @ \ EntriesOf(h, h.nextTable))]

\* The tables that no kernel uses are cleared as well.
AssignRemainingTables(h) ==
    [h EXCEPT !.nextTable = h.tables,
              !.entry = Restrict(@, {e \in DOMAIN @ : e < h.nextTable * h.per})]

\* n states, from the last ones assigned, at consecutive entries.
BindSurfaceStates(h, table, bti, n) ==
    [h EXCEPT !.entry =
        [e \in EntryAt(h, table, bti) .. EntryAt(h, table, bti + n - 1) |->
            h.nextState - n + (e - EntryAt(h, table, bti))] @@ @]

BoundEntries(h) == {e \in DOMAIN h.entry : e < h.nextTable * h.per}

\* SURFACE_STATE: the dword that SendSurfaces patches.
SurfaceBase(gen) ==
    CHOOSE dw \in (CASE gen = 75 -> SURFACE_STATE_G7
                     [] gen = 8 -> SURFACE_STATE_G8
                     [] gen = 9 -> SURFACE_STATE_G9).addresses : TRUE

\* pfnSendSurfaces: a patch for every bound entry of every table.
SendSurfaces(h, o, dw) ==
    LET entries == SetToSortSeq(BoundEntries(h), <)
    IN  [o EXCEPT !.patches = @ \o
            [i \in DOMAIN entries |->
                [alloc |-> h.state[h.entry[entries[i]]].alloc,
                 delta |-> h.state[h.entry[entries[i]]].delta,
                 at |-> InState(h.entry[entries[i]], dw)]]]

SendSurfaces_g75(h, o) == SendSurfaces(h, o, 1)
SendSurfaces_g8(h, o) == SendSurfaces(h, o, 8)
SendSurfaces_g9(h, o) == SendSurfaces(h, o, 8)

-----------------------------------------------------------------------------
(***************************************************************************)
(* The indices of a kernel: taken is dwBTArray.                            *)
(***************************************************************************)
PreSetBindingIndex(gen, indirect) ==
    {CM_NULL_SURFACE_BINDING_INDEX} \cup GlobalIndices(gen)
        \cup {indirect[i].index : i \in DOMAIN indirect}

FreeRun(taken, n, b) == \A i \in b .. b + n - 1 : i \notin taken

\* A search that begins at the first general index and ends at 256.
Candidates(gen, n) == GeneralStart(gen) .. MaxSurfacesPerBT - n

Full(gen, taken, n) == \A b \in Candidates(gen, n) : ~FreeRun(taken, n, b)

FirstRun(gen, taken, n) ==
    CHOOSE b \in Candidates(gen, n) :
        /\ FreeRun(taken, n, b)
        /\ \A c \in GeneralStart(gen) .. b - 1 : ~FreeRun(taken, n, c)

\* The search that does not start over at an index in use.
MutFreeBindingIndex(gen, taken, n) == FirstRun(gen, taken, 1)

\* The first run of n free indices, 0 if there is none.
FreeBindingIndex(gen, taken, n) ==
    IF Full(gen, taken, n) THEN 0 ELSE FirstRun(gen, taken, n)

\* A search that fails leaves the indices it was counting.
TakenAfter(gen, taken, n) ==
    taken \cup
        IF Full(gen, taken, n)
        THEN {i \in Candidates(gen, 1) :
                 \A j \in i .. MaxSurfacesPerBT - 1 : j \notin taken}
        ELSE FreeBindingIndex(gen, taken, n)
                .. FreeBindingIndex(gen, taken, n) + n - 1

-----------------------------------------------------------------------------
(***************************************************************************)
(* One surface of the kernel in progress.  x holds what the steps share:   *)
(* the heap h, the context o, the kernel's table, the indices taken, and   *)
(* bound, the RegularSurfIndex of the surfaces bound so far.               *)
(***************************************************************************)
\* A slot is an argument and a thread.
NoSlot == <<0, 0>>

Registers(x, s) ==
    /\ MayRegister(x.o, s)
    /\ MayAssignStates(x.h, NumPlanes(s))

Bound(x, s, bti) ==
    LET o == RegisterResource(x.o, s)
        h == AssignSurfaceStates(x.h, StatesOf(o, s))
    IN  [x EXCEPT !.o = o,
                  !.h = BindSurfaceStates(h, x.table, bti, NumPlanes(s)),
                  !.bound = (s :> bti) @@ @]

\* HalCm_SetupBufferSurfaceState, HalCm_Setup2DSurfaceState and its UP form: the
\* argument's index goes to its slot of the payload, unless pBuffer is NULL.
Write(x, slot, bti) ==
    IF slot = NoSlot THEN x ELSE [x EXCEPT !.payload = (slot :> bti) @@ @]

SetupArgument(x, s, slot) ==
    IF s = NullSurface THEN Write(x, slot, CM_NULL_SURFACE_BINDING_INDEX)
    ELSE IF s \in DOMAIN x.bound THEN Write(x, slot, x.bound[s])
    ELSE LET bti == FreeBindingIndex(x.gen, x.taken, NumPlanes(s))
         IN  Write([Bound(x, s, bti) EXCEPT
                       !.taken = TakenAfter(x.gen, @, NumPlanes(s))],
                   slot, bti)

\* A global surface has its own index and no place in the payload.
SetupGlobal(x, s, i) ==
    IF s = NullSurface \/ s \in DOMAIN x.bound THEN x
    ELSE Bound(x, s, GlobalStart(x.gen) + i)

\* The WithBTIndex forms: the index is the caller's.
SetupWithBTIndex(x, s, bti) ==
    IF s = NullSurface \/ (s \in DOMAIN x.bound /\ x.bound[s] = bti) THEN x
    ELSE Bound(x, s, bti)
=============================================================================
