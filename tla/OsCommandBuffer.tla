--------------------------- MODULE OsCommandBuffer ---------------------------
(***************************************************************************)
(* The GENOS context of os_interface.c.                                    *)
(*                                                                         *)
(* A task registers the resources it uses: their buffer objects enter an   *)
(* allocation list and each learns its index there.  The commands it       *)
(* writes in the command buffer refer to resources by address; a patch     *)
(* says which address of the buffer object takes which entry of the list.  *)
(* The submission turns the patches into relocations and executes the      *)
(* command buffer.  Its buffer object stays in a ring of fixed size, and   *)
(* a task that needs the slot waits until the GPU is done with it.         *)
(***************************************************************************)
EXTENDS Naturals, FiniteSets, Sequences, SequencesExt

CONSTANTS
    Resources,    \* buffer objects that live as long as the device
    CmdBos,       \* buffer objects for command buffers
    NoBo,         \* no buffer object
    ListSize,     \* ALLOCATIONLIST_SIZE
    CmdRoom,      \* COMMAND_BUFFER_SIZE, in dwords, less the heap behind
    MaxCmdBufs    \* MAX_CMD_BUF_NUM

ASSUME OsAssumption ==
    /\ {ListSize, CmdRoom, MaxCmdBufs} \subseteq Nat
    /\ ListSize > 0 /\ CmdRoom > 0 /\ MaxCmdBufs > 0
    /\ IsFiniteSet(CmdBos) /\ IsFiniteSet(Resources)
    /\ Resources \cap CmdBos = {}
    /\ NoBo \notin Resources \cup CmdBos

VARIABLES
    os,       \* the context: lists, pCB, bCBFlushed, the ring of buffer objects
    running   \* batches the GPU has not finished, oldest first

Slots == 0 .. MaxCmdBufs - 1

NoCB == [bo |-> NoBo, used |-> 0, room |-> 0]

\* list is pAllocationList, refs the references to a command bo.
OsInit ==
    /\ os = [list |-> <<>>,
             patches |-> <<>>,
             cb |-> NoCB,
             flushed |-> TRUE,
             pool |-> [s \in Slots |-> NoBo],
             fetch |-> 0,
             refs |-> [b \in CmdBos |-> 0]]
    /\ running = <<>>

-----------------------------------------------------------------------------
(***************************************************************************)
(* The lists of a task.  Operators from a context to a context.            *)
(***************************************************************************)
MutResetOsStates(o) ==
    [o EXCEPT !.list = <<>>, !.cb.bo = IF o.flushed THEN NoBo ELSE @]

ResetOsStates(o) ==
    [o EXCEPT !.list = <<>>,
              !.patches = <<>>,
              !.cb.bo = IF o.flushed THEN NoBo ELSE @]

ListedAt(o, r) == CHOOSE i \in DOMAIN o.list : o.list[i] = r

MayRegister(o, r) == r \in ToSet(o.list) \/ Len(o.list) < ListSize

Listed(list, r) == IF r \in ToSet(list) THEN list ELSE Append(list, r)

RegisterResource(o, r) == [o EXCEPT !.list = Listed(o.list, r)]

CanRegister(o, resources) ==
    Cardinality(ToSet(o.list) \cup ToSet(resources)) <= ListSize

Registered(o, resources) == [o EXCEPT !.list = FoldLeft(Listed, o.list, resources)]

\* Where an address is in the command buffer: a dword of the commands, or a dword
\* of a surface state in the heap behind them.
InCommand(dw) == <<"command", dw, 0>>
InState(s, dw) == <<"state", s, dw>>

\* iAllocationIndex of a resource the task has registered.  A resource that an
\* earlier task had registered keeps its index, and a patch with it would name the
\* buffer now at that place of the list.  Here such a patch names none (0): no task
\* makes one as long as all it patches is registered before, which
\* CommandsNameTheirBuffers and EveryArgumentReadsItsSurface check.
GetResourceAllocationIndex(o, r) == IF r \in ToSet(o.list) THEN ListedAt(o, r) ELSE 0

SetPatchEntry(o, p) ==
    [alloc |-> GetResourceAllocationIndex(o, p.res), delta |-> p.delta, at |-> p.at]

Patched(o, patches) ==
    [o EXCEPT !.patches = o.patches
        \o [i \in DOMAIN patches |-> SetPatchEntry(o, patches[i])]]

-----------------------------------------------------------------------------
(***************************************************************************)
(* GetCommandBuffer keeps a buffer that was never submitted, or allocates  *)
(* one, waits for the slot of the ring, and registers it.                  *)
(***************************************************************************)
Idle(b) == \A i \in DOMAIN running : running[i].bo # b

FreeBos == {b \in CmdBos : os.refs[b] = 0 /\ Idle(b)}

CtxGetCommandBuffer(o, b) == [o EXCEPT !.refs[b] = 1]

MutWaitForAvailableCmdBo == TRUE

WaitForAvailableCmdBo == Idle(os.pool[os.fetch])

ReleaseFetched(o) ==
    IF o.pool[o.fetch] = NoBo THEN o.refs
    ELSE [o.refs EXCEPT ![o.pool[o.fetch]] = @ - 1]

MutInsertCmdBufferToPool(o, b) ==
    [o EXCEPT !.pool[o.fetch] = b,
              !.fetch = (@ + 1) % MaxCmdBufs,
              !.flushed = FALSE,
              !.cb = [bo |-> b, used |-> 0, room |-> CmdRoom]]

InsertCmdBufferToPool(o, b) ==
    [o EXCEPT !.refs = ReleaseFetched(o),
              !.pool[o.fetch] = b,
              !.fetch = (@ + 1) % MaxCmdBufs,
              !.flushed = FALSE,
              !.cb = [bo |-> b, used |-> 0, room |-> CmdRoom]]

\* What the caller has written is taken into pCB, or taken back.
ReturnCommandBuffer(o, cmd) ==
    IF cmd.bo = NoBo THEN o
    ELSE [o EXCEPT !.cb.used = cmd.used, !.cb.room = cmd.room]

AddCommands(cmd, n) == [cmd EXCEPT !.used = @ + n, !.room = @ - n]

HasRoom(cmd, n) == cmd.room >= n

-----------------------------------------------------------------------------
(***************************************************************************)
(* SubmitCommandBuffer.                                                    *)
(***************************************************************************)
\* A patch without an allocation has no address to put.
MayRelocate(o) == \A i \in DOMAIN o.patches : o.patches[i].alloc \in DOMAIN o.list

\* Patches are applied in their order: the last one of an address holds.
Relocations(o) ==
    [at \in {o.patches[i].at : i \in DOMAIN o.patches} |->
        LET last == SelectLastInSeq(o.patches, LAMBDA p : p.at = at)
        IN  [bo |-> o.list[o.patches[last].alloc], delta |-> o.patches[last].delta]]

\* An error before the execution leaves the lists to ResetOsStates.
SubmissionFails(o) == [o EXCEPT !.flushed = TRUE]

ListsCleared(o) ==
    [o EXCEPT !.flushed = TRUE, !.list = <<>>, !.patches = <<>>]

OsResourceReference(o, b) == [o EXCEPT !.refs[b] = @ + 1]
OsResourceUnreference(o, b) == [o EXCEPT !.refs[b] = @ - 1]
=============================================================================
