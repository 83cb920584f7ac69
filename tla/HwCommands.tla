------------------------------ MODULE HwCommands ------------------------------
(***************************************************************************)
(* The commands of hw_interface*.c, as sequences that a task appends to    *)
(* its command buffer.  A command has the layout of its structure, what    *)
(* the GPU is told as far as the properties ask, and the patches that its  *)
(* emitter makes: which dword takes the address of which resource.         *)
(*                                                                         *)
(* _g75, _g8 and _g9 are the source's: the generation whose form it is.    *)
(***************************************************************************)
EXTENDS SurfaceHeap

CONSTANTS
    GSH,          \* the general state heap
    TsResource,   \* the timestamps of the tasks
    Predicated    \* gen 7.5: quad walkers on a GT3 or with a single slice

ASSUME HwAssumption ==
    /\ {GSH, TsResource} \subseteq Resources
    /\ GSH # TsResource
    /\ Predicated \in BOOLEAN

Patch(dw, res, delta) == [dw |-> dw, res |-> res, delta |-> delta]

Cmd(op, layout, arg, patches) ==
    <<[op |-> op, layout |-> layout, arg |-> arg, patches |-> patches]>>

Plain(op, layout) == Cmd(op, layout, 0, <<>>)

\* dwOffsetSync of the general state heap; where the surface state heap starts in
\* the command buffer; the bit that tells a base address is to change.
SyncOffset == 8
IndirectStateBase == 4096
ModifyEnable == 1

-----------------------------------------------------------------------------
(***************************************************************************)
(* Synchronisation.  A PIPE_CONTROL takes an address whether or not it     *)
(* writes a value after the flush.                                         *)
(***************************************************************************)
PipeControl_g75(post, res, delta, value) ==
    Cmd("PIPE_CONTROL", PIPE_CONTROL_CMD_G7, [post |-> post, value |-> value],
        <<Patch(2, res, delta)>>)

PipeControl_g8(post, res, delta, value) ==
    Cmd("PIPE_CONTROL", PIPE_CONTROL_CMD_G8, [post |-> post, value |-> value],
        <<Patch(2, res, delta)>>)

PipeControl(gen, post, res, delta, value) ==
    IF gen = 75 THEN PipeControl_g75(post, res, delta, value)
    ELSE PipeControl_g8(post, res, delta, value)

Flush(gen) == PipeControl(gen, "nothing", TsResource, 0, 0)

TimeStamp(gen, at) == PipeControl(gen, "timestamp", TsResource, at, 0)

SyncTag(gen, tag) ==
    PipeControl(gen, "nothing", GSH, 0, 0)
        \o PipeControl(gen, "immediate", GSH, SyncOffset, tag)

-----------------------------------------------------------------------------
(***************************************************************************)
(* Configuration.                                                          *)
(***************************************************************************)
LoadRegImm == Plain("MI_LOAD_REGISTER_IMM", MI_LOAD_REGISTER_IMM_CMD_G6)

Copies(cmd, n) == [i \in 1 .. n |-> cmd[1]]

L3CacheConfig_g75 == Copies(LoadRegImm, 4)
L3CacheConfig_g8 == LoadRegImm

L3CacheConfig(gen) == IF gen = 75 THEN L3CacheConfig_g75 ELSE L3CacheConfig_g8

DebugCtl_g75 == Copies(LoadRegImm, 8)
DebugCtl_g8 == Copies(LoadRegImm, 2)
DebugCtl_g9 == Copies(LoadRegImm, 2)

DebugCtl(gen) ==
    CASE gen = 75 -> DebugCtl_g75
      [] gen = 8 -> DebugCtl_g8
      [] gen = 9 -> DebugCtl_g9

\* The system routine is at an offset of the general state heap.
StateSip_g75 == Plain("STATE_SIP", STATE_SIP_CMD_G75)
StateSip_g8 == Plain("STATE_SIP", STATE_SIP_CMD_G8)

StateSip(gen) == IF gen = 75 THEN StateSip_g75 ELSE StateSip_g8

PipelineSelect(gen, group) ==
    Cmd("PIPELINE_SELECT",
        IF gen = 9 THEN PIPELINE_SELECT_CMD_G9 ELSE PIPELINE_SELECT_CMD_G5,
        [group |-> group], <<>>)

\* Surface state is in the command buffer, all other state in the general heap.
StateBaseAddr_g75(bo) ==
    Cmd("STATE_BASE_ADDRESS", STATE_BASE_ADDRESS_CMD_G75, 0,
        <<Patch(1, GSH, ModifyEnable),
          Patch(2, bo, IndirectStateBase + ModifyEnable),
          Patch(3, GSH, ModifyEnable),
          Patch(4, GSH, ModifyEnable),
          Patch(5, GSH, ModifyEnable)>>)

StateBaseAddr_g8(bo) ==
    Cmd("STATE_BASE_ADDRESS", STATE_BASE_ADDRESS_CMD_G8, 0,
        <<Patch(1, GSH, ModifyEnable),
          Patch(4, bo, IndirectStateBase + ModifyEnable),
          Patch(6, GSH, ModifyEnable),
          Patch(8, GSH, ModifyEnable),
          Patch(10, GSH, ModifyEnable)>>)

StateBaseAddr(gen, bo) ==
    IF gen = 75 THEN StateBaseAddr_g75(bo) ELSE StateBaseAddr_g8(bo)

-----------------------------------------------------------------------------
(***************************************************************************)
(* The media pipeline.                                                     *)
(***************************************************************************)
\* ScoreboardMask has the first numMask bits: every vector of the scoreboard.
VfeStateParams(group, scoreboard) == [group |-> group, waits |-> scoreboard]

VfeState_g75(params) == Cmd("MEDIA_VFE_STATE", MEDIA_VFE_STATE_CMD_G6, params, <<>>)
VfeState_g8(params) == Cmd("MEDIA_VFE_STATE", MEDIA_VFE_STATE_CMD_G8, params, <<>>)
VfeState_g9(params) == Cmd("MEDIA_VFE_STATE", MEDIA_VFE_STATE_CMD_G9, params, <<>>)

VfeState(gen, params) ==
    CASE gen = 75 -> VfeState_g75(params)
      [] gen = 8 -> VfeState_g8(params)
      [] gen = 9 -> VfeState_g9(params)

CurbeLoad == Plain("MEDIA_CURBE_LOAD", MEDIA_CURBE_LOAD_CMD_G6)

IDLoad ==
    Plain("MEDIA_INTERFACE_DESCRIPTOR_LOAD", MEDIA_INTERFACE_DESCRIPTOR_LOAD_CMD_G6)

MediaStateFlush == Plain("MEDIA_STATE_FLUSH", MEDIA_STATE_FLUSH_CMD_G75)

-----------------------------------------------------------------------------
(***************************************************************************)
(* Work.  id is the kernel's interface descriptor.  Every generation puts  *)
(* the mask of the VFE state in a walker, never the kernel's own mask.     *)
(***************************************************************************)
MiSetPredicate(on) ==
    Cmd("MI_SET_PREDICATE", MI_SET_PREDICATE_CMD_G75, [on |-> on], <<>>)

Walker(layout, id, scoreboard) ==
    Cmd("MEDIA_OBJECT_WALKER", layout, [id |-> id, waits |-> scoreboard], <<>>)

\* Predicated, the GPU executes one of the two.
WalkerState_g75(id, scoreboard) ==
    LET walker == Walker(MEDIA_OBJECT_WALKER_CMD_G6, id, scoreboard)
    IN  IF ~Predicated THEN walker
        ELSE MiSetPredicate("clear") \o walker
                \o MiSetPredicate("set") \o walker \o MiSetPredicate("off")

WalkerState_g8(id, scoreboard) == Walker(MEDIA_OBJECT_WALKER_CMD_G6, id, scoreboard)
WalkerState_g9(id, scoreboard) == Walker(MEDIA_OBJECT_WALKER_CMD_G9, id, scoreboard)

MediaWalker(gen, id, scoreboard) ==
    CASE gen = 75 -> WalkerState_g75(id, scoreboard)
      [] gen = 8 -> WalkerState_g8(id, scoreboard)
      [] gen = 9 -> WalkerState_g9(id, scoreboard)

GpGpuWalkerState_g75(id) ==
    Cmd("GPGPU_WALKER", GPGPU_WALKER_CMD_G75, [id |-> id], <<>>)
GpGpuWalkerState_g8(id) ==
    Cmd("GPGPU_WALKER", GPGPU_WALKER_CMD_G8, [id |-> id], <<>>)

GpGpuWalker(gen, id) ==
    IF gen = 75 THEN GpGpuWalkerState_g75(id) ELSE GpGpuWalkerState_g8(id)

BatchBufferStart_g75(buffer) ==
    Cmd("MI_BATCH_BUFFER_START", MI_BATCH_BUFFER_START_CMD_G75, 0,
        <<Patch(1, buffer, 0)>>)

BatchBufferStart_g8(buffer) ==
    Cmd("MI_BATCH_BUFFER_START", MI_BATCH_BUFFER_START_CMD_G8, 0,
        <<Patch(1, buffer, 0)>>)

BatchBufferStart(gen, buffer) ==
    IF gen = 75 THEN BatchBufferStart_g75(buffer) ELSE BatchBufferStart_g8(buffer)

BatchBufferEnd == Plain("MI_BATCH_BUFFER_END", MI_BATCH_BUFFER_END_CMD_G5)
=============================================================================
