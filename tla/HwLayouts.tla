------------------------------ MODULE HwLayouts ------------------------------
(***************************************************************************)
(* The layouts that hw_cmd.h and hw_cmd_g9.h give the commands and states  *)
(* of the GPU: how many dwords the structure has, and which of them hold   *)
(* the address of a buffer object.  An offset in the general state heap is *)
(* not an address, and bounds of a heap are not.                           *)
(***************************************************************************)
EXTENDS Naturals

Layout(dwords, addresses) == [dwords |-> dwords, addresses |-> addresses]

PIPE_CONTROL_CMD_G7 == Layout(5, {2})
PIPE_CONTROL_CMD_G8 == Layout(6, {2})

MI_LOAD_REGISTER_IMM_CMD_G6 == Layout(3, {})
MI_SET_PREDICATE_CMD_G75 == Layout(1, {})
MI_BATCH_BUFFER_START_CMD_G75 == Layout(2, {1})
MI_BATCH_BUFFER_START_CMD_G8 == Layout(3, {1})
MI_BATCH_BUFFER_END_CMD_G5 == Layout(1, {})

PIPELINE_SELECT_CMD_G5 == Layout(1, {})
PIPELINE_SELECT_CMD_G9 == Layout(1, {})

\* General, surface and dynamic state, indirect objects, instructions.
STATE_BASE_ADDRESS_CMD_G75 == Layout(12, {1, 2, 3, 4, 5})
STATE_BASE_ADDRESS_CMD_G8 == Layout(16, {1, 4, 6, 8, 10})

STATE_SIP_CMD_G75 == Layout(2, {})
STATE_SIP_CMD_G8 == Layout(3, {})

MEDIA_VFE_STATE_CMD_G6 == Layout(8, {})
MEDIA_VFE_STATE_CMD_G8 == Layout(9, {})
MEDIA_VFE_STATE_CMD_G9 == Layout(9, {})

MEDIA_CURBE_LOAD_CMD_G6 == Layout(4, {})
MEDIA_INTERFACE_DESCRIPTOR_LOAD_CMD_G6 == Layout(4, {})
MEDIA_STATE_FLUSH_CMD_G75 == Layout(2, {})

MEDIA_OBJECT_WALKER_CMD_G6 == Layout(17, {})
MEDIA_OBJECT_WALKER_CMD_G9 == Layout(18, {})
GPGPU_WALKER_CMD_G75 == Layout(11, {})
GPGPU_WALKER_CMD_G8 == Layout(15, {})

SURFACE_STATE_G7 == Layout(8, {1})
SURFACE_STATE_G8 == Layout(16, {8})
SURFACE_STATE_G9 == Layout(16, {8})
==============================================================================
