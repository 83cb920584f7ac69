------------------------------- MODULE MCCmQueue -------------------------------
(***************************************************************************)
(* CmQueue on small sets of tasks.  s1 is used by every task and s2 by one *)
(* of them.                                                                *)
(***************************************************************************)
EXTENDS CmQueueInv

CONSTANTS t1, t2, t3, s1, s2

MCTasks == {t1, t2, t3}
MCSurfaces == {s1, s2}
MCUses == [t \in Tasks |-> IF t = t1 THEN {s1, s2} ELSE {s1}]
=============================================================================
