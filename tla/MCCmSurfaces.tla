----------------------------- MODULE MCCmSurfaces -----------------------------
(***************************************************************************)
(* A small instance of the surface pool for TLC.                           *)
(***************************************************************************)
EXTENDS CmSurfaces

CONSTANTS i1, i2, t1, t2, th1, th2

\* The table of buffers is full before the pool is, the others with it.
OneBuffer == [c \in Classes |-> IF c = "buffer" THEN 1 ELSE 2]

\* Tasks are interchangeable and GetFreeSurfaceIndex takes the first free
\* index: TLC takes both in order.
InOrder ==
    /\ t2 \in given' => t1 \in given'
    /\ (array[i2] = NULL /\ array'[i2] # NULL) => array[i1] # NULL

\* Bound: no call begins once the queue is locked for ever or blocked by a
\* task without an event; those in progress go on.
NoCallsOnceStuck ==
    Stuck \/ LeftLocked => \A th \in Threads : Idle(th) => Idle(th)'
=============================================================================
