--------------------------- MODULE MCLockFreeQueue ---------------------------
(***************************************************************************)
(* LockFreeQueue on a ring of three nodes, so that it is full with two     *)
(* values and wraps at every third push, with two writers.                 *)
(***************************************************************************)
EXTENDS LockFreeQueue
=============================================================================
