--------------------------- MODULE MCWorkExecutor ----------------------------
(***************************************************************************)
(* WorkExecutor with an owner and a second producer, a queue that is full  *)
(* with two entries, and enough mode changes to stop a worker and start    *)
(* another.                                                                *)
(***************************************************************************)
EXTENDS WorkExecutor
=============================================================================
