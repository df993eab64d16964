----------------------------- MODULE MCGoSignals -----------------------------
(* GoSignals with two workers, alone or as two sub-devices of one worker. *)
EXTENDS GoSignals
CONSTANTS a, b
MCWorkers == {a, b}
MCKernels == {{a}, {a, b}}
MCManagers == {<<{a}, {b}>>}
=============================================================================
