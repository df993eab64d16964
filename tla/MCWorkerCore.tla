---------------------------- MODULE MCWorkerCore ----------------------------
(***************************************************************************)
(* Counters that wrap at 8 instead of 2^16, and at 32 instead of 2^32.     *)
(***************************************************************************)
EXTENDS WorkerCore

Compute(t, b) == [compute |-> TRUE, tiles |-> t, batch |-> b]
Move(t, b) == [compute |-> FALSE, tiles |-> t, batch |-> b]

\* Where the packer's count has 16 bits, any number of tiles.
Narrow == {[wide |-> FALSE, programs |-> <<p, q>>] :
             p \in {Compute(11, 1), Move(36, 1)}, q \in {Compute(12, 2), Compute(9, 1)}}

\* Where it has 32, fewer tiles than 2^16 through the packer.
Wide == {[wide |-> TRUE, programs |-> <<p, q>>] :
           p \in {Compute(7, 1), Compute(4, 4)}, q \in {Compute(6, 2), Move(34, 2)}}

\* And more.
WideLong == {[wide |-> TRUE, programs |-> <<Compute(14, 1)>>]}

MCLoads == Narrow \cup Wide
=============================================================================
