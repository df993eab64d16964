---------------------------- MODULE MCFabricEdm ----------------------------
(***************************************************************************)
(* Two links, hence three chips.                                           *)
(***************************************************************************)
EXTENDS FabricEdm

Unicast(h, z) == [mcast |-> FALSE, hops |-> h, range |-> 0, size |-> z]
Multicast(h, r, z) == [mcast |-> TRUE, hops |-> h, range |-> r, size |-> z]

\* Both channels of link 2 in use, with more packets than the receiver has buffers.
Contended == << << <<Unicast(1, 1)>> >>, << <<Unicast(0, 1), Unicast(0, 1)>> >> >>

\* A worker that closes right after its last packet, and another that opens.
Relayed == << << <<Unicast(1, 1), Multicast(0, 1, 1)>>, <<Unicast(0, 1)>> >>, <<>> >>

\* Packets that fill a buffer, and one that does not in between.
Full == << << <<Unicast(0, 4)>>, <<Unicast(0, 1), Unicast(0, 4)>> >>, <<>> >>

\* A packet one channel_sync short of the buffer.
Short == << << <<Unicast(1, 3)>> >>, << <<Unicast(0, 1)>> >> >>

MCLoads == {Contended, Relayed, Full, Short}
=============================================================================
