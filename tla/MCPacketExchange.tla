-------------------------- MODULE MCPacketExchange --------------------------
(* TLC instance: two hosts and one of another kind; data of odd length and  *)
(* full of ones, or such that the checksum of a datagram from A to B comes  *)
(* out as 0.                                                                *)
EXTENDS PacketExchange

A == [mac |-> <<2, 0, 0, 0, 0, 1>>, ip |-> <<10, 0, 0, 1>>]
B == [mac |-> <<2, 0, 0, 0, 0, 255>>, ip |-> <<192, 168, 255, 255>>]

O == [mac |-> <<2, 0, 0, 0, 0, 7>>, ip |-> <<10, 0, 0, 7>>]

MCStation == {A, B}
MCOutsider == {O}
ZeroSum(p, q) == TwoBytes(UdpChecksum(A.ip, B.ip, TwoBytes(p) \o TwoBytes(q) \o <<0, 10, 0, 0, 0, 0>>))
MCData == {<<255, 255, 255, 255, 0>>, ZeroSum(7, 7)}
=============================================================================
