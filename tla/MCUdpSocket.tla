---------------------------- MODULE MCUdpSocket ----------------------------
(* TLC instance: datagrams for the address socket() gives the second one,  *)
(* and for a broadcast address, which only a socket on AnyIp gets.         *)
EXTENDS UdpSocket

CONSTANT Broadcast

MCBindTo == {[ip |-> AnyIp, port |-> 2]}
MCDatagram == {[ip |-> LocalIp, port |-> 3, data |-> "x"], [ip |-> Broadcast, port |-> 2, data |-> "y"]}
=============================================================================
