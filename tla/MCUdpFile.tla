----------------------------- MODULE MCUdpFile -----------------------------
(* TLC instance: a file of three chunks and one of two, a damaged datagram  *)
(* and one that does not fit the buffer.                                    *)
EXTENDS UdpFile

CONSTANTS s1, s2

MCChunks == [s \in Sender |-> IF s = s1 THEN 2 ELSE 3]
MCJunk == {[kind |-> "damaged", total |-> 0, idx |-> 0, from |-> Receiver],
           [kind |-> "long", total |-> 0, idx |-> 0, from |-> Receiver]}
=============================================================================
