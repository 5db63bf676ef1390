--------------------------- MODULE MCRecvPipeline ---------------------------
(* TLC instance of the receiving host with the senders of DatagramPath.     *)
EXTENDS RecvPipeline
=============================================================================
