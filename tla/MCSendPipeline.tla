--------------------------- MODULE MCSendPipeline ---------------------------
(* TLC instance: up to twice as many fragments as the queue has room for.   *)
EXTENDS SendPipeline
=============================================================================
