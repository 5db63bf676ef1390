--------------------------- MODULE MCDatagramPath ---------------------------
(* TLC instance.  Lengths and ranges are scaled down together: cuts at      *)
(* multiples of 16 bytes, a payload in one piece and one in three.          *)
EXTENDS DatagramPath
=============================================================================
