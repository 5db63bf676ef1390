------------------------------- MODULE MCArp -------------------------------
(* TLC instance: one peer that moves between two adapters, so that an old   *)
(* frame and a cached entry can both be wrong about it.                     *)
EXTENDS Arp
=============================================================================
