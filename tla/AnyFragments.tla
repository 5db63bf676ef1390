---------------------------- MODULE AnyFragments ----------------------------
(***************************************************************************)
(* The reassembler fed by a network that may deliver any fragment of a     *)
(* given set at any time, any number of times and in any order.  The set   *)
(* and how far the clock runs (a bound) are arguments.                     *)
(***************************************************************************)
EXTENDS Reassembler

FedNext(arriving, maxTime) ==
  \/ \E f \in arriving : Receive(f)
  \/ Discard
  \/ now < maxTime /\ Tick

FedSpec(arriving, maxTime) ==
  ReassemblerInit /\ [][FedNext(arriving, maxTime)]_reassemblerVars
=============================================================================
