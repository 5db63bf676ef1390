-------------------------- MODULE MCClosableQueue --------------------------
(* TLC instance: two consumers, so that a notification can go to either and *)
(* a third pop can barge in; frames are told apart by their content.        *)
EXTENDS ClosableQueue
=============================================================================
