---------------------------- MODULE FifoChannel ----------------------------
(***************************************************************************)
(* What SendQueue, RecvQueue and the queue of a UDP socket promise their   *)
(* two sides, with no lock, no condition variable and no buffer: the       *)
(* values taken out are a prefix of the values put in, at most Capacity of *)
(* them are under way, and nothing is put in after the channel is shut.    *)
(***************************************************************************)
EXTENDS Naturals, Sequences

CONSTANTS Value,      \* what travels through the channel
          Capacity    \* how many values may be under way

VARIABLES sent,       \* every value put in, in order
          received,   \* every value taken out, in order
          shut        \* no value is put in any more

channelVars == <<sent, received, shut>>

ChannelInit == sent = <<>> /\ received = <<>> /\ shut = FALSE

Send(v) ==
  /\ ~shut
  /\ Len(sent) < Len(received) + Capacity
  /\ sent' = Append(sent, v)
  /\ UNCHANGED <<received, shut>>

Receive ==
  /\ Len(received) < Len(sent)
  /\ received' = Append(received, sent[Len(received) + 1])
  /\ UNCHANGED <<sent, shut>>

Shut == shut' = TRUE /\ UNCHANGED <<sent, received>>

ChannelNext == Receive \/ Shut \/ \E v \in Value : Send(v)

ChannelSpec == ChannelInit /\ [][ChannelNext]_channelVars
=============================================================================
