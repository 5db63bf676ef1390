---------------------------- MODULE RecvPipeline ----------------------------
(***************************************************************************)
(* datalink_recv (enternet/datalink/recv.rs): recv_loop captures frames    *)
(* and pushes those that carry IPv4; delivery_worker pops them and gives   *)
(* them to its reassembler.  Senders and network are those of              *)
(* DatagramPath, the RecvQueue between the threads is ClosableQueue with   *)
(* one consumer.                                                           *)
(***************************************************************************)
EXTENDS DatagramPath, Sequences

CONSTANTS Worker,      \* the thread of delivery_worker
          Capacity,    \* RECV_QUEUE_CAPACITY
          Foreign,     \* a frame whose packet does not parse or is not for this host
          MaxPush      \* bound: frames the queue takes in one behaviour

ASSUME RecvAssumption ==
  /\ Capacity \in Nat \ {0}
  /\ MaxPush \in Nat

VARIABLES loop,       \* where datalink_recv is, and at last the error it returned
          hand,       \* the frame the worker popped and has not processed, if any
          up,         \* history: the payloads handed to ICMP, UDP or the file
          timedOut,   \* history: the keys whose buffers have expired
          data, closed, pc, accepted, delivered    \* the RecvQueue

queueVars == <<data, closed, pc, accepted, delivered>>
recvVars == <<vars, loop, hand, up, timedOut, queueVars>>

Datagram == [src : Host, n : Nat, ident : 0 .. IdentRange - 1, len : Length]
Frame == {CutFragment(c) : c \in [dgram : Datagram, at : Nat]} \cup {Foreign}

Queue == INSTANCE ClosableQueue WITH Consumer <- {Worker}

RecvInit ==
  /\ Init
  /\ Queue!Init
  /\ loop = "capturing"
  /\ hand = <<>>
  /\ up = {}
  /\ timedOut = {}

-----------------------------------------------------------------------------
\* Senders, network and clock.
Outside ==
  /\ \/ \E h \in Host, l \in Length : Begin(h, l)
     \/ \E c \in building : Cut(c)
     \/ now < MaxTime /\ Tick /\ UNCHANGED senderVars
  /\ UNCHANGED <<loop, hand, up, timedOut, queueVars>>

\* A frame passes handle_frame and the queue takes it.  A full queue refuses it,
\* which changes nothing but that the frame is lost.
Enqueue(f) ==
  /\ loop = "capturing"
  /\ Queue!Push(f)
  /\ UNCHANGED <<vars, loop, hand, up, timedOut>>

\* next_packet fails, or sendpacket with an ARP reply: the loop ends.
CaptureFails ==
  /\ loop = "capturing"
  /\ loop' = "closing"
  /\ UNCHANGED <<vars, hand, up, timedOut, queueVars>>

LeaveOpen ==
  /\ loop = "closing"
  /\ loop' = "joining"
  /\ UNCHANGED <<vars, hand, up, timedOut, queueVars>>

CloseQueue ==
  /\ loop = "closing"
  /\ Queue!Close
  /\ loop' = "joining"
  /\ UNCHANGED <<vars, hand, up, timedOut>>

JoinEarly ==
  /\ loop = "joining"
  /\ loop' = IF pc[Worker] = "failed" THEN "workerErr" ELSE "captureErr"
  /\ UNCHANGED <<vars, hand, up, timedOut, queueVars>>

\* The panic of the worker goes before the error of the loop.
Join ==
  /\ loop = "joining"
  /\ pc[Worker] \in {"done", "failed"}
  /\ loop' = IF pc[Worker] = "failed" THEN "workerErr" ELSE "captureErr"
  /\ UNCHANGED <<vars, hand, up, timedOut, queueVars>>

-----------------------------------------------------------------------------
Fetch ==
  /\ hand = <<>>
  /\ Queue!PopFrame(Worker)
  /\ hand' = <<Head(data)>>
  /\ UNCHANGED <<vars, loop, up, timedOut>>

\* pop finds nothing: the worker ends, or goes to sleep.
FindNone ==
  /\ hand = <<>>
  /\ Queue!PopNone(Worker) \/ Queue!PopWait(Worker)
  /\ UNCHANGED <<vars, loop, hand, up, timedOut>>

Spurious ==
  /\ Queue!SpuriousWakeup(Worker)
  /\ UNCHANGED <<vars, loop, hand, up, timedOut>>

\* A new reassembler for every frame.
ProcessAnew ==
  /\ hand # <<>>
  /\ \E f \in {Head(hand)} \ {Foreign} :
       buffers' = [k \in {f.key} |-> [start |-> now, header |-> f, frags |-> {f},
                                     total |-> IF f.mf THEN {} ELSE {End(f)}]]
  /\ hand' = <<>>
  /\ UNCHANGED <<senderVars, now, out, alive, loop, up, timedOut, queueVars>>

\* process_frame.  The errors of the layers above are printed and forgotten; a
\* panic of the reassembler ends the thread.
Process ==
  /\ hand # <<>>
  /\ IF Head(hand) = Foreign THEN Discard ELSE Receive(Head(hand))
  /\ IF alive' THEN UNCHANGED queueVars ELSE Queue!Fail(Worker)
  /\ hand' = <<>>
  /\ up' = up \cup {p.payload : p \in out'}
  /\ timedOut' = timedOut \cup (DOMAIN buffers \ LiveKeys)
  /\ UNCHANGED <<senderVars, loop>>

Finish == CloseQueue \/ Join
Work == Fetch \/ FindNone \/ Process

RecvNext ==
  \/ Outside
  \/ \E f \in wire \cup {Foreign} : Enqueue(f)
  \/ CaptureFails
  \/ Finish
  \/ Work
  \/ Spurious

\* Two runnable threads each go on.  Nobody has to send, to capture, or to fail.
RecvSpec == RecvInit /\ [][RecvNext]_recvVars /\ WF_recvVars(Finish) /\ WF_recvVars(Work)

-----------------------------------------------------------------------------
\* For senders and layers above, the threads and the queue between them are the
\* reassembler on the network: nothing comes up that Spec does not allow.
ImplementsPath == Spec

\* datalink_recv returns only after its worker: with the error of the capture
\* when every frame the queue took has been processed, else with the panic.
ReturnsAfterWorker ==
  /\ loop = "captureErr" => alive /\ hand = <<>> /\ delivered = accepted
  /\ loop = "workerErr"  => ~alive

ArrivedWhole(n) ==
  \E d \in sent : /\ d.n = n /\ Finished(d)
                  /\ \A f \in PiecesOf(d) : \E i \in DOMAIN accepted : accepted[i] = f

Settled(n) ==
  \E d \in sent : d.n = n /\ (PayloadOf(d) \in up \/ <<d.src, d.ident>> \in timedOut)

\* Of a datagram the queue took every fragment: it is handed up, unless its
\* buffer expired or the worker died, and a sleeping worker, a capture that ends
\* or foreign frames in between make no other exception.
ArrivedIsHandedUp ==
  \A n \in 0 .. MaxDatagrams - 1 : ArrivedWhole(n) ~> Settled(n) \/ ~alive

\* When the capture ends, so does datalink_recv, whatever is in the queue and
\* whether or not the worker is alive.
ReceptionEnds == loop = "closing" ~> loop \in {"captureErr", "workerErr"}
=============================================================================
