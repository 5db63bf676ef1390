--------------------------- MODULE ClosableQueue ---------------------------
(***************************************************************************)
(* SendQueue (enternet/send_queue.rs) and RecvQueue (recv_queue.rs): one   *)
(* and the same bounded, closable FIFO behind a Mutex and a Condvar.  Each *)
(* critical section is one step; Condvar::wait gives the lock back and     *)
(* falls asleep in one step, and may wake without a notification.          *)
(***************************************************************************)
EXTENDS Naturals, Sequences, FiniteSets

CONSTANTS Frame,      \* the frames that travel through the queue
          Consumer,   \* the threads that call pop in a loop
          Capacity,   \* the capacity given to new()
          MaxPush     \* bound: frames accepted in one behaviour

ASSUME QueueAssumption ==
  /\ Capacity \in Nat \ {0}
  /\ MaxPush \in Nat
  /\ IsFiniteSet(Consumer)

VARIABLES data,       \* Inner.data / Inner.frames
          closed,     \* Inner.closed
          pc,         \* where each consumer is in its pop loop
          accepted,   \* history: frames push took, in order
          delivered   \* history: frames pop returned, in order

vars == <<data, closed, pc, accepted, delivered>>

(***************************************************************************)
(* A consumer is "running" when it holds no frame and will call pop, or is *)
(* handling the frame pop gave it; "waiting" in Condvar::wait; "woken" out *)
(* of it but not yet back under the lock; "done" when pop returned None;   *)
(* "failed" when its thread ended while handling a frame.                  *)
(***************************************************************************)
PopState == {"running", "waiting", "woken", "done", "failed"}

In(s)   == {c \in Consumer : pc[c] = s}
Waiting == In("waiting")
Woken   == In("woken")

Init ==
  /\ data = <<>>
  /\ closed = FALSE
  /\ pc = [c \in Consumer |-> "running"]
  /\ accepted = <<>>
  /\ delivered = <<>>

\* Faulty variants, for the check that each property can fail.
NotifyNobody == UNCHANGED pc
CanPushUnbounded == ~closed
CanPushBelow == ~closed /\ Len(data) + 1 < Capacity

NotifyOne ==
  \/ Waiting = {} /\ UNCHANGED pc
  \/ \E c \in Waiting : pc' = [pc EXCEPT ![c] = "woken"]

NotifyAll == pc' = [c \in Consumer |-> IF pc[c] = "waiting" THEN "woken" ELSE pc[c]]

\* push refuses with Closed or Full and changes nothing; it never blocks.
CanPush == ~closed /\ Len(data) < Capacity

Push(f) ==
  /\ Len(accepted) < MaxPush
  /\ CanPush
  /\ data' = Append(data, f)
  /\ accepted' = Append(accepted, f)
  /\ NotifyOne
  /\ UNCHANGED <<closed, delivered>>

PopNewest(c) ==
  /\ pc[c] \in {"running", "woken"}
  /\ data # <<>>
  /\ data' = SubSeq(data, 1, Len(data) - 1)
  /\ delivered' = Append(delivered, data[Len(data)])
  /\ pc' = [pc EXCEPT ![c] = "running"]
  /\ UNCHANGED <<closed, accepted>>

PopFrame(c) ==
  /\ pc[c] \in {"running", "woken"}
  /\ data # <<>>
  /\ data' = Tail(data)
  /\ delivered' = Append(delivered, Head(data))
  /\ pc' = [pc EXCEPT ![c] = "running"]
  /\ UNCHANGED <<closed, accepted>>

PopNoneEarly(c) ==
  /\ pc[c] \in {"running", "woken"}
  /\ closed
  /\ pc' = [pc EXCEPT ![c] = "done"]
  /\ UNCHANGED <<data, closed, accepted, delivered>>

\* pop returns None: the consumer's `while let Some(frame)` loop ends.
PopNone(c) ==
  /\ pc[c] \in {"running", "woken"}
  /\ data = <<>>
  /\ closed
  /\ pc' = [pc EXCEPT ![c] = "done"]
  /\ UNCHANGED <<data, closed, accepted, delivered>>

PopWait(c) ==
  /\ pc[c] \in {"running", "woken"}
  /\ data = <<>>
  /\ ~closed
  /\ pc' = [pc EXCEPT ![c] = "waiting"]
  /\ UNCHANGED <<data, closed, accepted, delivered>>

Pop(c) == PopFrame(c) \/ PopNone(c) \/ PopWait(c)

SpuriousWakeup(c) ==
  /\ pc[c] = "waiting"
  /\ pc' = [pc EXCEPT ![c] = "woken"]
  /\ UNCHANGED <<data, closed, accepted, delivered>>

\* The consumer's handler returns Err or panics, and its thread ends.
Fail(c) ==
  /\ pc[c] = "running"
  /\ pc' = [pc EXCEPT ![c] = "failed"]
  /\ UNCHANGED <<data, closed, accepted, delivered>>

CloseSilently ==
  /\ closed' = TRUE
  /\ UNCHANGED <<data, pc, accepted, delivered>>

Close ==
  /\ closed' = TRUE
  /\ NotifyAll
  /\ UNCHANGED <<data, accepted, delivered>>

Next ==
  \/ \E f \in Frame : Push(f)
  \/ Close
  \/ \E c \in Consumer : Pop(c) \/ SpuriousWakeup(c) \/ Fail(c)

\* A consumer out of Condvar::wait is a runnable thread: it gets the lock and
\* goes on.  Nobody has to push, to close, or to wake up spuriously.
Spec == Init /\ [][Next]_vars /\ \A c \in Consumer : WF_vars(Pop(c))

-----------------------------------------------------------------------------
\* Every variable has its type, and the queue never outgrows the capacity given
\* to new().
TypeOK ==
  /\ data \in Seq(Frame)
  /\ Len(data) <= Capacity
  /\ closed \in BOOLEAN
  /\ pc \in [Consumer -> PopState]
  /\ accepted \in Seq(Frame)
  /\ delivered \in Seq(Frame)

\* A consumer sleeps in pop only while the queue is open and every frame in it
\* has a woken consumer coming for it: no notify_one or notify_all is lost,
\* however pushes, pops, barging pops and spurious wakeups interleave.
NoLostWakeup ==
  Waiting # {} => ~closed /\ Len(data) <= Cardinality(Woken)

\* pop returns None only from a closed and drained queue, and it stays so:
\* close() discards no frame that push accepted.
DrainedWhenDone == In("done") # {} => closed /\ data = <<>>

\* Frames leave in the order they entered and none is lost or doubled between
\* push and pop.
Fifo == accepted = delivered \o data

\* After close() no consumer stays blocked in pop: join() on it returns.
CloseReleasesAll == closed ~> \A c \in Consumer : pc[c] \in {"done", "failed"}

\* A frame that push accepted is popped, unless every consumer thread died.
EveryAcceptedPopped ==
  \A n \in 1..MaxPush :
    Len(accepted) >= n ~> Len(delivered) >= n \/ In("failed") = Consumer

Channel == INSTANCE FifoChannel
             WITH Value <- Frame, sent <- accepted, received <- delivered, shut <- closed

\* The lock, the condvar and the buffer implement the channel.
ImplementsChannel == Channel!ChannelSpec
=============================================================================
