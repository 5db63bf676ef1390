---------------------------- MODULE SendPipeline ----------------------------
(***************************************************************************)
(* datalink_send (enternet/datalink/send.rs) once the payload is cut: the  *)
(* main thread pushes a frame per fragment, closes the queue and joins     *)
(* send_worker, which opens the device and hands it the frames.  The       *)
(* SendQueue between the two is ClosableQueue with this one consumer.      *)
(***************************************************************************)
EXTENDS Naturals, Sequences, FiniteSets

CONSTANTS Worker,         \* the thread of send_worker
          Capacity,       \* SEND_QUEUE_CAPACITY
          MaxFragments    \* bound: fragments of the payload

ASSUME SendAssumption ==
  /\ Capacity \in Nat \ {0}
  /\ MaxFragments \in Nat \ {0}

VARIABLES main,      \* where datalink_send is, and at last what it returned
          todo,      \* the frames still to be pushed
          queued,    \* its count of the frames that push took
          refused,   \* history: the frames that push refused
          opened,    \* whether the worker has its device
          hand,      \* the frame the worker popped and has not sent, if any
          wire,      \* history: the frames the device took
          data, closed, pc, accepted, delivered    \* the SendQueue

vars == <<main, todo, queued, refused, opened, hand, wire, data, closed, pc, accepted, delivered>>

Frame == 1 .. MaxFragments

Queue == INSTANCE ClosableQueue WITH Consumer <- {Worker}, MaxPush <- MaxFragments

Init ==
  /\ main = "pushing"
  /\ \E n \in Frame : todo = [i \in 1 .. n |-> i]
  /\ queued = 0
  /\ refused = <<>>
  /\ opened = FALSE
  /\ hand = <<>>
  /\ wire = <<>>
  /\ Queue!Init

-----------------------------------------------------------------------------
\* enqueue_fragment, when push takes the frame.
Enqueue ==
  /\ main = "pushing"
  /\ todo # <<>>
  /\ Queue!Push(Head(todo))
  /\ todo' = Tail(todo)
  /\ queued' = queued + 1
  /\ UNCHANGED <<main, refused, opened, hand, wire>>

RefuseOldest ==
  /\ main = "pushing"
  /\ todo # <<>>
  /\ ~Queue!CanPush
  /\ data' = Append(Tail(data), Head(todo))
  /\ todo' = Tail(todo)
  /\ UNCHANGED <<main, queued, refused, opened, hand, wire, closed, pc, accepted, delivered>>

\* enqueue_fragment, when the queue is full: the frame is given up.
Refuse ==
  /\ main = "pushing"
  /\ todo # <<>>
  /\ ~Queue!CanPush
  /\ todo' = Tail(todo)
  /\ refused' = Append(refused, Head(todo))
  /\ UNCHANGED <<main, queued, opened, hand, wire, data, closed, pc, accepted, delivered>>

LeaveOpen ==
  /\ main = "pushing"
  /\ todo = <<>>
  /\ main' = "joining"
  /\ UNCHANGED <<todo, queued, refused, opened, hand, wire, data, closed, pc, accepted, delivered>>

Close ==
  /\ main = "pushing"
  /\ todo = <<>>
  /\ Queue!Close
  /\ main' = "joining"
  /\ UNCHANGED <<todo, queued, refused, opened, hand, wire>>

JoinEarly ==
  /\ main = "joining"
  /\ main' = IF pc[Worker] = "failed" THEN "err" ELSE "ok"
  /\ UNCHANGED <<todo, queued, refused, opened, hand, wire, data, closed, pc, accepted, delivered>>

\* worker.join(): an Err of the worker becomes that of datalink_send.
Join ==
  /\ main = "joining"
  /\ pc[Worker] \in {"done", "failed"}
  /\ main' = IF pc[Worker] = "failed" THEN "err" ELSE "ok"
  /\ UNCHANGED <<todo, queued, refused, opened, hand, wire, data, closed, pc, accepted, delivered>>

\* open_device.
Open ==
  /\ ~opened
  /\ pc[Worker] = "running"
  /\ opened' = TRUE
  /\ UNCHANGED <<main, todo, queued, refused, hand, wire, data, closed, pc, accepted, delivered>>

Fetch ==
  /\ opened
  /\ hand = <<>>
  /\ Queue!PopFrame(Worker)
  /\ hand' = <<Head(data)>>
  /\ UNCHANGED <<main, todo, queued, refused, opened, wire>>

\* pop finds nothing: the worker ends, or goes to sleep.
FindNone ==
  /\ opened
  /\ hand = <<>>
  /\ Queue!PopNone(Worker) \/ Queue!PopWait(Worker)
  /\ UNCHANGED <<main, todo, queued, refused, opened, hand, wire>>

Spurious ==
  /\ Queue!SpuriousWakeup(Worker)
  /\ UNCHANGED <<main, todo, queued, refused, opened, hand, wire>>

SendPacket ==
  /\ hand # <<>>
  /\ wire' = wire \o hand
  /\ hand' = <<>>
  /\ UNCHANGED <<main, todo, queued, refused, opened, data, closed, pc, accepted, delivered>>

\* open_device or sendpacket fails, and the worker returns its error.
WorkerFails ==
  /\ ~opened \/ hand # <<>>
  /\ Queue!Fail(Worker)
  /\ hand' = <<>>
  /\ UNCHANGED <<main, todo, queued, refused, opened, wire>>

Main == Enqueue \/ Refuse \/ Close \/ Join
Work == Open \/ Fetch \/ FindNone \/ SendPacket

Next == Main \/ Work \/ Spurious \/ WorkerFails

\* Two runnable threads each go on; libpcap takes or refuses a frame in time.
Spec == Init /\ [][Next]_vars /\ WF_vars(Main) /\ WF_vars(Work)

-----------------------------------------------------------------------------
Returned == main \in {"ok", "err"}

\* When datalink_send returns Ok, the device has taken every frame that push
\* took, in the order of the fragments, the count it prints is theirs, and no
\* error of the worker has been lost.
OkMeansSent ==
  main = "ok" => /\ pc[Worker] = "done"
                 /\ wire = accepted
                 /\ Len(wire) = queued
                 /\ \A i, j \in 1 .. Len(wire) : i < j => wire[i] < wire[j]

\* datalink_send returns: main waits for the worker only after closing the
\* queue the worker waits on, and a worker that died stops nobody.
SendReturns == <>Returned

\* The threads use the SendQueue as its own specification allows.
UsesSendQueue == Queue!Spec

\* Fragments are refused, and the datagram thereby lost although Ok is returned,
\* only of a payload that is cut into more than SEND_QUEUE_CAPACITY of them, no
\* matter how the worker lags or fails.
ShortPayloadsNotRefused ==
  refused # <<>> => Len(todo) + queued + Len(refused) > Capacity
=============================================================================
