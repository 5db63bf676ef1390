------------------------- MODULE SendPipelineProofs -------------------------
(***************************************************************************)
(* What datalink_send means by Ok, for payloads of any number of fragments *)
(* and a queue of any capacity, and that it and its worker never wait for  *)
(* each other and take a bounded number of steps.                          *)
(***************************************************************************)
EXTENDS SendPipeline, SequenceTheorems, TLAPS

USE SendAssumption DEF SendAssumption

SendTypes ==
  /\ todo \in Seq(Frame) /\ refused \in Seq(Frame) /\ wire \in Seq(Frame)
  /\ data \in Seq(Frame) /\ accepted \in Seq(Frame)
  /\ hand \in Seq(Frame)
  /\ pc \in [{Worker} -> Queue!PopState]
  /\ main \in {"pushing", "joining", "ok", "err"}
  /\ queued \in Nat

\* The worker ends only when everything is closed and empty, and main hears of it.
EndInv ==
  /\ main = "pushing" <=> ~closed
  /\ pc[Worker] = "done" => closed /\ data = <<>> /\ hand = <<>>
  /\ hand # <<>> => pc[Worker] = "running"
  /\ main = "ok" => pc[Worker] = "done"

\* What push took is what the device took, the frame in hand, and the queue; only
\* a worker that failed has lost its frame.
SentInv == pc[Worker] # "failed" => accepted = (wire \o hand) \o data

\* Fragments are pushed in their order, and counted.
AscendInv ==
  /\ \A i, j \in 1 .. Len(todo) : i < j => todo[i] < todo[j]
  /\ \A i, j \in 1 .. Len(accepted) : i < j => accepted[i] < accepted[j]
  /\ \A i \in 1 .. Len(accepted), j \in 1 .. Len(todo) : accepted[i] < todo[j]
  /\ queued = Len(accepted)

\* No more frames are queued than were pushed.
CountInv == Len(data) <= queued

SendInv == SendTypes /\ EndInv /\ SentInv /\ AscendInv /\ CountInv

-----------------------------------------------------------------------------
LEMMA HeadMoves ==
  ASSUME NEW S, NEW s \in Seq(S), NEW t \in Seq(S), t # <<>>
  PROVE  s \o t = (s \o <<Head(t)>>) \o Tail(t)
<1>1. t = <<Head(t)>> \o Tail(t) /\ <<Head(t)>> \in Seq(S) /\ Tail(t) \in Seq(S)
  BY HeadTailProperties
<1> QED
  BY <1>1, ConcatAssociative

LEMMA InitSendInv == Init => SendInv /\ ShortPayloadsNotRefused
<1> SUFFICES ASSUME Init PROVE SendInv /\ ShortPayloadsNotRefused
  OBVIOUS
<1>1. PICK n \in Frame : todo = [i \in 1 .. n |-> i]
  BY DEF Init
<1>2. n \in Nat /\ n <= MaxFragments
  BY DEF Frame
<1>3. todo \in Seq(Frame) /\ Len(todo) = n
  <2>1. todo \in [1 .. n -> Frame]
    BY <1>1, <1>2 DEF Frame
  <2> QED
    BY <1>2, <2>1, SeqDef, LenProperties
<1>4. /\ main = "pushing" /\ queued = 0 /\ refused = <<>> /\ hand = <<>> /\ wire = <<>>
      /\ data = <<>> /\ closed = FALSE /\ pc = [c \in {Worker} |-> "running"] /\ accepted = <<>>
  BY DEF Init, Queue!Init
<1>5. SendTypes
  BY <1>3, <1>4 DEF SendTypes, Queue!PopState
<1>6. EndInv
  BY <1>4 DEF EndInv
<1>7. SentInv
  BY <1>4 DEF SentInv
<1>8. AscendInv /\ CountInv
  <2>1. \A i, j \in 1 .. Len(todo) : i < j => todo[i] < todo[j]
    BY <1>1, <1>2, <1>3
  <2>2. Len(accepted) = 0 /\ Len(data) = 0
    BY <1>4
  <2> QED
    BY <1>4, <2>1, <2>2 DEF AscendInv, CountInv
<1> QED
  BY <1>4, <1>5, <1>6, <1>7, <1>8 DEF SendInv, ShortPayloadsNotRefused

LEMMA EnqueueKeepsInv ==
  ASSUME SendInv, ShortPayloadsNotRefused, Enqueue
  PROVE  SendInv' /\ ShortPayloadsNotRefused'
<1> DEFINE f == Head(todo)
<1>1. /\ main = "pushing" /\ todo # <<>> /\ todo' = Tail(todo) /\ queued' = queued + 1
      /\ data' = Append(data, f) /\ accepted' = Append(accepted, f)
      /\ UNCHANGED <<main, refused, hand, wire, closed>>
  BY DEF Enqueue, Queue!Push
<1>2. \/ pc' = pc
      \/ pc[Worker] = "waiting" /\ pc' = [pc EXCEPT ![Worker] = "woken"]
  BY DEF Enqueue, Queue!Push, Queue!NotifyOne, Queue!Waiting, Queue!In
<1>t. SendTypes
  BY DEF SendInv
<1>3. /\ f \in Frame /\ Tail(todo) \in Seq(Frame) /\ Len(todo') = Len(todo) - 1
      /\ f = todo[1] /\ Len(todo) \in Nat /\ Len(todo) > 0
      /\ \A i \in 1 .. Len(todo') : todo'[i] = todo[i + 1]
  BY <1>1, <1>t DEF SendTypes
<1> HIDE DEF f
<1>4. /\ data' \in Seq(Frame) /\ Len(data') = Len(data) + 1 /\ Len(data) \in Nat
      /\ accepted' \in Seq(Frame) /\ Len(accepted') = Len(accepted) + 1 /\ Len(accepted) \in Nat
      /\ \A i \in 1 .. Len(accepted) : accepted'[i] = accepted[i]
      /\ accepted'[Len(accepted')] = f
  BY <1>1, <1>3, <1>t DEF SendTypes
<1>5. SendTypes'
  <2>1. pc' \in [{Worker} -> Queue!PopState]
    BY <1>2, <1>t DEF SendTypes, Queue!PopState
  <2>2. queued' \in Nat
    BY <1>1, <1>t DEF SendTypes
  <2> QED
    BY <1>1, <1>3, <1>4, <1>t, <2>1, <2>2 DEF SendTypes
<1>6. EndInv'
  BY <1>1, <1>2, <1>t DEF SendInv, EndInv, SendTypes
<1>7. SentInv'
  <2> SUFFICES ASSUME pc'[Worker] # "failed" PROVE accepted' = (wire \o hand) \o Append(data, f)
    BY <1>1 DEF SentInv
  <2>1. accepted = (wire \o hand) \o data
    BY <1>2, <1>t DEF SendInv, SentInv, SendTypes
  <2>2. wire \o hand \in Seq(Frame)
    BY <1>t DEF SendTypes
  <2>3. /\ accepted' = accepted \o <<f>> /\ Append(data, f) = data \o <<f>>
        /\ <<f>> \in Seq(Frame) /\ data \in Seq(Frame)
    BY <1>1, <1>3, <1>t, AppendIsConcat DEF SendTypes
  <2> QED
    BY ONLY <2>1, <2>2, <2>3, ConcatAssociative
<1>8. AscendInv'
  <2>1. \A i, j \in 1 .. Len(todo') : i < j => todo'[i] < todo'[j]
    BY <1>3 DEF SendInv, AscendInv
  <2>2. \A i \in 1 .. Len(accepted) : accepted[i] < f
    BY <1>3 DEF SendInv, AscendInv
  <2>3. \A j \in 1 .. Len(todo') : f < todo'[j]
    BY <1>3 DEF SendInv, AscendInv
  <2>4. \A i \in 1 .. Len(accepted'), j \in 1 .. Len(accepted') : i < j => accepted'[i] < accepted'[j]
    BY <1>4, <2>2 DEF SendInv, AscendInv
  <2>5. \A i \in 1 .. Len(accepted'), j \in 1 .. Len(todo') : accepted'[i] < todo'[j]
    <3> SUFFICES ASSUME NEW i \in 1 .. Len(accepted'), NEW j \in 1 .. Len(todo')
                 PROVE  accepted'[i] < todo'[j]
      OBVIOUS
    <3>1. CASE i = Len(accepted')
      BY <1>4, <2>3, <3>1
    <3>2. CASE i # Len(accepted')
      <4>1. i \in 1 .. Len(accepted) /\ j + 1 \in 1 .. Len(todo)
        BY <1>3, <1>4, <3>2
      <4> QED
        BY <1>3, <1>4, <4>1 DEF SendInv, AscendInv
    <3> QED
      BY <3>1, <3>2
  <2> QED
    BY <1>1, <1>4, <2>1, <2>4, <2>5 DEF SendInv, AscendInv
<1>9. CountInv'
  BY <1>1, <1>4, <1>t DEF SendInv, CountInv, SendTypes
<1>10. ShortPayloadsNotRefused'
  BY <1>1, <1>3, <1>t DEF ShortPayloadsNotRefused, SendTypes
<1> QED
  BY <1>5, <1>6, <1>7, <1>8, <1>9, <1>10 DEF SendInv

\* When a fragment is refused, as many are in the queue as it holds, and the one
\* refused comes on top.
LEMMA RefuseKeepsInv ==
  ASSUME SendInv, ShortPayloadsNotRefused, Refuse
  PROVE  SendInv' /\ ShortPayloadsNotRefused'
<1>1. /\ main = "pushing" /\ todo # <<>> /\ todo' = Tail(todo) /\ refused' = Append(refused, Head(todo))
      /\ ~(Queue!CanPush) /\ UNCHANGED <<main, queued, hand, wire, data, closed, pc, accepted>>
  BY DEF Refuse
<1>t. SendTypes
  BY DEF SendInv
<1>3. /\ Tail(todo) \in Seq(Frame) /\ Head(todo) \in Frame
      /\ Len(todo') = Len(todo) - 1 /\ Len(todo) \in Nat /\ Len(todo) > 0
      /\ \A i \in 1 .. Len(todo') : todo'[i] = todo[i + 1]
      /\ refused' \in Seq(Frame) /\ Len(refused') = Len(refused) + 1 /\ Len(refused) \in Nat
  BY <1>1, <1>t DEF SendTypes
<1>4. SendTypes'
  BY <1>1, <1>3, <1>t DEF SendTypes
<1>5. EndInv' /\ SentInv' /\ CountInv'
  BY <1>1 DEF SendInv, EndInv, SentInv, CountInv
<1>6. AscendInv'
  <2>1. \A i, j \in 1 .. Len(todo') : i < j => todo'[i] < todo'[j]
    BY <1>3 DEF SendInv, AscendInv
  <2>2. \A i \in 1 .. Len(accepted'), j \in 1 .. Len(todo') : accepted'[i] < todo'[j]
    BY <1>1, <1>3 DEF SendInv, AscendInv
  <2> QED
    BY <1>1, <2>1, <2>2 DEF SendInv, AscendInv
<1>7. ShortPayloadsNotRefused'
  <2>1. Len(data) >= Capacity
    BY <1>1, <1>t DEF Queue!CanPush, SendInv, EndInv, SendTypes
  <2>2. queued >= Capacity /\ queued \in Nat
    BY <1>t, <2>1 DEF SendInv, CountInv, SendTypes
  <2> QED
    BY <1>1, <1>3, <2>2 DEF ShortPayloadsNotRefused
<1> QED
  BY <1>4, <1>5, <1>6, <1>7 DEF SendInv

\* The steps in which main pushes nothing and the worker fetches nothing.
LEMMA OtherStepsKeepInv ==
  ASSUME SendInv, ShortPayloadsNotRefused,
         Close \/ Join \/ Open \/ FindNone \/ Spurious \/ UNCHANGED vars
  PROVE  SendInv' /\ ShortPayloadsNotRefused'
<1> USE DEF SendInv, SendTypes, Queue!PopState
<1>1. UNCHANGED <<todo, queued, refused, hand, wire, data, accepted>>
  BY DEF Close, Join, Open, FindNone, Spurious, vars, Queue!Close, Queue!PopNone, Queue!PopWait,
         Queue!SpuriousWakeup
<1>2. AscendInv' /\ CountInv' /\ ShortPayloadsNotRefused'
  BY <1>1 DEF AscendInv, CountInv, ShortPayloadsNotRefused
<1>3. CASE Close
  <2>1. /\ main = "pushing" /\ main' = "joining" /\ closed' = TRUE
        /\ pc' = [c \in {Worker} |-> IF pc[c] = "waiting" THEN "woken" ELSE pc[c]]
    BY <1>3 DEF Close, Queue!Close, Queue!NotifyAll
  <2> QED
    BY <1>1, <1>2, <2>1 DEF EndInv, SentInv
<1>4. CASE Join
  BY <1>1, <1>2, <1>4 DEF Join, EndInv, SentInv
<1>5. CASE Open
  BY <1>1, <1>2, <1>5 DEF Open, EndInv, SentInv
<1>6. CASE FindNone
  <2>1. /\ hand = <<>> /\ pc[Worker] \in {"running", "woken"} /\ data = <<>>
        /\ \/ closed /\ pc' = [pc EXCEPT ![Worker] = "done"]
           \/ pc' = [pc EXCEPT ![Worker] = "waiting"]
        /\ UNCHANGED <<main, closed>>
    BY <1>6 DEF FindNone, Queue!PopNone, Queue!PopWait
  <2> QED
    BY <1>1, <1>2, <2>1 DEF EndInv, SentInv
<1>7. CASE Spurious
  <2>1. /\ pc[Worker] = "waiting" /\ pc' = [pc EXCEPT ![Worker] = "woken"]
        /\ UNCHANGED <<main, closed>>
    BY <1>7 DEF Spurious, Queue!SpuriousWakeup
  <2> QED
    BY <1>1, <1>2, <2>1 DEF EndInv, SentInv
<1>8. CASE UNCHANGED vars
  BY <1>1, <1>2, <1>8 DEF vars, EndInv, SentInv
<1> QED
  BY <1>3, <1>4, <1>5, <1>6, <1>7, <1>8

\* A frame goes from the queue to the worker's hand, to the device, or is lost
\* with the worker.
LEMMA FrameStepsKeepInv ==
  ASSUME SendInv, ShortPayloadsNotRefused, Fetch \/ SendPacket \/ WorkerFails
  PROVE  SendInv' /\ ShortPayloadsNotRefused'
<1>t. SendTypes
  BY DEF SendInv
<1>1. UNCHANGED <<main, todo, queued, refused, closed, accepted>>
  BY DEF Fetch, SendPacket, WorkerFails, Queue!PopFrame, Queue!Fail
<1>2. AscendInv' /\ ShortPayloadsNotRefused'
  BY <1>1 DEF SendInv, AscendInv, ShortPayloadsNotRefused
<1>3. CASE Fetch
  <2>1. /\ hand = <<>> /\ data # <<>> /\ data' = Tail(data) /\ hand' = <<Head(data)>> /\ wire' = wire
        /\ pc[Worker] \in {"running", "woken"} /\ pc' = [pc EXCEPT ![Worker] = "running"]
    BY <1>3 DEF Fetch, Queue!PopFrame
  <2>2. /\ Head(data) \in Frame /\ Tail(data) \in Seq(Frame) /\ data \in Seq(Frame) /\ wire \in Seq(Frame)
        /\ Len(Tail(data)) = Len(data) - 1 /\ Len(data) \in Nat
        /\ data = <<Head(data)>> \o Tail(data) /\ <<Head(data)>> \in Seq(Frame)
    BY <1>t, <2>1 DEF SendTypes
  <2>3. SendTypes' /\ CountInv'
    BY <1>1, <1>t, <2>1, <2>2 DEF SendTypes, Queue!PopState, SendInv, CountInv
  <2>4. EndInv'
    BY <1>1, <1>t, <2>1 DEF SendInv, EndInv, SendTypes
  <2>5. accepted = wire \o data
    BY <1>t, <2>1 DEF SendInv, SentInv, SendTypes
  <2>6. accepted = (wire \o <<Head(data)>>) \o Tail(data)
    BY ONLY <2>1, <2>2, <2>5, HeadMoves
  <2>7. SentInv'
    BY <1>1, <2>1, <2>6 DEF SentInv
  <2> QED
    BY <1>2, <2>3, <2>4, <2>7 DEF SendInv
<1>4. CASE SendPacket
  <2>1. /\ hand # <<>> /\ wire' = wire \o hand /\ hand' = <<>> /\ UNCHANGED <<data, pc>>
    BY <1>4 DEF SendPacket
  <2>2. hand \in Seq(Frame) /\ wire \in Seq(Frame) /\ wire \o hand \in Seq(Frame)
    BY <1>t DEF SendTypes
  <2>3. (wire \o hand) \o <<>> = wire \o hand
    BY <2>2
  <2>4. SendTypes' /\ CountInv' /\ EndInv'
    BY <1>1, <1>t, <2>1, <2>2 DEF SendTypes, SendInv, CountInv, EndInv
  <2>5. SentInv'
    BY <1>1, <2>1, <2>3 DEF SendInv, SentInv
  <2> QED
    BY <1>2, <2>4, <2>5 DEF SendInv
<1>5. CASE WorkerFails
  <2>1. /\ pc[Worker] = "running" /\ pc' = [pc EXCEPT ![Worker] = "failed"]
        /\ hand' = <<>> /\ UNCHANGED <<data, wire>>
    BY <1>5 DEF WorkerFails, Queue!Fail
  <2>2. SendTypes' /\ CountInv' /\ EndInv' /\ SentInv'
    BY <1>1, <1>t, <2>1 DEF SendTypes, SendInv, CountInv, EndInv, SentInv, Queue!PopState
  <2> QED
    BY <1>2, <2>2 DEF SendInv
<1> QED
  BY <1>3, <1>4, <1>5

LEMMA SendInvHolds == Spec => [](SendInv /\ ShortPayloadsNotRefused)
<1>1. SendInv /\ ShortPayloadsNotRefused /\ [Next]_vars => (SendInv /\ ShortPayloadsNotRefused)'
  BY EnqueueKeepsInv, RefuseKeepsInv, OtherStepsKeepInv, FrameStepsKeepInv DEF Next, Main, Work
<1> QED
  BY <1>1, InitSendInv, PTL DEF Spec

\* datalink_send returns Ok only when the device took every frame the queue took,
\* once and in the order of the fragments, and the worker has reported no error.
THEOREM OkIsSent == Spec => []OkMeansSent
<1>1. SendInv => OkMeansSent
  <2> SUFFICES ASSUME SendInv, main = "ok"
               PROVE  /\ pc[Worker] = "done" /\ wire = accepted /\ Len(wire) = queued
                      /\ \A i, j \in 1 .. Len(wire) : i < j => wire[i] < wire[j]
    BY DEF OkMeansSent
  <2>1. pc[Worker] = "done" /\ data = <<>> /\ hand = <<>>
    BY DEF SendInv, EndInv
  <2>2. wire \in Seq(Frame) /\ accepted = (wire \o <<>>) \o <<>>
    BY <2>1 DEF SendInv, SendTypes, SentInv
  <2>3. accepted = wire
    BY ONLY <2>2, ConcatEmptySeq
  <2> QED
    BY <2>1, <2>3 DEF SendInv, AscendInv
<1> QED
  BY <1>1, SendInvHolds, PTL

\* A payload of no more fragments than the queue has places loses none of them to
\* a full queue, however the worker lags.
THEOREM NoneRefused == Spec => []ShortPayloadsNotRefused
BY SendInvHolds, PTL

-----------------------------------------------------------------------------
LEMMA StepOfSendQueue == SendInv /\ [Next]_vars => [Queue!Next]_(Queue!vars)
<1> SUFFICES ASSUME SendInv, [Next]_vars PROVE Queue!Next \/ UNCHANGED Queue!vars
  OBVIOUS
<1> USE DEF Queue!Next, Queue!Pop
<1>1. CASE Enqueue
  <2>1. Head(todo) \in Frame
    BY <1>1 DEF Enqueue, SendInv, SendTypes
  <2> QED
    BY <1>1, <2>1 DEF Enqueue
<1>2. CASE Close
  BY <1>2 DEF Close
<1>3. CASE Fetch
  BY <1>3 DEF Fetch
<1>4. CASE FindNone
  BY <1>4 DEF FindNone
<1>5. CASE Spurious
  BY <1>5 DEF Spurious
<1>6. CASE WorkerFails
  BY <1>6 DEF WorkerFails
<1>7. CASE Refuse \/ Join \/ Open \/ SendPacket \/ UNCHANGED vars
  BY <1>7 DEF Refuse, Join, Open, SendPacket, vars, Queue!vars
<1> QED
  BY <1>1, <1>2, <1>3, <1>4, <1>5, <1>6, <1>7 DEF Next, Main, Work

\* Main thread and worker do with the SendQueue only what ClosableQueue specifies:
\* UsesSendQueue without its fairness, for any capacity and number of fragments.
THEOREM QueueUsed == Spec => Queue!Init /\ [][Queue!Next]_(Queue!vars)
<1>1. Init => Queue!Init
  BY DEF Init
<1> QED
  BY <1>1, SendInvHolds, StepOfSendQueue, PTL DEF Spec
-----------------------------------------------------------------------------
\* What the guards of Main and Work leave open, so that SendReturns needs no more
\* than that threads go on: main always has room to push or to refuse, joins no
\* worker that sleeps, and a worker that sleeps holds nothing.
NoStandstill ==
  /\ todo # <<>> => Len(accepted) < MaxFragments
  /\ main = "joining" => pc[Worker] # "waiting"
  /\ main # "pushing" => todo = <<>>
  /\ pc[Worker] \in {"waiting", "woken", "done"} => opened /\ hand = <<>>

\* No fragment is counted twice.
RoomInv == queued + Len(refused) + Len(todo) <= MaxFragments

\* push notifies the worker if it sleeps.
LEMMA EnqueueWakes ==
  ASSUME SendTypes, Enqueue
  PROVE  pc' = pc \/ (pc[Worker] = "waiting" /\ pc'[Worker] = "woken")
<1>1. \/ pc' = pc
      \/ pc[Worker] = "waiting" /\ pc' = [pc EXCEPT ![Worker] = "woken"]
  BY DEF Enqueue, Queue!Push, Queue!NotifyOne, Queue!Waiting, Queue!In
<1> QED
  BY <1>1 DEF SendTypes

LEMMA InitNoStandstill == Init => RoomInv /\ NoStandstill
<1> SUFFICES ASSUME Init PROVE RoomInv /\ NoStandstill
  OBVIOUS
<1>1. PICK n \in Frame : todo = [i \in 1 .. n |-> i]
  BY DEF Init
<1>2. n \in Nat /\ n <= MaxFragments
  BY DEF Frame
<1>3. Len(todo) = n
  <2>1. todo \in [1 .. n -> Frame]
    BY <1>1, <1>2 DEF Frame
  <2> QED
    BY <1>2, <2>1, SeqDef, LenProperties
<1>4. /\ main = "pushing" /\ queued = 0 /\ Len(refused) = 0 /\ Len(accepted) = 0
      /\ pc[Worker] = "running"
  BY DEF Init, Queue!Init
<1>5. RoomInv
  BY <1>2, <1>3, <1>4 DEF RoomInv
<1> QED
  BY <1>4, <1>5 DEF NoStandstill

LEMMA NextNoStandstill == SendInv /\ RoomInv /\ NoStandstill /\ [Next]_vars => (RoomInv /\ NoStandstill)'
<1> SUFFICES ASSUME SendInv, RoomInv, NoStandstill, [Next]_vars PROVE RoomInv' /\ NoStandstill'
  OBVIOUS
<1>t. SendTypes /\ queued = Len(accepted)
  BY DEF SendInv, AscendInv
<1>l. /\ Len(todo) \in Nat /\ Len(refused) \in Nat /\ Len(accepted) \in Nat
      /\ todo # <<>> => Len(Tail(todo)) = Len(todo) - 1 /\ Len(todo) > 0
  BY <1>t DEF SendTypes
<1>1. CASE Enqueue
  <2>1. /\ main = "pushing" /\ todo # <<>> /\ todo' = Tail(todo) /\ queued' = queued + 1
        /\ accepted' = Append(accepted, Head(todo)) /\ UNCHANGED <<main, refused, opened, hand>>
    BY <1>1 DEF Enqueue, Queue!Push
  <2>2. pc' = pc \/ (pc[Worker] = "waiting" /\ pc'[Worker] = "woken")
    BY <1>1, <1>t, EnqueueWakes
  <2>3. Len(accepted') = Len(accepted) + 1
    BY <1>t, <2>1 DEF SendTypes
  <2>4. RoomInv'
    BY <1>t, <1>l, <2>1 DEF RoomInv
  <2>5. todo' # <<>> => Len(accepted') < MaxFragments
    <3>1. todo' \in Seq(Frame)
      BY <1>t, <2>1 DEF SendTypes
    <3>2. todo' # <<>> => Len(todo') > 0
      BY <3>1
    <3> QED
      BY <1>t, <1>l, <2>1, <2>3, <3>2 DEF RoomInv
  <2> QED
    BY <2>1, <2>2, <2>4, <2>5 DEF NoStandstill
<1>2. CASE Refuse
  <2>1. /\ main = "pushing" /\ todo # <<>> /\ todo' = Tail(todo)
        /\ refused' = Append(refused, Head(todo))
        /\ UNCHANGED <<main, queued, accepted, opened, hand, pc>>
    BY <1>2 DEF Refuse
  <2>2. Len(refused') = Len(refused) + 1
    BY <1>t, <2>1 DEF SendTypes
  <2>3. RoomInv'
    BY <1>t, <1>l, <2>1, <2>2 DEF RoomInv
  <2> QED
    BY <2>1, <2>3 DEF NoStandstill
<1>3. CASE UNCHANGED <<todo, queued, refused, accepted>>
  <2>1. RoomInv' /\ (todo' # <<>> => Len(accepted') < MaxFragments)
    BY <1>3 DEF RoomInv, NoStandstill
  <2>2. CASE Close
    <3>1. /\ todo = <<>> /\ pc'[Worker] = (IF pc[Worker] = "waiting" THEN "woken" ELSE pc[Worker])
          /\ UNCHANGED <<opened, hand>>
      BY <2>2 DEF Close, Queue!Close, Queue!NotifyAll
    <3> QED
      BY <1>3, <2>1, <3>1 DEF NoStandstill
  <2>3. CASE Join
    BY <1>3, <2>1, <2>3 DEF Join, NoStandstill
  <2>4. CASE Open
    BY <1>3, <2>1, <2>4 DEF Open, NoStandstill
  <2>5. CASE Fetch
    <3>1. pc'[Worker] = "running" /\ main' = main
      BY <1>t, <2>5 DEF Fetch, Queue!PopFrame, SendTypes
    <3> QED
      BY <1>3, <2>1, <3>1 DEF NoStandstill
  <2>6. CASE FindNone
    <3>1. /\ opened /\ hand = <<>> /\ UNCHANGED <<main, opened, hand>>
          /\ pc'[Worker] = "waiting" => ~closed
      BY <1>t, <2>6 DEF FindNone, Queue!PopNone, Queue!PopWait, SendTypes
    <3>2. ~closed => main = "pushing"
      BY DEF SendInv, EndInv
    <3> QED
      BY <1>3, <2>1, <3>1, <3>2 DEF NoStandstill
  <2>7. CASE Spurious
    <3>1. /\ pc[Worker] = "waiting" /\ pc'[Worker] = "woken" /\ UNCHANGED <<main, opened, hand>>
      BY <1>t, <2>7 DEF Spurious, Queue!SpuriousWakeup, SendTypes
    <3> QED
      BY <1>3, <2>1, <3>1 DEF NoStandstill
  <2>8. CASE SendPacket
    BY <1>3, <2>1, <2>8 DEF SendPacket, NoStandstill
  <2>9. CASE WorkerFails
    <3>1. pc'[Worker] = "failed" /\ main' = main
      BY <1>t, <2>9 DEF WorkerFails, Queue!Fail, SendTypes
    <3> QED
      BY <1>3, <2>1, <3>1 DEF NoStandstill
  <2>10. CASE UNCHANGED vars
    BY <2>1, <2>10 DEF vars, NoStandstill
  <2> QED
    BY <1>3, <2>1, <2>2, <2>3, <2>4, <2>5, <2>6, <2>7, <2>8, <2>9, <2>10, <1>1, <1>2
       DEF Next, Main, Work
<1> QED
  BY <1>1, <1>2, <1>3 DEF Next, Main, Work, Close, Join, Open, Fetch, FindNone, Spurious, SendPacket,
       WorkerFails, vars, Queue!Close, Queue!PopFrame, Queue!PopNone, Queue!PopWait,
       Queue!SpuriousWakeup, Queue!Fail

LEMMA NoStandstillHolds == Spec => [](RoomInv /\ NoStandstill)
BY InitNoStandstill, SendInvHolds, NextNoStandstill, PTL DEF Spec

\* Neither thread ever waits for the other: main does not block in push, and
\* when it joins, the worker has been told that nothing more comes.
THEOREM NeverStuck == Spec => []NoStandstill
BY NoStandstillHolds, PTL

\* What is left to do: a frame to push, to fetch and to send; the end of main;
\* to open the device; to wait or to end.
LeftOfFrames == 4 * Len(todo) + 2 * Len(data) + Len(hand)
LeftOfMain   == IF main = "pushing" THEN 4 ELSE IF main = "joining" THEN 2 ELSE 0
LeftOfWorker == (IF opened THEN 0 ELSE 1)
                + (IF pc[Worker] \in {"running", "woken"} THEN 2
                   ELSE IF pc[Worker] = "waiting" THEN 1 ELSE 0)
Left == LeftOfFrames + LeftOfMain + LeftOfWorker

LEMMA LeftIsNatural == SendInv => Left \in Nat
BY DEF SendInv, SendTypes, Left, LeftOfFrames, LeftOfMain, LeftOfWorker

\* Every step but a wakeup out of nothing leaves less to do.
GetsOn == [][Left' < Left \/ Spurious]_vars

LEMMA StepGetsOn == SendInv /\ Next => Left' < Left \/ Spurious
<1> SUFFICES ASSUME SendInv, Next, ~Spurious PROVE Left' < Left
  OBVIOUS
<1>t. SendTypes
  BY DEF SendInv
<1>l. /\ Len(todo) \in Nat /\ Len(data) \in Nat /\ Len(hand) \in Nat
      /\ todo # <<>> => Len(Tail(todo)) = Len(todo) - 1
      /\ data # <<>> => Len(Tail(data)) = Len(data) - 1
      /\ hand # <<>> => Len(hand) > 0
  BY <1>t DEF SendTypes
<1>1. CASE Enqueue
  <2>1. /\ main = "pushing" /\ todo # <<>> /\ todo' = Tail(todo)
        /\ data' = Append(data, Head(todo)) /\ UNCHANGED <<main, opened, hand>>
    BY <1>1 DEF Enqueue, Queue!Push
  <2>2. pc' = pc \/ (pc[Worker] = "waiting" /\ pc'[Worker] = "woken")
    BY <1>1, <1>t, EnqueueWakes
  <2>3. Len(data') = Len(data) + 1
    BY <1>t, <2>1 DEF SendTypes
  <2> QED
    BY <1>l, <2>1, <2>2, <2>3 DEF Left, LeftOfFrames, LeftOfMain, LeftOfWorker
<1>2. CASE Refuse
  BY <1>l, <1>2 DEF Refuse, Left, LeftOfFrames, LeftOfMain, LeftOfWorker
<1>3. CASE Close
  <2>1. /\ main = "pushing" /\ main' = "joining" /\ UNCHANGED <<todo, data, hand, opened>>
        /\ pc'[Worker] = (IF pc[Worker] = "waiting" THEN "woken" ELSE pc[Worker])
    BY <1>3 DEF Close, Queue!Close, Queue!NotifyAll
  <2> QED
    BY <1>l, <2>1 DEF Left, LeftOfFrames, LeftOfMain, LeftOfWorker
<1>4. CASE Join
  BY <1>l, <1>4 DEF Join, Left, LeftOfFrames, LeftOfMain, LeftOfWorker
<1>5. CASE Open
  BY <1>l, <1>5 DEF Open, Left, LeftOfFrames, LeftOfMain, LeftOfWorker
<1>6. CASE Fetch
  <2>1. /\ hand = <<>> /\ data # <<>> /\ data' = Tail(data) /\ Len(hand') = 1
        /\ pc[Worker] \in {"running", "woken"} /\ pc'[Worker] = "running"
        /\ UNCHANGED <<main, todo, opened>>
    BY <1>t, <1>6 DEF Fetch, Queue!PopFrame, SendTypes
  <2> QED
    BY <1>l, <2>1 DEF Left, LeftOfFrames, LeftOfMain, LeftOfWorker
<1>7. CASE FindNone
  <2>1. /\ pc[Worker] \in {"running", "woken"} /\ pc'[Worker] \in {"done", "waiting"}
        /\ UNCHANGED <<main, todo, data, hand, opened>>
    BY <1>t, <1>7 DEF FindNone, Queue!PopNone, Queue!PopWait, SendTypes
  <2> QED
    BY <1>l, <2>1 DEF Left, LeftOfFrames, LeftOfMain, LeftOfWorker
<1>8. CASE SendPacket
  BY <1>l, <1>8 DEF SendPacket, Left, LeftOfFrames, LeftOfMain, LeftOfWorker
<1>9. CASE WorkerFails
  <2>1. /\ pc[Worker] = "running" /\ pc'[Worker] = "failed" /\ hand' = <<>>
        /\ UNCHANGED <<main, todo, data, opened>>
    BY <1>t, <1>9 DEF WorkerFails, Queue!Fail, SendTypes
  <2> QED
    BY <1>l, <2>1 DEF Left, LeftOfFrames, LeftOfMain, LeftOfWorker
<1> QED
  BY <1>1, <1>2, <1>3, <1>4, <1>5, <1>6, <1>7, <1>8, <1>9 DEF Next, Main, Work

\* datalink_send and its worker take a bounded number of steps, 4 for each
\* fragment and 7 more, besides those that spurious wakeups undo.
THEOREM SendGetsOn == Spec => [](Left \in Nat) /\ GetsOn
<1>1. SendInv /\ [Next]_vars => [Left' < Left \/ Spurious]_vars
  BY StepGetsOn
<1> QED
  BY <1>1, LeftIsNatural, SendInvHolds, PTL DEF Spec, GetsOn
=============================================================================
