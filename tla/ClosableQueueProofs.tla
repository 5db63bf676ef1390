------------------------ MODULE ClosableQueueProofs ------------------------
(***************************************************************************)
(* What ClosableQueue keeps for every set of frames and threads, every     *)
(* capacity and any number of pushes.  TypeOK and NoLostWakeup are         *)
(* inductive together; the refinement rests on TypeOK and Fifo.            *)
(***************************************************************************)
EXTENDS ClosableQueue, FiniteSetTheorems, SequenceTheorems, TLAPS

USE QueueAssumption DEF QueueAssumption

LEMMA InitTypeOK == Init => TypeOK
<1> SUFFICES ASSUME Init PROVE TypeOK
  OBVIOUS
<1>1. data = <<>> /\ accepted = <<>> /\ delivered = <<>>
  BY DEF Init
<1>2. <<>> \in Seq(Frame) /\ Len(<<>>) = 0
  BY EmptySeq
<1>3. Len(data) <= Capacity
  BY <1>1, <1>2
<1>4. pc \in [Consumer -> PopState] /\ closed \in BOOLEAN
  BY DEF Init, PopState
<1> QED
  BY <1>1, <1>2, <1>3, <1>4 DEF TypeOK

LEMMA NextTypeOK == TypeOK /\ [Next]_vars => TypeOK'
<1> SUFFICES ASSUME TypeOK, [Next]_vars PROVE TypeOK'
  OBVIOUS
<1> USE DEF TypeOK, PopState
<1>1. ASSUME NEW f \in Frame, Push(f) PROVE TypeOK'
  <2>1. data' \in Seq(Frame) /\ accepted' \in Seq(Frame)
    BY <1>1 DEF Push
  <2>2. Len(data') <= Capacity
    BY <1>1 DEF Push, CanPush
  <2>3. pc' \in [Consumer -> PopState]
    BY <1>1 DEF Push, NotifyOne, Waiting, In
  <2> QED
    BY <1>1, <2>1, <2>2, <2>3 DEF Push
<1>2. CASE Close
  BY <1>2 DEF Close, NotifyAll
<1>3. ASSUME NEW c \in Consumer, PopFrame(c) PROVE TypeOK'
  BY <1>3 DEF PopFrame
<1>4. ASSUME NEW c \in Consumer, PopNone(c) PROVE TypeOK'
  BY <1>4 DEF PopNone
<1>5. ASSUME NEW c \in Consumer, PopWait(c) PROVE TypeOK'
  BY <1>5 DEF PopWait
<1>6. ASSUME NEW c \in Consumer, SpuriousWakeup(c) PROVE TypeOK'
  BY <1>6 DEF SpuriousWakeup
<1>7. ASSUME NEW c \in Consumer, Fail(c) PROVE TypeOK'
  BY <1>7 DEF Fail
<1>8. CASE UNCHANGED vars
  BY <1>8 DEF vars
<1> QED
  BY <1>1, <1>2, <1>3, <1>4, <1>5, <1>6, <1>7, <1>8 DEF Next, Pop

\* The queue of send_queue.rs and recv_queue.rs keeps its types and never
\* holds more than the capacity given to new().
THEOREM TypeCorrect == Spec => []TypeOK
BY InitTypeOK, NextTypeOK, PTL DEF Spec

-----------------------------------------------------------------------------
LEMMA WokenIsFinite == IsFiniteSet(Woken) /\ Cardinality(Woken) \in Nat
<1>1. Woken \subseteq Consumer
  BY DEF Woken, In
<1> QED
  BY <1>1, FS_Subset, FS_CardinalityType

\* A notification or a spurious wakeup moves one consumer from the waiting to
\* the woken.
LEMMA OneMoreWoken ==
  ASSUME TypeOK, NEW c \in Waiting, pc' = [pc EXCEPT ![c] = "woken"]
  PROVE  Cardinality(Woken') = Cardinality(Woken) + 1
<1>1. Woken' = Woken \cup {c} /\ c \notin Woken
  BY DEF TypeOK, Woken, Waiting, In
<1> QED
  BY <1>1, WokenIsFinite, FS_AddElement

\* A woken consumer that leaves pop gives back one of the wakeups.
LEMMA OneLessWoken ==
  ASSUME TypeOK, NEW c \in Woken, pc' = [pc EXCEPT ![c] = "running"]
  PROVE  Cardinality(Woken') = Cardinality(Woken) - 1
<1>1. Woken' = Woken \ {c}
  BY DEF TypeOK, Woken, In
<1> QED
  BY <1>1, WokenIsFinite, FS_RemoveElement

\* Woken depends on pc alone.
LEMMA SameWoken ==
  ASSUME NEW c \in Consumer, TypeOK, pc[c] # "woken",
         NEW s \in PopState \ {"woken"}, pc' = [pc EXCEPT ![c] = s]
  PROVE  Woken' = Woken
BY DEF TypeOK, Woken, In

LEMMA NextNoLostWakeup ==
  TypeOK /\ TypeOK' /\ NoLostWakeup /\ [Next]_vars => NoLostWakeup'
<1> SUFFICES ASSUME TypeOK, TypeOK', NoLostWakeup, [Next]_vars, Waiting' # {}
             PROVE  ~closed' /\ Len(data') <= Cardinality(Woken')
  BY DEF NoLostWakeup
<1> USE DEF TypeOK
<1>n. /\ Cardinality(Woken) \in Nat
      /\ Len(data) \in Nat
  BY WokenIsFinite
<1>1. ASSUME NEW f \in Frame, Push(f)
      PROVE  ~closed' /\ Len(data') <= Cardinality(Woken')
  <2>1. ~closed' /\ Len(data') = Len(data) + 1
    BY <1>1 DEF Push, CanPush
  <2>2. Waiting # {}
    BY <1>1 DEF Push, NotifyOne, Waiting, In
  <2>3. PICK c \in Waiting : pc' = [pc EXCEPT ![c] = "woken"]
    BY <1>1, <2>2 DEF Push, NotifyOne
  <2>4. Cardinality(Woken') = Cardinality(Woken) + 1
    BY <2>3, OneMoreWoken
  <2> QED
    BY <1>n, <2>1, <2>2, <2>4 DEF NoLostWakeup
<1>2. ASSUME Close PROVE FALSE
  BY <1>2 DEF Close, NotifyAll, Waiting, In
<1>3. ASSUME NEW c \in Consumer, PopFrame(c)
      PROVE  ~closed' /\ Len(data') <= Cardinality(Woken')
  <2>1. closed' = closed /\ Len(data') = Len(data) - 1
    BY <1>3 DEF PopFrame
  <2>2. Waiting # {}
    BY <1>3 DEF PopFrame, Waiting, In
  <2>3. CASE pc[c] = "woken"
    <3>1. c \in Woken
      BY <2>3 DEF Woken, In
    <3>2. Cardinality(Woken') = Cardinality(Woken) - 1
      BY <1>3, <3>1, OneLessWoken DEF PopFrame
    <3> QED
      BY <1>n, <2>1, <2>2, <3>2 DEF NoLostWakeup
  <2>4. CASE pc[c] = "running"
    <3>1. Woken' = Woken
      BY <1>3, <2>4, SameWoken DEF PopFrame, PopState
    <3> QED
      BY <1>n, <2>1, <2>2, <3>1 DEF NoLostWakeup
  <2> QED
    BY <1>3, <2>3, <2>4 DEF PopFrame
<1>4. ASSUME NEW c \in Consumer, PopNone(c) PROVE FALSE
  <2>1. Waiting # {} /\ closed
    BY <1>4 DEF PopNone, Waiting, In
  <2> QED
    BY <2>1 DEF NoLostWakeup
<1>5. ASSUME NEW c \in Consumer, PopWait(c)
      PROVE  ~closed' /\ Len(data') <= Cardinality(Woken')
  <2>1. ~closed' /\ Len(data') = 0
    BY <1>5 DEF PopWait
  <2>2. Woken' \subseteq Consumer
    BY DEF Woken, In
  <2>3. Cardinality(Woken') \in Nat
    BY <2>2, FS_Subset, FS_CardinalityType
  <2> QED
    BY <2>1, <2>3
<1>6. ASSUME NEW c \in Consumer, SpuriousWakeup(c)
      PROVE  ~closed' /\ Len(data') <= Cardinality(Woken')
  <2>1. c \in Waiting /\ closed' = closed /\ data' = data
    BY <1>6 DEF SpuriousWakeup, Waiting, In
  <2>2. Cardinality(Woken') = Cardinality(Woken) + 1
    BY <1>6, <2>1, OneMoreWoken DEF SpuriousWakeup
  <2> QED
    BY <1>n, <2>1, <2>2 DEF NoLostWakeup
<1>7. ASSUME NEW c \in Consumer, Fail(c)
      PROVE  ~closed' /\ Len(data') <= Cardinality(Woken')
  <2>1. Waiting # {} /\ closed' = closed /\ data' = data
    BY <1>7 DEF Fail, Waiting, In
  <2>2. Woken' = Woken
    BY <1>7, SameWoken DEF Fail, PopState
  <2> QED
    BY <2>1, <2>2 DEF NoLostWakeup
<1>8. CASE UNCHANGED vars
  BY <1>8 DEF vars, NoLostWakeup, Waiting, Woken, In
<1> QED
  BY <1>1, <1>2, <1>3, <1>4, <1>5, <1>6, <1>7, <1>8 DEF Next, Pop

\* No consumer sleeps in Condvar::wait while the queue is closed, or holds a
\* frame that no woken consumer is coming for: notify_one in push and
\* notify_all in close are enough.
THEOREM NoWakeupIsLost == Spec => []NoLostWakeup
<1>1. Init => NoLostWakeup
  BY DEF Init, NoLostWakeup, Waiting, In
<1> QED
  BY <1>1, TypeCorrect, NextNoLostWakeup, PTL DEF Spec

-----------------------------------------------------------------------------
\* pop returns None only from a closed, drained queue, which stays so.
THEOREM DrainedBeforeDone == Spec => []DrainedWhenDone
<1>1. Init => DrainedWhenDone
  BY DEF Init, DrainedWhenDone, In
<1>2. TypeOK /\ DrainedWhenDone /\ [Next]_vars => DrainedWhenDone'
  <2> SUFFICES ASSUME TypeOK, DrainedWhenDone, [Next]_vars, NEW d \in Consumer, pc'[d] = "done"
               PROVE  closed' /\ data' = <<>>
    BY DEF DrainedWhenDone, In
  <2> USE DEF TypeOK
  <2>0. pc[d] = "done" => closed /\ data = <<>>
    BY DEF DrainedWhenDone, In
  <2>1. ASSUME NEW f \in Frame, Push(f) PROVE closed' /\ data' = <<>>
    <3>1. pc[d] = "done"
      BY <2>1 DEF Push, NotifyOne, Waiting, In
    <3> QED
      BY <2>0, <2>1, <3>1 DEF Push, CanPush
  <2>2. CASE Close
    BY <2>0, <2>2 DEF Close, NotifyAll
  <2>3. ASSUME NEW c \in Consumer, PopFrame(c) PROVE closed' /\ data' = <<>>
    BY <2>0, <2>3 DEF PopFrame
  <2>4. ASSUME NEW c \in Consumer, PopNone(c) PROVE closed' /\ data' = <<>>
    BY <2>4 DEF PopNone
  <2>5. ASSUME NEW c \in Consumer, PopWait(c) PROVE closed' /\ data' = <<>>
    BY <2>0, <2>5 DEF PopWait
  <2>6. ASSUME NEW c \in Consumer, SpuriousWakeup(c) PROVE closed' /\ data' = <<>>
    BY <2>0, <2>6 DEF SpuriousWakeup
  <2>7. ASSUME NEW c \in Consumer, Fail(c) PROVE closed' /\ data' = <<>>
    BY <2>0, <2>7 DEF Fail
  <2>8. CASE UNCHANGED vars
    BY <2>0, <2>8 DEF vars
  <2> QED
    BY <2>1, <2>2, <2>3, <2>4, <2>5, <2>6, <2>7, <2>8 DEF Next, Pop
<1> QED
  BY <1>1, <1>2, TypeCorrect, PTL DEF Spec

-----------------------------------------------------------------------------
LEMMA NextFifo == TypeOK /\ Fifo /\ [Next]_vars => Fifo'
<1> SUFFICES ASSUME TypeOK, Fifo, [Next]_vars PROVE Fifo'
  OBVIOUS
<1> USE DEF TypeOK, Fifo
<1>1. ASSUME NEW f \in Frame, Push(f) PROVE Fifo'
  <2>1. /\ accepted' = Append(delivered \o data, f)
        /\ delivered' \o data' = delivered \o Append(data, f)
    BY <1>1 DEF Push
  <2> QED
    BY <2>1, AppendIsConcat, ConcatAssociative, ConcatProperties
<1>2. ASSUME NEW c \in Consumer, PopFrame(c) PROVE Fifo'
  <2>1. data = <<Head(data)>> \o Tail(data)
    BY <1>2 DEF PopFrame
  <2>2. delivered' = delivered \o <<Head(data)>> /\ data' = Tail(data)
    BY <1>2 DEF PopFrame
  <2> QED
    BY <1>2, <2>1, <2>2 DEF PopFrame
<1>3. CASE UNCHANGED <<data, accepted, delivered>>
  BY <1>3
<1> QED
  BY <1>1, <1>2, <1>3 DEF Next, Pop, Close, PopNone, PopWait, SpuriousWakeup, Fail, vars

\* What pop returned, followed by what is still queued, is what push took.
THEOREM FifoOrder == Spec => []Fifo
<1>1. Init => Fifo
  BY DEF Init, Fifo
<1> QED
  BY <1>1, TypeCorrect, NextFifo, PTL DEF Spec

LEMMA StepImplementsChannel ==
  TypeOK /\ Fifo /\ [Next]_vars => [Channel!ChannelNext]_(Channel!channelVars)
<1> SUFFICES ASSUME TypeOK, Fifo, [Next]_vars
             PROVE  Channel!ChannelNext \/ UNCHANGED Channel!channelVars
  OBVIOUS
<1> USE DEF TypeOK, Fifo, Channel!channelVars
<1>1. ASSUME NEW f \in Frame, Push(f) PROVE Channel!Send(f)
  BY <1>1 DEF Push, CanPush, Channel!Send
<1>2. ASSUME NEW c \in Consumer, PopFrame(c) PROVE Channel!Receive
  BY <1>2 DEF PopFrame, Channel!Receive
<1>3. CASE Close
  BY <1>3 DEF Close, Channel!Shut, Channel!ChannelNext
<1>4. CASE UNCHANGED <<accepted, delivered, closed>>
  BY <1>4
<1> QED
  BY <1>1, <1>2, <1>3, <1>4
     DEF Next, Pop, PopNone, PopWait, SpuriousWakeup, Fail, vars, Channel!ChannelNext

\* The lock, the condition variable and the bounded buffer implement a FIFO
\* channel that loses, doubles and reorders nothing.
THEOREM QueueIsChannel == Spec => ImplementsChannel
<1>1. Init => Channel!ChannelInit
  BY DEF Init, Channel!ChannelInit
<1> QED
  BY <1>1, TypeCorrect, FifoOrder, StepImplementsChannel, PTL
     DEF Spec, ImplementsChannel, Channel!ChannelSpec
=============================================================================
