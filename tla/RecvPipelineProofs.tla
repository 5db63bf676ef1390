------------------------- MODULE RecvPipelineProofs -------------------------
(***************************************************************************)
(* The path of DatagramPath first: the payload handed up is the payload    *)
(* sent, for every number of hosts, every fragment size and timeout,       *)
(* provided the payloads fit the offset field and the identifications      *)
(* last.  Both provisos are needed: without them TLC finds a               *)
(* counterexample.                                                         *)
(*                                                                         *)
(* Then the threads of the receiving host, for any capacity and number of  *)
(* frames: with the queue between them they implement that path, so its    *)
(* theorem about payloads holds of them, they use the queue as             *)
(* ClosableQueue allows, and datalink_recv returns only after its worker.  *)
(*                                                                         *)
(* Last, what ArrivedIsHandedUp and ReceptionEnds rest on besides the      *)
(* fairness of the threads: a worker at rest has left nothing behind, and  *)
(* a host that joins its worker has a bounded number of steps to take.     *)
(***************************************************************************)
EXTENDS RecvPipeline, ReassemblerProofs, SequenceTheorems

\* No payload is longer than the 13 bits of the offset field reach.
LengthsFit == \A l \in Length : l <= LengthRange

\* IDENT_COUNTER does not come round to an identification given before.
IdentsLast == MaxDatagrams <= IdentRange

SentInv ==
  /\ \A d \in sent : d.src \in Host /\ d.ident \in Nat /\ d.len \in Length
  /\ \A d, e \in sent : d.src = e.src /\ d.ident = e.ident => d = e

CounterInv ==
  /\ built \in Nat
  /\ counter \in [Host -> Nat]
  /\ built < MaxDatagrams => /\ \A h \in Host : counter[h] <= built
                             /\ \A d \in sent : d.ident < counter[d.src]

BuildingInv ==
  \A c \in building : /\ c.dgram \in sent
                      /\ c.at < c.dgram.len
                      /\ \E q \in Nat : c.at = 8 * q

\* A fragment on the wire lies in its datagram where its offset says.
OnWireOK(f) ==
  /\ IsFragment(f)
  /\ f.body \in sent
  /\ f.key = <<f.body.src, f.body.ident>>
  /\ Offset(f) = f.from
  /\ End(f) <= f.body.len
  /\ ~f.mf => End(f) = f.body.len

WireInv ==
  /\ \A f \in wire : OnWireOK(f)
  /\ \A k \in DOMAIN buffers : buffers[k].frags \subseteq wire

PathInv == SentInv /\ CounterInv /\ BuildingInv /\ WireInv /\ ReassemblerInv /\ PacketOK

-----------------------------------------------------------------------------
\* Among the fragments covering a byte one has the greatest offset.
LEMMA ByteIsCovered ==
  ASSUME NEW fs, \A f \in fs : IsFragment(f), NEW i, Covering(fs, i) # {}
  PROVE  \E f \in Covering(fs, i) : ByteAt(fs, i) = <<f.body, f.from + i - Offset(f)>>
<1> DEFINE Cov == Covering(fs, i)
           Gaps == {x \in Nat : \E f \in Cov : x = OffsetRange - 1 - f.off}
<1>1. \A f \in Cov : f.off \in 0 .. OffsetRange - 1
  BY DEF Covering, IsFragment
<1>2. PICK x \in Gaps : \A y \in Gaps : x <= y
  <2>0. OffsetRange \in Nat
    BY ReassemblerAssumption DEF ReassemblerAssumption
  <2>1. Gaps \in SUBSET Nat /\ Gaps # {}
    BY <1>1, <2>0
  <2> HIDE DEF Gaps
  <2> QED
    BY <2>1, LeastNatural
<1>3. PICK f \in Cov : x = OffsetRange - 1 - f.off
  OBVIOUS
<1>4. \A g \in Cov : g.off <= f.off
  <2> SUFFICES ASSUME NEW g \in Cov PROVE g.off <= f.off
    OBVIOUS
  <2>1. OffsetRange - 1 - g.off \in Gaps
    BY <1>1, ReassemblerAssumption DEF ReassemblerAssumption
  <2> QED
    BY <1>1, <1>2, <1>3, <2>1, ReassemblerAssumption DEF ReassemblerAssumption
<1> DEFINE top == CHOOSE h \in Cov : \A g \in Cov : g.off <= h.off
<1>5. top \in Cov
  BY <1>4
<1>6. ByteAt(fs, i) = <<top.body, top.from + i - Offset(top)>>
  BY DEF ByteAt
<1> QED
  BY <1>5, <1>6

\* Fragments of one datagram, each where its offset says, give its payload.
LEMMA PayloadOfOne ==
  ASSUME NEW fs, NEW d, d.len \in Nat,
         \A f \in fs : IsFragment(f) /\ f.body = d /\ Offset(f) = f.from,
         \A i \in 0 .. d.len - 1 : Covering(fs, i) # {}
  PROVE  Payload(fs, d.len) = PayloadOf(d)
<1> SUFFICES ASSUME NEW i \in 0 .. d.len - 1 PROVE ByteAt(fs, i) = <<d, i>>
  BY DEF Payload, PayloadOf
<1>1. PICK f \in Covering(fs, i) : ByteAt(fs, i) = <<f.body, f.from + i - Offset(f)>>
  BY ByteIsCovered
<1>2. f \in fs
  BY DEF Covering
<1>3. f.body = d /\ f.from + i - Offset(f) = i
  BY <1>2 DEF IsFragment
<1> QED
  BY <1>1, <1>3

LEMMA ModSmall == ASSUME NEW a \in Nat, NEW b \in Nat, a < b PROVE a % b = a
OBVIOUS

\* What a round of the loop puts on the wire.
LEMMA CutOnWire ==
  ASSUME PathInv, LengthsFit, NEW c \in building
  PROVE  /\ OnWireOK(CutFragment(c))
         /\ ~IsLast(c) => /\ c.at + Current(c) < c.dgram.len
                          /\ \E q \in Nat : c.at + Current(c) = 8 * q
<1> DEFINE f == CutFragment(c)
           d == c.dgram
<1>1. PICK q \in Nat : c.at = 8 * q
  BY DEF PathInv, BuildingInv
<1>2. d \in sent /\ d.len \in Length /\ d.len \in Nat /\ c.at < d.len /\ d.len <= 8 * OffsetRange
  BY PathAssumption DEF PathInv, BuildingInv, SentInv, LengthsFit, LengthRange, PathAssumption
<1>3. OffsetRange \in Nat /\ q < OffsetRange
  BY <1>1, <1>2, ReassemblerAssumption DEF ReassemblerAssumption
<1>4. c.at \div 8 = q
  BY <1>1
<1>5. f.off = q /\ f.off \in 0 .. OffsetRange - 1
  BY <1>3, <1>4, ModSmall DEF CutFragment
<1>6. PICK m \in Nat : Stride = 8 * m /\ Stride <= MaxFragmentPayload
  BY PathAssumption DEF PathAssumption, Stride
<1>7. /\ f.len = Current(c) /\ f.mf = ~IsLast(c) /\ f.body = d /\ f.from = c.at
      /\ f.key = <<d.src, d.ident>>
  BY DEF CutFragment
<1>8. IsLast(c) => Current(c) = d.len - c.at
  BY DEF Current, IsLast, Remaining
<1>9. ~IsLast(c) => Current(c) = 8 * m /\ c.at + Current(c) < d.len
  BY <1>1, <1>2, <1>6, PathAssumption DEF Current, IsLast, Remaining, PathAssumption
<1>10. Current(c) \in Nat /\ c.at + Current(c) <= d.len
  BY <1>1, <1>2, <1>8, <1>9
<1>11. OnWireOK(f)
  <2> HIDE DEF f
  <2>1. IsFragment(f)
    BY <1>1, <1>5, <1>7, <1>10 DEF IsFragment, IsLast
  <2>2. Offset(f) = c.at /\ End(f) = c.at + Current(c)
    BY <1>1, <1>5, <1>7 DEF Offset, End
  <2>3. ~f.mf => End(f) = f.body.len
    <3>1. ~f.mf => IsLast(c)
      BY <1>7 DEF IsLast
    <3>2. IsLast(c) => c.at + Current(c) = d.len
      BY <1>1, <1>2, <1>8
    <3> QED
      BY <1>7, <2>2, <3>1, <3>2
  <2>4. f.key = <<f.body.src, f.body.ident>> /\ f.body \in sent
    BY <1>2, <1>7
  <2>5. Offset(f) = f.from /\ End(f) <= f.body.len
    BY <1>7, <1>10, <2>2
  <2> QED
    BY <2>1, <2>3, <2>4, <2>5 DEF OnWireOK
<1>12. ~IsLast(c) => \E p \in Nat : c.at + Current(c) = 8 * p
  <2>1. q + m \in Nat /\ (~IsLast(c) => c.at + Current(c) = 8 * (q + m))
    BY <1>1, <1>6, <1>9
  <2> QED
    BY <2>1
<1> QED
  BY <1>9, <1>11, <1>12

-----------------------------------------------------------------------------
LEMMA InitPathInv == Init => PathInv /\ Integrity
<1> SUFFICES ASSUME Init PROVE PathInv /\ Integrity
  OBVIOUS
<1>1. ReassemblerInv /\ PacketOK
  BY InitReassemblerInv DEF Init
<1>2. SentInv /\ CounterInv /\ BuildingInv /\ Integrity
  BY DEF Init, ReassemblerInit, SentInv, CounterInv, BuildingInv, Integrity
<1>3. WireInv
  BY DEF Init, ReassemblerInit, WireInv
<1> QED
  BY <1>1, <1>2, <1>3 DEF PathInv

\* The reassembler does not see what the senders do.
LEMMA UnseenKeepsInv ==
  ASSUME ReassemblerInv, PacketOK, UNCHANGED reassemblerVars
  PROVE  ReassemblerInv' /\ PacketOK'
BY QuietStepKeepsInv

LEMMA BeginKeepsInv ==
  ASSUME PathInv, Integrity, IdentsLast, NEW h \in Host, NEW l \in Length, Begin(h, l)
  PROVE  PathInv' /\ Integrity'
<1> DEFINE d == [src |-> h, n |-> built, ident |-> counter[h], len |-> l]
<1>1. /\ sent' = sent \cup {d}
      /\ building' = building \cup {[dgram |-> d, at |-> 0]}
      /\ counter' = [counter EXCEPT ![h] = NextIdent(@)]
      /\ built' = built + 1 /\ built < MaxDatagrams
      /\ wire' = wire /\ UNCHANGED reassemblerVars
  BY DEF Begin, reassemblerVars
<1>2. /\ built \in Nat /\ counter \in [Host -> Nat]
      /\ \A g \in Host : counter[g] <= built
      /\ \A e \in sent : e.src \in Host /\ e.ident \in Nat /\ e.ident < counter[e.src]
  BY <1>1 DEF PathInv, CounterInv, SentInv
<1>3. SentInv'
  <2>1. \A e \in sent : ~(e.src = d.src /\ e.ident = d.ident)
    BY <1>2
  <2>2. d.src \in Host /\ d.ident \in Nat /\ d.len \in Length
    BY <1>2
  <2> HIDE DEF d
  <2> QED
    BY <1>1, <2>1, <2>2 DEF PathInv, SentInv
<1>4. CounterInv'
  <2>1. built' \in Nat /\ counter' \in [Host -> Nat]
    BY <1>1, <1>2 DEF NextIdent
  <2>2. ASSUME built' < MaxDatagrams
        PROVE  /\ \A g \in Host : counter'[g] <= built'
               /\ \A e \in sent' : e.ident < counter'[e.src]
    <3>1. counter[h] + 1 < IdentRange
      BY <1>1, <1>2, <2>2, PathAssumption DEF IdentsLast, PathAssumption
    <3>2. counter' = [counter EXCEPT ![h] = counter[h] + 1]
      <4>1. counter[h] \in Nat
        BY <1>2
      <4>2. NextIdent(counter[h]) = counter[h] + 1
        BY <3>1, <4>1 DEF NextIdent
      <4> QED
        BY <1>1, <4>2
    <3>3. \A g \in Host : counter[g] <= counter'[g] /\ counter'[g] <= built'
      BY <1>1, <1>2, <3>2
    <3>4. ASSUME NEW e \in sent PROVE e.ident < counter'[e.src]
      <4>1. e.ident \in Nat /\ counter[e.src] \in Nat /\ counter'[e.src] \in Nat
        BY <1>2, <2>1
      <4>2. e.ident < counter[e.src] /\ counter[e.src] <= counter'[e.src]
        BY <1>2, <3>3
      <4> QED
        BY <4>1, <4>2
    <3>5. d.ident < counter'[d.src]
      BY <1>2, <3>2
    <3> HIDE DEF d
    <3>6. ASSUME NEW e \in sent' PROVE e.ident < counter'[e.src]
      BY <1>1, <3>4, <3>5
    <3> QED
      BY <3>3, <3>6
  <2> QED
    BY <2>1, <2>2 DEF CounterInv
<1>5. BuildingInv'
  <2>1. d.len \in Nat /\ 0 < d.len
    BY PathAssumption DEF PathAssumption
  <2>2. 0 = 8 * 0 /\ 0 \in Nat
    OBVIOUS
  <2> HIDE DEF d
  <2> QED
    BY <1>1, <2>1, <2>2 DEF PathInv, BuildingInv
<1>6. WireInv'
  BY <1>1 DEF PathInv, WireInv, OnWireOK, reassemblerVars
<1>7. ReassemblerInv' /\ PacketOK'
  BY <1>1, UnseenKeepsInv DEF PathInv
<1>8. Integrity'
  BY <1>1 DEF Integrity, reassemblerVars
<1> QED
  BY <1>3, <1>4, <1>5, <1>6, <1>7, <1>8 DEF PathInv

LEMMA CutKeepsInv ==
  ASSUME PathInv, Integrity, LengthsFit, NEW c \in building, Cut(c)
  PROVE  PathInv' /\ Integrity'
<1>1. /\ wire' = wire \cup {CutFragment(c)}
      /\ building' = (building \ {c}) \cup
                       (IF IsLast(c) THEN {} ELSE {[c EXCEPT !.at = @ + Current(c)]})
      /\ UNCHANGED <<counter, built, sent, buffers, now, out, alive>>
  BY DEF Cut
<1>2. SentInv' /\ CounterInv' /\ Integrity'
  BY <1>1 DEF PathInv, SentInv, CounterInv, Integrity
<1>3. BuildingInv'
  <2> SUFFICES ASSUME NEW b \in building'
               PROVE  /\ b.dgram \in sent' /\ b.at < b.dgram.len
                      /\ \E q \in Nat : b.at = 8 * q
    BY DEF BuildingInv
  <2>1. CASE b \in building
    BY <1>1, <2>1 DEF PathInv, BuildingInv
  <2>2. CASE ~IsLast(c) /\ b = [c EXCEPT !.at = @ + Current(c)]
    <3>1. b.dgram = c.dgram /\ b.at = c.at + Current(c)
      BY <2>2 DEF PathInv, BuildingInv
    <3> QED
      BY <1>1, <2>2, <3>1, CutOnWire DEF PathInv, BuildingInv
  <2> QED
    BY <1>1, <2>1, <2>2
<1>4. WireInv'
  <2>1. \A f \in wire' : OnWireOK(f)
    BY <1>1, CutOnWire DEF PathInv, WireInv
  <2> QED
    BY <1>1, <2>1 DEF PathInv, WireInv, OnWireOK
<1>5. ReassemblerInv' /\ PacketOK'
  BY <1>1, UnseenKeepsInv DEF PathInv, reassemblerVars
<1> QED
  BY <1>2, <1>3, <1>4, <1>5 DEF PathInv

\* Fragments with one key are of one datagram.
LEMMA OneDatagram ==
  ASSUME PathInv, NEW f \in wire, NEW g \in wire, f.key = g.key
  PROVE  f.body = g.body
<1>1. OnWireOK(f) /\ OnWireOK(g)
  BY DEF PathInv, WireInv
<1>2. <<f.body.src, f.body.ident>> = <<g.body.src, g.body.ident>>
  BY <1>1 DEF OnWireOK
<1>3. f.body.src = g.body.src /\ f.body.ident = g.body.ident
  BY <1>2
<1> QED
  BY <1>1, <1>3 DEF OnWireOK, PathInv, SentInv

\* What is handed up with a fragment is the payload it is cut from.
LEMMA HandedUpIsPayload ==
  ASSUME PathInv, NEW f \in wire, PassWhole(f) \/ Assemble(f)
  PROVE  \E p : out' = {p} /\ p.payload = PayloadOf(f.body)
<1>1. OnWireOK(f) /\ IsFragment(f) /\ f.body \in sent /\ f.body.len \in Nat
  BY PathAssumption DEF PathInv, WireInv, OnWireOK, SentInv, PathAssumption
<1>2. CASE PassWhole(f)
  <2> DEFINE p == [header |-> f, since |-> now, payload |-> Payload({f}, f.len)]
  <2>1. out' = {p}
    BY <1>2 DEF PassWhole
  <2>2. f.off = 0 /\ Offset(f) = 0 /\ End(f) = f.len /\ f.len = f.body.len /\ f.from = 0
    BY <1>1, <1>2 DEF PassWhole, IsWhole, OnWireOK, Offset, End, IsFragment
  <2>3. ASSUME NEW i \in 0 .. f.body.len - 1 PROVE f \in Covering({f}, i)
    BY <1>1, <2>2 DEF Covering
  <2>4. Payload({f}, f.body.len) = PayloadOf(f.body)
    <3>1. \A g \in {f} : IsFragment(g) /\ g.body = f.body /\ Offset(g) = g.from
      BY <1>1, <2>2
    <3>2. \A i \in 0 .. f.body.len - 1 : Covering({f}, i) # {}
      BY <2>3
    <3> QED
      BY <1>1, <3>1, <3>2, PayloadOfOne
  <2>5. p.payload = PayloadOf(f.body)
    BY <2>2, <2>4
  <2> QED
    BY <2>1, <2>5
<1>3. CASE Assemble(f)
  <2> DEFINE fs == Buffered(f).frags
  <2>1. PICK n \in Buffered(f).total :
          out' = {[header  |-> Buffered(f).header,
                   since   |-> Buffered(f).start,
                   payload |-> Payload(fs, n)]}
    BY <1>3 DEF Assemble
  <2>2. /\ BufferOK(f.key, Buffered(f)) /\ HeaderOK(Buffered(f))
        /\ Complete(Buffered(f)) /\ f \in fs
    BY <1>1, <1>3, BufferedOK DEF Assemble, PathInv
  <2>3. n \in Nat /\ \A i \in 0 .. n-1 : Covering(fs, i) # {}
    BY <2>2, AssembledOK
  <2>4. \A g \in fs : g \in wire /\ IsFragment(g) /\ g.key = f.key
    <3>1. \A k \in LiveKeys : buffers[k].frags \subseteq wire
      BY DEF LiveKeys, PathInv, WireInv
    <3> QED
      BY <2>2, <3>1 DEF BufferOK, Buffered
  <2>5. \A g \in fs : IsFragment(g) /\ g.body = f.body /\ Offset(g) = g.from
    BY <2>2, <2>4, OneDatagram DEF PathInv, WireInv, OnWireOK
  <2>6. n = f.body.len
    <3>1. PICK g \in fs : ~g.mf /\ n = End(g)
      BY <2>1, <2>2 DEF BufferOK
    <3> QED
      BY <2>4, <2>5, <3>1 DEF PathInv, WireInv, OnWireOK
  <2>7. Payload(fs, n) = PayloadOf(f.body)
    BY <1>1, <2>3, <2>5, <2>6, PayloadOfOne
  <2> DEFINE p == [header  |-> Buffered(f).header,
                   since   |-> Buffered(f).start,
                   payload |-> Payload(fs, n)]
  <2>8. out' = {p} /\ p.payload = PayloadOf(f.body)
    BY <2>1, <2>7
  <2> QED
    BY <2>8
<1> QED
  BY <1>2, <1>3

LEMMA ReceiveKeepsPathInv ==
  ASSUME PathInv, Integrity, NEW f \in wire, Receive(f), UNCHANGED senderVars
  PROVE  PathInv' /\ Integrity'
<1>1. OnWireOK(f) /\ IsFragment(f) /\ f.body \in sent /\ f.body.len \in Nat
  BY PathAssumption DEF PathInv, WireInv, OnWireOK, SentInv, PathAssumption
<1>2. ReassemblerInv' /\ PacketOK'
  BY <1>1, ReceiveKeepsInv DEF PathInv
<1>3. SentInv' /\ CounterInv' /\ BuildingInv' /\ sent' = sent /\ wire' = wire
  BY DEF senderVars, PathInv, SentInv, CounterInv, BuildingInv
<1>4. \A k \in LiveKeys : buffers[k].frags \subseteq wire
  BY DEF LiveKeys, PathInv, WireInv
<1>5. Buffered(f).frags \subseteq wire
  BY <1>4 DEF Buffered
<1>6. \A k \in DOMAIN buffers' : buffers'[k].frags \subseteq wire
  <2>1. CASE PassWhole(f)
    BY <1>4, <2>1 DEF PassWhole, Live
  <2>2. CASE DropDuplicate(f)
    <3> SUFFICES ASSUME NEW k \in DOMAIN buffers' PROVE buffers'[k].frags \subseteq wire
      OBVIOUS
    <3>1. k \in LiveKeys
      BY <2>2 DEF DropDuplicate
    <3>2. CASE k = f.key /\ f.off = 0
      <4>1. buffers'[k] = [buffers[k] EXCEPT !.header = f]
        BY <2>2, <3>1, <3>2 DEF DropDuplicate
      <4>2. buffers'[k].frags = buffers[k].frags
        BY <4>1
      <4> QED
        BY <1>4, <3>1, <4>2
    <3>3. CASE ~(k = f.key /\ f.off = 0)
      BY <1>4, <2>2, <3>1, <3>3 DEF DropDuplicate
    <3> QED
      BY <3>2, <3>3
  <2>3. CASE Store(f)
    BY <1>4, <1>5, <2>3 DEF Store
  <2>4. CASE Assemble(f)
    BY <1>4, <2>4 DEF Assemble
  <2>5. CASE Panic(f)
    BY <2>5 DEF Panic
  <2> QED
    BY <2>1, <2>2, <2>3, <2>4, <2>5 DEF Receive
<1>7. WireInv'
  BY <1>3, <1>6 DEF PathInv, WireInv, OnWireOK
<1>8. Integrity'
  <2>1. CASE PassWhole(f) \/ Assemble(f)
    <3>1. PICK p : out' = {p} /\ p.payload = PayloadOf(f.body)
      BY <2>1, HandedUpIsPayload
    <3> QED
      BY <1>1, <1>3, <3>1 DEF Integrity
  <2>2. CASE out' = {}
    BY <2>2 DEF Integrity
  <2> QED
    BY <2>1, <2>2 DEF Receive, DropDuplicate, Store, Panic
<1> QED
  BY <1>2, <1>3, <1>7, <1>8 DEF PathInv

LEMMA QuietKeepsPathInv ==
  ASSUME PathInv, Integrity, UNCHANGED senderVars,
         Discard \/ Tick \/ UNCHANGED reassemblerVars
  PROVE  PathInv' /\ Integrity'
<1>1. ReassemblerInv' /\ PacketOK'
  BY QuietStepKeepsInv DEF PathInv
<1>2. SentInv' /\ CounterInv' /\ BuildingInv' /\ sent' = sent /\ wire' = wire
  BY DEF senderVars, PathInv, SentInv, CounterInv, BuildingInv
<1>3. \A k \in DOMAIN buffers' : k \in DOMAIN buffers /\ buffers'[k] = buffers[k]
  BY DEF Discard, Live, LiveKeys, Tick, reassemblerVars
<1>4. WireInv'
  BY <1>2, <1>3 DEF PathInv, WireInv, OnWireOK
<1>5. Integrity'
  BY <1>2 DEF Integrity, Discard, Tick, reassemblerVars
<1> QED
  BY <1>1, <1>2, <1>4, <1>5 DEF PathInv

LEMMA PathInvHolds ==
  ASSUME LengthsFit, IdentsLast
  PROVE  Spec => [](PathInv /\ Integrity)
<1>1. Init => PathInv /\ Integrity
  BY InitPathInv
<1>2. PathInv /\ Integrity /\ [Next]_vars => (PathInv /\ Integrity)'
  <2> SUFFICES ASSUME PathInv, Integrity, [Next]_vars PROVE PathInv' /\ Integrity'
    OBVIOUS
  <2>1. ASSUME NEW h \in Host, NEW l \in Length, Begin(h, l) PROVE PathInv' /\ Integrity'
    BY <2>1, BeginKeepsInv
  <2>2. ASSUME NEW c \in building, Cut(c) PROVE PathInv' /\ Integrity'
    BY <2>2, CutKeepsInv
  <2>3. ASSUME NEW f \in wire, Receive(f), UNCHANGED senderVars PROVE PathInv' /\ Integrity'
    BY <2>3, ReceiveKeepsPathInv
  <2>4. CASE (Discard \/ Tick) /\ UNCHANGED senderVars
    BY <2>4, QuietKeepsPathInv
  <2>5. CASE UNCHANGED vars
    BY <2>5, QuietKeepsPathInv DEF vars, senderVars, reassemblerVars
  <2> QED
    BY <2>1, <2>2, <2>3, <2>4, <2>5 DEF Next
<1> QED
  BY <1>1, <1>2, PTL DEF Spec

\* A packet that deliver_ip_payload gets is the payload of one datagram that
\* some host gave to build_ipv4_packets, byte for byte, whatever the network
\* loses, doubles, delays or mixes, as long as payloads fit the offset field
\* and no identification comes back.
THEOREM PayloadsArriveIntact ==
  ASSUME LengthsFit, IdentsLast
  PROVE  Spec => []Integrity
BY PathInvHolds, PTL

-----------------------------------------------------------------------------
\* The fragments fs hold each of the first n bytes of len once, and no other.
Tiles(fs, len, n) ==
  /\ \A f \in fs : Offset(f) < End(f) /\ End(f) <= n /\ (f.mf <=> End(f) < len)
  /\ \A i \in 0 .. n-1 : \E f \in fs : Covering(fs, i) = {f}

\* What the loop has put on the wire tiles what it has behind it, and there is
\* one loop for a datagram.
TileInv ==
  /\ \A d \in sent : Finished(d) => Tiles(PiecesOf(d), d.len, d.len)
  /\ \A c \in building : Tiles(PiecesOf(c.dgram), c.dgram.len, c.at)
  /\ \A b, c \in building : b.dgram = c.dgram => b = c

LEMMA TilesNext ==
  ASSUME NEW fs, \A g \in fs : IsFragment(g), NEW len \in Nat, NEW n \in Nat, Tiles(fs, len, n),
         NEW f, IsFragment(f), Offset(f) = n, n < End(f), f.mf <=> End(f) < len
  PROVE  Tiles(fs \cup {f}, len, End(f))
<1>1. End(f) \in Nat /\ n <= End(f) /\ \A g \in fs : End(g) \in Nat /\ End(g) <= n
  BY DEF IsFragment, End, Offset, Tiles
<1>2. \A g \in fs \cup {f} : Offset(g) < End(g) /\ End(g) <= End(f) /\ (g.mf <=> End(g) < len)
  BY <1>1 DEF Tiles
<1>3. ASSUME NEW i \in 0 .. End(f) - 1
      PROVE  \E g \in fs \cup {f} : Covering(fs \cup {f}, i) = {g}
  <2>1. CASE i < n
    <3>1. PICK g \in fs : Covering(fs, i) = {g}
      BY <1>3, <2>1 DEF Tiles
    <3>2. Covering(fs \cup {f}, i) = Covering(fs, i)
      BY <2>1 DEF Covering
    <3> QED
      BY <3>1, <3>2
  <2>2. CASE ~(i < n)
    <3>1. \A g \in fs : ~(i < End(g))
      BY <1>1, <1>3, <2>2
    <3>2. Offset(f) <= i /\ i < End(f)
      BY <1>1, <1>3, <2>2
    <3>3. Covering(fs \cup {f}, i) = {f}
      BY <3>1, <3>2 DEF Covering
    <3> QED
      BY <3>3
  <2> QED
    BY <2>1, <2>2
<1> QED
  BY <1>2, <1>3 DEF Tiles

LEMMA BeginKeepsTiles ==
  ASSUME PathInv, TileInv, NEW h \in Host, NEW l \in Length, Begin(h, l)
  PROVE  TileInv'
<1> DEFINE d == [src |-> h, n |-> built, ident |-> counter[h], len |-> l]
           c == [dgram |-> d, at |-> 0]
<1>1. /\ sent' = sent \cup {d} /\ building' = building \cup {c}
      /\ wire' = wire /\ built < MaxDatagrams
  BY DEF Begin
<1>2. d \notin sent
  <2>1. \A e \in sent : e.ident < counter[e.src] /\ e.ident \in Nat /\ e.src \in Host
    BY <1>1 DEF PathInv, CounterInv, SentInv
  <2>2. d.ident = counter[d.src] /\ counter[d.src] \in Nat
    BY DEF PathInv, CounterInv
  <2> HIDE DEF d
  <2> QED
    BY <2>1, <2>2
<1>3. \A f \in wire : f.body \in sent
  BY DEF PathInv, WireInv, OnWireOK
<1>4. \A b \in building : b.dgram \in sent
  BY DEF PathInv, BuildingInv
<1>5. c.dgram = d /\ c.at = 0 /\ d.len \in Nat
  BY PathAssumption DEF PathAssumption
<1> HIDE DEF c, d
<1>6. PiecesOf(d) = {}
  BY <1>2, <1>3 DEF PiecesOf
<1>7. Tiles({}, d.len, 0)
  BY DEF Tiles
<1>8. \A e : PiecesOf(e)' = PiecesOf(e)
  BY <1>1 DEF PiecesOf
<1>9. ASSUME NEW e \in sent', Finished(e)' PROVE Tiles(PiecesOf(e)', e.len, e.len)
  <2>1. e \in sent /\ Finished(e)
    BY <1>1, <1>5, <1>9 DEF Finished
  <2> QED
    BY <1>8, <2>1 DEF TileInv
<1>10. ASSUME NEW b \in building' PROVE Tiles(PiecesOf(b.dgram)', b.dgram.len, b.at)
  BY <1>1, <1>5, <1>6, <1>7, <1>8 DEF TileInv
<1>11. ASSUME NEW a \in building', NEW b \in building', a.dgram = b.dgram PROVE a = b
  BY <1>1, <1>2, <1>4, <1>5, <1>11 DEF TileInv
<1> QED
  BY <1>9, <1>10, <1>11 DEF TileInv

LEMMA CutKeepsTiles ==
  ASSUME PathInv, LengthsFit, TileInv, NEW c \in building, Cut(c)
  PROVE  TileInv'
<1> DEFINE f == CutFragment(c)
           d == c.dgram
           b == [c EXCEPT !.at = @ + Current(c)]
<1>1. /\ sent' = sent /\ wire' = wire \cup {f}
      /\ building' = (building \ {c}) \cup (IF IsLast(c) THEN {} ELSE {b})
  BY DEF Cut
<1>2. OnWireOK(f) /\ f.body = d /\ f.from = c.at /\ f.len = Current(c) /\ (f.mf <=> ~IsLast(c))
  BY CutOnWire DEF CutFragment, IsLast
<1>3. /\ d \in sent /\ d.len \in Nat /\ c.at \in Nat
      /\ b.dgram = d /\ b.at = c.at + Current(c)
  BY PathAssumption DEF PathInv, BuildingInv, SentInv, PathAssumption
<1>4. IsLast(c) => c.at + Current(c) = d.len
  BY <1>3 DEF IsLast, Remaining, Current
<1>5. ~IsLast(c) => c.at + Current(c) < d.len
  BY CutOnWire
<1>6. Offset(f) = c.at /\ End(f) = c.at + Current(c) /\ IsFragment(f)
  BY <1>2 DEF OnWireOK, End
<1>7. \A g \in PiecesOf(d) : IsFragment(g)
  BY DEF PiecesOf, PathInv, WireInv, OnWireOK
<1> HIDE DEF f, b
<1>8. PiecesOf(d)' = PiecesOf(d) \cup {f}
  BY <1>1, <1>2 DEF PiecesOf
<1>9. ASSUME NEW e, e # d PROVE PiecesOf(e)' = PiecesOf(e)
  BY <1>1, <1>2, <1>9 DEF PiecesOf
<1>10. Tiles(PiecesOf(d), d.len, c.at)
  BY DEF TileInv
<1>11. f.mf <=> End(f) < d.len
  BY <1>2, <1>3, <1>4, <1>5, <1>6
<1> HIDE DEF d
<1>17. c.at < End(f)
  <2>1. c.at < d.len /\ Stride > 0
    BY PathAssumption DEF PathInv, BuildingInv, PathAssumption, Stride, d
  <2>2. Stride \in Nat
    BY PathAssumption DEF PathAssumption, Stride
  <2> QED
    BY <1>3, <1>4, <1>6, <2>1, <2>2 DEF Current
<1>12. Tiles(PiecesOf(d)', d.len, c.at + Current(c))
  BY <1>3, <1>6, <1>7, <1>8, <1>10, <1>11, <1>17, TilesNext
<1>13. \A a \in building \ {c} : a.dgram # d
  BY DEF TileInv, d
<1>14. ASSUME NEW e \in sent', Finished(e)' PROVE Tiles(PiecesOf(e)', e.len, e.len)
  <2>1. CASE e = d
    <3>1. IsLast(c)
      BY <1>1, <1>3, <1>14, <2>1 DEF Finished
    <3> QED
      BY <1>4, <1>12, <2>1, <3>1
  <2>2. CASE e # d
    <3>1. Finished(e)
      BY <1>1, <1>3, <1>14, <2>2 DEF Finished, d
    <3> QED
      BY <1>1, <1>9, <2>2, <3>1 DEF TileInv
  <2> QED
    BY <2>1, <2>2
<1>15. ASSUME NEW a \in building' PROVE Tiles(PiecesOf(a.dgram)', a.dgram.len, a.at)
  <2>1. CASE a \in building \ {c}
    BY <1>9, <1>13, <2>1 DEF TileInv
  <2>2. CASE a = b
    BY <1>3, <1>12, <2>2
  <2> QED
    BY <1>1, <2>1, <2>2
<1>16. ASSUME NEW a \in building', NEW e \in building', a.dgram = e.dgram PROVE a = e
  BY <1>1, <1>3, <1>13, <1>16 DEF TileInv
<1> QED
  BY <1>14, <1>15, <1>16 DEF TileInv

LEMMA TileInvHolds ==
  ASSUME LengthsFit, IdentsLast
  PROVE  Spec => []TileInv
<1>1. Init => TileInv
  BY DEF Init, TileInv
<1>2. PathInv /\ TileInv /\ [Next]_vars => TileInv'
  <2> SUFFICES ASSUME PathInv, TileInv, [Next]_vars PROVE TileInv'
    OBVIOUS
  <2>1. ASSUME NEW h \in Host, NEW l \in Length, Begin(h, l) PROVE TileInv'
    BY <2>1, BeginKeepsTiles
  <2>2. ASSUME NEW c \in building, Cut(c) PROVE TileInv'
    BY <2>2, CutKeepsTiles
  <2>3. CASE UNCHANGED senderVars
    BY <2>3 DEF senderVars, TileInv, Finished, PiecesOf
  <2> QED
    BY <2>1, <2>2, <2>3 DEF Next, vars, senderVars
<1> QED
  BY <1>1, <1>2, PathInvHolds, PTL DEF Spec

\* build_ipv4_packets cuts every payload that fits the offset field into
\* fragments that hold each byte once, lie where their offsets say, and of which
\* the last alone has MF clear.
THEOREM FragmentsTilePayload ==
  ASSUME LengthsFit, IdentsLast
  PROVE  Spec => []FragmentsTile
<1>1. PathInv /\ TileInv => FragmentsTile
  <2> SUFFICES ASSUME PathInv, TileInv, NEW d \in sent, Finished(d)
               PROVE  /\ \A f \in PiecesOf(d) : Offset(f) = f.from /\ (f.mf <=> End(f) < d.len)
                      /\ \A i \in 0 .. d.len - 1 :
                           \E f \in PiecesOf(d) : Covering(PiecesOf(d), i) = {f}
    BY DEF FragmentsTile
  <2>1. Tiles(PiecesOf(d), d.len, d.len)
    BY DEF TileInv
  <2>2. \A f \in PiecesOf(d) : Offset(f) = f.from
    BY DEF PiecesOf, PathInv, WireInv, OnWireOK
  <2> QED
    BY <2>1, <2>2 DEF Tiles
<1> QED
  BY <1>1, PathInvHolds, TileInvHolds, PTL

-----------------------------------------------------------------------------
\* No payload's total length passes 16 bits.
TotalsFit == \A l \in Length : HeaderLen + l < LengthRange

\* A fragment on the wire has bytes, and MF clear when it ends its datagram.
LEMMA PieceOK ==
  ASSUME PathInv, TileInv, NEW f \in wire
  PROVE  /\ OnWireOK(f) /\ f.body.len \in Nat \ {0} /\ f.body.len \in Length
         /\ Offset(f) < End(f)
         /\ f.mf <=> End(f) < f.body.len
<1>1. OnWireOK(f) /\ f.body \in sent /\ f.body.len \in Length /\ f \in PiecesOf(f.body)
  BY DEF PathInv, WireInv, OnWireOK, SentInv, PiecesOf
<1>2. \E n : Tiles(PiecesOf(f.body), f.body.len, n)
  BY <1>1 DEF TileInv, Finished
<1> QED
  BY <1>1, <1>2, PathAssumption DEF Tiles, PathAssumption

\* Two fragments of a datagram that start at one offset are one fragment.
LEMMA OneAtOffset ==
  ASSUME PathInv, TileInv, NEW f \in wire, NEW g \in wire, f.body = g.body, f.off = g.off
  PROVE  f = g
<1>1. /\ OnWireOK(f) /\ IsFragment(f) /\ Offset(f) < End(f)
      /\ OnWireOK(g) /\ IsFragment(g) /\ Offset(g) < End(g)
      /\ f \in PiecesOf(f.body) /\ g \in PiecesOf(f.body)
  BY PieceOK DEF OnWireOK, PiecesOf
<1>2. PICK n : Tiles(PiecesOf(f.body), f.body.len, n) /\ n \in Nat
  <2>1. CASE Finished(f.body)
    BY <2>1, PieceOK DEF TileInv, Finished
  <2>2. CASE ~Finished(f.body)
    <3>1. PICK c \in building : c.dgram = f.body
      BY <1>1, <2>2 DEF Finished, OnWireOK
    <3>2. c.at \in Nat
      BY DEF PathInv, BuildingInv
    <3> QED
      BY <3>1, <3>2 DEF TileInv
  <2> QED
    BY <2>1, <2>2
<1>3. Offset(f) \in 0 .. n-1
  BY <1>1, <1>2 DEF Tiles, IsFragment, Offset, End
<1>4. PICK h : Covering(PiecesOf(f.body), Offset(f)) = {h}
  BY <1>2, <1>3 DEF Tiles
<1>5. Offset(g) = Offset(f) /\ Offset(f) \in Nat
  BY <1>1 DEF Offset, IsFragment
<1>6. f \in {h} /\ g \in {h}
  BY <1>1, <1>4, <1>5 DEF Covering
<1> QED
  BY <1>6

\* A buffer with every byte of a datagram is one that try_assemble finds complete.
LEMMA AllBytesComplete ==
  ASSUME PathInv, TileInv, NEW k, NEW b, BufferOK(k, b), b.frags \subseteq wire, NEW d,
         \A g \in b.frags : g.body = d,
         \A i \in 0 .. d.len - 1 : \E g \in b.frags : i \in g.from .. g.from + g.len - 1
  PROVE  Complete(b)
<1>1. \A g \in b.frags : /\ OnWireOK(g) /\ IsFragment(g) /\ Offset(g) = g.from /\ End(g) <= d.len
                         /\ End(g) \in Nat /\ Offset(g) \in Nat
                         /\ (g.mf <=> End(g) < d.len) /\ (~g.mf => End(g) = d.len)
  <2> SUFFICES ASSUME NEW g \in b.frags
               PROVE  /\ OnWireOK(g) /\ IsFragment(g) /\ Offset(g) = g.from /\ End(g) <= d.len
                      /\ End(g) \in Nat /\ Offset(g) \in Nat
                      /\ (g.mf <=> End(g) < d.len) /\ (~g.mf => End(g) = d.len)
    OBVIOUS
  <2>1. g \in wire /\ g.body = d
    OBVIOUS
  <2>2. OnWireOK(g) /\ (g.mf <=> End(g) < d.len)
    BY <2>1, PieceOK
  <2>3. IsFragment(g)
    BY <2>2 DEF OnWireOK
  <2>4. End(g) \in Nat /\ Offset(g) \in Nat
    BY <2>3 DEF IsFragment, End, Offset
  <2> QED
    BY <2>1, <2>2, <2>3, <2>4 DEF OnWireOK
<1>2. d.len \in Nat \ {0}
  <2>1. PICK g \in b.frags : TRUE
    BY DEF BufferOK
  <2> QED
    BY <2>1, PieceOK
<1>3. \A i \in 0 .. d.len - 1 : Covering(b.frags, i) # {}
  <2> TAKE i \in 0 .. d.len - 1
  <2>1. PICK g \in b.frags : i \in g.from .. g.from + g.len - 1
    OBVIOUS
  <2>2. Offset(g) <= i /\ i < End(g)
    BY <1>1, <2>1 DEF End, IsFragment
  <2> QED
    BY <2>2 DEF Covering
<1>4. d.len - 1 \in 0 .. d.len - 1
  BY <1>2
<1>5. PICK h \in b.frags : d.len - 1 < End(h)
  BY <1>3, <1>4 DEF Covering
<1>6. ~h.mf /\ End(h) = d.len
  BY <1>1, <1>2, <1>5
<1>7. b.total = {d.len}
  BY <1>1, <1>6 DEF BufferOK
<1>8. EndsAt(b.frags, d.len)
  BY <1>1, <1>6 DEF EndsAt
<1>9. NoGap(b.frags)
  BY <1>1, <1>2, <1>3, CoversNoGap
<1> QED
  BY <1>7, <1>8, <1>9 DEF Complete

LEMMA CompletingStep ==
  ASSUME PathInv, TileInv, TotalsFit, NEW f \in wire, Receive(f), Completes(f)
  PROVE  out' # {}
<1>1. OnWireOK(f) /\ IsFragment(f)
  BY DEF PathInv, WireInv, OnWireOK
<1>2. \A g \in Held(f) : g \in wire /\ g.key = f.key /\ g.body = f.body
  <2>1. \A g \in Held(f) : g \in wire /\ g.key = f.key
    BY DEF Held, LiveKeys, PathInv, WireInv, ReassemblerInv, ReassemblerTypeOK, BufferOK
  <2> QED
    BY <2>1, OneDatagram
<1>3. CASE DropDuplicate(f)
  <2>1. /\ f.key \in LiveKeys /\ f.key \in DOMAIN buffers
        /\ \E g \in buffers[f.key].frags : g.off = f.off
    BY <1>3 DEF DropDuplicate, IsDuplicate, LiveKeys
  <2>2. Held(f) = buffers[f.key].frags
    BY <2>1 DEF Held
  <2>3. f \in Held(f)
    BY <1>2, <2>1, <2>2, OneAtOffset
  <2>4. \A i \in 0 .. f.body.len - 1 : \E g \in Held(f) : i \in g.from .. g.from + g.len - 1
    BY <2>3 DEF Completes
  <2>5. BufferOK(f.key, buffers[f.key]) /\ ~Complete(buffers[f.key])
    BY <2>1 DEF PathInv, ReassemblerInv, ReassemblerTypeOK
  <2> QED
    BY <1>2, <2>2, <2>4, <2>5, AllBytesComplete
<1>4. CASE Store(f) \/ Panic(f)
  <2>1. /\ BufferOK(f.key, Buffered(f))
        /\ Buffered(f).frags = Held(f) \cup {f}
    BY <1>1, <1>4, BufferedOK DEF Store, Panic, PathInv, Buffered, Held
  <2>2. Complete(Buffered(f))
    BY <1>2, <2>1, AllBytesComplete DEF Completes
  <2>3. ASSUME NEW n \in Buffered(f).total PROVE ~LengthOverflows(n)
    <3>1. PICK g \in Buffered(f).frags : ~g.mf /\ n = End(g)
      BY <2>1 DEF BufferOK
    <3>2. n = f.body.len /\ n \in Nat /\ n \in Length
      BY <1>2, <2>1, <3>1, PieceOK DEF OnWireOK
    <3>3. HeaderLen + n < LengthRange /\ HeaderLen \in Nat /\ LengthRange \in Nat
      BY <3>2, ReassemblerAssumption DEF TotalsFit, ReassemblerAssumption, LengthRange
    <3>4. n < LengthRange
      BY <3>2, <3>3
    <3>5. n % LengthRange = n
      BY <3>2, <3>3, <3>4, ModSmall
    <3> QED
      BY <3>2, <3>3, <3>5 DEF LengthOverflows
  <2> QED
    BY <1>4, <2>2, <2>3 DEF Store, Panic
<1> QED
  BY <1>3, <1>4 DEF Receive, PassWhole, Assemble

\* The fragment that brings the last byte of a datagram, in whatever order its
\* fragments come, makes push_fragment return it: no duplicate is mistaken for it,
\* and nothing panics while total lengths fit 16 bits.
THEOREM CompletedIsReturned ==
  ASSUME TotalsFit, IdentsLast
  PROVE  Spec => ReturnsWhenComplete
<1>1. LengthsFit
  BY PathAssumption, ReassemblerAssumption
     DEF TotalsFit, LengthsFit, PathAssumption, ReassemblerAssumption, LengthRange
<1>2. PathInv /\ TileInv /\ [Next]_vars
        => [\A f \in wire : Receive(f) /\ Completes(f) => out' # {}]_vars
  BY CompletingStep
<1> QED
  BY <1>1, <1>2, PathInvHolds, TileInvHolds, PTL DEF Spec, ReturnsWhenComplete

-----------------------------------------------------------------------------
\* A frame that can be in the queue: one from the network, or a foreign one.
Captured == wire \cup {Foreign}

\* Queue and worker hold nothing but frames that were on the wire.
CapturedInv ==
  /\ data \in Seq(Captured)
  /\ hand = <<>> \/ \E f \in Captured : hand = <<f>>

LEMMA SeqGrows ==
  ASSUME NEW S, NEW T, S \subseteq T, NEW s \in Seq(S)
  PROVE  s \in Seq(T)
OBVIOUS

LEMMA InitCaptured == RecvInit => CapturedInv
BY DEF RecvInit, CapturedInv, Queue!Init

LEMMA NextCaptured == CapturedInv /\ [RecvNext]_recvVars => CapturedInv'
<1> SUFFICES ASSUME CapturedInv, [RecvNext]_recvVars PROVE CapturedInv'
  OBVIOUS
<1>0. data \in Seq(Captured) /\ (hand = <<>> \/ \E f \in Captured : hand = <<f>>)
  BY DEF CapturedInv
<1>1. CASE Outside
  <2>1. wire \subseteq wire' /\ data' = data /\ hand' = hand
    BY <1>1 DEF Outside, Begin, Cut, Tick, senderVars, queueVars
  <2>2. Captured \subseteq Captured'
    BY <2>1 DEF Captured
  <2> QED
    BY <1>0, <2>1, <2>2, SeqGrows DEF CapturedInv
<1>2. ASSUME NEW f \in wire \cup {Foreign}, Enqueue(f) PROVE CapturedInv'
  <2>1. data' = Append(data, f) /\ hand' = hand /\ wire' = wire
    BY <1>2 DEF Enqueue, Queue!Push, vars
  <2> QED
    BY <1>0, <2>1 DEF CapturedInv, Captured
<1>3. CASE Fetch
  <2>1. data # <<>> /\ data' = Tail(data) /\ hand' = <<Head(data)>> /\ wire' = wire
    BY <1>3 DEF Fetch, Queue!PopFrame, vars
  <2>2. Head(data) \in Captured /\ Tail(data) \in Seq(Captured)
    BY <1>0, <2>1, HeadTailProperties
  <2> QED
    BY <2>1, <2>2 DEF CapturedInv, Captured
<1>4. CASE Process
  <2>1. data' = data /\ hand' = <<>> /\ wire' = wire
    BY <1>4 DEF Process, Queue!Fail, queueVars, senderVars
  <2> QED
    BY <1>0, <2>1 DEF CapturedInv, Captured
<1>5. CASE UNCHANGED <<data, hand, wire>>
  BY <1>0, <1>5 DEF CapturedInv, Captured
<1>6. CASE CaptureFails \/ Finish \/ FindNone \/ Spurious \/ UNCHANGED recvVars
  <2>1. UNCHANGED <<data, hand, wire>>
    BY <1>6 DEF CaptureFails, Finish, CloseQueue, Join, FindNone, Spurious, recvVars, queueVars, vars,
                Queue!Close, Queue!PopNone, Queue!PopWait, Queue!SpuriousWakeup
  <2> QED
    BY <1>5, <2>1
<1> QED
  BY <1>1, <1>2, <1>3, <1>4, <1>6 DEF RecvNext, Work

\* Every step of the pipeline is one of the path, or changes nothing there.
LEMMA StepIsPathStep == CapturedInv /\ [RecvNext]_recvVars => [Next]_vars
<1> SUFFICES ASSUME CapturedInv, [RecvNext]_recvVars PROVE Next \/ UNCHANGED vars
  OBVIOUS
<1>1. CASE Outside
  BY <1>1 DEF Outside, Next
<1>2. CASE Process
  <2>1. PICK f \in Captured : hand = <<f>>
    BY <1>2 DEF Process, CapturedInv
  <2>2. Head(hand) = f
    BY <2>1
  <2>3. UNCHANGED senderVars
    BY <1>2 DEF Process
  <2>4. CASE f = Foreign
    BY <1>2, <2>2, <2>3, <2>4 DEF Process, Next
  <2>5. CASE f # Foreign
    <3>1. f \in wire /\ Receive(f)
      BY <1>2, <2>2, <2>5 DEF Process, Captured
    <3> QED
      BY <2>3, <3>1 DEF Next
  <2> QED
    BY <2>4, <2>5
<1>3. CASE UNCHANGED vars
  BY <1>3
<1>4. CASE (\E f \in wire \cup {Foreign} : Enqueue(f)) \/ CaptureFails \/ Finish \/ Fetch \/ FindNone
             \/ Spurious \/ UNCHANGED recvVars
  <2>1. UNCHANGED vars
    BY <1>4 DEF Enqueue, CaptureFails, Finish, CloseQueue, Join, Fetch, FindNone, Spurious, recvVars
  <2> QED
    BY <2>1
<1> QED
  BY <1>1, <1>2, <1>4 DEF RecvNext, Work

\* recv_loop, the queue, and delivery_worker together hand up nothing that the
\* reassembler alone, on the same network, would not.
THEOREM PipelineIsPath == RecvSpec => ImplementsPath
<1>1. RecvInit => Init
  BY DEF RecvInit
<1> QED
  BY <1>1, InitCaptured, NextCaptured, StepIsPathStep, PTL DEF RecvSpec, ImplementsPath, Spec

\* So a packet handed up on a host with these threads is the whole payload of one
\* datagram that was sent.
THEOREM ReceivedIntact ==
  ASSUME LengthsFit, IdentsLast
  PROVE  RecvSpec => []Integrity
BY PipelineIsPath, PayloadsArriveIntact, PTL DEF ImplementsPath

-----------------------------------------------------------------------------
\* Frames leave the queue in their order; the worker ends only with an empty
\* hand and queue, and it is dead exactly when the reassembler has panicked.
OrderInv ==
  /\ accepted \in Seq(Captured) /\ delivered \in Seq(Captured)
  /\ accepted = delivered \o data

WorkerInv ==
  /\ pc \in [{Worker} -> Queue!PopState]
  /\ pc[Worker] = "done" => closed /\ data = <<>> /\ hand = <<>>
  /\ hand # <<>> => pc[Worker] = "running"
  /\ ~alive <=> pc[Worker] = "failed"
  /\ loop = "captureErr" => pc[Worker] = "done"
  /\ loop = "workerErr" => pc[Worker] = "failed"

LEMMA AppendToEnd ==
  ASSUME NEW S, NEW s \in Seq(S), NEW t \in Seq(S), NEW e \in S
  PROVE  Append(s \o t, e) = s \o Append(t, e)
<1>1. s \o t \in Seq(S) /\ <<e>> \in Seq(S)
  OBVIOUS
<1>2. Append(s \o t, e) = (s \o t) \o <<e>> /\ Append(t, e) = t \o <<e>>
  BY <1>1, AppendIsConcat
<1> QED
  BY <1>1, <1>2, ConcatAssociative

LEMMA HeadToEnd ==
  ASSUME NEW S, NEW s \in Seq(S), NEW t \in Seq(S), t # <<>>
  PROVE  Append(s, Head(t)) \o Tail(t) = s \o t
<1>1. t = <<Head(t)>> \o Tail(t) /\ Head(t) \in S /\ Tail(t) \in Seq(S)
  BY HeadTailProperties
<1>2. Append(s, Head(t)) = s \o <<Head(t)>> /\ <<Head(t)>> \in Seq(S)
  BY <1>1, AppendIsConcat
<1> QED
  BY <1>1, <1>2, ConcatAssociative

LEMMA NextOrder ==
  CapturedInv /\ OrderInv /\ [RecvNext]_recvVars => OrderInv'
<1> SUFFICES ASSUME CapturedInv, OrderInv, [RecvNext]_recvVars PROVE OrderInv'
  OBVIOUS
<1>0. /\ data \in Seq(Captured) /\ accepted \in Seq(Captured) /\ delivered \in Seq(Captured)
      /\ accepted = delivered \o data
  BY DEF CapturedInv, OrderInv
<1>1. CASE Outside
  <2>1. wire \subseteq wire' /\ UNCHANGED <<data, accepted, delivered>>
    BY <1>1 DEF Outside, Begin, Cut, Tick, senderVars, queueVars
  <2>2. Captured \subseteq Captured'
    BY <2>1 DEF Captured
  <2> QED
    BY <1>0, <2>1, <2>2, SeqGrows DEF OrderInv
<1>2. ASSUME NEW f \in wire \cup {Foreign}, Enqueue(f) PROVE OrderInv'
  <2>1. /\ data' = Append(data, f) /\ accepted' = Append(accepted, f) /\ delivered' = delivered
        /\ wire' = wire
    BY <1>2 DEF Enqueue, Queue!Push, vars
  <2>0. f \in Captured /\ Captured' = Captured
    BY <2>1 DEF Captured
  <2>2. accepted' = delivered' \o data'
    <3>1. Append(delivered \o data, f) = delivered \o Append(data, f)
      BY ONLY <1>0, <2>0, AppendToEnd
    <3> QED
      BY <1>0, <2>1, <3>1
  <2>3. accepted' \in Seq(Captured) /\ delivered' \in Seq(Captured)
    BY <1>0, <2>0, <2>1
  <2> QED
    BY <2>0, <2>2, <2>3 DEF OrderInv
<1>3. CASE Fetch
  <2>1. /\ data # <<>> /\ Captured' = Captured /\ data' = Tail(data)
        /\ delivered' = Append(delivered, Head(data)) /\ accepted' = accepted
    BY <1>3 DEF Fetch, Queue!PopFrame, vars, Captured
  <2>2. Head(data) \in Captured
    BY <1>0, <2>1, HeadTailProperties
  <2>3. accepted' = delivered' \o data'
    BY <1>0, <2>1, HeadToEnd
  <2>4. delivered' \in Seq(Captured)
    BY <1>0, <2>1, <2>2
  <2> QED
    BY <1>0, <2>1, <2>3, <2>4 DEF OrderInv
<1>4. CASE Process \/ CaptureFails \/ Finish \/ FindNone \/ Spurious \/ UNCHANGED recvVars
  <2>1. UNCHANGED <<data, accepted, delivered, wire>>
    BY <1>4 DEF Process, CaptureFails, Finish, CloseQueue, Join, FindNone, Spurious, recvVars, queueVars,
                vars, senderVars, Queue!Fail, Queue!Close, Queue!PopNone, Queue!PopWait,
                Queue!SpuriousWakeup
  <2> QED
    BY <1>0, <2>1 DEF OrderInv, Captured
<1> QED
  BY <1>1, <1>2, <1>3, <1>4 DEF RecvNext, Work

LEMMA InitWorker == RecvInit => OrderInv /\ WorkerInv
<1> SUFFICES ASSUME RecvInit PROVE OrderInv /\ WorkerInv
  OBVIOUS
<1>1. OrderInv
  BY DEF RecvInit, Queue!Init, OrderInv
<1>2. WorkerInv
  BY DEF RecvInit, Queue!Init, Init, ReassemblerInit, WorkerInv, Queue!PopState
<1> QED
  BY <1>1, <1>2

LEMMA NextWorker ==
  WorkerInv /\ [RecvNext]_recvVars => WorkerInv'
<1> SUFFICES ASSUME WorkerInv, [RecvNext]_recvVars PROVE WorkerInv'
  OBVIOUS
<1> USE DEF WorkerInv, Queue!PopState
<1>1. CASE Outside
  <2>1. UNCHANGED <<loop, hand, data, closed, pc, alive>>
    BY <1>1 DEF Outside, Begin, Cut, Tick, queueVars
  <2> QED
    BY <2>1
<1>2. ASSUME NEW f \in wire \cup {Foreign}, Enqueue(f) PROVE WorkerInv'
  <2>1. /\ loop = "capturing" /\ loop' = loop /\ hand' = hand /\ alive' = alive
        /\ ~closed /\ closed' = closed
    BY <1>2 DEF Enqueue, Queue!Push, Queue!CanPush, vars
  <2>2. \/ pc' = pc
        \/ pc[Worker] = "waiting" /\ pc' = [pc EXCEPT ![Worker] = "woken"]
    BY <1>2 DEF Enqueue, Queue!Push, Queue!NotifyOne, Queue!Waiting, Queue!In
  <2> QED
    BY <2>1, <2>2
<1>3. CASE CaptureFails
  BY <1>3 DEF CaptureFails, vars, queueVars
<1>4. CASE CloseQueue
  <2>1. /\ loop' = "joining" /\ closed' = TRUE /\ UNCHANGED <<hand, data, alive>>
        /\ pc' = [c \in {Worker} |-> IF pc[c] = "waiting" THEN "woken" ELSE pc[c]]
    BY <1>4 DEF CloseQueue, Queue!Close, Queue!NotifyAll, vars
  <2> QED
    BY <2>1
<1>5. CASE Join
  BY <1>5 DEF Join, vars, queueVars
<1>6. CASE Fetch
  <2>1. /\ pc[Worker] \in {"running", "woken"} /\ pc' = [pc EXCEPT ![Worker] = "running"]
        /\ UNCHANGED <<loop, closed, alive>>
    BY <1>6 DEF Fetch, Queue!PopFrame, vars
  <2> QED
    BY <2>1
<1>7. CASE FindNone
  <2>1. /\ hand = <<>> /\ pc[Worker] \in {"running", "woken"} /\ data = <<>>
        /\ \/ closed /\ pc' = [pc EXCEPT ![Worker] = "done"]
           \/ pc' = [pc EXCEPT ![Worker] = "waiting"]
        /\ UNCHANGED <<loop, hand, data, closed, alive>>
    BY <1>7 DEF FindNone, Queue!PopNone, Queue!PopWait, vars
  <2> QED
    BY <2>1
<1>8. CASE Process
  <2>1. hand # <<>> /\ hand' = <<>> /\ UNCHANGED <<loop, data, closed>> /\ alive
    BY <1>8 DEF Process, Queue!Fail, queueVars, Discard, Receive
  <2>2. pc[Worker] = "running"
    BY <2>1
  <2>3. CASE alive'
    <3>1. pc' = pc
      BY <1>8, <2>3 DEF Process, queueVars
    <3> QED
      BY <2>1, <2>2, <2>3, <3>1
  <2>4. CASE ~alive'
    <3>1. pc' = [pc EXCEPT ![Worker] = "failed"]
      BY <1>8, <2>4 DEF Process, Queue!Fail
    <3> QED
      BY <2>1, <2>2, <2>4, <3>1
  <2> QED
    BY <2>3, <2>4
<1>9. CASE Spurious
  <2>1. /\ pc[Worker] = "waiting" /\ pc' = [pc EXCEPT ![Worker] = "woken"]
        /\ UNCHANGED <<loop, hand, data, closed, alive>>
    BY <1>9 DEF Spurious, Queue!SpuriousWakeup, vars
  <2> QED
    BY <2>1
<1>10. CASE UNCHANGED recvVars
  BY <1>10 DEF recvVars, vars, queueVars
<1> QED
  BY <1>1, <1>2, <1>3, <1>4, <1>5, <1>6, <1>7, <1>8, <1>9, <1>10 DEF RecvNext, Finish, Work

\* datalink_recv comes back only after its worker, and then every frame the
\* queue took has been processed, or the worker's panic is what it returns.
THEOREM ReturnsLast == RecvSpec => []ReturnsAfterWorker
<1>1. CapturedInv /\ OrderInv /\ WorkerInv => ReturnsAfterWorker
  <2> SUFFICES ASSUME CapturedInv, OrderInv, WorkerInv PROVE ReturnsAfterWorker
    OBVIOUS
  <2>1. CASE loop = "captureErr"
    <3>1. pc[Worker] = "done" /\ data = <<>> /\ hand = <<>> /\ alive
      BY <2>1 DEF WorkerInv
    <3>2. delivered \o <<>> = delivered
      BY ConcatEmptySeq DEF OrderInv
    <3> QED
      BY <2>1, <3>1, <3>2 DEF ReturnsAfterWorker, OrderInv
  <2>2. CASE loop # "captureErr"
    BY <2>2 DEF ReturnsAfterWorker, WorkerInv
  <2> QED
    BY <2>1, <2>2
<1> QED
  BY <1>1, InitCaptured, NextCaptured, InitWorker, NextOrder, NextWorker, PTL DEF RecvSpec

-----------------------------------------------------------------------------
\* What is on the wire was cut from a datagram of the model.
FramesInv ==
  /\ built \in Nat
  /\ counter \in [Host -> 0 .. IdentRange - 1]
  /\ building \subseteq [dgram : Datagram, at : Nat]
  /\ Captured \subseteq Frame

LEMMA OutsideKeepsFrames == FramesInv /\ Outside => FramesInv'
<1> SUFFICES ASSUME FramesInv, Outside PROVE FramesInv'
  OBVIOUS
<1> USE PathAssumption DEF PathAssumption, FramesInv
<1>1. ASSUME NEW h \in Host, NEW l \in Length, Begin(h, l) PROVE FramesInv'
  <2> DEFINE d == [src |-> h, n |-> built, ident |-> counter[h], len |-> l]
  <2>1. d \in Datagram
    BY <1>1 DEF Begin, Datagram
  <2>2. [dgram |-> d, at |-> 0] \in [dgram : Datagram, at : Nat]
    BY <2>1
  <2>3. counter' \in [Host -> 0 .. IdentRange - 1]
    BY <1>1 DEF Begin, NextIdent
  <2>4. Captured' = Captured
    BY <1>1 DEF Begin, Captured
  <2> QED
    BY <1>1, <2>2, <2>3, <2>4 DEF Begin
<1>2. ASSUME NEW c \in building, Cut(c) PROVE FramesInv'
  <2>1. c \in [dgram : Datagram, at : Nat]
    OBVIOUS
  <2>2. CutFragment(c) \in Frame
    BY <2>1 DEF Frame
  <2>3. Captured' \subseteq Frame
    BY <1>2, <2>2 DEF Cut, Captured
  <2>4. ~IsLast(c) => [c EXCEPT !.at = @ + Current(c)] \in [dgram : Datagram, at : Nat]
    <3>1. Stride \in Nat
      BY DEF Stride
    <3> QED
      BY <2>1, <3>1 DEF Current
  <2> QED
    BY <1>2, <2>3, <2>4 DEF Cut
<1>3. CASE Tick /\ UNCHANGED senderVars
  BY <1>3 DEF senderVars, Captured
<1> QED
  BY <1>1, <1>2, <1>3 DEF Outside

LEMMA NextFrames == FramesInv /\ [RecvNext]_recvVars => FramesInv'
<1> SUFFICES ASSUME FramesInv, [RecvNext]_recvVars PROVE FramesInv'
  OBVIOUS
<1>1. CASE UNCHANGED senderVars
  BY <1>1 DEF senderVars, FramesInv, Captured
<1> QED
  BY <1>1, OutsideKeepsFrames
     DEF RecvNext, Enqueue, CaptureFails, Finish, CloseQueue, Join, Work, Fetch, FindNone, Process,
         Spurious, vars, recvVars, senderVars

LEMMA StepOfRecvQueue == FramesInv /\ [RecvNext]_recvVars => [Queue!Next]_queueVars
<1> SUFFICES ASSUME FramesInv, [RecvNext]_recvVars PROVE Queue!Next \/ UNCHANGED queueVars
  OBVIOUS
<1> USE DEF Queue!Next, Queue!Pop
<1>1. CASE Outside
  BY <1>1 DEF Outside
<1>2. ASSUME NEW f \in wire \cup {Foreign}, Enqueue(f) PROVE Queue!Next
  <2>1. f \in Frame
    BY DEF FramesInv, Captured
  <2> QED
    BY <1>2, <2>1 DEF Enqueue
<1>3. CASE CloseQueue
  BY <1>3 DEF CloseQueue
<1>4. CASE Fetch
  BY <1>4 DEF Fetch
<1>5. CASE FindNone
  BY <1>5 DEF FindNone
<1>6. CASE Process
  BY <1>6 DEF Process
<1>7. CASE Spurious
  BY <1>7 DEF Spurious
<1>8. CASE CaptureFails \/ Join \/ UNCHANGED recvVars
  BY <1>8 DEF CaptureFails, Join, recvVars
<1> QED
  BY <1>1, <1>2, <1>3, <1>4, <1>5, <1>6, <1>7, <1>8 DEF RecvNext, Finish, Work

\* recv_loop and delivery_worker do with the RecvQueue only what ClosableQueue
\* specifies, so what is proved of the queue holds of this one.
THEOREM RecvQueueUsed == RecvSpec => Queue!Init /\ [][Queue!Next]_queueVars
<1>1. RecvInit => Queue!Init /\ FramesInv
  BY PathAssumption DEF PathAssumption, RecvInit, Init, FramesInv, Captured, Frame
<1> QED
  BY <1>1, NextFrames, StepOfRecvQueue, PTL DEF RecvSpec

-----------------------------------------------------------------------------
\* The frames the worker is done with: those it popped but for the one in its hand.
Processed == {delivered[i] : i \in 1 .. Len(delivered) - Len(hand)}

\* What the worker holds is what it popped last; it sleeps only when it has
\* nothing to do.
RestInv ==
  /\ hand # <<>> => Len(delivered) > 0 /\ hand = <<delivered[Len(delivered)]>>
  /\ pc[Worker] = "waiting" => data = <<>> /\ hand = <<>>

\* A fragment once processed is in its buffer until its datagram is handed up or
\* the buffer expires.
KeptInv ==
  alive => \A f \in Processed \ {Foreign} :
             \/ PayloadOf(f.body) \in up
             \/ f.key \in timedOut
             \/ f.key \in DOMAIN buffers /\ f \in buffers[f.key].frags

\* No frame from the network is taken for a foreign one.
ForeignApart == \A c \in [dgram : Datagram, at : Nat] : CutFragment(c) # Foreign

\* A worker that sleeps or has ended has left no datagram behind of which the
\* queue took every fragment.
NothingLeftBehind ==
  pc[Worker] \in {"waiting", "done"} =>
    \A n \in 0 .. MaxDatagrams - 1 : ArrivedWhole(n) => Settled(n)

LEMMA InitKept == RecvInit => RestInv /\ KeptInv
<1> SUFFICES ASSUME RecvInit PROVE RestInv /\ KeptInv
  OBVIOUS
<1>1. delivered = <<>> /\ hand = <<>> /\ data = <<>>
  BY DEF RecvInit, Queue!Init
<1>2. Len(delivered) - Len(hand) = 0
  BY <1>1
<1>3. Processed = {}
  BY <1>2 DEF Processed
<1> QED
  BY <1>1, <1>3 DEF RestInv, KeptInv

LEMMA NextRest ==
  CapturedInv /\ OrderInv /\ WorkerInv /\ RestInv /\ [RecvNext]_recvVars => RestInv'
<1> SUFFICES ASSUME CapturedInv, OrderInv, WorkerInv, RestInv, [RecvNext]_recvVars PROVE RestInv'
  OBVIOUS
<1>t. /\ pc \in [{Worker} -> Queue!PopState] /\ delivered \in Seq(Captured) /\ data \in Seq(Captured)
  BY DEF WorkerInv, OrderInv, CapturedInv
<1>1. ASSUME NEW f \in wire \cup {Foreign}, Enqueue(f) PROVE RestInv'
  <2>1. hand' = hand /\ delivered' = delivered
    BY <1>1 DEF Enqueue, Queue!Push
  <2>2. pc'[Worker] # "waiting"
    <3>1. \/ pc' = pc /\ pc[Worker] # "waiting"
          \/ pc' = [pc EXCEPT ![Worker] = "woken"]
      BY <1>1 DEF Enqueue, Queue!Push, Queue!NotifyOne, Queue!Waiting, Queue!In
    <3> QED
      BY <1>t, <3>1
  <2> QED
    BY <2>1, <2>2 DEF RestInv
<1>2. CASE CloseQueue
  <2>1. pc'[Worker] # "waiting" /\ hand' = hand /\ delivered' = delivered
    BY <1>2 DEF CloseQueue, Queue!Close, Queue!NotifyAll
  <2> QED
    BY <2>1 DEF RestInv
<1>3. CASE Fetch
  <2>1. /\ hand' = <<Head(data)>> /\ delivered' = Append(delivered, Head(data)) /\ data # <<>>
        /\ pc' = [pc EXCEPT ![Worker] = "running"]
    BY <1>3 DEF Fetch, Queue!PopFrame
  <2>2. Len(delivered') > 0 /\ delivered'[Len(delivered')] = Head(data)
    BY <1>t, <2>1
  <2>3. pc'[Worker] # "waiting"
    BY <1>t, <2>1
  <2> QED
    BY <2>1, <2>2, <2>3 DEF RestInv
<1>4. CASE FindNone
  <2>1. hand = <<>> /\ data = <<>> /\ UNCHANGED <<hand, data>>
    BY <1>4 DEF FindNone, Queue!PopNone, Queue!PopWait
  <2> QED
    BY <2>1 DEF RestInv
<1>5. CASE Process
  <2>1. hand' = <<>> /\ pc[Worker] = "running"
    BY <1>5 DEF Process, WorkerInv
  <2>2. pc' = pc \/ pc' = [pc EXCEPT ![Worker] = "failed"]
    BY <1>5 DEF Process, Queue!Fail, queueVars
  <2>3. pc'[Worker] # "waiting"
    BY <1>t, <2>1, <2>2
  <2> QED
    BY <2>1, <2>3 DEF RestInv
<1>6. CASE Spurious
  <2>1. pc' = [pc EXCEPT ![Worker] = "woken"] /\ hand' = hand /\ delivered' = delivered
    BY <1>6 DEF Spurious, Queue!SpuriousWakeup
  <2>2. pc'[Worker] # "waiting"
    BY <1>t, <2>1
  <2> QED
    BY <2>1, <2>2 DEF RestInv
<1>7. CASE Outside \/ CaptureFails \/ Join \/ UNCHANGED recvVars
  BY <1>7 DEF Outside, CaptureFails, Join, recvVars, queueVars, RestInv
<1> QED
  BY <1>1, <1>2, <1>3, <1>4, <1>5, <1>6, <1>7 DEF RecvNext, Finish, Work

\* Only Process makes a frame a processed one.
LEMMA ProcessedGrows ==
  ASSUME CapturedInv, OrderInv, RestInv, [RecvNext]_recvVars, ~Process
  PROVE  Processed' = Processed
<1>1. CASE Fetch
  <2>1. /\ hand = <<>> /\ hand' = <<Head(data)>> /\ delivered' = Append(delivered, Head(data))
    BY <1>1 DEF Fetch, Queue!PopFrame
  <2>2. Len(delivered') - Len(hand') = Len(delivered) /\ Len(hand) = 0 /\ Len(delivered) \in Nat
    BY <2>1 DEF OrderInv
  <2>3. \A i \in 1 .. Len(delivered) : delivered'[i] = delivered[i]
    BY <2>1 DEF OrderInv
  <2> QED
    BY <2>2, <2>3 DEF Processed
<1>2. CASE UNCHANGED <<delivered, hand>>
  BY <1>2 DEF Processed
<1> QED
  BY <1>1, <1>2 DEF RecvNext, Finish, Work, Outside, Enqueue, CaptureFails, CloseQueue, Join, FindNone,
       Spurious, recvVars, queueVars, Queue!Push, Queue!Close, Queue!PopNone, Queue!PopWait,
       Queue!SpuriousWakeup

LEMMA ProcessAddsHand ==
  ASSUME CapturedInv, OrderInv, RestInv, Process
  PROVE  /\ Processed' = Processed \cup {Head(hand)}
         /\ Processed \subseteq Captured /\ Head(hand) \in Captured
<1>1. PICK f \in Captured : hand = <<f>>
  BY DEF Process, CapturedInv
<1>2. /\ delivered \in Seq(Captured) /\ Len(delivered) \in Nat /\ Len(delivered) > 0
      /\ f = delivered[Len(delivered)] /\ Head(hand) = f
  BY <1>1 DEF OrderInv, RestInv
<1>3. hand' = <<>> /\ delivered' = delivered
  BY DEF Process, Queue!Fail, queueVars
<1> DEFINE n == Len(delivered)
<1>4. Len(hand) = 1 /\ Len(hand') = 0
  BY <1>1, <1>3
<1>5. Processed = {delivered[i] : i \in 1 .. n - 1}
  BY <1>4 DEF Processed
<1>6. Processed' = {delivered[i] : i \in 1 .. n}
  BY <1>2, <1>3, <1>4 DEF Processed
<1>7. \A i \in 1 .. n : i = n \/ i \in 1 .. n - 1
  BY <1>2
<1>8. n \in 1 .. n /\ 1 .. n - 1 \subseteq 1 .. n
  BY <1>2
<1>9. \A i \in 1 .. n : delivered[i] \in Captured
  BY <1>2
<1> QED
  BY <1>1, <1>2, <1>5, <1>6, <1>7, <1>8, <1>9

\* What a fragment that is received leaves of the buffers.
LEMMA ReceivedIsKept ==
  ASSUME PathInv, TileInv, NEW f \in wire, Receive(f), alive', NEW g \in wire,
         g = f \/ (g.key \in LiveKeys /\ g \in buffers[g.key].frags)
  PROVE  \/ \E p \in out' : p.payload = PayloadOf(g.body)
         \/ g.key \in DOMAIN buffers' /\ g \in buffers'[g.key].frags
<1>1. CASE PassWhole(f) \/ Assemble(f)
  <2>1. PICK p : out' = {p} /\ p.payload = PayloadOf(f.body)
    BY <1>1, HandedUpIsPayload
  <2>2. CASE g.key = f.key
    <3>1. g.body = f.body
      BY <2>2, OneDatagram
    <3> QED
      BY <2>1, <3>1
  <2>3. CASE g.key # f.key
    <3>1. g.key \in LiveKeys /\ g \in buffers[g.key].frags
      BY <2>3
    <3>2. g.key \in DOMAIN buffers' /\ buffers'[g.key] = buffers[g.key]
      BY <1>1, <2>3, <3>1 DEF PassWhole, Assemble, Live
    <3> QED
      BY <3>1, <3>2
  <2> QED
    BY <2>2, <2>3
<1>2. CASE DropDuplicate(f)
  <2>1. f.key \in LiveKeys /\ \E h \in buffers[f.key].frags : h.off = f.off
    BY <1>2 DEF DropDuplicate, IsDuplicate
  <2>2. g.key \in LiveKeys /\ g \in buffers[g.key].frags
    <3>1. CASE g = f
      <4>1. PICK h \in buffers[f.key].frags : h.off = f.off
        BY <2>1
      <4>2. h \in wire /\ h.key = f.key
        BY <2>1 DEF LiveKeys, PathInv, WireInv, ReassemblerInv, ReassemblerTypeOK, BufferOK
      <4>3. h = f
        BY <4>1, <4>2, OneDatagram, OneAtOffset
      <4> QED
        BY <2>1, <3>1, <4>3
    <3> QED
      BY <3>1
  <2>3. DOMAIN buffers' = LiveKeys
    BY <1>2 DEF DropDuplicate
  <2>4. buffers'[g.key].frags = buffers[g.key].frags
    <3>1. CASE g.key = f.key /\ f.off = 0
      <4>1. buffers'[g.key] = [buffers[g.key] EXCEPT !.header = f]
        BY <1>2, <2>2, <3>1 DEF DropDuplicate
      <4> QED
        BY <4>1
    <3>2. CASE ~(g.key = f.key /\ f.off = 0)
      BY <1>2, <2>2, <3>2 DEF DropDuplicate
    <3> QED
      BY <3>1, <3>2
  <2> QED
    BY <2>2, <2>3, <2>4
<1>3. CASE Store(f)
  <2>1. /\ DOMAIN buffers' = LiveKeys \cup {f.key}
        /\ buffers'[f.key] = Buffered(f)
        /\ \A k \in LiveKeys : k # f.key => buffers'[k] = buffers[k]
    BY <1>3 DEF Store
  <2>2. CASE g.key = f.key
    <3>1. Buffered(f).frags = Held(f) \cup {f}
      BY DEF Buffered, Held
    <3>2. g \in Held(f) \cup {f}
      BY <2>2 DEF Held
    <3> QED
      BY <2>1, <2>2, <3>1, <3>2
  <2>3. CASE g.key # f.key
    BY <2>1, <2>3
  <2> QED
    BY <2>2, <2>3
<1>4. CASE Panic(f)
  BY <1>4 DEF Panic
<1> QED
  BY <1>1, <1>2, <1>3, <1>4 DEF Receive

LEMMA NextKept ==
  ASSUME PathInv, TileInv, CapturedInv, OrderInv, RestInv, KeptInv, [RecvNext]_recvVars
  PROVE  KeptInv'
<1>1. CASE ~Process
  <2>1. Processed' = Processed
    BY <1>1, ProcessedGrows
  <2>2. up' = up /\ timedOut' = timedOut /\ buffers' = buffers /\ alive' = alive
    BY <1>1 DEF RecvNext, Finish, Work, Outside, Begin, Cut, Tick, Enqueue, CaptureFails, CloseQueue,
         Join, Fetch, FindNone, Spurious, recvVars, vars
  <2> QED
    BY <2>1, <2>2 DEF KeptInv
<1>2. CASE Process
  <2> SUFFICES ASSUME alive', NEW g \in Processed' \ {Foreign},
                      PayloadOf(g.body) \notin up', g.key \notin timedOut'
               PROVE  g.key \in DOMAIN buffers' /\ g \in buffers'[g.key].frags
    BY DEF KeptInv
  <2>1. /\ alive /\ timedOut' = timedOut \cup (DOMAIN buffers \ LiveKeys)
        /\ up' = up \cup {p.payload : p \in out'}
        /\ IF Head(hand) = Foreign THEN Discard ELSE Receive(Head(hand))
    BY <1>2 DEF Process, Discard, Receive
  <2>2. Processed' = Processed \cup {Head(hand)} /\ Processed \subseteq Captured /\ Head(hand) \in Captured
    BY <1>2, ProcessAddsHand
  <2>3. g \in wire
    BY <2>2 DEF Captured
  <2>4. g = Head(hand) \/ (g.key \in LiveKeys /\ g \in buffers[g.key].frags)
    <3>1. CASE g \in Processed
      <4>1. g.key \in DOMAIN buffers /\ g \in buffers[g.key].frags
        BY <2>1, <3>1 DEF KeptInv
      <4> QED
        BY <2>1, <4>1
    <3> QED
      BY <2>2, <3>1
  <2>5. CASE Head(hand) = Foreign
    <3>1. buffers' = Live /\ g.key \in LiveKeys /\ g \in buffers[g.key].frags
      BY <2>1, <2>4, <2>5 DEF Discard
    <3> QED
      BY <3>1 DEF Live
  <2>6. CASE Head(hand) # Foreign
    <3>1. Head(hand) \in wire /\ Receive(Head(hand))
      BY <2>1, <2>2, <2>6 DEF Captured
    <3>2. \/ \E p \in out' : p.payload = PayloadOf(g.body)
          \/ g.key \in DOMAIN buffers' /\ g \in buffers'[g.key].frags
      BY <2>3, <2>4, <3>1, ReceivedIsKept
    <3> QED
      BY <2>1, <3>2
  <2> QED
    BY <2>5, <2>6
<1> QED
  BY <1>1, <1>2

\* No frame on the wire is the foreign one.
ApartInv == Foreign \notin wire

LEMMA NextApart ==
  ASSUME ForeignApart, FramesInv, ApartInv, [RecvNext]_recvVars
  PROVE  ApartInv'
<1>1. ASSUME NEW c \in building, Cut(c) PROVE ApartInv'
  <2>1. CutFragment(c) # Foreign
    BY DEF FramesInv, ForeignApart
  <2> QED
    BY <1>1, <2>1 DEF Cut, ApartInv
<1>2. CASE wire' = wire
  BY <1>2 DEF ApartInv
<1> QED
  BY <1>1, <1>2 DEF RecvNext, Outside, Begin, Enqueue, CaptureFails, Finish, CloseQueue, Join, Work,
       Fetch, FindNone, Process, Spurious, vars, recvVars, senderVars

\* A worker at rest has processed every frame the queue took.
LEMMA RestedProcessedAll ==
  ASSUME OrderInv, WorkerInv, RestInv, pc[Worker] \in {"waiting", "done"}, NEW i \in DOMAIN accepted
  PROVE  accepted[i] \in Processed
<1>1. data = <<>> /\ hand = <<>>
  BY DEF WorkerInv, RestInv
<1>2. delivered \in Seq(Captured) /\ accepted = delivered
  BY <1>1, ConcatEmptySeq DEF OrderInv
<1>3. Len(hand) = 0 /\ Len(delivered) \in Nat /\ i \in 1 .. Len(delivered)
  BY <1>1, <1>2
<1>4. Len(delivered) - Len(hand) = Len(delivered)
  BY <1>3
<1> QED
  BY <1>2, <1>3, <1>4 DEF Processed

\* A datagram whose every fragment has been processed is handed up or timed out.
LEMMA ProcessedIsSettled ==
  ASSUME PathInv, TileInv, KeptInv, ApartInv, alive,
         NEW d \in sent, Finished(d), PiecesOf(d) \subseteq Processed
  PROVE  PayloadOf(d) \in up \/ <<d.src, d.ident>> \in timedOut
<1> SUFFICES ASSUME PayloadOf(d) \notin up, <<d.src, d.ident>> \notin timedOut PROVE FALSE
  OBVIOUS
<1> DEFINE key == <<d.src, d.ident>>
           b == buffers[key]
<1>1. ASSUME NEW f \in PiecesOf(d)
      PROVE  key \in DOMAIN buffers /\ f \in b.frags
  <2>1. f \in Processed \ {Foreign} /\ f.body = d /\ f.key = key
    BY DEF PiecesOf, ApartInv, PathInv, WireInv, OnWireOK
  <2> QED
    BY <2>1 DEF KeptInv
<1>2. Tiles(PiecesOf(d), d.len, d.len) /\ d.len \in Nat /\ 0 < d.len
  <2>1. d.len \in Length
    BY DEF PathInv, SentInv
  <2>2. d.len \in Nat /\ 0 < d.len
    <3>1. Length \subseteq Nat \ {0}
      BY PathAssumption DEF PathAssumption
    <3>2. \A l \in Nat \ {0} : l \in Nat /\ 0 < l
      OBVIOUS
    <3> QED
      BY ONLY <2>1, <3>1, <3>2
  <2> QED
    BY <2>2 DEF TileInv
<1>3. ASSUME NEW i \in 0 .. d.len - 1
      PROVE  \E g \in PiecesOf(d) : i \in g.from .. g.from + g.len - 1
  <2>1. PICK g \in PiecesOf(d) : Covering(PiecesOf(d), i) = {g}
    BY <1>2 DEF Tiles
  <2>2. Offset(g) <= i /\ i < End(g)
    BY <2>1 DEF Covering
  <2>3. Offset(g) = g.from /\ IsFragment(g)
    BY DEF PiecesOf, PathInv, WireInv, OnWireOK
  <2>4. i \in g.from .. g.from + g.len - 1
    BY <2>2, <2>3 DEF End, IsFragment
  <2> QED
    BY <2>4
<1>4. 0 \in 0 .. d.len - 1
  BY <1>2
<1>5. key \in DOMAIN buffers
  BY <1>1, <1>3, <1>4
<1>6. /\ BufferOK(key, b) /\ ~Complete(b) /\ b.frags \subseteq wire
  BY <1>5 DEF PathInv, WireInv, ReassemblerInv, ReassemblerTypeOK
<1>7. ASSUME NEW g \in b.frags PROVE g.body = d
  <2>1. PICK f \in PiecesOf(d) : f \in b.frags
    BY <1>1, <1>3, <1>4
  <2>2. g \in wire /\ f \in wire /\ g.key = f.key /\ f.body = d
    BY <1>6, <2>1 DEF BufferOK, PiecesOf
  <2> QED
    BY <2>2, OneDatagram
<1>8. \A i \in 0 .. d.len - 1 : \E g \in b.frags : i \in g.from .. g.from + g.len - 1
  BY <1>1, <1>3
<1> HIDE DEF b, key
<1>9. Complete(b)
  BY <1>6, <1>7, <1>8, AllBytesComplete
<1> QED
  BY <1>6, <1>9

\* A delivery worker that sleeps in pop, or has ended, has handed up every
\* datagram of which the queue took all fragments, but for those whose buffers
\* expired: no frame is left in the queue or in its hand, and no whole datagram in
\* its reassembler.  This is what ArrivedIsHandedUp asks, but for the fairness that
\* brings the worker there.
THEOREM RestedLeavesNothing ==
  ASSUME LengthsFit, IdentsLast, ForeignApart
  PROVE  RecvSpec => []NothingLeftBehind
<1>1. RecvInit => FramesInv /\ ApartInv
  BY PathAssumption DEF PathAssumption, RecvInit, Init, FramesInv, Captured, Frame, ApartInv
<1>2. RecvSpec => [](PathInv /\ TileInv)
  BY PipelineIsPath, PathInvHolds, TileInvHolds, PTL DEF ImplementsPath
<1>3. OrderInv /\ WorkerInv /\ RestInv /\ KeptInv /\ ApartInv /\ PathInv /\ TileInv
        => NothingLeftBehind
  <2> SUFFICES ASSUME OrderInv, WorkerInv, RestInv, KeptInv, ApartInv, PathInv, TileInv,
                      pc[Worker] \in {"waiting", "done"}, NEW n, ArrivedWhole(n)
               PROVE  Settled(n)
    BY DEF NothingLeftBehind
  <2>1. PICK d \in sent : /\ d.n = n /\ Finished(d)
                          /\ \A f \in PiecesOf(d) : \E i \in DOMAIN accepted : accepted[i] = f
    BY DEF ArrivedWhole
  <2>2. PiecesOf(d) \subseteq Processed
    BY <2>1, RestedProcessedAll
  <2>3. alive
    BY DEF WorkerInv
  <2>4. PayloadOf(d) \in up \/ <<d.src, d.ident>> \in timedOut
    BY <2>1, <2>2, <2>3, ProcessedIsSettled
  <2> QED
    BY <2>1, <2>4 DEF Settled
<1>4. PathInv /\ TileInv /\ CapturedInv /\ OrderInv /\ RestInv /\ KeptInv /\ [RecvNext]_recvVars
        => KeptInv'
  BY NextKept
<1>5. ForeignApart /\ FramesInv /\ ApartInv /\ [RecvNext]_recvVars => ApartInv'
  BY NextApart
<1> QED
  BY <1>1, <1>2, <1>3, <1>4, <1>5, InitCaptured, NextCaptured, InitWorker, NextOrder, NextWorker,
     InitKept, NextRest, NextFrames, PTL DEF RecvSpec
-----------------------------------------------------------------------------
\* Once the queue is closed the worker does not sleep again.
JoinInv == loop \notin {"capturing", "closing"} => closed /\ pc[Worker] # "waiting"

\* What is left until datalink_recv returns: to fetch a frame and to process it,
\* to find the queue empty, to join.
LeftToReturn ==
  2 * Len(data) + Len(hand) + (IF pc[Worker] \in {"running", "woken"} THEN 1 ELSE 0)
                + (IF loop = "joining" THEN 1 ELSE 0)

\* While datalink_recv joins its worker, every step of the host leaves less to do.
ReturnComes == [][loop = "joining" /\ ~Outside => LeftToReturn' < LeftToReturn]_recvVars

LEMMA LeftIsNatural == CapturedInv => LeftToReturn \in Nat
<1> SUFFICES ASSUME CapturedInv PROVE LeftToReturn \in Nat
  OBVIOUS
<1>1. Len(data) \in Nat /\ Len(hand) \in Nat
  BY DEF CapturedInv
<1> QED
  BY <1>1 DEF LeftToReturn

LEMMA NextJoin == WorkerInv /\ JoinInv /\ [RecvNext]_recvVars => JoinInv'
<1> SUFFICES ASSUME WorkerInv, JoinInv, [RecvNext]_recvVars PROVE JoinInv'
  OBVIOUS
<1>t. pc \in [{Worker} -> Queue!PopState]
  BY DEF WorkerInv
<1>1. ASSUME NEW f \in wire \cup {Foreign}, Enqueue(f) PROVE JoinInv'
  BY <1>1 DEF Enqueue, JoinInv
<1>2. CASE CloseQueue
  <2>1. closed' /\ pc'[Worker] # "waiting"
    BY <1>2 DEF CloseQueue, Queue!Close, Queue!NotifyAll
  <2> QED
    BY <2>1 DEF JoinInv
<1>3. CASE Fetch \/ Process \/ Spurious
  <2>1. /\ loop' = loop /\ closed' = closed
        /\ \E s \in Queue!PopState \ {"waiting"} : pc' = pc \/ pc' = [pc EXCEPT ![Worker] = s]
    BY <1>3 DEF Fetch, Process, Spurious, queueVars, Queue!PopFrame, Queue!Fail,
                Queue!SpuriousWakeup, Queue!PopState
  <2> QED
    BY <1>t, <2>1 DEF JoinInv
<1>4. CASE FindNone
  <2>1. /\ loop' = loop /\ closed' = closed
        /\ pc' = [pc EXCEPT ![Worker] = "done"] \/ ~closed
    BY <1>4 DEF FindNone, Queue!PopNone, Queue!PopWait
  <2> QED
    BY <1>t, <2>1 DEF JoinInv
<1>5. CASE CaptureFails
  BY <1>5 DEF CaptureFails, JoinInv
<1>6. CASE Outside \/ Join \/ UNCHANGED recvVars
  BY <1>6 DEF Outside, Join, recvVars, queueVars, JoinInv
<1> QED
  BY <1>1, <1>2, <1>3, <1>4, <1>5, <1>6 DEF RecvNext, Finish, Work

LEMMA JoiningStep ==
  ASSUME CapturedInv, WorkerInv, JoinInv, RecvNext, loop = "joining", ~Outside
  PROVE  LeftToReturn' < LeftToReturn
<1>t. /\ pc \in [{Worker} -> Queue!PopState] /\ pc[Worker] # "waiting" /\ closed
      /\ Len(data) \in Nat /\ Len(hand) \in Nat
      /\ hand # <<>> => Len(hand) = 1
      /\ data # <<>> => Len(Tail(data)) = Len(data) - 1
  BY DEF WorkerInv, JoinInv, CapturedInv
<1>1. CASE Join
  BY <1>t, <1>1 DEF Join, LeftToReturn, queueVars
<1>2. CASE Fetch
  <2>1. /\ data # <<>> /\ data' = Tail(data) /\ hand = <<>> /\ Len(hand') = 1 /\ loop' = loop
        /\ pc[Worker] \in {"running", "woken"} /\ pc'[Worker] = "running"
    BY <1>t, <1>2 DEF Fetch, Queue!PopFrame
  <2> QED
    BY <1>t, <2>1 DEF LeftToReturn
<1>3. CASE FindNone
  <2>1. /\ pc[Worker] \in {"running", "woken"} /\ pc'[Worker] = "done"
        /\ UNCHANGED <<loop, hand, data>>
    BY <1>t, <1>3 DEF FindNone, Queue!PopNone, Queue!PopWait
  <2> QED
    BY <1>t, <2>1 DEF LeftToReturn
<1>4. CASE Process
  <2>1. /\ Len(hand) = 1 /\ Len(hand') = 0 /\ UNCHANGED <<loop, data>>
        /\ pc' = pc \/ pc' = [pc EXCEPT ![Worker] = "failed"]
    BY <1>t, <1>4 DEF Process, Queue!Fail, queueVars
  <2>2. pc'[Worker] = pc[Worker] \/ pc'[Worker] = "failed"
    BY <1>t, <2>1
  <2> QED
    BY <1>t, <2>1, <2>2 DEF LeftToReturn
<1>5. ~Spurious /\ ~CaptureFails /\ ~CloseQueue /\ \A f : ~Enqueue(f)
  BY <1>t DEF Spurious, Queue!SpuriousWakeup, CaptureFails, CloseQueue, Enqueue
<1> QED
  BY <1>1, <1>2, <1>3, <1>4, <1>5 DEF RecvNext, Finish, Work

\* When datalink_recv joins its worker, the worker is not asleep and cannot fall
\* asleep, and 2 steps for each frame left in the queue, one for the frame in hand
\* and 2 more bring the return, whatever the network does meanwhile: ReceptionEnds
\* needs no more than that the threads go on.
THEOREM ReturnIsNear == RecvSpec => []JoinInv /\ [](LeftToReturn \in Nat) /\ ReturnComes
<1>1. RecvInit => JoinInv
  BY DEF RecvInit, JoinInv
<1>2. CapturedInv /\ WorkerInv /\ JoinInv /\ [RecvNext]_recvVars
        => [loop = "joining" /\ ~Outside => LeftToReturn' < LeftToReturn]_recvVars
  BY JoiningStep
<1> QED
  BY <1>1, <1>2, InitCaptured, NextCaptured, InitWorker, NextOrder, NextWorker, NextJoin,
     LeftIsNatural, PTL DEF RecvSpec, ReturnComes
=============================================================================
