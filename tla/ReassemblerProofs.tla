------------------------- MODULE ReassemblerProofs -------------------------
(***************************************************************************)
(* Facts about the actions of Reassembler that hold whatever arrives, and  *)
(* the reassembler's promises for every set of fragments, offset range,    *)
(* header length and timeout.                                              *)
(***************************************************************************)
EXTENDS AnyFragments, FiniteSetTheorems, WellFoundedInduction, TLAPS

LEMMA LeastNatural ==
  ASSUME NEW T \in SUBSET Nat, T # {}
  PROVE  \E x \in T : \A y \in T : x <= y
<1> DEFINE Below(x) == {y \in T : y < x}
           Family == {Below(x) : x \in T}
<1>0. \A x \in T : x \in Nat
  OBVIOUS
<1>1. Family \subseteq FiniteSubsetsOf(Nat)
  <2>1. ASSUME NEW x \in T PROVE IsFiniteSet(Below(x))
    <3>0. \A y \in T : y < x => y \in 0 .. x
      BY <1>0
    <3>1. Below(x) \subseteq 0 .. x
      BY <3>0
    <3>2. x \in Int /\ 0 \in Int
      BY <1>0
    <3>3. IsFiniteSet(0 .. x)
      BY ONLY <3>2, FS_Interval
    <3> QED
      BY <3>1, <3>3, FS_Subset
  <2> QED
    BY <2>1 DEF FiniteSubsetsOf
<1>2. PICK B \in Family : \A C \in Family : ~ (<<C, B>> \in StrictSubsetOrdering(Nat))
  <2>1. Family # {}
    OBVIOUS
  <2> HIDE DEF Family
  <2> QED
    BY <1>1, <2>1, WFMin, FS_StrictSubsetOrderingWellFounded
<1>3. PICK x \in T : B = Below(x)
  OBVIOUS
<1>4. ASSUME NEW y \in T, y < x PROVE FALSE
  <2>0. ~(y < y) /\ \A z \in T : z < y => z < x
    BY <1>0, <1>4
  <2>1. Below(y) \subseteq Below(x) /\ y \in Below(x) /\ y \notin Below(y)
    BY <2>0, <1>4
  <2>2. <<Below(y), Below(x)>> \in StrictSubsetOrdering(Nat)
    BY <2>1 DEF StrictSubsetOrdering
  <2>3. Below(y) \in Family
    OBVIOUS
  <2>4. ~ (<<Below(y), B>> \in StrictSubsetOrdering(Nat))
    BY ONLY <1>2, <2>3
  <2> QED
    BY ONLY <1>3, <2>2, <2>4
<1> QED
  BY <1>0, <1>4

-----------------------------------------------------------------------------
\* The cursor of try_assemble against the bytes: without a gap every byte up to
\* the greatest end is covered.
LEMMA NoGapCovers ==
  ASSUME NEW fs, \A f \in fs : IsFragment(f), NoGap(fs),
         NEW n \in Nat, EndsAt(fs, n), NEW i \in 0 .. n-1
  PROVE  Covering(fs, i) # {}
<1> USE DEF IsFragment, Offset, End, Covering
<1> DEFINE Above == {o \in Nat : \E f \in fs : f.off = o /\ Offset(f) > i}
<1>1. CASE Above = {}
  <2>1. PICK f \in fs : End(f) = n
    BY DEF EndsAt
  <2> QED
    BY <1>1, <2>1
<1>2. CASE Above # {}
  <2>1. PICK o \in Above : \A p \in Above : o <= p
    <3> HIDE DEF Above
    <3>1. Above \in SUBSET Nat
      BY DEF Above
    <3> QED
      BY <1>2, <3>1, LeastNatural
  <2>2. PICK f \in fs : f.off = o /\ Offset(f) > i
    OBVIOUS
  <2>3. PICK g \in fs : g.off < f.off /\ Offset(f) <= End(g)
    BY <2>2 DEF NoGap
  <2>4. g.off \notin Above
    BY <2>1, <2>2, <2>3
  <2> QED
    BY <2>2, <2>3, <2>4
<1> QED
  BY <1>1, <1>2

\* Without a gap the first fragment is there.
LEMMA NoGapHasFirst ==
  ASSUME NEW fs, fs # {}, \A f \in fs : IsFragment(f), NoGap(fs)
  PROVE  \E f \in fs : f.off = 0
<1> USE DEF IsFragment
<1> DEFINE Offs == {o \in Nat : \E f \in fs : f.off = o}
<1>1. PICK o \in Offs : \A p \in Offs : o <= p
  <2>1. Offs \in SUBSET Nat /\ Offs # {}
    OBVIOUS
  <2> HIDE DEF Offs
  <2> QED
    BY <2>1, LeastNatural
<1>2. PICK f \in fs : f.off = o
  OBVIOUS
<1>3. ASSUME NEW g \in fs PROVE ~(g.off < f.off)
  BY <1>1, <1>2
<1> QED
  BY <1>3 DEF NoGap, Offset

\* And back: when every byte below the total is covered and nothing ends beyond
\* it, the cursor finds no gap.
LEMMA CoversNoGap ==
  ASSUME NEW fs, \A f \in fs : IsFragment(f), NEW n \in Nat,
         \A i \in 0 .. n-1 : Covering(fs, i) # {},
         \A f \in fs : End(f) <= n
  PROVE  NoGap(fs)
<1> USE DEF IsFragment, Offset, End
<1> SUFFICES ASSUME NEW f \in fs, Offset(f) # 0
             PROVE  \E g \in fs : g.off < f.off /\ Offset(f) <= End(g)
  BY DEF NoGap
<1>1. Offset(f) - 1 \in 0 .. n-1
  OBVIOUS
<1>2. PICK g \in Covering(fs, Offset(f) - 1) : TRUE
  BY <1>1
<1>3. g \in fs /\ Offset(g) <= Offset(f) - 1 /\ Offset(f) - 1 < End(g)
  BY <1>2 DEF Covering
<1> QED
  BY <1>3

LEMMA PayloadHasNoHole ==
  ASSUME NEW fs, NEW n \in Nat, \A i \in 0 .. n-1 : Covering(fs, i) # {}
  PROVE  \A i \in DOMAIN Payload(fs, n) : Payload(fs, n)[i] # ZeroByte
<1> TAKE i \in DOMAIN Payload(fs, n)
<1>0. i \in 0 .. n-1
  BY DEF Payload
<1>1. Payload(fs, n)[i] = ByteAt(fs, i)
  BY <1>0 DEF Payload
<1>2. PICK f : ByteAt(fs, i) = <<f.body, f.from + i - Offset(f)>>
  BY <1>0 DEF ByteAt
<1>3. \A a, b : <<a, b>> # <<>>
  OBVIOUS
<1> QED
  BY <1>1, <1>2, <1>3 DEF ZeroByte

-----------------------------------------------------------------------------
\* The header kept is that of the fragment at offset 0, once there is one.
HeaderOK(b) == (\E f \in b.frags : f.off = 0) => b.header.off = 0

\* What every buffer satisfies between two frames; with the types it is
\* inductive whatever arrives.
ReassemblerInv ==
  /\ ReassemblerTypeOK
  /\ \A k \in DOMAIN buffers : ~Complete(buffers[k]) /\ HeaderOK(buffers[k])

PacketOK == NoHole /\ HeaderOfFirst /\ AssembledFresh

LEMMA InitReassemblerInv == ReassemblerInit => ReassemblerInv /\ PacketOK
BY DEF ReassemblerInit, ReassemblerInv, ReassemblerTypeOK, PacketOK, NoHole, HeaderOfFirst,
       AssembledFresh

\* A fragment that is not a duplicate leaves its buffer well formed.
LEMMA BufferedOK ==
  ASSUME ReassemblerInv, NEW f, IsFragment(f), ~IsWhole(f), ~IsDuplicate(f)
  PROVE  /\ BufferOK(f.key, Buffered(f))
         /\ HeaderOK(Buffered(f))
         /\ now - Buffered(f).start < FragmentTimeout
         /\ f \in Buffered(f).frags
<1> USE ReassemblerAssumption DEF ReassemblerAssumption, ReassemblerInv, ReassemblerTypeOK
<1>1. now \in Nat
  OBVIOUS
<1>2. CASE f.key \in LiveKeys
  <2> DEFINE old == buffers[f.key]
  <2>1. BufferOK(f.key, old) /\ HeaderOK(old) /\ now - old.start < FragmentTimeout
    BY <1>2 DEF LiveKeys
  <2>2. \A g \in old.frags : g.off # f.off
    BY <1>2 DEF IsDuplicate
  <2>3. /\ Buffered(f).start = old.start
        /\ Buffered(f).header = IF f.off = 0 THEN f ELSE old.header
        /\ Buffered(f).frags = old.frags \cup {f}
        /\ Buffered(f).total = IF f.mf THEN old.total ELSE {End(f)}
    BY <1>2 DEF Buffered
  <2> HIDE DEF old
  <2>4. HeaderOK(Buffered(f))
    BY <2>1, <2>3 DEF HeaderOK
  <2>5. BufferOK(f.key, Buffered(f))
    BY <2>1, <2>2, <2>3 DEF BufferOK, IsFragment
  <2> QED
    BY <2>1, <2>3, <2>4, <2>5
<1>3. CASE f.key \notin LiveKeys
  <2>1. /\ Buffered(f).start = now
        /\ Buffered(f).header = f
        /\ Buffered(f).frags = {f}
        /\ Buffered(f).total = IF f.mf THEN {} ELSE {End(f)}
    BY <1>3 DEF Buffered
  <2>2. BufferOK(f.key, Buffered(f))
    BY <1>1, <2>1 DEF BufferOK, IsFragment
  <2> QED
    BY <1>1, <2>1, <2>2 DEF HeaderOK
<1> QED
  BY <1>2, <1>3

\* What Assemble hands up.
LEMMA AssembledOK ==
  ASSUME NEW k, NEW b, BufferOK(k, b), HeaderOK(b), Complete(b), NEW n \in b.total
  PROVE  /\ n \in Nat
         /\ NoGap(b.frags) /\ EndsAt(b.frags, n)
         /\ b.header.off = 0
         /\ \A i \in 0 .. n-1 : Covering(b.frags, i) # {}
<1>1. \A f \in b.frags : IsFragment(f)
  BY DEF BufferOK
<1>2. PICK f \in b.frags : b.total = {End(f)}
  BY DEF BufferOK
<1>3. n = End(f) /\ n \in Nat
  BY <1>1, <1>2 DEF End, Offset, IsFragment
<1>4. NoGap(b.frags) /\ EndsAt(b.frags, n)
  BY <1>2, <1>3 DEF Complete
<1>5. b.header.off = 0
  BY <1>1, <1>2, <1>4, NoGapHasFirst DEF HeaderOK
<1> QED
  BY <1>1, <1>3, <1>4, <1>5, NoGapCovers

\* process_frame keeps the invariant, and what it hands up is whole, headed by
\* the first fragment, and put together in time.
LEMMA ReceiveKeepsInv ==
  ASSUME ReassemblerInv, NEW f, IsFragment(f), Receive(f)
  PROVE  ReassemblerInv' /\ PacketOK'
<1> USE ReassemblerAssumption DEF ReassemblerAssumption
<1>0. /\ now \in Nat /\ now' = now /\ alive \in BOOLEAN
      /\ \A k \in LiveKeys : /\ k \in DOMAIN buffers
                             /\ BufferOK(k, buffers[k])
                             /\ HeaderOK(buffers[k])
                             /\ ~Complete(buffers[k])
  BY DEF Receive, PassWhole, DropDuplicate, Store, Assemble, Panic, ReassemblerInv,
         ReassemblerTypeOK, LiveKeys
<1>1. CASE PassWhole(f)
  <2>1. f.off = 0 /\ f.len \in Nat
    BY <1>1 DEF PassWhole, IsWhole, IsFragment
  <2>2. \A i \in 0 .. f.len - 1 : Covering({f}, i) # {}
    BY <2>1 DEF Covering, Offset, End
  <2>3. /\ buffers' = Live /\ alive' = alive
        /\ out' = {[header |-> f, since |-> now, payload |-> Payload({f}, f.len)]}
    BY <1>1 DEF PassWhole
  <2>4. ReassemblerInv'
    BY <1>0, <2>3 DEF ReassemblerInv, ReassemblerTypeOK, Live, BufferOK
  <2>5. \A i \in DOMAIN Payload({f}, f.len) : Payload({f}, f.len)[i] # ZeroByte
    BY <2>1, <2>2, PayloadHasNoHole
  <2>6. NoHole'
    BY <2>3, <2>5 DEF NoHole
  <2>7. HeaderOfFirst' /\ AssembledFresh'
    BY <1>0, <2>1, <2>3 DEF HeaderOfFirst, AssembledFresh
  <2> QED
    BY <2>4, <2>6, <2>7 DEF PacketOK
<1>2. CASE DropDuplicate(f)
  <2>1. out' = {} /\ alive' = alive
    BY <1>2 DEF DropDuplicate
  <2>2. ASSUME NEW k \in DOMAIN buffers'
        PROVE  /\ k \in LiveKeys
               /\ buffers'[k].start = buffers[k].start
               /\ buffers'[k].frags = buffers[k].frags
               /\ buffers'[k].total = buffers[k].total
               /\ \/ buffers'[k].header = buffers[k].header
                  \/ buffers'[k].header = f /\ f.off = 0
    <3>1. k \in LiveKeys
      BY <1>2 DEF DropDuplicate
    <3>2. CASE k = f.key /\ f.off = 0
      <4>1. buffers'[k] = [buffers[k] EXCEPT !.header = f]
        BY <1>2, <3>1, <3>2 DEF DropDuplicate
      <4> QED
        BY <3>1, <3>2, <4>1
    <3>3. CASE ~(k = f.key /\ f.off = 0)
      <4>1. buffers'[k] = buffers[k]
        BY <1>2, <3>1, <3>3 DEF DropDuplicate
      <4> QED
        BY <3>1, <4>1
    <3> QED
      BY <3>2, <3>3
  <2> QED
    BY <1>0, <2>1, <2>2 DEF ReassemblerInv, ReassemblerTypeOK, BufferOK, HeaderOK, Complete,
       PacketOK, NoHole, HeaderOfFirst, AssembledFresh
<1>3. CASE Store(f)
  <2>1. /\ out' = {} /\ alive' = alive
        /\ buffers' = [k \in LiveKeys \cup {f.key} |->
                         IF k = f.key THEN Buffered(f) ELSE buffers[k]]
        /\ ~Complete(Buffered(f))
    BY <1>3 DEF Store
  <2>2. BufferOK(f.key, Buffered(f)) /\ HeaderOK(Buffered(f))
    BY <1>3, BufferedOK DEF Store
  <2>3. \A k \in DOMAIN buffers' : BufferOK(k, buffers'[k]) /\ HeaderOK(buffers'[k])
                                  /\ ~Complete(buffers'[k])
    BY <1>0, <2>1, <2>2
  <2> QED
    BY <1>0, <2>1, <2>3 DEF ReassemblerInv, ReassemblerTypeOK, BufferOK,
       PacketOK, NoHole, HeaderOfFirst, AssembledFresh
<1>4. CASE Assemble(f)
  <2>1. PICK n \in Buffered(f).total :
          out' = {[header  |-> Buffered(f).header,
                   since   |-> Buffered(f).start,
                   payload |-> Payload(Buffered(f).frags, n)]}
    BY <1>4 DEF Assemble
  <2>2. /\ BufferOK(f.key, Buffered(f)) /\ HeaderOK(Buffered(f))
        /\ now - Buffered(f).start < FragmentTimeout
        /\ Complete(Buffered(f))
    BY <1>4, BufferedOK DEF Assemble
  <2>3. /\ n \in Nat /\ Buffered(f).header.off = 0
        /\ \A i \in 0 .. n-1 : Covering(Buffered(f).frags, i) # {}
    BY <2>2, AssembledOK
  <2>4. NoHole'
    BY <2>1, <2>3, PayloadHasNoHole DEF NoHole
  <2>5. HeaderOfFirst' /\ AssembledFresh'
    BY <1>0, <2>1, <2>2, <2>3 DEF HeaderOfFirst, AssembledFresh
  <2>6. Buffered(f).start \in 0 .. now
    BY <2>2 DEF BufferOK
  <2>7. alive' = alive /\ buffers' = [k \in LiveKeys \ {f.key} |-> buffers[k]]
    BY <1>4 DEF Assemble
  <2>8. \A k \in DOMAIN buffers' : BufferOK(k, buffers'[k]) /\ HeaderOK(buffers'[k])
                                  /\ ~Complete(buffers'[k])
    BY <1>0, <2>7
  <2>9. \E p \in out' : out' = {p} /\ p.since \in 0 .. now
    BY <2>1, <2>6
  <2>10. ReassemblerInv'
    BY <1>0, <2>7, <2>8, <2>9 DEF ReassemblerInv, ReassemblerTypeOK, BufferOK
  <2> QED
    BY <2>4, <2>5, <2>10 DEF PacketOK
<1>5. CASE Panic(f)
  BY <1>0, <1>5 DEF Panic, ReassemblerInv, ReassemblerTypeOK, PacketOK, NoHole, HeaderOfFirst,
     AssembledFresh
<1> QED
  BY <1>1, <1>2, <1>3, <1>4, <1>5 DEF Receive

LEMMA QuietStepKeepsInv ==
  ASSUME ReassemblerInv, PacketOK, Discard \/ Tick \/ UNCHANGED reassemblerVars
  PROVE  ReassemblerInv' /\ PacketOK'
<1> USE DEF ReassemblerInv, ReassemblerTypeOK, PacketOK, NoHole, HeaderOfFirst, AssembledFresh
<1>1. CASE Discard
  <2>1. out' = {} /\ now' = now /\ alive' = alive
    BY <1>1 DEF Discard
  <2>2. \A k \in DOMAIN buffers' : k \in DOMAIN buffers /\ buffers'[k] = buffers[k]
    BY <1>1 DEF Discard, Live, LiveKeys
  <2> QED
    BY <2>1, <2>2 DEF BufferOK, HeaderOK, Complete
<1>2. CASE Tick
  BY <1>2 DEF Tick, BufferOK
<1>3. CASE UNCHANGED reassemblerVars
  BY <1>3 DEF reassemblerVars, BufferOK
<1> QED
  BY <1>1, <1>2, <1>3

\* A buffer that the cursor finds incomplete lacks a byte, or ends beyond its
\* total.
LEMMA InvImpliesNothingCompleteHeld == ReassemblerInv => NothingCompleteHeld
<1> SUFFICES ASSUME ReassemblerInv, NEW k \in DOMAIN buffers, NEW n \in buffers[k].total,
                    \A i \in 0 .. n-1 : Covering(buffers[k].frags, i) # {},
                    \A f \in buffers[k].frags : ~(End(f) > n)
             PROVE  FALSE
  BY DEF NothingCompleteHeld
<1>1. BufferOK(k, buffers[k]) /\ ~Complete(buffers[k])
  BY DEF ReassemblerInv, ReassemblerTypeOK
<1>2. PICK f \in buffers[k].frags : n = End(f)
  BY <1>1 DEF BufferOK
<1>3. \A g \in buffers[k].frags : IsFragment(g) /\ End(g) \in Nat
  BY <1>1 DEF BufferOK, IsFragment, End, Offset
<1>4. \A g \in buffers[k].frags : End(g) <= n
  BY <1>2, <1>3
<1>5. NoGap(buffers[k].frags)
  BY <1>2, <1>3, <1>4, CoversNoGap
<1> QED
  BY <1>1, <1>2, <1>4, <1>5 DEF Complete, EndsAt

-----------------------------------------------------------------------------
\* The reassembler fed with any fragments, any number of times, in any order.
LEMMA FedKeepsInv ==
  ASSUME NEW CONSTANT fs, \A f \in fs : IsFragment(f), NEW CONSTANT t
  PROVE  FedSpec(fs, t) => [](ReassemblerInv /\ PacketOK)
<1>1. ReassemblerInv /\ PacketOK /\ [FedNext(fs, t)]_reassemblerVars => (ReassemblerInv /\ PacketOK)'
  BY ReceiveKeepsInv, QuietStepKeepsInv DEF FedNext
<1> QED
  BY <1>1, InitReassemblerInv, PTL DEF FedSpec

\* Buffers stay well formed: one fragment per offset, of one datagram, with a
\* total that one of them set.
THEOREM ReassemblerTypeCorrect ==
  ASSUME NEW CONSTANT fs, \A f \in fs : IsFragment(f), NEW CONSTANT t
  PROVE  FedSpec(fs, t) => []ReassemblerTypeOK
<1>1. ReassemblerInv => ReassemblerTypeOK
  BY DEF ReassemblerInv
<1> QED
  BY <1>1, FedKeepsInv, PTL

\* push_fragment hands up a packet with the fragment that makes it complete.
THEOREM CompleteIsHandedUp ==
  ASSUME NEW CONSTANT fs, \A f \in fs : IsFragment(f), NEW CONSTANT t
  PROVE  FedSpec(fs, t) => []NothingCompleteHeld
BY InvImpliesNothingCompleteHeld, FedKeepsInv, PTL

\* No byte of a reassembled payload is left from vec![0; total].
THEOREM PayloadIsFilled ==
  ASSUME NEW CONSTANT fs, \A f \in fs : IsFragment(f), NEW CONSTANT t
  PROVE  FedSpec(fs, t) => []NoHole
<1>1. PacketOK => NoHole
  BY DEF PacketOK
<1> QED
  BY <1>1, FedKeepsInv, PTL

\* A reassembled packet has the header of its first fragment.
THEOREM HeaderIsOfFirst ==
  ASSUME NEW CONSTANT fs, \A f \in fs : IsFragment(f), NEW CONSTANT t
  PROVE  FedSpec(fs, t) => []HeaderOfFirst
<1>1. PacketOK => HeaderOfFirst
  BY DEF PacketOK
<1> QED
  BY <1>1, FedKeepsInv, PTL

\* Fragments FRAGMENT_TIMEOUT apart never meet in one packet.
THEOREM PacketsAreFresh ==
  ASSUME NEW CONSTANT fs, \A f \in fs : IsFragment(f), NEW CONSTANT t
  PROVE  FedSpec(fs, t) => []AssembledFresh
<1>1. PacketOK => AssembledFresh
  BY DEF PacketOK
<1> QED
  BY <1>1, FedKeepsInv, PTL
=============================================================================
