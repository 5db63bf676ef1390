---------------------------- MODULE DatagramPath ----------------------------
(***************************************************************************)
(* A datagram from build_ipv4_packets (ip/builder.rs) on several hosts,    *)
(* over a network that loses, doubles, delays and reorders frames, to the  *)
(* reassembler of one receiving host.  Byte i of the payload of datagram d *)
(* is <<d, i>>, so a packet shows where each of its bytes comes from.      *)
(***************************************************************************)
EXTENDS Reassembler

CONSTANTS Host,                 \* the sending processes
          Length,               \* the payload lengths they send
          MaxFragmentPayload,   \* MAX_FRAGMENT_PAYLOAD
          IdentRange,           \* 2^16: IDENT_COUNTER is an AtomicU16
          MaxDatagrams,         \* bound: datagrams built in one behaviour
          MaxTime               \* bound: how far the clock runs

ASSUME PathAssumption ==
  /\ Length \subseteq Nat \ {0}
  /\ MaxFragmentPayload \in Nat /\ MaxFragmentPayload >= 8
  /\ IdentRange \in Nat \ {0}
  /\ MaxDatagrams \in Nat
  /\ MaxTime \in Nat

PayloadOf(d) == [i \in 0 .. d.len - 1 |-> <<d, i>>]

VARIABLES counter,    \* IDENT_COUNTER of each host
          built,      \* history: how many datagrams have been built
          sent,       \* history: the datagrams built
          building,   \* calls of build_ipv4_packets in their loop
          wire        \* the fragments that are, or were, on the network

senderVars == <<counter, built, sent, building, wire>>
vars == <<counter, built, sent, building, wire, buffers, now, out, alive>>

Init ==
  /\ counter = [h \in Host |-> 0]
  /\ built = 0
  /\ sent = {}
  /\ building = {}
  /\ wire = {}
  /\ ReassemblerInit

-----------------------------------------------------------------------------
\* Faulty variants, for the check that each property can fail.
NextIdentStuck(i) == i
StrideUnaligned == MaxFragmentPayload

\* fetch_add on an AtomicU16.
NextIdent(i) == IF i + 1 = IdentRange THEN 0 ELSE i + 1

\* current &= !7
Stride == (MaxFragmentPayload \div 8) * 8

\* build_ipv4_packets up to its loop: the datagram gets its identification.
Begin(h, l) ==
  /\ built < MaxDatagrams
  /\ LET d == [src |-> h, n |-> built, ident |-> counter[h], len |-> l]
     IN  /\ sent' = sent \cup {d}
         /\ building' = building \cup {[dgram |-> d, at |-> 0]}
  /\ counter' = [counter EXCEPT ![h] = NextIdent(@)]
  /\ built' = built + 1
  /\ UNCHANGED <<wire, buffers, now, out, alive>>

Remaining(c) == c.dgram.len - c.at
IsLast(c)    == Remaining(c) <= MaxFragmentPayload
Current(c)   == IF IsLast(c) THEN Remaining(c) ELSE Stride

\* The header keeps 13 bits of offset / 8.
CutFragment(c) ==
  [key  |-> <<c.dgram.src, c.dgram.ident>>,
   off  |-> (c.at \div 8) % OffsetRange,
   mf   |-> ~IsLast(c),
   len  |-> Current(c),
   body |-> c.dgram,
   from |-> c.at]

\* One round of the loop, and the fragment goes out.
Cut(c) ==
  /\ wire' = wire \cup {CutFragment(c)}
  /\ building' = (building \ {c}) \cup
                   (IF IsLast(c) THEN {} ELSE {[c EXCEPT !.at = @ + Current(c)]})
  /\ UNCHANGED <<counter, built, sent, buffers, now, out, alive>>

Next ==
  \/ \E h \in Host, l \in Length : Begin(h, l)
  \/ \E c \in building : Cut(c)
  \/ \E f \in wire : Receive(f) /\ UNCHANGED senderVars
  \/ Discard /\ UNCHANGED senderVars
  \/ now < MaxTime /\ Tick /\ UNCHANGED senderVars

Spec == Init /\ [][Next]_vars

\* A host's process ends and is started again: its IDENT_COUNTER is 0.
Restart(h) ==
  /\ counter' = [counter EXCEPT ![h] = 0]
  /\ building' = {c \in building : c.dgram.src # h}
  /\ UNCHANGED <<built, sent, wire, buffers, now, out, alive>>

RestartNext == Next \/ \E h \in Host : Restart(h)

RestartSpec == Init /\ [][RestartNext]_vars

-----------------------------------------------------------------------------
\* Every packet handed up is the whole payload of one datagram that was sent:
\* no byte of another datagram, none missing, none out of place, however the
\* fragments of several datagrams mix on the way.
Integrity == \A p \in out : \E d \in sent : p.payload = PayloadOf(d)

Finished(d) == d \in sent /\ \A c \in building : c.dgram # d
PiecesOf(d) == {f \in wire : f.body = d}

\* build_ipv4_packets loses and doubles no byte: the fragments of a datagram
\* lie where their offsets say, hold each byte of the payload once, and only
\* the one that ends it has MF clear.
FragmentsTile ==
  \A d \in sent : Finished(d) =>
    /\ \A f \in PiecesOf(d) : Offset(f) = f.from /\ (f.mf <=> End(f) < d.len)
    /\ \A i \in 0 .. d.len - 1 :
         \E f \in PiecesOf(d) : Covering(PiecesOf(d), i) = {f}

Held(f) == IF f.key \in LiveKeys THEN buffers[f.key].frags ELSE {}

\* With f the receiver holds every byte of f's datagram.
Completes(f) ==
  \A i \in 0 .. f.body.len - 1 :
    \E g \in Held(f) \cup {f} : g.body = f.body /\ i \in g.from .. g.from + g.len - 1

\* The packet is returned with the fragment that brings its last byte.
ReturnsWhenComplete ==
  [][\A f \in wire : Receive(f) /\ Completes(f) => out' # {}]_vars
=============================================================================
