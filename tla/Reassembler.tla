---------------------------- MODULE Reassembler ----------------------------
(***************************************************************************)
(* Ipv4Reassembler (ip/reassembly.rs) as the delivery worker of            *)
(* enternet/datalink/recv.rs drives it: every frame first drops the        *)
(* expired buffers, then a fragment that parses and is for this host is    *)
(* pushed.  What arrives is left to the modules that extend this one.      *)
(*                                                                         *)
(* A fragment is a record with the fields                                  *)
(*   key        source, destination, identification and protocol           *)
(*   off, mf    the fragment offset field, in units of 8 bytes, and MF     *)
(*   len        the bytes of its payload                                   *)
(*   body, from its bytes: those of body at from, from + 1, ...            *)
(* An Option is a set of at most one element.                              *)
(***************************************************************************)
EXTENDS Integers, FiniteSets

CONSTANTS OffsetRange,      \* 2^13: fragment_offset has 13 bits
          HeaderLen,        \* FIXED_HEADER_LEN
          FragmentTimeout   \* FRAGMENT_TIMEOUT

ASSUME ReassemblerAssumption ==
  /\ OffsetRange \in Nat \ {0}
  /\ HeaderLen \in Nat
  /\ FragmentTimeout \in Nat \ {0}

VARIABLES buffers,   \* Ipv4Reassembler.buffers, a function on the keys it holds
          now,       \* the clock Instant::now() reads
          out,       \* the packet the last frame handed up, if any
          alive      \* FALSE once the delivery worker has panicked

reassemblerVars == <<buffers, now, out, alive>>

LengthRange == 8 * OffsetRange    \* 2^16: total_length has 16 bits

Offset(f) == 8 * f.off
End(f)    == Offset(f) + f.len

ReassemblerInit ==
  /\ buffers = [k \in {} |-> {}]
  /\ now = 0
  /\ out = {}
  /\ alive = TRUE

-----------------------------------------------------------------------------
\* Faulty variants, for the check that each property can fail.
LiveKeysForever  == DOMAIN buffers
NoGapUnchecked(fs) == TRUE
NoGapStrict(fs)  ==
  \A f \in fs : Offset(f) = 0 \/ \E g \in fs : g.off < f.off /\ Offset(f) < End(g)

\* remove_expired keeps the buffers younger than the timeout.
LiveKeys == {k \in DOMAIN buffers : now - buffers[k].start < FragmentTimeout}
Live     == [k \in LiveKeys |-> buffers[k]]

\* try_assemble sorts by offset and runs a cursor, the greatest end so far:
\* the cursor reaches every offset, and ends at the total.
NoGap(fs) ==
  \A f \in fs : Offset(f) = 0 \/ \E g \in fs : g.off < f.off /\ Offset(f) <= End(g)

EndsAt(fs, n) ==
  /\ \E f \in fs : End(f) = n
  /\ \A f \in fs : End(f) <= n

Complete(b) == \E n \in b.total : NoGap(b.frags) /\ EndsAt(b.frags, n)

\* vec![0; total], then each fragment copied over it in the order of offsets.
ZeroByte == <<>>

Covering(fs, i) == {f \in fs : Offset(f) <= i /\ i < End(f)}

ByteAt(fs, i) ==
  IF Covering(fs, i) = {} THEN ZeroByte
  ELSE LET f == CHOOSE f \in Covering(fs, i) :
                  \A g \in Covering(fs, i) : g.off <= f.off
       IN  <<f.body, f.from + i - Offset(f)>>

Payload(fs, n) == [i \in 0 .. n-1 |-> ByteAt(fs, i)]

-----------------------------------------------------------------------------
BufferedAnyHeader(f) ==
  LET old == IF f.key \in LiveKeys THEN buffers[f.key]
             ELSE [start |-> now, header |-> f, frags |-> {}, total |-> {}]
  IN  [start  |-> old.start,
       header |-> old.header,
       frags  |-> old.frags \cup {f},
       total  |-> IF f.mf THEN old.total ELSE {End(f)}]

\* The buffer of f's datagram, made if there is none, with f in it.
Buffered(f) ==
  LET old == IF f.key \in LiveKeys THEN buffers[f.key]
             ELSE [start |-> now, header |-> f, frags |-> {}, total |-> {}]
  IN  [start  |-> old.start,
       header |-> IF f.off = 0 THEN f ELSE old.header,
       frags  |-> old.frags \cup {f},
       total  |-> IF f.mf THEN old.total ELSE {End(f)}]

IsWhole(f) == f.off = 0 /\ ~f.mf

NeverDuplicate(f) == FALSE
IsDuplicate(f) == f.key \in LiveKeys /\ \E g \in buffers[f.key].frags : g.off = f.off

\* header_len as u16 + total as u16, in a build with overflow checks.
LengthOverflows(n) == HeaderLen + (n % LengthRange) >= LengthRange

\* An unfragmented packet passes by the buffers.
PassWhole(f) ==
  /\ IsWhole(f)
  /\ buffers' = Live
  /\ out' = {[header |-> f, since |-> now, payload |-> Payload({f}, f.len)]}
  /\ UNCHANGED <<now, alive>>

\* A second fragment at an offset is dropped, but one at offset 0 still
\* replaces the header.
DropDuplicate(f) ==
  /\ ~IsWhole(f)
  /\ IsDuplicate(f)
  /\ buffers' = [k \in LiveKeys |-> IF k = f.key /\ f.off = 0
                                    THEN [buffers[k] EXCEPT !.header = f]
                                    ELSE buffers[k]]
  /\ out' = {}
  /\ UNCHANGED <<now, alive>>

Store(f) ==
  /\ ~IsWhole(f)
  /\ ~IsDuplicate(f)
  /\ ~Complete(Buffered(f))
  /\ buffers' = [k \in LiveKeys \cup {f.key} |-> IF k = f.key THEN Buffered(f) ELSE buffers[k]]
  /\ out' = {}
  /\ UNCHANGED <<now, alive>>

Assemble(f) ==
  /\ ~IsWhole(f)
  /\ ~IsDuplicate(f)
  /\ Complete(Buffered(f))
  /\ \E n \in Buffered(f).total :
       /\ ~LengthOverflows(n)
       /\ out' = {[header  |-> Buffered(f).header,
                   since   |-> Buffered(f).start,
                   payload |-> Payload(Buffered(f).frags, n)]}
  /\ buffers' = [k \in LiveKeys \ {f.key} |-> buffers[k]]
  /\ UNCHANGED <<now, alive>>

\* The worker's thread unwinds, and its reassembler with it.
Panic(f) ==
  /\ ~IsWhole(f)
  /\ ~IsDuplicate(f)
  /\ Complete(Buffered(f))
  /\ \E n \in Buffered(f).total : LengthOverflows(n)
  /\ buffers' = [k \in {} |-> {}]
  /\ out' = {}
  /\ alive' = FALSE
  /\ UNCHANGED now

\* process_frame on a frame whose packet parses and is for this host.
Receive(f) ==
  /\ alive
  /\ PassWhole(f) \/ DropDuplicate(f) \/ Store(f) \/ Assemble(f) \/ Panic(f)

\* process_frame on a frame that does not parse or is for another host.
Discard ==
  /\ alive
  /\ buffers' = Live
  /\ out' = {}
  /\ UNCHANGED <<now, alive>>

\* Time passes.
Tick ==
  /\ now' = now + 1
  /\ out' = {}
  /\ UNCHANGED <<buffers, alive>>

-----------------------------------------------------------------------------
IsFragment(f) ==
  /\ f.off \in 0 .. OffsetRange - 1
  /\ f.len \in Nat
  /\ f.mf \in BOOLEAN
  /\ f.from \in Nat

\* A buffer holds fragments of its own datagram, at most one per offset, among
\* them the one its total comes from; it was started in the past.
BufferOK(k, b) ==
  /\ b.start \in 0 .. now
  /\ b.frags # {}
  /\ \A f \in b.frags : IsFragment(f) /\ ~IsWhole(f) /\ f.key = k
  /\ \A f, g \in b.frags : f.off = g.off => f = g
  /\ b.total = {} \/ \E f \in b.frags : ~f.mf /\ b.total = {End(f)}
  /\ b.total = {} => \A f \in b.frags : f.mf

\* Every live buffer is well formed, and at most one packet is handed up at a
\* time.
ReassemblerTypeOK ==
  /\ now \in Nat
  /\ alive \in BOOLEAN
  /\ \A k \in DOMAIN buffers : BufferOK(k, buffers[k])
  /\ out = {} \/ \E p \in out : out = {p} /\ p.since \in 0 .. now

\* push_fragment keeps no buffer whose bytes are all there: what is complete
\* has been handed up, in whatever order its fragments came.
NothingCompleteHeld ==
  \A k \in DOMAIN buffers : \A n \in buffers[k].total :
    \/ \E i \in 0 .. n-1 : Covering(buffers[k].frags, i) = {}
    \/ \E f \in buffers[k].frags : End(f) > n

\* Every byte of a packet handed up came from a fragment: no zero of the fresh
\* vector leaks through a gap, whatever fragments overlap.
NoHole == \A p \in out : \A i \in DOMAIN p.payload : p.payload[i] # ZeroByte

\* The header of a packet handed up is that of a fragment at offset 0, even
\* when that fragment came last.
HeaderOfFirst == \A p \in out : p.header.off = 0

\* No packet is put together from fragments FRAGMENT_TIMEOUT or more apart.
AssembledFresh == \A p \in out : now - p.since < FragmentTimeout
=============================================================================
