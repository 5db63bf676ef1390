--------------------------- MODULE PacketExchange ---------------------------
(***************************************************************************)
(* One message between hosts that run this program: sendto (udp/send.rs),  *)
(* an echo request sent as a file, or the ARP request of resolve_mac, over *)
(* a medium or a bridge that may damage a byte, to recv_loop and its       *)
(* worker on every host that hears the frame, and the answers of           *)
(* handle_icmpv4 and handle_incoming.  A host of another kind may ask by   *)
(* ARP too.  Every message fits one fragment.                              *)
(***************************************************************************)
EXTENDS PacketFormat

CONSTANTS Station,     \* the hosts that run the program, each with its mac and ip
          Outsider,    \* hosts of another kind, which pad before they compute the CRC
          Port,        \* UDP ports
          Data,        \* the byte strings they send
          Damage       \* what may be added to a byte on the way

ASSUME ExchangeAssumption ==
  /\ \A s \in Station \cup Outsider : s.mac \in [1..6 -> 0..255] /\ s.ip \in [1..4 -> 0..255]
  /\ \A s, t \in Station : s.ip = t.ip => s = t
  /\ \A s \in Station : s.ip # BroadcastIp
  /\ \A p \in Port : p \in Nat /\ p <= 65535
  /\ \A d \in Data : d \in Seq(0..255) /\ Len(d) >= 1 /\ Len(d) <= 1392
  /\ Damage \subseteq 1..255

VARIABLES sent,      \* history: the message, once there is one
          air,       \* the frames on the medium; history: what damage each took, and whether it is an answer
          handed,    \* history: what hosts handed to their sockets, file and cache
          answers    \* history: who answered which frame with which

vars == <<sent, air, handed, answers>>

Init == sent = {} /\ air = {} /\ handed = {} /\ answers = {}

-----------------------------------------------------------------------------
Everyone == [mac |-> BroadcastMac, ip |-> BroadcastIp]

Ipv4Frame(srcMac, dstMac, tos, proto, src, dst, data) ==
  Frame(dstMac, srcMac, TypeIpv4,
        Ipv4Packet([tos |-> tos, ident |-> 0, ttl |-> 64, proto |-> proto, src |-> src, dst |-> dst], data))

Emit(m, f) ==
  /\ sent = {}
  /\ sent' = {m}
  /\ air' = {[bytes |-> f, hurt |-> {}, reply |-> FALSE]}
  /\ UNCHANGED <<handed, answers>>

SendTo(a, b, sport, dport, data) ==
  Emit([kind |-> "udp", from |-> a, to |-> b, sport |-> sport, dport |-> dport, data |-> data],
       Ipv4Frame(a.mac, b.mac, 0, 17, a.ip, b.ip, UdpSegment(a.ip, sport, b.ip, dport, data)))

\* datalink_send of an echo request: identifier, sequence number and data.
Ping(a, b, data) ==
  Emit([kind |-> "echo", from |-> a, to |-> b, data |-> data],
       Ipv4Frame(a.mac, b.mac, 0, 1, a.ip, b.ip, Echo(8, Zeros(4) \o data)))

\* The request of resolve_mac: build_frame pads it behind the CRC.
WhoHas(a, b) ==
  Emit([kind |-> "request", from |-> a, to |-> b],
       Frame(BroadcastMac, a.mac, TypeArp, ArpPayload(1, a.mac, a.ip, Zeros(6), b.ip)))

ForeignWhoHas(o, b) ==
  Emit([kind |-> "foreign", from |-> o, to |-> b],
       WithCrc(BroadcastMac \o o.mac \o TwoBytes(TypeArp)
               \o ArpPayload(1, o.mac, o.ip, Zeros(6), b.ip) \o Zeros(18)))

Contents(f) == SubSeq(f, EthernetHeaderLen + 1, Len(f) - 4)

Changed(s, i, d) == [s EXCEPT ![i] = (@ + d) % 256]

\* The medium changes a byte of a frame; or a bridge changes one of the
\* packet in its memory, and sends it on with a new CRC.
Damaged(g, new, where) ==
  /\ \A h \in air : h.hurt = {}
  /\ air' = (air \ {g}) \cup {[bytes |-> new, hurt |-> {where}, reply |-> g.reply]}
  /\ UNCHANGED <<sent, handed, answers>>

DamageFrame(g, i, d) == Damaged(g, Changed(g.bytes, i, d), [in |-> "frame", at |-> i])

DamagePacket(g, i, d) ==
  /\ Word(g.bytes, 13) = TypeIpv4
  /\ Damaged(g, WithCrc(SubSeq(g.bytes, 1, EthernetHeaderLen) \o Changed(Contents(g.bytes), i, d)),
             [in |-> "packet", at |-> i])

-----------------------------------------------------------------------------
IsFrameOf(type, f) == Len(f) > EthernetHeaderLen /\ Word(f, 13) = type

\* Host s gets this packet out of frame f: process_frame up to the reassembler.
PacketsFor(s, f) ==
  LET h == Ipv4Parsed(Contents(f))
  IN  IF /\ IsFrameOf(TypeIpv4, f) /\ FrameAccepted(s.mac, f)
         /\ Ipv4Accepted(Contents(f))
         /\ h.whole /\ h.dst \in {s.ip, BroadcastIp}
      THEN {h} ELSE {}

ArpFor(s, f) ==
  IF IsFrameOf(TypeArp, f) /\ FrameAccepted(s.mac, f) THEN {ArpParsed(Contents(f))} ELSE {}

\* deliver_ip_payload: UDP to a socket, all else, ICMP too, to the output file.
HandedBy(s, f) ==
  LET packets == PacketsFor(s, f)
  IN  {[at |-> s, kind |-> "udp", src |-> h.src, sport |-> Word(h.payload, 1), dport |-> Word(h.payload, 3),
        data |-> SubSeq(h.payload, UdpHeaderLen + 1, Word(h.payload, 5))] :
         h \in {p \in packets : p.proto = 17 /\ UdpAccepted(p, p.payload)}}
      \cup {[at |-> s, kind |-> "file", data |-> h.payload] : h \in {p \in packets : p.proto # 17}}
      \cup {[at |-> s, kind |-> "arp", ip |-> a.ip, mac |-> a.mac] : a \in ArpFor(s, f)}

\* parse_arp_frame, with which resolve_mac reads what its own capture hears:
\* neither the CRC nor the destination is looked at.
Overheard(f) ==
  IF Len(f) >= 42 /\ Word(f, 13) = TypeArp THEN {ArpParsed(SubSeq(f, 15, 42))} ELSE {}

\* handle_icmpv4 and handle_incoming.
AnswersOf(s, f) ==
  {Ipv4Frame(s.mac, SubSeq(f, 7, 12), h.tos, h.proto, s.ip, h.src, EchoReply(h.payload)) :
     h \in {p \in PacketsFor(s, f) : p.proto = 1 /\ EchoAnswered(s.ip, SubSeq(f, 7, 12), p, p.payload)}}
  \cup {Frame(a.mac, s.mac, TypeArp, ArpPayload(2, s.mac, s.ip, a.mac, a.ip)) :
     a \in {p \in ArpFor(s, f) : p.op = 1 /\ p.target = s.ip}}

Arrive(s, g) ==
  /\ AnswersOf(s, g.bytes) = {}
  /\ handed' = handed \cup HandedBy(s, g.bytes)
  /\ UNCHANGED <<sent, air, answers>>

Answer(s, g) ==
  \E f \in AnswersOf(s, g.bytes) :
    /\ air' = air \cup {[bytes |-> f, hurt |-> {}, reply |-> TRUE]}
    /\ handed' = handed \cup HandedBy(s, g.bytes)
    /\ answers' = answers \cup {[by |-> s, to |-> g, with |-> f]}
    /\ UNCHANGED sent

Next ==
  \/ \E a, b \in Station : a # b /\
       \/ \E p, q \in Port, d \in Data : SendTo(a, b, p, q, d)
       \/ WhoHas(a, b)
  \/ \E a \in Station : \E b \in (Station \ {a}) \cup {Everyone}, d \in Data : Ping(a, b, d)
  \/ \E o \in Outsider, b \in Station : ForeignWhoHas(o, b)
  \/ \E g \in air, d \in Damage : \E i \in DOMAIN g.bytes :
       DamageFrame(g, i, d) \/ (i <= Len(g.bytes) - 18 /\ DamagePacket(g, i, d))
  \/ \E s \in Station, g \in air : Arrive(s, g) \/ Answer(s, g)

Spec == Init /\ [][Next]_vars
-----------------------------------------------------------------------------
EchoOf(type, m) == Echo(type, Zeros(4) \o m.data)

\* What host s has to hand up when m reaches it: an echo request by broadcast goes to
\* all; a request of another kind of host is learnt from by all; the program's own
\* ARP request has zeros where handle_frame looks for the CRC, and is dropped.
Due(m, s) ==
  CASE m.kind = "udp" /\ m.to = s ->
         {[at |-> s, kind |-> "udp", src |-> m.from.ip, sport |-> m.sport, dport |-> m.dport, data |-> m.data]}
    [] m.kind = "echo" /\ m.to \in {s, Everyone} -> {[at |-> s, kind |-> "file", data |-> EchoOf(8, m)]}
    [] m.kind = "foreign" -> {[at |-> s, kind |-> "arp", ip |-> m.from.ip, mac |-> m.from.mac]}
    [] OTHER -> {}

\* What a host that listens in resolve_mac reads from an ARP frame.
Says(op, a, target) == [op |-> op, mac |-> a.mac, ip |-> a.ip, target |-> target]

\* An undamaged message passes every filter of its addressees, and of nobody else,
\* header options, odd lengths and carries included, and comes out byte for byte
\* as it went in.  An ARP request is read right by hosts that listen in resolve_mac;
\* recv_loop takes one of another kind of host on every station, and none that
\* this program has built.
ArrivesAsSent ==
  \A m \in sent, g \in air : g.hurt = {} /\ ~g.reply =>
    /\ \A s \in Station : HandedBy(s, g.bytes) = Due(m, s)
    /\ m.kind \in {"request", "foreign"} => Overheard(g.bytes) = {Says(1, m.from, m.to.ip)}

\* The receiver takes a checksum of 0 for none (README.md, section on UDP), and
\* sendto sends 0 when that is what it computes; a changed length field changes
\* what the checksum covers.
Unprotected(m) ==
  \/ UdpChecksum(m.from.ip, m.to.ip,
                 Put(UdpSegment(m.from.ip, m.sport, m.to.ip, m.dport, m.data), 7, <<0, 0>>)) = 0
  \/ \E g \in air : \E h \in g.hurt : h.in = "packet" /\ h.at - 60 \in {5, 6}

\* A datagram with a damaged byte never reaches a socket as another one: not with
\* other data, from another address, or for another port.
SocketsGetWhatWasSent ==
  \A r \in handed, m \in sent : r.kind = "udp" => r \in Due(m, r.at) \/ Unprotected(m)

\* Every header and message sent, in an answer too, satisfies the definition of its
\* checksum for any other implementation: the words sum up to 0 in one's complement.
SumsToZero(s) == Sum(s) % 65535 = 0

ChecksumsVerify ==
  \A g \in air : g.hurt = {} /\ Word(g.bytes, 13) = TypeIpv4 =>
    LET b == Contents(g.bytes)
        h == Ipv4Parsed(b)
    IN  /\ SumsToZero(SubSeq(b, 1, 60))
        /\ h.proto = 1  => SumsToZero(Rest(b, 61))
        /\ h.proto = 17 => SumsToZero(h.src \o h.dst \o <<0, 17>> \o TwoBytes(Len(b) - 60) \o Rest(b, 61))

\* Only the host that is asked answers, and only an undamaged echo request or an
\* undamaged ARP request of another kind of host: nobody answers a damaged frame, an
\* echo request by broadcast, an answer, a datagram, or an ARP request of this program.
\* The answer to an echo request passes the filters of the host that asked and brings
\* its data back; the answer to an ARP request tells whoever reads it without a CRC
\* the address of the host that was asked.
AnswersRight ==
  \A r \in answers, m \in sent :
    /\ r.by = m.to /\ m.kind \in {"echo", "foreign"} /\ r.to.hurt = {} /\ ~r.to.reply
    /\ m.kind = "echo" => HandedBy(m.from, r.with) = {[at |-> m.from, kind |-> "file", data |-> EchoOf(0, m)]}
    /\ m.kind = "foreign" => Overheard(r.with) = {Says(2, m.to, m.from.ip)}
=============================================================================
