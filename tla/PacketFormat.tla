---------------------------- MODULE PacketFormat ----------------------------
(***************************************************************************)
(* The bytes of a packet: Ethernet frames and their CRC (frame.rs), the    *)
(* IPv4 header and its parser (ip/builder.rs, ip/parser.rs), ARP, UDP and  *)
(* ICMP echo, all at the widths of the program.  A byte string is a        *)
(* sequence; byte k of the code is element k + 1.                          *)
(***************************************************************************)
EXTENDS Naturals, Sequences

EthernetHeaderLen == 14
BaseHeaderLen     == 20
OptionsLen        == 40
UdpHeaderLen      == 8
IcmpHeaderLen     == 8
BroadcastMac      == <<255, 255, 255, 255, 255, 255>>
BroadcastIp       == <<255, 255, 255, 255>>
TypeIpv4          == 2048
TypeArp           == 2054

Word(s, i)    == 256 * s[i] + s[i+1]
TwoBytes(n)   == <<n \div 256, n % 256>>
Rest(s, i)    == SubSeq(s, i, Len(s))
Zeros(n)      == [i \in 1..n |-> 0]
Put(s, i, t)  == SubSeq(s, 1, i - 1) \o t \o Rest(s, i + Len(t))

-----------------------------------------------------------------------------
\* Faulty variants, for the check that each property can fail.
CarryDropped(n) == n % 65536
HeaderLenBase(b) == BaseHeaderLen

\* The sum of the 16-bit words, an odd byte as the first of a word.  Both loops
\* over the bytes are folded by halves: the first half, then the second.
Sum(s) ==
  LET over[r \in (1 .. Len(s)) \X (1 .. Len(s))] ==
        LET i == r[1]
            j == r[2]
            mid == (i + j) \div 2
        IN  IF i = j THEN IF i % 2 = 1 THEN 256 * s[i] ELSE s[i]
            ELSE over[<<i, mid>>] + over[<<mid + 1, j>>]
  IN  IF s = <<>> THEN 0 ELSE over[<<1, Len(s)>>]

\* while sum >> 16 != 0: for a u32, twice is enough.
CarryAround(n) == LET once == (n % 65536) + (n \div 65536)
                  IN  (once % 65536) + (once \div 65536)

Checksum(s) == 65535 - CarryAround(Sum(s))

\* A remainder is the set of the bits that are 1.
Poly == {0, 1, 2, 4, 5, 7, 8, 10, 11, 12, 16, 22, 23, 26}
Xor(a, b) == (a \ b) \cup (b \ a)
Shift(c) == LET left == {i + 1 : i \in c \ {31}} IN IF 31 \in c THEN Xor(left, Poly) ELSE left
BitWeights == <<1, 2, 4, 8, 16, 32, 64, 128>>
Bits(b) == {i \in 0..7 : (b \div BitWeights[i + 1]) % 2 = 1}

\* for _ in 0..8
AfterByte(c, b) == Shift(Shift(Shift(Shift(Shift(Shift(Shift(Shift(Xor(c, {24 + i : i \in Bits(b)})))))))))

Crc32(s) ==
  LET over[r \in (SUBSET (0..31)) \X (1 .. Len(s)) \X (1 .. Len(s))] ==
        LET i == r[2]
            j == r[3]
            mid == (i + j) \div 2
        IN  IF i = j THEN AfterByte(r[1], s[i])
            ELSE over[<<over[<<r[1], i, mid>>], mid + 1, j>>]
  IN  (0..31) \ over[<<0..31, 1, Len(s)>>]

\* to_be_bytes
ByteOf(c, k) ==
  LET bit(i) == IF k + i \in c THEN BitWeights[i + 1] ELSE 0
  IN  bit(0) + bit(1) + bit(2) + bit(3) + bit(4) + bit(5) + bit(6) + bit(7)
CrcBytes(c) == <<ByteOf(c, 24), ByteOf(c, 16), ByteOf(c, 8), ByteOf(c, 0)>>

WithCrc(s) == s \o CrcBytes(Crc32(s))

\* build_frame pads behind the CRC.
Frame(dest, src, type, payload) ==
  LET f == WithCrc(dest \o src \o TwoBytes(type) \o payload)
  IN  f \o Zeros(IF Len(f) < 64 THEN 64 - Len(f) ELSE 0)

\* The first filters of handle_frame, for the host of this adapter.
FrameAccepted(mac, f) ==
  /\ Len(f) \in 64 .. 1518
  /\ SubSeq(f, 1, 6) \in {mac, BroadcastMac}
  /\ Rest(f, Len(f) - 3) = CrcBytes(Crc32(SubSeq(f, 1, Len(f) - 4)))

-----------------------------------------------------------------------------
\* build_single_fragment, for a packet in one piece and without DF.
Ipv4Header(h, len) ==
  <<64 + (BaseHeaderLen + OptionsLen) \div 4, h.tos>>
  \o TwoBytes(BaseHeaderLen + OptionsLen + len) \o TwoBytes(h.ident) \o <<0, 0>>
  \o <<h.ttl, h.proto, 0, 0>> \o h.src \o h.dst \o Zeros(OptionsLen)

Ipv4Packet(h, data) ==
  LET header == Ipv4Header(h, Len(data))
  IN  Put(header, 11, TwoBytes(Checksum(header))) \o data

HeaderLenOf(b) == 4 * (b[1] % 16)

\* parse_ipv4_packet returns Ok.
Ipv4Accepted(b) ==
  /\ Len(b) >= BaseHeaderLen
  /\ b[1] \div 16 = 4
  /\ b[1] % 16 >= 5
  /\ Len(b) >= HeaderLenOf(b)
  /\ HeaderLenOf(b) <= Word(b, 3) /\ Word(b, 3) <= Len(b)
  /\ Checksum(Put(SubSeq(b, 1, HeaderLenOf(b)), 11, <<0, 0>>)) = Word(b, 11)

Ipv4Parsed(b) ==
  [tos |-> b[2], whole |-> Word(b, 7) % 16384 = 0, proto |-> b[10],
   src |-> SubSeq(b, 13, 16), dst |-> SubSeq(b, 17, 20),
   payload |-> SubSeq(b, HeaderLenOf(b) + 1, Word(b, 3))]

\* udp_checksum, with the pseudo header before the segment.
UdpChecksum(src, dst, seg) == Checksum(src \o dst \o <<0, 17>> \o TwoBytes(Len(seg) % 65536) \o seg)

UdpSegment(src, sport, dst, dport, data) ==
  LET seg == TwoBytes(sport) \o TwoBytes(dport) \o TwoBytes(UdpHeaderLen + Len(data)) \o <<0, 0>> \o data
  IN  Put(seg, 7, TwoBytes(UdpChecksum(src, dst, seg)))

UdpLengthOnly(h, seg) == Len(seg) >= UdpHeaderLen /\ Word(seg, 5) \in UdpHeaderLen .. Len(seg)

\* The length and checksum tests of handle_udp_packet.
UdpAccepted(h, seg) ==
  /\ Len(seg) >= UdpHeaderLen
  /\ Word(seg, 5) \in UdpHeaderLen .. Len(seg)
  /\ \/ Word(seg, 7) = 0
     \/ Word(seg, 7) = UdpChecksum(h.src, h.dst, Put(SubSeq(seg, 1, Word(seg, 5)), 7, <<0, 0>>))

\* An echo message with its checksum.
Echo(type, rest) ==
  LET e == <<type, 0, 0, 0>> \o rest IN Put(e, 3, TwoBytes(Checksum(e)))

EchoAnyType(ip, peerMac, h, e) ==
  /\ Len(e) >= IcmpHeaderLen /\ peerMac # BroadcastMac
  /\ e[2] = 0
  /\ h.dst = ip
  /\ Checksum(Put(e, 3, <<0, 0>>)) = Word(e, 3)

\* handle_icmpv4 answers a sound request that is not broadcast.
EchoAnswered(ip, peerMac, h, e) ==
  /\ Len(e) >= IcmpHeaderLen /\ peerMac # BroadcastMac
  /\ e[1] = 8 /\ e[2] = 0
  /\ h.dst = ip
  /\ Checksum(Put(e, 3, <<0, 0>>)) = Word(e, 3)

EchoReply(e) == Echo(0, Rest(e, 5))

\* build_arp_payload and parse_arp_payload.
ArpPayload(op, srcMac, srcIp, dstMac, dstIp) ==
  TwoBytes(1) \o TwoBytes(TypeIpv4) \o <<6, 4>> \o TwoBytes(op) \o srcMac \o srcIp \o dstMac \o dstIp

ArpParsed(b) ==
  [op |-> Word(b, 7), mac |-> SubSeq(b, 9, 14), ip |-> SubSeq(b, 15, 18), target |-> SubSeq(b, 25, 28)]
=============================================================================
