# A TLA+ development of the network stack in `net/`

The program is a user-space network stack for teaching, in Rust on libpcap:
Ethernet frames with a CRC, ARP, IPv4 with fragmentation and reassembly, ICMP
echo, UDP sockets and a file transfer over them.  This directory models its
stateful parts in TLA+, checks them with TLC and proves the most important
invariants with TLAPS.  `PROJECT.json` lists components, runs, mutants (the bugs
each property catches), the lines behind each definition, hazards, findings and
theorems.  Paths below are relative to `net/src/`.

## Inventory

| Part | State | Operations | Works with | What makes it correct |
|---|---|---|---|---|
| `enternet/send_queue.rs`, `recv_queue.rs` | frames, capacity, `closed`, condvar | `new`, `push`, `pop`, `close` | producer and worker threads | bounded FIFO; no lost wakeup; `close` frees every `pop` and drops nothing |
| `ip/builder.rs` | `IDENT_COUNTER` (per process) | `build_ipv4_packets` | every sender | fragments tile the payload; identifications differ |
| `ip/reassembly.rs` | buffers by (src, dst, id, proto), each with a start time | `push_fragment`, `remove_expired` | delivery worker | hands up whole payloads of one datagram, at once and only in time |
| `ip/parser.rs`, `ip/checksum.rs` | none | `parse_ipv4_packet`, checksum | builder, delivery worker | inverse of the builder; every sum right for other implementations too |
| `enternet/datalink/send.rs` | a `SendQueue` | `datalink_send`, `enqueue_fragment`, `send_worker` | main and one worker | `Ok` means sent; it returns; errors come back |
| `enternet/datalink/recv.rs` | a `RecvQueue`, a reassembler | `recv_loop`, `handle_frame`, `delivery_worker`, `process_frame` | capture thread and one worker | each good frame is delivered in order, each ARP request answered |
| `enternet/arp.rs` | global cache with TTL | `lookup`, `insert`, `resolve_mac`, `handle_incoming` | senders, `recv_loop`, other hosts | always returns; not before its retries are used up; no stale answers |
| `enternet/frame.rs` | none | `crc32`, `build_frame` | all senders | frames that the receiving side accepts |
| `udp/socket.rs`, `udp/recv.rs` | socket table, two counters, per socket: address, queue, `closed`, condvar | `socket`, `bind`, `recvfrom`, `closesocket`, `find_socket`, `enqueue` | application threads and the delivery worker | datagrams in order, once, to their socket; nobody left asleep |
| `udp/send.rs` | `remote` of a socket (never read) | `sendto` | builder, ARP, libpcap | datagrams that the receiving side verifies and takes as they were |
| `main.rs` | chunks received | file transfer over UDP | UDP sockets, receive thread | the file arrives whole |
| `icmp/icmp_recv.rs` | none | `handle_icmpv4` | delivery worker | one valid reply per valid request, none to anything else |
| `cli/`, `config.rs`, `enternet/net.rs` | none | parsing, interface lookup | `main` | |
| `tcp/` | empty files | | | |

How they interact: `recv_loop` captures frames, answers ARP, and pushes IPv4
frames into a `RecvQueue`; `delivery_worker` pops them, drops expired buffers,
parses, reassembles, and hands packets to ICMP, to a UDP socket or to the output
file.  Sending is the reverse: build fragments, resolve the MAC, and either a
`SendQueue` with `send_worker` (`datalink_send`) or a plain loop of `sendpacket`
(UDP, ICMP).

What is hard here: threads around mutexes and condition variables (queues,
sockets); two critical sections where one operation is meant (`closesocket`,
`recvfrom`, dispatch); frames lost, doubled, delayed and reordered; timeouts
racing late answers (ARP, fragment buffers); 13- and 16-bit fields; a worker
that dies while its producer goes on.  `PROJECT.json` names them line by line
under `hazards`.

## Modules

| Module | Models | Correspondence |
|---|---|---|
| `FifoChannel` | abstract specification | what the frame queues and the queue of a socket promise: values come out once, in order; after shutting, none go in |
| `ClosableQueue` | `SendQueue` and `RecvQueue` (the same code twice) | one action per critical section; `pop` is `PopFrame`, `PopNone` or `PopWait`; `Condvar::wait` releases and sleeps in one step and may wake by itself; `accepted` and `delivered` are history |
| `Reassembler` | `Ipv4Reassembler` as `process_frame` drives it | `Receive(f)` is `remove_expired` and `push_fragment` with its outcomes `PassWhole`, `DropDuplicate`, `Store`, `Assemble`, `Panic`; a byte is a pair of datagram and place, so a payload shows where each byte is from |
| `AnyFragments` | the reassembler against any network | each of a given set of fragments, at any time, any number of times |
| `DatagramPath` | `build_ipv4_packets` on several hosts, network, reassembler | `Begin` takes the identification, `Cut` is one round of the loop; `wire` is never emptied, so a fragment can be lost, doubled, late or out of order |
| `SendPipeline` | `datalink_send` after `build_ipv4_packets` | composes the main thread and `send_worker` with an instance of `ClosableQueue` |
| `UdpSocket` | `udp/socket.rs` and `handle_udp_packet` | `RecvFrom` and `Remove` are the first halves (under the table's lock), `Take`/`RecvClosed`/`RecvWait` and `Close` the second (under the socket's); `Find` and `Enqueue` are the two halves of a dispatch; `names` is history: the addresses each socket has had since the last lookup |
| `UdpFile` | the file transfer of `main.rs` | composes senders, network, the receiver and the link-layer thread with an instance of `UdpSocket`; a call of `recvfrom` and what the loop makes of the datagram is one step, as only the lock is shared; a damaged datagram is skipped, one too long for the buffer ends the receiver |
| `Arp` | cache, `resolve_mac`, the ARP side of `recv_loop` | a call asks, looks at the deadline, listens; all times are ages, moved by `Tick` |
| `RecvPipeline` | `datalink_recv`: capture loop, receive queue, worker | composes `DatagramPath` (senders, network, the worker's reassembler) with an instance of `ClosableQueue`; `Enqueue` is a frame that passes `handle_frame`, `Fetch` and `Process` are one round of `delivery_worker`; a panic leaves the queue without its consumer; `CaptureFails`, `CloseQueue`, `Join` are the end of `recv_loop` |
| `PacketFormat` | the bytes: CRC-32, one's complement sums, Ethernet, IPv4, ARP, UDP and echo, built and parsed | operators, each named for the function of the code; no state |
| `PacketExchange` | one message between hosts, byte for byte | `SendTo`, `Ping` (to one host or by broadcast) and `WhoHas` build the frames of this program, padded behind the CRC; `ForeignWhoHas` is the ARP request of an `Outsider`, a host of another kind, which pads before it; `air` holds the frames on the medium, so that several hosts hear and may answer each; `DamageFrame`, `DamagePacket` change one byte of one; `Arrive` and `Answer` are `handle_frame`, `process_frame` and what they call; `Overheard` is `parse_arp_frame`, with which `resolve_mac` reads frames without looking at the CRC |
| `ClosableQueueProofs`, `ReassemblerProofs` (with `AnyFragments`), `RecvPipelineProofs` (with `DatagramPath`), `SendPipelineProofs`, `ArpProofs`, `UdpSocketProofs`, `UdpFileProofs`, `PacketProofs` | | lemmas and theorems |
| `MC...` | | instances for TLC |

Each component module holds a few faulty variants of its operators
(`NotifyNobody`, `NoGapUnchecked`, ...), named for the bug.  Nothing uses them
but the mutants of `PROJECT.json`, each of which puts one in the place of the
operator after it and must make its property fail.

Data is abstract in all modules but two: frames and payloads are model values or
numbered bytes, checksums are "fits or not", and the order of a `HashMap` is
nondeterministic.  What a check of lengths or checksums drops never reaches the
modelled state.  `PacketFormat` and `PacketExchange` are the complement: there
bytes are bytes, at the widths of the program, and threads and time are left out.

## Runs

| Run | Checks | Bounds, and why they suffice |
|---|---|---|
| `queue` | types and capacity, lost wakeups, drained at the end, refinement of `FifoChannel`, release on close, progress of accepted frames | two consumers, two places, four frames of two kinds: the queue fills, empties and refills, both sleep, one overtakes the other |
| `fragments` | well-formed buffers, nothing complete kept, no hole, header of the first fragment, freshness | nine fragments: regular, overlapping, empty, too long, a second "last" one, a datagram too long for 16 bits; clock to 4 with timeout 2, so buffers expire and start again |
| `path` | `Integrity`, `FragmentsTile`, `ReturnsWhenComplete` | two datagrams of one or two hosts, one and three fragments (20 bytes a fragment, not a multiple of 8, as a harder case than 1400); the clock passes the timeout |
| `send` | `OkMeansSent`, `ShortPayloadsNotRefused`, `SendReturns`, the queue used by its specification | one to four fragments through two places; the worker lags, fails to open, or fails on any frame |
| `recv` | `ReturnsAfterWorker`, refinement of `DatagramPath`, `ArrivedIsHandedUp`, `ReceptionEnds` | one sender with two datagrams of two fragments each, one of which panics the worker when it is complete; three frames, foreign ones among them, through two places; buffers expire |
| `codec` | `ArrivesAsSent`, `SocketsGetWhatWasSent`, `ChecksumsVerify`, `AnswersRight` | one message (UDP, echo to one host or by broadcast, ARP) between two hosts in either direction, or an ARP request of a third, of another kind; the message or its answer with one byte damaged, each in turn, on the medium or in a bridge that renews the CRC; every host hears every frame, any number of times; data of odd length, full of ones, and such that the UDP checksum comes out as 0 |
| `udp` | types, wakeups, closed sockets, addressing, refinement of `FifoChannel` by each socket, release on close, nobody asleep on data | two sockets that can share a port, two threads, two dispatched datagrams: one for the address `socket` gives the second socket, which `bind` takes from it, and one broadcast, which both get or either, once bound to one address; the port counter wraps |
| `udpfile` | `FileTypeOK`, `WholeOfOne`, `EndsWhenAllQueued` | two senders with files of two and three chunks, so that indices are beyond the total the other set; four datagrams get as far as the socket: a file and a double, a damaged one, or a foreign chunk |
| `arp` | types and retry limit, `GivesUpLate`, `AnswersAreRecent`, `CallsReturn` | one caller (the program has one), one peer that moves between two adapters, two attempts, all times 1, one frame of the peer at a time; two at a time also pass, in about ten times the states |

`CHECK_DEADLOCK FALSE` is in every configuration because every one of these
systems may really stop: consumers done, clock at its bound, calls returned.

Runs that must fail, each a disagreement between code and documentation
(`findings` in `PROJECT.json`):

| Run | What TLC finds |
|---|---|
| `path_restart` | `IDENT_COUNTER` starts at 0 in every process; a restarted sender's fragments complete a buffer of its previous run |
| `path_large` | header plus payload length overflows `u16`: the fragment that completes the packet panics the worker |
| `arp_crc` | the program's own ARP requests carry the CRC before the padding, and the program's receiver drops them; with `PaddedFirst` a peer that does it the other way is heard |

In four more places the code departs from its documentation or does what that leaves
open; the properties say exactly what the code does there, or leave it out:

* `bind` refuses no port that is taken, and `socket` takes the next of a counter that
  wraps, in use or not, although `udp/README.md:65` asks for a check of conflicts
  (`端口为服务端周知端口时需检测冲突，避免重复绑定`) and line 45 for a port not in use
  (`分配一个未被占用的本地端口`).  Of two sockets on one address the `HashMap` yields either,
  and `Addressed` holds for whichever it is.  The trace needs no model checker: two
  calls of `bind` with one address both return `Ok`.
* A datagram longer than the caller's buffer is taken off the queue and lost with an
  error (`udp/socket.rs:99`), where the excerpt in `udp/README.md:225` cuts it to the
  buffer.  The model follows the code: `Take` counts it as received, and in `UdpFile`
  `TakeLong` ends the receiver.
* A payload of more fragments than `SEND_QUEUE_CAPACITY` may lose some to a full queue
  and still end in `Ok` (`ShortPayloadsNotRefused` says that shorter ones never do).
* `sendto` sends a checksum of 0 when that is what it computes, which the receiver
  takes for none (`Unprotected` is the exception that `SocketsGetWhatWasSent` makes
  for it).

## Fairness

Only what the code's own threads owe.  A thread that is awake and wants a lock
gets it and goes on (`WF` of `Pop`, `Recv`, `Close`, `Main`, `Finish`, `Work`, `Receive`, `Deliver`); nobody has
to call a function, send a frame or wake up spuriously.  In `Arp`, `next_packet`
returns (the device is opened with a timeout of one second, `datalink/mod.rs`)
and time passes; nothing is assumed of peers or network.  In `SendPipeline`
libpcap takes or refuses a frame in time.  In `RecvPipeline` the capture owes
nothing: it may never see a frame and never end.  The runs of `fragments`, `path`
and `codec` have no liveness: `ReturnsWhenComplete` is about one step.

## Proofs

All theorems hold for every value of the constants under the named assumptions
of the modules (`QueueAssumption`, `ReassemblerAssumption`, `PathAssumption`,
`SendAssumption`, `RecvAssumption`, `ArpAssumption`, `UdpAssumption`,
`FileAssumption`, `ExchangeAssumption`), which TLC evaluates in the runs.  The last
says that the hosts that run the program have different addresses, none of them the
broadcast address, while those of another kind may have any; that ports and bytes
have their widths, and that data fit one fragment and are not empty (`sendto` refuses
empty data).

* `ClosableQueueProofs`: `TypeOK`; `NoLostWakeup`, inductive with `TypeOK`, by
  counting woken consumers (a push adds a frame and wakes one if any sleeps; a
  pop takes a frame and a woken consumer, or a frame only); `DrainedWhenDone`;
  `Fifo`; and from it that every step of the queue is a step of `FifoChannel` or
  a stutter.
* `ReassemblerProofs`, for any set of fragments: `ReassemblerInv` says that buffers
  are well formed and none is complete; it is needed because `Assemble` is only
  tried when a fragment comes in.  `NoGapCovers` (a set of fragments without gap
  covers every byte up to its end, by a least uncovered byte) gives `NoHole`, and
  its converse `CoversNoGap` gives `NothingCompleteHeld`.
* `RecvPipelineProofs`, on `DatagramPath`: `PayloadsArriveIntact`, that is `Spec => []Integrity` if
  payloads fit the offset field (`LengthsFit`) and identifications are not used
  up (`IdentsLast`).  The inductive invariant `PathInv` adds that (source,
  identification) determines the datagram (`SentInv`, `CounterInv`), that every
  cut starts at a multiple of 8 (`BuildingInv`), and that what is on the wire and
  in the buffers lies where its offset says (`WireInv`).  `path_restart` shows
  that the second proviso cannot go.  `FragmentsTilePayload` adds `TileInv`: the
  bytes in front of a cut are those of the fragments sent, once each.
  `CompletedIsReturned` needs the stronger `TotalsFit` (header and payload fit 16
  bits, where `LengthsFit` is about the offset field); `path_large` shows that it
  cannot go either.
* `RecvPipelineProofs`, on `RecvPipeline`: `CapturedInv` (queue and worker hold only frames that were
  on the wire) makes every step of the threads a step of `DatagramPath` or a
  stutter: that is `PipelineIsPath`, and `ReceivedIntact` is `PayloadsArriveIntact`
  carried over.  `OrderInv` (accepted is delivered followed by queued) and
  `WorkerInv` (a worker is done only with everything empty, and failed exactly
  when the reassembler has panicked) give `ReturnsLast`.  `RecvQueueUsed`: each step
  is one of `ClosableQueue` on the frames of the network, or leaves the queue alone.
  `RestedLeavesNothing` is what `ArrivedIsHandedUp` says once the worker sleeps or has
  ended: no frame is in the queue or in its hand (`RestInv`), each fragment
  it has processed is in its buffer, or its datagram handed up, or the buffer expired
  (`KeptInv`, where `OneAtOffset` is needed: a fragment dropped as a duplicate is
  in the buffer already), and a buffer with all fragments of a datagram would be complete,
  which `ReassemblerInv` excludes.  It assumes that a frame from the network is not
  the foreign one (`ForeignApart`), which in the runs is a model value.
  `ReturnIsNear` is what `ReceptionEnds` says without fairness: the worker that is joined does not
  sleep, and every step but those of the network lowers `LeftToReturn`.
* `SendPipelineProofs`: `SentInv` (what the queue took is what the device took, the
  frame in hand, and the queue), `EndInv` (who has ended, and what is then empty),
  `AscendInv` (everything in the order of the fragments) and `CountInv` give
  `OkMeansSent` and `ShortPayloadsNotRefused`.  `QueueUsed` is `UsesSendQueue` but
  for the fairness of the queue's threads.  `NeverStuck` and `SendGetsOn` are what `SendReturns`
  says without fairness: main never finds the queue without room and without a refusal, and
  never joins a worker that sleeps; and every step but a spurious wakeup lowers `Left`,
  which starts at 4 for each fragment and 7.
* `ArpProofs`: `ElapsedInv` (the time of a call is at least that of its attempts so
  far, the present one by its timer) gives `GivesUpLate`; `SeenInv` (an address in
  a frame was its adapter's within the age of the frame, and in a live entry within
  the age of the entry and one delay) gives `AnswersAreRecent`, an action property.
* `UdpSocketProofs`: `TypeOK`, `ClosedIsGone`, `Fifo`, `NoLostWakeup`, `Addressed`, and
  from `Fifo` that each socket implements `FifoChannel` (`SocketsAreChannels`, for all sockets
  at once as the run checks it, and `SocketIsChannel` for one); `Counted` says that
  no more datagrams are under way than were dispatched.
  None but the first is inductive alone: `Owner` says that a thread in `closesocket`
  has its socket out of the table, unclosed and for itself, that a closed socket
  is out of the table and empty, and that an open one has thrown nothing away;
  `NamesKnown`, for `Addressed`, that the datagram in hand matched an address its
  socket has had since it was found, the present one among them.
* `UdpFileProofs`: `StoreInv` (each slot holds its sender's chunk and that chunk was
  queued to the socket; a total comes from a sender of a stored chunk; a file is
  there only when every slot is) gives `WholeOfOne`, and with it `FileTypeOK`;
  `SocketUsed` carries what is proved of `UdpSocket` over to this one.
  `TakenInv` (a chunk that was taken is in its slot, or its index is not below the
  total) and `WantsInv` (the receiver goes on only while a slot is empty, and sleeps
  only with an empty queue) give `StopsOnlyForMore`, the safe half of `EndsWhenAllQueued`.
* `PacketProofs`, the four properties of `codec` for every station, port and content.
  From the bottom up:
  - `Sum` and `Crc32` fold by halves what the code folds byte by byte.  `Crc32Is`
    and `SumIsPrefix` bring them back to a run from left to right, unique by a least
    counterexample (`LeastNatural`, from the well-foundedness of finite subsets),
    since induction on a predicate cannot be instantiated.
  - A step of the CRC is injective in the remainder and in the byte
    (`AfterByteTells`), so two strings that differ in one byte end with different
    remainders, and a frame with a changed byte is refused wherever it is, the four
    bytes of the CRC included (`DamagedFrameRefused`).
  - A checksum put where there were zeros makes the words sum up to 0 in one's
    complement, and a changed byte changes the sum by less than 65535 and not by 0,
    so the sum tells it (`DamageTells`).  This gives the header (`DamagedHeaderRefused`),
    the datagram with its pseudo header (`DamagedUdp`) and the echo message
    (`DamagedEcho`).
  - Each builder is described by what it puts at which place (`Built`, `UdpBuilt`,
    `EchoBuilt`, `ArpBytes`) and each parser by what it reads there: `PacketParsed`,
    `UdpReadsIs`, `EchoFields`, `ArpRead`.
  - The inductive invariant `PacketInv`: each frame on the medium is the message or
    its answer as it was built, or a frame that every host refuses, or a packet of which one
    byte of the payload has been changed (`InFlight`); with `SocketsGetWhatWasSent` and
    `AnswersRight`.
  - An ARP frame of this program, request or answer, is padded behind its CRC.  Every
    station refuses it, also with any one byte changed by any amount: no damage makes its
    CRC right (`PaddedRefused`, `OwnArpLost`).  Its remainder at the end is the same
    for every such frame (`PaddedRun`), and that of a frame with a right CRC is another
    constant (`RightRun`).  The CRC is linear (`ShiftLinear`), so a change of one byte
    would have to enter as what leads from one to the other: `Back` follows that back
    from the end, and at no place is it a byte's.
  Hence `MessagesArrive`, `SocketsSafe`, `ChecksumsRight` and `RequestsAnswered`, which are
  the properties themselves.

Only model-checked: all liveness (`CloseReleasesAll`, `EveryAcceptedPopped`,
`SendReturns`, `ArrivedIsHandedUp`, `ReceptionEnds`, `CloseReleases`,
`NobodySleepsOnData`, `EndsWhenAllQueued`, `CallsReturn`), which is out of the
prover's reach, and with it the fairness in `UsesSendQueue`.  Every other property of a
run that passes is a theorem.  Of the liveness the safe half is proved where it is most in
doubt: `NeverStuck` and `SendGetsOn`, `RestedLeavesNothing` and `ReturnIsNear`,
`StopsOnlyForMore`, and for queues and sockets `NoLostWakeup`;
what is left to fairness is that a thread that can go on does.

## Not modelled

`cli`, `config` and `net.rs` parse arguments or ask the operating system, and keep
no state; `tcp` is empty.  Static ARP entries are left out: the one command that
enters one reads the cache no more.  `set_remote` stores a value nothing reads.
The choice of the next hop (destination or gateway) is a pure comparison, and the
address it picks is the target of a call in `Arp`.  A `sendpacket` that fails
half-way through the fragments of `sendto` is, for the receiver, a lost fragment.
Poisoned mutexes are not modelled: no critical section of the queues or sockets
can panic.  The bytes of fragmented packets are modelled only as places
(`DatagramPath`), those of whole packets in `PacketExchange`.

## Plan

In this order, all but the ninth being done:

1. queues: `FifoChannel`, `ClosableQueue`, proofs;
2. IPv4: `Reassembler`, `AnyFragments`, `DatagramPath`, proofs;
3. `UdpSocket`, proofs;
4. `SendPipeline` over `ClosableQueue`, proofs;
5. `Arp`, proofs;
6. `UdpFile` over `UdpSocket`, proofs;
7. `RecvPipeline` over `DatagramPath` and `ClosableQueue`, proofs;
8. bytes: `PacketFormat`, `PacketExchange`, proofs;
9. payloads beyond 64 KiB in `DatagramPath` (the 13-bit offset wraps).

The abstract specifications are `FifoChannel`, for the queues and the sockets, and
`DatagramPath`, for `RecvPipeline`.  A third, of a resolver (what `Arp` promises its callers),
would say no more than `GivesUpLate` and `AnswersAreRecent` do, and is not written.
