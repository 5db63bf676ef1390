------------------------------ MODULE UdpFile ------------------------------
(***************************************************************************)
(* The file transfer of main.rs: run_udp_send_file on some hosts, a        *)
(* network that loses, doubles and reorders datagrams, and on this host    *)
(* run_udp_recv_file with the thread of datalink_recv behind it.  The      *)
(* receiver and that thread share one socket of UdpSocket.                 *)
(***************************************************************************)
EXTENDS Naturals, Sequences, FiniteSets

CONSTANTS Receiver,       \* the thread of run_udp_recv_file
          Sender,         \* the hosts that send a file here
          Chunks,         \* the number of chunks of each sender's file
          Junk,           \* what else comes to the port: records like Chunk's
          Ip, LocalIp, AnyIp,
          ListenPort,     \* the port of the command line
          PortRange, FirstPort,
          MaxDatagrams    \* bound: datagrams that find the socket

ASSUME FileAssumption ==
  /\ Chunks \in [Sender -> Nat \ {0}]
  /\ \A j \in Junk : j.kind \in {"damaged", "long"}
  /\ {LocalIp, AnyIp} \subseteq Ip
  /\ PortRange \in Nat \ {0}
  /\ {ListenPort, FirstPort} \subseteq 0 .. PortRange - 1
  /\ MaxDatagrams \in Nat

VARIABLES main,    \* where the receiver is
          total,   \* total_chunks, an Option: a set of at most one element
          slots,   \* received: for each index it has, who sent the chunk
          file,    \* what was written, an Option
          next,    \* how many chunks each sender has sent
          wire,    \* the chunks that are, or were, on the network
          table, nextId, nextPort, local, names, queue, closed, pc, on, found,
          accepted, received, cleared, arrived      \* the sockets of this host

fileVars == <<main, total, slots, file, next, wire>>
sockVars == <<table, nextId, nextPort, local, names, queue, closed, pc, on, found,
              accepted, received, cleared, arrived>>
vars     == <<fileVars, sockVars>>

\* A chunk behind its 12 bytes of total, index and length.  A datagram is
\* "damaged" when it is shorter than that or than its length says, and "long"
\* when it does not fit the buffer of 2048 bytes.
Chunk(s, i) == [kind |-> "chunk", total |-> Chunks[s], idx |-> i, from |-> s]

Index(s) == 0 .. Chunks[s] - 1
AllChunks == UNION {{Chunk(s, i) : i \in Index(s)} : s \in Sender}

Here      == [ip |-> LocalIp, port |-> ListenPort]
ToHere(c) == [ip |-> LocalIp, port |-> ListenPort, data |-> c]

Sock == INSTANCE UdpSocket
          WITH Thread <- {Receiver}, MaxSockets <- 1, BindTo <- {Here},
               Datagram <- {ToHere(c) : c \in AllChunks \cup Junk}

sock == 1

Init ==
  /\ main = "starting"
  /\ total = {}
  /\ slots = [i \in {} |-> Receiver]
  /\ file = {}
  /\ next = [s \in Sender |-> 0]
  /\ wire = {}
  /\ Sock!Init

-----------------------------------------------------------------------------
\* A round of the loop in run_udp_send_file.  A sender that fails sends no more.
SendChunk(s) ==
  /\ next[s] \in Index(s)
  /\ wire' = wire \cup {Chunk(s, next[s])}
  /\ next' = [next EXCEPT ![s] = @ + 1]
  /\ UNCHANGED <<main, total, slots, file, sockVars>>

\* The link-layer thread, started before the socket is there, takes a datagram
\* as far as the socket; where it finds none the datagram is dropped.
Dispatch(c) == Sock!Find(ToHere(c), sock) /\ UNCHANGED fileVars

Deliver == /\ \E f \in found : Sock!Enqueue(f)
           /\ UNCHANGED fileVars

OpenSocket ==
  /\ main = "starting"
  /\ Sock!Socket
  /\ main' = "binding"
  /\ UNCHANGED <<total, slots, file, next, wire>>

BindSocket ==
  /\ main = "binding"
  /\ Sock!Bind(sock, Here)
  /\ main' = "looping"
  /\ UNCHANGED <<total, slots, file, next, wire>>

CallRecv ==
  /\ main = "looping"
  /\ Sock!RecvFrom(Receiver, sock)
  /\ main' = "receiving"
  /\ UNCHANGED <<total, slots, file, next, wire>>

Sleep ==
  /\ main = "receiving"
  /\ Sock!RecvWait(Receiver)
  /\ UNCHANGED fileVars

Spurious == Sock!Spurious(Receiver) /\ UNCHANGED fileVars

-----------------------------------------------------------------------------
\* Faulty variants, for the check that each property can fail.
IndexUnchecked(c) == TRUE
HaveLast(sl, n) == n - 1 \in DOMAIN sl
HaveOneMore(sl, n) == 0 .. n \subseteq DOMAIN sl

TotalOf(c) == IF total = {} THEN {c.total} ELSE total

InRange(c) == \A n \in TotalOf(c) : c.idx < n

\* A chunk that is there already is kept.
Stored(c) ==
  [i \in DOMAIN slots \cup {c.idx} |-> IF i \in DOMAIN slots THEN slots[i] ELSE c.from]

\* have == total
HaveAll(sl, n) == 0 .. n - 1 \subseteq DOMAIN sl

Got(kind, c) ==
  /\ c.kind = kind
  /\ Sock!Take(Receiver)
  /\ UNCHANGED <<next, wire>>

\* recvfrom fails, and the receiver with it.
TakeLong(c) ==
  /\ Got("long", c)
  /\ main' = "failed"
  /\ UNCHANGED <<total, slots, file>>

SkipDamaged(c) ==
  /\ Got("damaged", c)
  /\ main' = "looping"
  /\ UNCHANGED <<total, slots, file>>

SkipBeyond(c) ==
  /\ Got("chunk", c)
  /\ ~InRange(c)
  /\ total' = TotalOf(c)
  /\ main' = "looping"
  /\ UNCHANGED <<slots, file>>

Store(c) ==
  /\ Got("chunk", c)
  /\ InRange(c)
  /\ total' = TotalOf(c)
  /\ slots' = Stored(c)
  /\ \A n \in TotalOf(c) : ~HaveAll(Stored(c), n)
  /\ main' = "looping"
  /\ UNCHANGED file

\* The last chunk missing: the file is written, or fs::write fails.
Write(c) ==
  /\ Got("chunk", c)
  /\ InRange(c)
  /\ total' = TotalOf(c)
  /\ slots' = Stored(c)
  /\ \A n \in TotalOf(c) : HaveAll(Stored(c), n)
  /\ \/ main' = "closing" /\ file' = {Stored(c)}
     \/ main' = "failed" /\ UNCHANGED file

TakeChunk ==
  /\ main = "receiving"
  /\ queue[sock] # <<>>
  /\ LET c == Head(queue[sock]).data
     IN  TakeLong(c) \/ SkipDamaged(c) \/ SkipBeyond(c) \/ Store(c) \/ Write(c)

\* closesocket, in its two halves.
CloseSocket ==
  /\ main = "closing"
  /\ \/ Sock!Remove(Receiver, sock) /\ UNCHANGED main
     \/ Sock!Close(Receiver) /\ main' = "done"
  /\ UNCHANGED <<total, slots, file, next, wire>>

Receive == OpenSocket \/ BindSocket \/ CallRecv \/ Sleep \/ TakeChunk \/ CloseSocket

Next ==
  \/ Receive
  \/ Spurious
  \/ Deliver
  \/ \E s \in Sender : SendChunk(s)
  \/ \E c \in wire \cup Junk : Dispatch(c)

\* The receiver and the link-layer thread go on; the senders and the network owe
\* nothing.
Spec == Init /\ [][Next]_vars /\ WF_vars(Receive) /\ WF_vars(Deliver)

-----------------------------------------------------------------------------
\* Every variable has its type, and no chunk is stored beyond the total that the
\* first one gave.
FileTypeOK ==
  /\ main \in {"starting", "binding", "looping", "receiving", "closing", "done", "failed"}
  /\ total = {} \/ \E s \in Sender : total = {Chunks[s]}
  /\ DOMAIN slots \subseteq UNION {0 .. n - 1 : n \in total}
  /\ slots \in [DOMAIN slots -> Sender]
  /\ file \subseteq {slots}
  /\ next \in [Sender -> Nat]
  /\ \A s \in Sender : next[s] <= Chunks[s]
  /\ wire \subseteq AllChunks

\* The chunks of sender s that were queued to the socket.
QueuedFrom(s) ==
  {i \in Index(s) : \E n \in 1 .. Len(accepted[sock]) : accepted[sock][n].data = Chunk(s, i)}

\* The file written is as long as one sender said, and every place of it holds
\* the chunk of that place of a sender whose chunk came in: loss, doubles and
\* reordering do no harm.  It is the whole file of one sender if chunks of no
\* other came in; with two senders at a time the chunks are mixed.
WholeOfOne ==
  \A f \in file :
    /\ \E s \in Sender : DOMAIN f = Index(s)
    /\ \A i \in DOMAIN f : i \in QueuedFrom(f[i])
    /\ \/ \E s \in Sender : f = [i \in Index(s) |-> s]
       \/ \E r, s \in Sender : r # s /\ QueuedFrom(r) # {} /\ QueuedFrom(s) # {}

\* When every chunk of a file has been queued to the socket the receiver ends,
\* whatever damaged datagrams come between, unless another sender's chunk had
\* set another total.
EndsWhenAllQueued ==
  \A s \in Sender :
    QueuedFrom(s) = Index(s) ~> main \in {"done", "failed"} \/ total \notin {{}, {Chunks[s]}}
=============================================================================
