----------------------------- MODULE UdpSocket -----------------------------
(***************************************************************************)
(* The UDP sockets (udp/socket.rs) and handle_udp_packet (udp/recv.rs).    *)
(* Application threads create, bind, read and close sockets while the      *)
(* delivery worker finds a socket for each datagram and enqueues it.  The  *)
(* socket table and each socket have a lock of their own, so recvfrom,     *)
(* closesocket and the dispatch of a datagram are two critical sections    *)
(* each, with other threads between them.                                  *)
(***************************************************************************)
EXTENDS Naturals, Sequences, FiniteSets

CONSTANTS Thread,         \* the threads that call the socket functions
          Ip,             \* the addresses of sockets and datagrams
          LocalIp,        \* the address of the interface
          AnyIp,          \* 0.0.0.0
          BindTo,         \* the addresses that bind is called with
          Datagram,       \* what arrives: [ip, port, data], ip and port its destination
          PortRange,      \* 2^16
          FirstPort,      \* 49152, where EPHEMERAL_PORT starts
          MaxSockets,     \* bound: sockets created
          MaxDatagrams    \* bound: datagrams that find a socket

Id      == 1 .. MaxSockets
Port    == 0 .. PortRange - 1
Address == [ip : Ip, port : Port]

ASSUME UdpAssumption ==
  /\ IsFiniteSet(Thread)
  /\ {LocalIp, AnyIp} \subseteq Ip
  /\ PortRange \in Nat \ {0}
  /\ FirstPort \in Port
  /\ BindTo \subseteq Address
  /\ \A d \in Datagram : d.ip \in Ip /\ d.port \in Port
  /\ MaxSockets \in Nat
  /\ MaxDatagrams \in Nat

VARIABLES table,       \* the ids in SOCKETS
          nextId,      \* NEXT_SOCKET_ID
          nextPort,    \* EPHEMERAL_PORT
          local,       \* SocketInner.local_ip and local_port
          queue,       \* SocketInner.queue
          closed,      \* SocketInner.closed
          pc,          \* what each thread is doing
          on,          \* the socket it does that to, 0 when idle
          names,       \* history: the addresses each socket has had since the last find_socket
          found,       \* the socket and the datagram in hand of handle_udp_packet, if any
          accepted,    \* history: what enqueue put in each queue
          received,    \* history: what recvfrom took out
          cleared,     \* history: what close threw away
          arrived      \* history: how many datagrams found a socket

vars == <<table, nextId, nextPort, local, names, queue, closed, pc, on, found,
          accepted, received, cleared, arrived>>

(***************************************************************************)
(* "idle" outside the socket functions; "entered" in recv_blocking, going  *)
(* for the lock; "waiting" in recv_cv.wait; "woken" out of it, going for   *)
(* the lock; "closing" in closesocket, after its table.remove.             *)
(***************************************************************************)
Pc == {"idle", "entered", "waiting", "woken", "closing"}

In(p, s)   == {t \in Thread : pc[t] = p /\ on[t] = s}
Waiting(s) == In("waiting", s)
Woken(s)   == In("woken", s)
Receiving  == {"entered", "waiting", "woken"}

Init ==
  /\ table = {}
  /\ nextId = 1
  /\ nextPort = FirstPort
  /\ local = [s \in Id |-> [ip |-> AnyIp, port |-> 0]]
  /\ names = [s \in Id |-> {}]
  /\ queue = [s \in Id |-> <<>>]
  /\ closed = [s \in Id |-> FALSE]
  /\ pc = [t \in Thread |-> "idle"]
  /\ on = [t \in Thread |-> 0]
  /\ found = {}
  /\ accepted = [s \in Id |-> <<>>]
  /\ received = [s \in Id |-> <<>>]
  /\ cleared = [s \in Id |-> <<>>]
  /\ arrived = 0

\* Faulty variants, for the check that each property can fail.
NotifyNobody(s) == UNCHANGED pc

NotifyOne(s) ==
  \/ Waiting(s) = {} /\ UNCHANGED pc
  \/ \E t \in Waiting(s) : pc' = [pc EXCEPT ![t] = "woken"]

Rename(s, a) ==
  /\ local' = [local EXCEPT ![s] = a]
  /\ names' = [names EXCEPT ![s] = @ \cup {a}]

-----------------------------------------------------------------------------
NextPortUnwrapped == nextPort + 1

\* fetch_add on the AtomicU16 wraps.
NextPort == (nextPort + 1) % PortRange

\* create_socket_on_iface takes the next port and the next id as they come.
Socket ==
  /\ nextId \in Id
  /\ table' = table \cup {nextId}
  /\ Rename(nextId, [ip |-> LocalIp, port |-> nextPort])
  /\ nextId' = nextId + 1
  /\ nextPort' = NextPort
  /\ UNCHANGED <<queue, closed, pc, on, found, accepted, received, cleared, arrived>>

\* bind sets the address and looks at no other socket.  It looks its own up
\* first, so another thread may have closed that in between.
Bind(s, a) ==
  /\ s < nextId
  /\ Rename(s, a)
  /\ UNCHANGED <<table, nextId, nextPort, queue, closed, pc, on, found, accepted, received,
                 cleared, arrived>>

\* recvfrom: get_socket gives the thread the socket, in the table or not later.
RecvFrom(t, s) ==
  /\ pc[t] = "idle"
  /\ s \in table
  /\ pc' = [pc EXCEPT ![t] = "entered"]
  /\ on' = [on EXCEPT ![t] = s]
  /\ UNCHANGED <<table, nextId, nextPort, local, names, queue, closed, found, accepted, received,
                 cleared, arrived>>

AtLock(t) == pc[t] \in {"entered", "woken"}

TakeNewest(t) ==
  LET s == on[t] IN
  /\ AtLock(t)
  /\ queue[s] # <<>>
  /\ queue' = [queue EXCEPT ![s] = SubSeq(@, 1, Len(@) - 1)]
  /\ received' = [received EXCEPT ![s] = Append(@, queue[s][Len(queue[s])])]
  /\ pc' = [pc EXCEPT ![t] = "idle"]
  /\ on' = [on EXCEPT ![t] = 0]
  /\ UNCHANGED <<table, nextId, nextPort, local, names, closed, found, accepted, cleared, arrived>>

\* recv_blocking pops a datagram.  Whether the caller gets it or, the buffer
\* being too short, an error, it has left the queue.
Take(t) ==
  LET s == on[t] IN
  /\ AtLock(t)
  /\ queue[s] # <<>>
  /\ queue' = [queue EXCEPT ![s] = Tail(@)]
  /\ received' = [received EXCEPT ![s] = Append(@, Head(queue[s]))]
  /\ pc' = [pc EXCEPT ![t] = "idle"]
  /\ on' = [on EXCEPT ![t] = 0]
  /\ UNCHANGED <<table, nextId, nextPort, local, names, closed, found, accepted, cleared, arrived>>

RecvClosed(t) ==
  /\ AtLock(t)
  /\ queue[on[t]] = <<>>
  /\ closed[on[t]]
  /\ pc' = [pc EXCEPT ![t] = "idle"]
  /\ on' = [on EXCEPT ![t] = 0]
  /\ UNCHANGED <<table, nextId, nextPort, local, names, queue, closed, found, accepted, received,
                 cleared, arrived>>

RecvWait(t) ==
  /\ AtLock(t)
  /\ queue[on[t]] = <<>>
  /\ ~closed[on[t]]
  /\ pc' = [pc EXCEPT ![t] = "waiting"]
  /\ UNCHANGED <<table, nextId, nextPort, local, names, queue, closed, on, found, accepted, received,
                 cleared, arrived>>

Spurious(t) ==
  /\ pc[t] = "waiting"
  /\ pc' = [pc EXCEPT ![t] = "woken"]
  /\ UNCHANGED <<table, nextId, nextPort, local, names, queue, closed, on, found, accepted,
                 received, cleared, arrived>>

\* closesocket, first half: no lookup finds the socket any more.
Remove(t, s) ==
  /\ pc[t] = "idle"
  /\ s \in table
  /\ table' = table \ {s}
  /\ pc' = [pc EXCEPT ![t] = "closing"]
  /\ on' = [on EXCEPT ![t] = s]
  /\ UNCHANGED <<nextId, nextPort, local, names, queue, closed, found, accepted, received,
                 cleared, arrived>>

CloseQuietly(t) ==
  LET s == on[t] IN
  /\ pc[t] = "closing"
  /\ closed' = [closed EXCEPT ![s] = TRUE]
  /\ queue' = [queue EXCEPT ![s] = <<>>]
  /\ cleared' = [cleared EXCEPT ![s] = queue[s]]
  /\ pc' = [pc EXCEPT ![t] = "idle"]
  /\ on' = [on EXCEPT ![t] = 0]
  /\ UNCHANGED <<table, nextId, nextPort, local, names, found, accepted, received, arrived>>

CloseKeepQueue(t) ==
  LET s == on[t] IN
  /\ pc[t] = "closing"
  /\ closed' = [closed EXCEPT ![s] = TRUE]
  /\ pc' = [u \in Thread |-> IF u = t THEN "idle" ELSE IF u \in Waiting(s) THEN "woken" ELSE pc[u]]
  /\ on' = [on EXCEPT ![t] = 0]
  /\ UNCHANGED <<table, nextId, nextPort, local, names, queue, cleared, found, accepted,
                 received, arrived>>

\* closesocket, second half: UdpSocket::close.
Close(t) ==
  LET s == on[t] IN
  /\ pc[t] = "closing"
  /\ closed' = [closed EXCEPT ![s] = TRUE]
  /\ queue' = [queue EXCEPT ![s] = <<>>]
  /\ cleared' = [cleared EXCEPT ![s] = queue[s]]
  /\ pc' = [u \in Thread |-> IF u = t THEN "idle" ELSE IF u \in Waiting(s) THEN "woken" ELSE pc[u]]
  /\ on' = [on EXCEPT ![t] = 0]
  /\ UNCHANGED <<table, nextId, nextPort, local, names, found, accepted, received, arrived>>

\* An index by the address that socket() gave, which bind does not move.
MatchesAsCreated(s, d) == d.ip = LocalIp /\ d.port = (FirstPort + s - 1) % PortRange

Matches(s, d) ==
  /\ local[s].port = d.port
  /\ local[s].ip = d.ip \/ local[s].ip = AnyIp

\* find_socket runs through the table in no particular order and locks one
\* socket at a time.  A datagram that finds none is dropped, as is a damaged one.
Find(d, s) ==
  /\ arrived < MaxDatagrams
  /\ found = {}
  /\ s \in table
  /\ Matches(s, d)
  /\ found' = {[sock |-> s, dgram |-> d]}
  /\ names' = [r \in Id |-> {local[r]}]
  /\ arrived' = arrived + 1
  /\ UNCHANGED <<table, nextId, nextPort, local, queue, closed, pc, on, accepted, received,
                 cleared>>

EnqueueLate(f) ==
  /\ found' = found \ {f}
  /\ queue' = [queue EXCEPT ![f.sock] = Append(@, f.dgram)]
  /\ accepted' = [accepted EXCEPT ![f.sock] = Append(@, f.dgram)]
  /\ NotifyOne(f.sock)
  /\ UNCHANGED <<table, nextId, nextPort, local, names, closed, on, received, cleared, arrived>>

\* The socket may have been closed since it was found.
Enqueue(f) ==
  /\ found' = found \ {f}
  /\ IF closed[f.sock]
     THEN UNCHANGED <<queue, accepted, pc>>
     ELSE /\ queue' = [queue EXCEPT ![f.sock] = Append(@, f.dgram)]
          /\ accepted' = [accepted EXCEPT ![f.sock] = Append(@, f.dgram)]
          /\ NotifyOne(f.sock)
  /\ UNCHANGED <<table, nextId, nextPort, local, names, closed, on, received, cleared, arrived>>

Recv(t) == Take(t) \/ RecvClosed(t) \/ RecvWait(t)

Next ==
  \/ Socket
  \/ \E s \in Id, a \in BindTo : Bind(s, a)
  \/ \E t \in Thread : Recv(t) \/ Spurious(t) \/ Close(t)
  \/ \E t \in Thread, s \in Id : RecvFrom(t, s) \/ Remove(t, s)
  \/ \E d \in Datagram, s \in Id : Find(d, s)
  \/ \E f \in found : Enqueue(f)

\* A thread that is in a socket function and not waiting goes on.  Nobody has
\* to call one, to send a datagram, or to wake up spuriously.
Fairness == \A t \in Thread : WF_vars(Recv(t)) /\ WF_vars(Close(t))

Spec == Init /\ [][Next]_vars /\ Fairness

-----------------------------------------------------------------------------
\* Every variable has its type; a thread is in a function of a socket that
\* exists, and so is the datagram in hand.
TypeOK ==
  /\ table \subseteq 1 .. nextId - 1
  /\ nextId \in 1 .. MaxSockets + 1
  /\ nextPort \in Port
  /\ local \in [Id -> Address]
  /\ names \in [Id -> SUBSET Address]
  /\ queue \in [Id -> Seq(Datagram)]
  /\ closed \in [Id -> BOOLEAN]
  /\ pc \in [Thread -> Pc]
  /\ on \in [Thread -> 0 .. nextId - 1]
  /\ \A t \in Thread : pc[t] = "idle" <=> on[t] = 0
  /\ found = {} \/ \E s \in Id, d \in Datagram : found = {[sock |-> s, dgram |-> d]}
  /\ accepted \in [Id -> Seq(Datagram)]
  /\ received \in [Id -> Seq(Datagram)]
  /\ cleared \in [Id -> Seq(Datagram)]
  /\ arrived \in Nat

\* A thread sleeps in recvfrom only while its socket is open and every datagram
\* queued there has a woken thread coming for it.
NoLostWakeup ==
  \A s \in Id : Waiting(s) # {} => ~closed[s] /\ Len(queue[s]) <= Cardinality(Woken(s))

\* A closed socket is out of the table and keeps no datagram, although the
\* worker may have found it before and enqueue after.
ClosedIsGone == \A s \in Id : closed[s] => s \notin table /\ queue[s] = <<>>

\* Each socket gives out its datagrams in the order they were queued, each one
\* once, and only close throws any away.
Fifo == \A s \in Id : accepted[s] = received[s] \o queue[s] \o cleared[s]

\* A datagram that a socket is given was sent to an address the socket had when
\* find_socket matched it, or was bound to between that and enqueue: to none it
\* gave up before.  Of two sockets bound to one address, which bind and socket()
\* do not refuse, either may get it.
Addressed ==
  [][\A s \in Id :
       accepted'[s] # accepted[s]
         => \E d \in Datagram, a \in names[s] :
              /\ accepted'[s] = Append(accepted[s], d)
              /\ a.port = d.port
              /\ a.ip \in {d.ip, AnyIp}]_vars

\* The queue of a socket has no capacity; the bound on datagrams stands for one.
SocketChannel(s) ==
  INSTANCE FifoChannel WITH Value <- Datagram, Capacity <- MaxDatagrams,
                            sent <- accepted[s], received <- received[s], shut <- closed[s]

\* Whatever the threads do in the gaps between the locks, each socket is a FIFO
\* channel from enqueue to recvfrom, which takes nothing more once it is closed.
ImplementsChannels ==
  /\ \A s \in Id : SocketChannel(s)!ChannelInit
  /\ [][\A s \in Id : [SocketChannel(s)!ChannelNext]_(SocketChannel(s)!channelVars)]_vars

\* closesocket gets every thread out of recvfrom on that socket, those that had
\* looked it up and were still on the way in among them.
CloseReleases ==
  \A s \in Id : s < nextId /\ s \notin table
                 ~> \A t \in Thread : ~(pc[t] \in Receiving /\ on[t] = s)

\* No thread stays in recvfrom on a socket that has a datagram for it.
NobodySleepsOnData ==
  \A t \in Thread, s \in Id :
    pc[t] \in Receiving /\ on[t] = s /\ queue[s] # <<>>
      ~> ~(pc[t] \in Receiving /\ on[t] = s) \/ queue[s] = <<>>
=============================================================================
