-------------------------- MODULE UdpSocketProofs --------------------------
(***************************************************************************)
(* What the UDP sockets keep for every number of threads, sockets and      *)
(* datagrams.  The safety invariants of UdpSocket rest on one more, Owner: *)
(* a socket is closed by the one thread that took it out of the table.     *)
(* With them each socket is a FIFO channel.                                *)
(***************************************************************************)
EXTENDS UdpSocket, FiniteSetTheorems, SequenceTheorems, TLAPS

USE UdpAssumption DEF UdpAssumption

\* Three groups of variables, each left alone by most of the actions.
Addresses == <<table, nextId, nextPort, local, names>>
Threads   == <<pc, on>>
Contents  == <<queue, closed, accepted, received, cleared>>

TypeAddresses ==
  /\ table \subseteq 1 .. nextId - 1
  /\ nextId \in 1 .. MaxSockets + 1
  /\ nextPort \in Port
  /\ local \in [Id -> Address]
  /\ names \in [Id -> SUBSET Address]

TypeThreads ==
  /\ pc \in [Thread -> Pc]
  /\ on \in [Thread -> 0 .. nextId - 1]
  /\ \A t \in Thread : pc[t] = "idle" <=> on[t] = 0

TypeContents ==
  /\ queue \in [Id -> Seq(Datagram)]
  /\ closed \in [Id -> BOOLEAN]
  /\ accepted \in [Id -> Seq(Datagram)]
  /\ received \in [Id -> Seq(Datagram)]
  /\ cleared \in [Id -> Seq(Datagram)]

TypeFound ==
  /\ found = {} \/ \E s \in Id, d \in Datagram : found = {[sock |-> s, dgram |-> d]}
  /\ arrived \in Nat

LEMMA TypeParts == TypeOK <=> TypeAddresses /\ TypeThreads /\ TypeContents /\ TypeFound
BY DEF TypeOK, TypeAddresses, TypeThreads, TypeContents, TypeFound

\* A thread in a socket function is in one of an id that was given out.
LEMMA OnIsId ==
  ASSUME TypeAddresses, TypeThreads, NEW t \in Thread, pc[t] # "idle"
  PROVE  on[t] \in Id
<1>1. on[t] \in 0 .. nextId - 1 /\ on[t] # 0 /\ nextId \in 1 .. MaxSockets + 1
  BY DEF TypeAddresses, TypeThreads
<1> QED
  BY <1>1 DEF Id

LEMMA FoundIsOne ==
  ASSUME TypeFound, NEW f \in found
  PROVE  f.sock \in Id /\ f.dgram \in Datagram /\ found \ {f} = {}
<1>1. PICK s \in Id, d \in Datagram : found = {[sock |-> s, dgram |-> d]}
  BY DEF TypeFound
<1>2. f = [sock |-> s, dgram |-> d]
  BY <1>1
<1> QED
  BY <1>1, <1>2

LEMMA InitTypes == Init => TypeOK
<1> SUFFICES ASSUME Init PROVE TypeOK
  OBVIOUS
<1>1. TypeAddresses
  BY DEF Init, TypeAddresses, Id, Port, Address
<1>2. TypeThreads
  BY DEF Init, TypeThreads, Pc
<1>3. <<>> \in Seq(Datagram)
  BY EmptySeq
<1>4. TypeContents
  BY <1>3 DEF Init, TypeContents
<1>5. TypeFound
  BY DEF Init, TypeFound
<1> QED
  BY <1>1, <1>2, <1>4, <1>5, TypeParts

LEMMA NextTypes == TypeOK /\ [Next]_vars => TypeOK'
<1> SUFFICES ASSUME TypeAddresses, TypeThreads, TypeContents, TypeFound, [Next]_vars
             PROVE  TypeAddresses' /\ TypeThreads' /\ TypeContents' /\ TypeFound'
  BY TypeParts DEF TypeOK, TypeAddresses, TypeThreads, TypeContents, TypeFound
<1>a. UNCHANGED Addresses => TypeAddresses'
  BY DEF Addresses, TypeAddresses
<1>t. UNCHANGED Threads /\ UNCHANGED nextId => TypeThreads'
  BY DEF Threads, TypeThreads
<1>c. UNCHANGED Contents => TypeContents'
  BY DEF Contents, TypeContents
<1>f. UNCHANGED <<found, arrived>> => TypeFound'
  BY DEF TypeFound
<1>1. CASE Socket
  <2>1. nextId \in 1 .. MaxSockets /\ nextId' = nextId + 1
    BY <1>1 DEF Socket, Id
  <2>2. nextPort' \in Port
    <3>1. nextPort + 1 \in Nat /\ PortRange \in Nat \ {0}
      BY DEF TypeAddresses, Port
    <3>2. (nextPort + 1) % PortRange \in 0 .. PortRange - 1
      BY ONLY <3>1
    <3> QED
      BY <1>1, <3>2 DEF Socket, NextPort, Port
  <2>3. [ip |-> LocalIp, port |-> nextPort] \in Address
    BY DEF TypeAddresses, Address
  <2>4. local' \in [Id -> Address] /\ names' \in [Id -> SUBSET Address]
    BY <1>1, <2>3 DEF Socket, Rename, TypeAddresses
  <2>5. table' \subseteq 1 .. nextId' - 1
    BY <1>1, <2>1 DEF Socket, TypeAddresses
  <2>6. TypeAddresses'
    BY <2>1, <2>2, <2>4, <2>5 DEF TypeAddresses
  <2>7. TypeThreads'
    BY <1>1, <2>1 DEF Socket, TypeThreads
  <2> QED
    BY <1>1, <1>c, <1>f, <2>6, <2>7 DEF Socket, Contents
<1>2. ASSUME NEW s \in Id, NEW a \in BindTo, Bind(s, a)
      PROVE  TypeAddresses' /\ TypeThreads' /\ TypeContents' /\ TypeFound'
  <2>1. a \in Address
    OBVIOUS
  <2>2. TypeAddresses'
    BY <1>2, <2>1 DEF Bind, Rename, TypeAddresses
  <2> QED
    BY <1>2, <2>2, <1>t, <1>c, <1>f DEF Bind, Threads, Contents
<1>3. ASSUME NEW t \in Thread, NEW s \in Id, RecvFrom(t, s)
      PROVE  TypeAddresses' /\ TypeThreads' /\ TypeContents' /\ TypeFound'
  <2>1. s \in 1 .. nextId - 1 /\ nextId' = nextId
    BY <1>3 DEF RecvFrom, TypeAddresses
  <2>2. TypeThreads'
    BY <1>3, <2>1 DEF RecvFrom, TypeThreads, TypeAddresses, Pc
  <2> QED
    BY <1>3, <2>2, <1>a, <1>c, <1>f DEF RecvFrom, Addresses, Contents
<1>4. ASSUME NEW t \in Thread, Take(t)
      PROVE  TypeAddresses' /\ TypeThreads' /\ TypeContents' /\ TypeFound'
  <2>1. on[t] \in Id
    BY <1>4, OnIsId DEF Take, AtLock
  <2>2. TypeThreads'
    BY <1>4 DEF Take, TypeThreads, TypeAddresses, Pc
  <2>3. queue[on[t]] \in Seq(Datagram) /\ received[on[t]] \in Seq(Datagram)
        /\ queue[on[t]] # <<>>
    BY <1>4, <2>1 DEF TypeContents, Take
  <2>4. /\ Tail(queue[on[t]]) \in Seq(Datagram)
        /\ Append(received[on[t]], Head(queue[on[t]])) \in Seq(Datagram)
    BY <2>3
  <2>5. TypeContents'
    BY <1>4, <2>1, <2>4 DEF Take, TypeContents
  <2> QED
    BY <1>4, <2>2, <2>5, <1>a, <1>f DEF Take, Addresses
<1>5. ASSUME NEW t \in Thread, RecvClosed(t)
      PROVE  TypeAddresses' /\ TypeThreads' /\ TypeContents' /\ TypeFound'
  <2>1. TypeThreads'
    BY <1>5 DEF RecvClosed, TypeThreads, TypeAddresses, Pc
  <2> QED
    BY <1>5, <2>1, <1>a, <1>c, <1>f DEF RecvClosed, Addresses, Contents
<1>6. ASSUME NEW t \in Thread, RecvWait(t)
      PROVE  TypeAddresses' /\ TypeThreads' /\ TypeContents' /\ TypeFound'
  <2>1. TypeThreads'
    BY <1>6 DEF RecvWait, AtLock, TypeThreads, TypeAddresses, Pc
  <2> QED
    BY <1>6, <2>1, <1>a, <1>c, <1>f DEF RecvWait, Addresses, Contents
<1>7. ASSUME NEW t \in Thread, Spurious(t)
      PROVE  TypeAddresses' /\ TypeThreads' /\ TypeContents' /\ TypeFound'
  <2>1. TypeThreads'
    BY <1>7 DEF Spurious, TypeThreads, TypeAddresses, Pc
  <2> QED
    BY <1>7, <2>1, <1>a, <1>c, <1>f DEF Spurious, Addresses, Contents
<1>8. ASSUME NEW t \in Thread, NEW s \in Id, Remove(t, s)
      PROVE  TypeAddresses' /\ TypeThreads' /\ TypeContents' /\ TypeFound'
  <2>1. s \in 1 .. nextId - 1 /\ nextId' = nextId
    BY <1>8 DEF Remove, TypeAddresses
  <2>2. TypeThreads'
    BY <1>8, <2>1 DEF Remove, TypeThreads, TypeAddresses, Pc
  <2>3. TypeAddresses'
    BY <1>8 DEF Remove, TypeAddresses
  <2> QED
    BY <1>8, <2>2, <2>3, <1>c, <1>f DEF Remove, Contents
<1>9. ASSUME NEW t \in Thread, Close(t)
      PROVE  TypeAddresses' /\ TypeThreads' /\ TypeContents' /\ TypeFound'
  <2>1. on[t] \in Id
    BY <1>9, OnIsId DEF Close
  <2>2. pc' \in [Thread -> Pc] /\ on' \in [Thread -> 0 .. nextId' - 1]
    BY <1>9 DEF Close, TypeThreads, TypeAddresses, Pc
  <2>3. \A u \in Thread : pc'[u] = "idle" <=> on'[u] = 0
    BY <1>9 DEF Close, TypeThreads, Waiting, In
  <2>4. TypeThreads'
    BY <2>2, <2>3 DEF TypeThreads
  <2>5. <<>> \in Seq(Datagram)
    BY EmptySeq
  <2>6. TypeContents'
    BY <1>9, <2>1, <2>5 DEF Close, TypeContents
  <2> QED
    BY <1>9, <2>4, <2>6, <1>a, <1>f DEF Close, Addresses
<1>10. ASSUME NEW d \in Datagram, NEW s \in Id, Find(d, s)
       PROVE  TypeAddresses' /\ TypeThreads' /\ TypeContents' /\ TypeFound'
  <2>1. TypeFound'
    BY <1>10 DEF Find, TypeFound
  <2>2. names' \in [Id -> SUBSET Address]
    BY <1>10 DEF Find, TypeAddresses
  <2>3. TypeAddresses'
    BY <1>10, <2>2 DEF Find, TypeAddresses
  <2> QED
    BY <1>10, <2>1, <2>3, <1>t, <1>c DEF Find, Threads, Contents
<1>11. ASSUME NEW f \in found, Enqueue(f)
       PROVE  TypeAddresses' /\ TypeThreads' /\ TypeContents' /\ TypeFound'
  <2>1. f.sock \in Id /\ f.dgram \in Datagram /\ found' = {}
    BY <1>11, FoundIsOne DEF Enqueue
  <2>2. TypeFound'
    BY <1>11, <2>1 DEF Enqueue, TypeFound
  <2>3. UNCHANGED pc \/ \E t \in Waiting(f.sock) : pc' = [pc EXCEPT ![t] = "woken"]
    BY <1>11 DEF Enqueue, NotifyOne
  <2>4. TypeThreads'
    BY <1>11, <2>3 DEF Enqueue, TypeThreads, Waiting, In, Pc
  <2>5. TypeContents'
    <3>1. /\ Append(queue[f.sock], f.dgram) \in Seq(Datagram)
          /\ Append(accepted[f.sock], f.dgram) \in Seq(Datagram)
      BY <2>1 DEF TypeContents
    <3>2. /\ queue' \in [Id -> Seq(Datagram)]
          /\ accepted' \in [Id -> Seq(Datagram)]
      BY <1>11, <2>1, <3>1 DEF Enqueue, TypeContents
    <3> QED
      BY <1>11, <3>2 DEF Enqueue, TypeContents
  <2> QED
    BY <1>11, <2>2, <2>4, <2>5, <1>a DEF Enqueue, Addresses
<1>12. CASE UNCHANGED vars
  BY <1>12, <1>a, <1>t, <1>c, <1>f DEF vars, Addresses, Threads, Contents
<1> QED
  BY <1>1, <1>2, <1>3, <1>4, <1>5, <1>6, <1>7, <1>8, <1>9, <1>10, <1>11, <1>12 DEF Next, Recv

\* The socket table, the sockets and the threads in their functions keep their
\* types: no thread and no datagram in hand refers to a socket never created.
THEOREM SocketTypes == Spec => []TypeOK
BY InitTypes, NextTypes, PTL DEF Spec

-----------------------------------------------------------------------------
\* Whoever is in closesocket took the socket out of the table, alone; a socket
\* is emptied when it is closed, and nothing is thrown away before.
Owner ==
  /\ \A t \in Thread : pc[t] = "closing" => on[t] \notin table /\ ~closed[on[t]]
  /\ \A t, u \in Thread :
       pc[t] = "closing" /\ pc[u] = "closing" /\ on[t] = on[u] => t = u
  /\ \A s \in Id : closed[s] => s < nextId /\ s \notin table /\ queue[s] = <<>>
  /\ \A s \in Id : ~closed[s] => cleared[s] = <<>>

\* An action that starts no closesocket, closes nothing and puts nothing in a
\* closed socket keeps Owner.
LEMMA OwnerKept ==
  ASSUME TypeAddresses, TypeThreads, Owner,
         nextId' \in Nat, nextId <= nextId', table' \subseteq table \cup {nextId},
         \A t \in Thread : pc'[t] = "closing" => pc[t] = "closing" /\ on'[t] = on[t],
         UNCHANGED <<closed, cleared>>,
         \A s \in Id : closed[s] => queue'[s] = queue[s]
  PROVE  Owner'
<1>1. ASSUME NEW t \in Thread, pc'[t] = "closing"
      PROVE  on'[t] \notin table' /\ ~closed'[on'[t]]
  <2>1. on'[t] \in 0 .. nextId - 1 /\ on'[t] = on[t] /\ pc[t] = "closing"
    BY <1>1 DEF TypeThreads
  <2>2. on'[t] # nextId
    BY <2>1 DEF TypeAddresses
  <2> QED
    BY <2>1, <2>2 DEF Owner
<1>2. ASSUME NEW t \in Thread, NEW u \in Thread,
             pc'[t] = "closing", pc'[u] = "closing", on'[t] = on'[u]
      PROVE  t = u
  BY <1>2 DEF Owner
<1>3. ASSUME NEW s \in Id, closed'[s]
      PROVE  s < nextId' /\ s \notin table' /\ queue'[s] = <<>>
  BY <1>3 DEF Owner, TypeAddresses, Id
<1>4. ASSUME NEW s \in Id, ~closed'[s] PROVE cleared'[s] = <<>>
  BY <1>4 DEF Owner
<1> QED
  BY <1>1, <1>2, <1>3, <1>4 DEF Owner

LEMMA NextOwner == TypeOK /\ Owner /\ [Next]_vars => Owner'
<1> SUFFICES ASSUME TypeAddresses, TypeThreads, TypeContents, TypeFound, Owner, [Next]_vars
             PROVE  Owner'
  BY TypeParts
<1>n. nextId \in Nat /\ nextId <= nextId /\ table \subseteq table \cup {nextId}
  BY DEF TypeAddresses
<1>1. CASE Socket
  BY <1>1, <1>n, OwnerKept DEF Socket
<1>2. ASSUME NEW s \in Id, NEW a \in BindTo, Bind(s, a)
      PROVE  Owner'
  BY <1>2, <1>n, OwnerKept DEF Bind
<1>3. ASSUME NEW t \in Thread, NEW s \in Id, RecvFrom(t, s) PROVE Owner'
  <2>1. \A u \in Thread : pc'[u] = "closing" => pc[u] = "closing" /\ on'[u] = on[u]
    BY <1>3 DEF RecvFrom, TypeThreads
  <2> QED
    BY <1>3, <2>1, <1>n, OwnerKept DEF RecvFrom
<1>4. ASSUME NEW t \in Thread, Take(t) PROVE Owner'
  <2>1. on[t] \in Id /\ queue[on[t]] # <<>>
    BY <1>4, OnIsId DEF Take, AtLock
  <2>2. \A u \in Thread : pc'[u] = "closing" => pc[u] = "closing" /\ on'[u] = on[u]
    BY <1>4 DEF Take, TypeThreads
  <2>3. \A r \in Id : closed[r] => queue'[r] = queue[r]
    BY <1>4, <2>1 DEF Take, Owner, TypeContents
  <2> QED
    BY <1>4, <2>2, <2>3, <1>n, OwnerKept DEF Take
<1>5. ASSUME NEW t \in Thread, RecvClosed(t) PROVE Owner'
  <2>1. \A u \in Thread : pc'[u] = "closing" => pc[u] = "closing" /\ on'[u] = on[u]
    BY <1>5 DEF RecvClosed, TypeThreads
  <2> QED
    BY <1>5, <2>1, <1>n, OwnerKept DEF RecvClosed
<1>6. ASSUME NEW t \in Thread, RecvWait(t) \/ Spurious(t) PROVE Owner'
  <2>1. \A u \in Thread : pc'[u] = "closing" => pc[u] = "closing" /\ on'[u] = on[u]
    BY <1>6 DEF RecvWait, Spurious, TypeThreads
  <2> QED
    BY <1>6, <2>1, <1>n, OwnerKept DEF RecvWait, Spurious
<1>7. ASSUME NEW t \in Thread, NEW s \in Id, Remove(t, s) PROVE Owner'
  <2>0. /\ s \in table /\ table' = table \ {s} /\ UNCHANGED <<nextId, queue, closed, cleared>>
        /\ pc' = [pc EXCEPT ![t] = "closing"] /\ on' = [on EXCEPT ![t] = s]
    BY <1>7 DEF Remove
  <2>1. ASSUME NEW u \in Thread, pc'[u] = "closing"
        PROVE  on'[u] \notin table' /\ ~closed'[on'[u]]
    <3>1. CASE u = t
      BY <2>0, <3>1 DEF Owner, TypeThreads
    <3>2. CASE u # t
      BY <2>0, <2>1, <3>2 DEF Owner, TypeThreads
    <3> QED
      BY <3>1, <3>2
  <2>2. ASSUME NEW u \in Thread, u # t, pc'[u] = "closing" PROVE on'[u] # on'[t]
    BY <2>0, <2>2 DEF Owner, TypeThreads
  <2>3. ASSUME NEW u \in Thread, NEW v \in Thread,
               pc'[u] = "closing", pc'[v] = "closing", on'[u] = on'[v]
        PROVE  u = v
    <3>1. CASE u = t \/ v = t
      BY <2>2, <2>3, <3>1
    <3>2. CASE u # t /\ v # t
      BY <2>0, <2>3, <3>2 DEF Owner, TypeThreads
    <3> QED
      BY <3>1, <3>2
  <2> QED
    BY <2>0, <2>1, <2>3 DEF Owner
<1>8. ASSUME NEW t \in Thread, Close(t) PROVE Owner'
  <2>0. /\ pc[t] = "closing" /\ on[t] \in Id /\ on[t] < nextId /\ on[t] \notin table
        /\ closed' = [closed EXCEPT ![on[t]] = TRUE]
        /\ queue' = [queue EXCEPT ![on[t]] = <<>>]
        /\ cleared' = [cleared EXCEPT ![on[t]] = queue[on[t]]]
        /\ UNCHANGED <<table, nextId>>
    BY <1>8, OnIsId DEF Close, Owner, TypeAddresses, TypeThreads
  <2>1. \A u \in Thread : pc'[u] = "closing" => u # t /\ pc[u] = "closing" /\ on'[u] = on[u]
    BY <1>8 DEF Close, TypeThreads
  <2>2. ASSUME NEW u \in Thread, pc'[u] = "closing"
        PROVE  on'[u] \notin table' /\ ~closed'[on'[u]]
    <3>1. u # t /\ pc[u] = "closing" /\ on'[u] = on[u]
      BY <2>1, <2>2
    <3>2. on[u] # on[t] /\ on[u] \notin table /\ ~closed[on[u]] /\ on[u] \in Id
      BY <2>0, <3>1, OnIsId DEF Owner
    <3> QED
      BY <2>0, <3>1, <3>2 DEF TypeContents
  <2>3. ASSUME NEW u \in Thread, NEW v \in Thread,
               pc'[u] = "closing", pc'[v] = "closing", on'[u] = on'[v]
        PROVE  u = v
    BY <2>1, <2>3 DEF Owner
  <2>4. ASSUME NEW s \in Id
        PROVE  /\ closed'[s] => s < nextId' /\ s \notin table' /\ queue'[s] = <<>>
               /\ ~closed'[s] => cleared'[s] = <<>>
    BY <2>0 DEF Owner, TypeContents
  <2> QED
    BY <2>2, <2>3, <2>4 DEF Owner
<1>9. ASSUME NEW d \in Datagram, NEW s \in Id, Find(d, s) PROVE Owner'
  BY <1>9, <1>n, OwnerKept DEF Find
<1>10. ASSUME NEW f \in found, Enqueue(f) PROVE Owner'
  <2>1. \A u \in Thread : pc'[u] = "closing" => pc[u] = "closing" /\ on'[u] = on[u]
    BY <1>10 DEF Enqueue, NotifyOne, Waiting, In, TypeThreads
  <2>2. \A r \in Id : closed[r] => queue'[r] = queue[r]
    BY <1>10, FoundIsOne DEF Enqueue, TypeContents
  <2> QED
    BY <1>10, <2>1, <2>2, <1>n, OwnerKept DEF Enqueue
<1>11. CASE UNCHANGED vars
  BY <1>11 DEF vars, Owner
<1> QED
  BY <1>1, <1>2, <1>3, <1>4, <1>5, <1>6, <1>7, <1>8, <1>9, <1>10, <1>11 DEF Next, Recv

LEMMA AlwaysOwner == Spec => []Owner
<1>1. Init => Owner
  BY DEF Init, Owner
<1> QED
  BY <1>1, SocketTypes, NextOwner, PTL DEF Spec

\* Once closesocket has closed a socket no lookup finds it and no datagram is
\* left in it, whatever the worker had found before.
THEOREM ClosedSocketsAreGone == Spec => []ClosedIsGone
<1>1. Owner => ClosedIsGone
  BY DEF Owner, ClosedIsGone
<1> QED
  BY <1>1, AlwaysOwner, PTL

-----------------------------------------------------------------------------
\* Moving the head of a queue to the end of what was received changes nothing
\* in the two together, and what joins the queue joins the two.
LEMMA MoveHead ==
  ASSUME NEW S, NEW r \in Seq(S), NEW q \in Seq(S), q # <<>>
  PROVE  Append(r, Head(q)) \o Tail(q) = r \o q
<1>1. Head(q) \in S /\ Tail(q) \in Seq(S)
  OBVIOUS
<1>2. q = <<Head(q)>> \o Tail(q)
  OBVIOUS
<1>3. Append(r, Head(q)) = r \o <<Head(q)>>
  BY <1>1, AppendIsConcat
<1>4. <<Head(q)>> \in Seq(S)
  BY <1>1
<1>5. (r \o <<Head(q)>>) \o Tail(q) = r \o (<<Head(q)>> \o Tail(q))
  BY <1>1, <1>4, ConcatAssociative
<1> QED
  BY <1>2, <1>3, <1>5

LEMMA AddLast ==
  ASSUME NEW S, NEW r \in Seq(S), NEW q \in Seq(S), NEW x \in S
  PROVE  r \o Append(q, x) = Append(r \o q, x)
<1>1. <<x>> \in Seq(S) /\ r \o q \in Seq(S)
  OBVIOUS
<1>2. Append(q, x) = q \o <<x>> /\ Append(r \o q, x) = (r \o q) \o <<x>>
  BY <1>1, AppendIsConcat
<1> QED
  BY <1>1, <1>2, ConcatAssociative

LEMMA NothingCleared ==
  ASSUME NEW S, NEW r \in Seq(S), NEW q \in Seq(S)
  PROVE  r \o q \o <<>> = r \o q
<1>1. r \o q \in Seq(S)
  OBVIOUS
<1> QED
  BY <1>1

LEMMA NextSocketFifo == TypeOK /\ Owner /\ Fifo /\ [Next]_vars => Fifo'
<1> SUFFICES ASSUME TypeAddresses, TypeThreads, TypeContents, TypeFound, Owner, Fifo, [Next]_vars,
                    NEW s \in Id
             PROVE  accepted'[s] = received'[s] \o queue'[s] \o cleared'[s]
  BY TypeParts DEF Fifo
<1>0. /\ accepted[s] = received[s] \o queue[s] \o cleared[s]
      /\ accepted[s] \in Seq(Datagram) /\ received[s] \in Seq(Datagram)
      /\ queue[s] \in Seq(Datagram) /\ cleared[s] \in Seq(Datagram)
  BY DEF Fifo, TypeContents
<1>e. ~closed[s] => accepted[s] = received[s] \o queue[s] /\ cleared[s] = <<>>
  BY <1>0, NothingCleared DEF Owner
<1>1. ASSUME NEW t \in Thread, Take(t)
      PROVE  accepted'[s] = received'[s] \o queue'[s] \o cleared'[s]
  <2>1. CASE on[t] = s
    <3>1. queue[s] # <<>> /\ ~closed[s]
      <4>1. queue[s] # <<>>
        BY <1>1, <2>1 DEF Take
      <4> QED
        BY <4>1 DEF Owner
    <3>2. /\ queue'[s] = Tail(queue[s]) /\ received'[s] = Append(received[s], Head(queue[s]))
          /\ accepted'[s] = accepted[s] /\ cleared'[s] = cleared[s]
      BY <1>1, <2>1 DEF Take, TypeContents
    <3>3. Tail(queue[s]) \in Seq(Datagram) /\ Head(queue[s]) \in Datagram
      BY <1>0, <3>1
    <3>4. received'[s] \in Seq(Datagram) /\ queue'[s] \in Seq(Datagram)
      BY <1>0, <3>2, <3>3
    <3>5. received'[s] \o queue'[s] = received[s] \o queue[s]
      BY <1>0, <3>1, <3>2, MoveHead
    <3>6. received'[s] \o queue'[s] \o <<>> = received'[s] \o queue'[s]
      BY <3>4, NothingCleared
    <3> QED
      BY <1>e, <3>1, <3>2, <3>5, <3>6
  <2>2. CASE on[t] # s
    BY <1>0, <1>1, <2>2 DEF Take, TypeContents
  <2> QED
    BY <2>1, <2>2
<1>2. ASSUME NEW t \in Thread, Close(t)
      PROVE  accepted'[s] = received'[s] \o queue'[s] \o cleared'[s]
  <2>1. CASE on[t] = s
    <3>1. ~closed[s]
      BY <1>2, <2>1 DEF Close, Owner
    <3>2. /\ queue'[s] = <<>> /\ cleared'[s] = queue[s]
          /\ accepted'[s] = accepted[s] /\ received'[s] = received[s]
      BY <1>2, <2>1 DEF Close, TypeContents
    <3>3. received[s] \o <<>> = received[s]
      BY <1>0
    <3> QED
      BY <1>e, <3>1, <3>2, <3>3
  <2>2. CASE on[t] # s
    BY <1>0, <1>2, <2>2 DEF Close, TypeContents
  <2> QED
    BY <2>1, <2>2
<1>3. ASSUME NEW f \in found, Enqueue(f)
      PROVE  accepted'[s] = received'[s] \o queue'[s] \o cleared'[s]
  <2>0. f.sock \in Id /\ f.dgram \in Datagram
    BY FoundIsOne
  <2>1. CASE f.sock = s /\ ~closed[s]
    <3>1. /\ queue'[s] = Append(queue[s], f.dgram)
          /\ accepted'[s] = Append(accepted[s], f.dgram)
          /\ received'[s] = received[s] /\ cleared'[s] = <<>>
      BY <1>3, <1>e, <2>0, <2>1 DEF Enqueue, TypeContents
    <3>2. accepted'[s] = Append(received[s] \o queue[s], f.dgram)
      BY <1>e, <2>1, <3>1
    <3>3. accepted'[s] = received'[s] \o queue'[s]
      <4>1. received[s] \o Append(queue[s], f.dgram) = Append(received[s] \o queue[s], f.dgram)
        <5>1. /\ received[s] \in Seq(Datagram) /\ queue[s] \in Seq(Datagram)
              /\ f.dgram \in Datagram
          BY <1>0, <2>0
        <5>2. \A r, q \in Seq(Datagram), x \in Datagram :
                r \o Append(q, x) = Append(r \o q, x)
          BY AddLast
        <5> QED
          BY ONLY <5>1, <5>2
      <4> QED
        BY ONLY <4>1, <3>1, <3>2
    <3>4. received'[s] \in Seq(Datagram) /\ queue'[s] \in Seq(Datagram)
      BY <1>0, <2>0, <3>1
    <3> QED
      BY <3>1, <3>3, <3>4, NothingCleared
  <2>2. CASE f.sock # s \/ closed[s]
    <3>1. queue'[s] = queue[s] /\ accepted'[s] = accepted[s] /\ UNCHANGED <<received, cleared>>
      BY <1>3, <2>0, <2>2 DEF Enqueue, TypeContents
    <3> QED
      BY <1>0, <3>1
  <2> QED
    BY <2>1, <2>2
<1>4. CASE UNCHANGED <<accepted, received, queue, cleared>>
  BY <1>0, <1>4
<1> QED
  BY <1>1, <1>2, <1>3, <1>4
     DEF Next, Recv, Socket, Bind, RecvFrom, RecvClosed, RecvWait, Spurious, Remove, Find, vars

\* What recvfrom took out of a socket, then what is queued there, then what
\* close threw away, is what the worker put in.
THEOREM SocketsAreFifo == Spec => []Fifo
<1>1. Init => Fifo
  BY EmptySeq DEF Init, Fifo
<1> QED
  BY <1>1, SocketTypes, AlwaysOwner, NextSocketFifo, PTL DEF Spec

-----------------------------------------------------------------------------
LEMMA WokenFinite ==
  ASSUME NEW s
  PROVE  IsFiniteSet(Woken(s)) /\ Cardinality(Woken(s)) \in Nat
<1>1. Woken(s) \subseteq Thread
  BY DEF Woken, In
<1> QED
  BY <1>1, FS_Subset, FS_CardinalityType

LEMMA OneOut ==
  ASSUME NEW S, IsFiniteSet(S), NEW x
  PROVE  Cardinality(S \ {x}) \in Nat /\ Cardinality(S \ {x}) >= Cardinality(S) - 1
<1>1. IsFiniteSet(S \ {x}) /\ Cardinality(S) \in Nat /\ Cardinality(S \ {x}) \in Nat
  BY FS_CardinalityType, FS_RemoveElement
<1>2. CASE x \in S
  <2>1. Cardinality(S \ {x}) = Cardinality(S) - 1
    BY <1>2, FS_RemoveElement
  <2> QED
    BY <1>1, <2>1
<1>3. CASE x \notin S
  <2>1. Cardinality(S \ {x}) = Cardinality(S)
    BY <1>3, FS_RemoveElement
  <2> QED
    BY <1>1, <2>1
<1> QED
  BY <1>2, <1>3

LEMMA OneMoreWoken ==
  ASSUME TypeThreads, NEW s, NEW t \in Waiting(s),
         pc' = [pc EXCEPT ![t] = "woken"], UNCHANGED on
  PROVE  Cardinality(Woken(s)') = Cardinality(Woken(s)) + 1
<1>1. Woken(s)' = Woken(s) \cup {t} /\ t \notin Woken(s)
  BY DEF TypeThreads, Woken, Waiting, In
<1> QED
  BY <1>1, WokenFinite, FS_AddElement

\* What a step that leaves a socket and its sleepers alone keeps.
LEMMA SameWakeups ==
  ASSUME NEW s \in Id, NoLostWakeup, Waiting(s)' = Waiting(s), Woken(s)' = Woken(s),
         queue'[s] = queue[s], closed'[s] = closed[s], Waiting(s)' # {}
  PROVE  ~closed'[s] /\ Len(queue'[s]) <= Cardinality(Woken(s)')
BY DEF NoLostWakeup

LEMMA NextSocketWakeups == TypeOK /\ Owner /\ NoLostWakeup /\ [Next]_vars => NoLostWakeup'
<1> SUFFICES ASSUME TypeAddresses, TypeThreads, TypeContents, TypeFound, Owner, NoLostWakeup,
                    [Next]_vars, NEW s \in Id, Waiting(s)' # {}
             PROVE  ~closed'[s] /\ Len(queue'[s]) <= Cardinality(Woken(s)')
  BY TypeParts DEF NoLostWakeup
<1>n. Len(queue[s]) \in Nat /\ Cardinality(Woken(s)) \in Nat
  BY WokenFinite DEF TypeContents
<1>1. ASSUME NEW t \in Thread, NEW r \in Id, RecvFrom(t, r) \/ Remove(t, r)
      PROVE  ~closed'[s] /\ Len(queue'[s]) <= Cardinality(Woken(s)')
  <2>1. Waiting(s)' = Waiting(s) /\ Woken(s)' = Woken(s)
    BY <1>1 DEF RecvFrom, Remove, TypeThreads, Waiting, Woken, In
  <2> QED
    BY <1>1, <2>1, SameWakeups DEF RecvFrom, Remove
<1>2. ASSUME NEW t \in Thread, Take(t)
      PROVE  ~closed'[s] /\ Len(queue'[s]) <= Cardinality(Woken(s)')
  <2>0. on[t] \in Id
    BY <1>2, OnIsId DEF Take, AtLock
  <2>1. CASE on[t] = s
    <3>1. Waiting(s)' = Waiting(s) /\ Woken(s)' = Woken(s) \ {t}
      BY <1>2, <2>0, <2>1 DEF Take, AtLock, TypeThreads, Waiting, Woken, In, Id
    <3>2. ~closed[s] /\ Len(queue[s]) <= Cardinality(Woken(s))
      BY <3>1 DEF NoLostWakeup
    <3>3. queue[s] # <<>> /\ queue'[s] = Tail(queue[s]) /\ closed' = closed
      BY <1>2, <2>1 DEF Take, TypeContents
    <3>4. Len(queue'[s]) = Len(queue[s]) - 1
      BY <3>3 DEF TypeContents
    <3>5. /\ Cardinality(Woken(s) \ {t}) \in Nat
          /\ Cardinality(Woken(s) \ {t}) >= Cardinality(Woken(s)) - 1
      BY WokenFinite, OneOut
    <3> QED
      BY <1>n, <3>1, <3>2, <3>3, <3>4, <3>5
  <2>2. CASE on[t] # s
    <3>1. Waiting(s)' = Waiting(s) /\ Woken(s)' = Woken(s)
      BY <1>2, <2>2 DEF Take, TypeThreads, Waiting, Woken, In, Id
    <3> QED
      BY <1>2, <2>2, <3>1, SameWakeups DEF Take, TypeContents
  <2> QED
    BY <2>1, <2>2
<1>3. ASSUME NEW t \in Thread, RecvClosed(t)
      PROVE  ~closed'[s] /\ Len(queue'[s]) <= Cardinality(Woken(s)')
  <2>0. on[t] \in Id
    BY <1>3, OnIsId DEF RecvClosed, AtLock
  <2>1. Waiting(s)' = Waiting(s)
    BY <1>3, <2>0 DEF RecvClosed, AtLock, TypeThreads, Waiting, In, Id
  <2>2. on[t] # s
    BY <1>3, <2>1 DEF RecvClosed, NoLostWakeup
  <2>3. Woken(s)' = Woken(s)
    BY <1>3, <2>0, <2>2 DEF RecvClosed, TypeThreads, Woken, In, Id
  <2> QED
    BY <1>3, <2>1, <2>3, SameWakeups DEF RecvClosed
<1>4. ASSUME NEW t \in Thread, RecvWait(t)
      PROVE  ~closed'[s] /\ Len(queue'[s]) <= Cardinality(Woken(s)')
  <2>1. CASE on[t] = s
    <3>1. ~closed'[s] /\ Len(queue'[s]) = 0
      BY <1>4, <2>1 DEF RecvWait
    <3>2. Woken(s)' \subseteq Thread
      BY DEF Woken, In
    <3>3. Cardinality(Woken(s)') \in Nat
      BY <3>2, FS_Subset, FS_CardinalityType
    <3> QED
      BY <3>1, <3>3
  <2>2. CASE on[t] # s
    <3>1. Waiting(s)' = Waiting(s) /\ Woken(s)' = Woken(s)
      BY <1>4, <2>2 DEF RecvWait, TypeThreads, Waiting, Woken, In
    <3> QED
      BY <1>4, <3>1, SameWakeups DEF RecvWait
  <2> QED
    BY <2>1, <2>2
<1>5. ASSUME NEW t \in Thread, Spurious(t)
      PROVE  ~closed'[s] /\ Len(queue'[s]) <= Cardinality(Woken(s)')
  <2>0. /\ pc' = [pc EXCEPT ![t] = "woken"] /\ pc[t] = "waiting"
        /\ UNCHANGED <<on, queue, closed>>
    BY <1>5 DEF Spurious
  <2>1. CASE on[t] = s
    <3>1. t \in Waiting(s)
      BY <2>0, <2>1 DEF Waiting, In
    <3>2. Cardinality(Woken(s)') = Cardinality(Woken(s)) + 1
      BY <2>0, <3>1, OneMoreWoken
    <3> QED
      BY <1>n, <2>0, <3>1, <3>2 DEF NoLostWakeup
  <2>2. CASE on[t] # s
    <3>1. Waiting(s)' = Waiting(s) /\ Woken(s)' = Woken(s)
      BY <2>0, <2>2 DEF TypeThreads, Waiting, Woken, In
    <3> QED
      BY <2>0, <3>1, SameWakeups
  <2> QED
    BY <2>1, <2>2
<1>6. ASSUME NEW t \in Thread, Close(t)
      PROVE  ~closed'[s] /\ Len(queue'[s]) <= Cardinality(Woken(s)')
  <2>1. on[t] # s
    BY <1>6 DEF Close, Waiting, In
  <2>2. Waiting(s)' = Waiting(s) /\ Woken(s)' = Woken(s)
    BY <1>6, <2>1 DEF Close, TypeThreads, Waiting, Woken, In, Id
  <2> QED
    BY <1>6, <2>1, <2>2, SameWakeups DEF Close, TypeContents
<1>7. ASSUME NEW f \in found, Enqueue(f)
      PROVE  ~closed'[s] /\ Len(queue'[s]) <= Cardinality(Woken(s)')
  <2>0. f.sock \in Id /\ f.dgram \in Datagram /\ UNCHANGED <<on, closed>>
    BY <1>7, FoundIsOne DEF Enqueue
  <2>1. CASE f.sock = s /\ ~closed[s]
    <3>1. NotifyOne(s) /\ queue'[s] = Append(queue[s], f.dgram)
      BY <1>7, <2>0, <2>1 DEF Enqueue, TypeContents
    <3>2. Len(queue'[s]) = Len(queue[s]) + 1
      BY <2>0, <3>1 DEF TypeContents
    <3>3. Waiting(s) # {}
      BY <2>0, <3>1 DEF NotifyOne, Waiting, In
    <3>4. PICK t \in Waiting(s) : pc' = [pc EXCEPT ![t] = "woken"]
      BY <3>1, <3>3 DEF NotifyOne
    <3>5. Cardinality(Woken(s)') = Cardinality(Woken(s)) + 1
      BY <2>0, <3>4, OneMoreWoken
    <3> QED
      BY <1>n, <2>0, <2>1, <3>2, <3>3, <3>5 DEF NoLostWakeup
  <2>2. CASE f.sock # s /\ ~closed[f.sock]
    <3>1. NotifyOne(f.sock) /\ queue'[s] = queue[s]
      BY <1>7, <2>0, <2>2 DEF Enqueue, TypeContents
    <3>2. Waiting(s)' = Waiting(s) /\ Woken(s)' = Woken(s)
      BY <2>0, <2>2, <3>1 DEF NotifyOne, TypeThreads, Waiting, Woken, In
    <3> QED
      BY <2>0, <3>1, <3>2, SameWakeups
  <2>3. CASE closed[f.sock]
    <3>1. UNCHANGED <<pc, queue>>
      BY <1>7, <2>3 DEF Enqueue
    <3>2. Waiting(s)' = Waiting(s) /\ Woken(s)' = Woken(s)
      BY <2>0, <3>1 DEF Waiting, Woken, In
    <3> QED
      BY <2>0, <3>1, <3>2, SameWakeups
  <2> QED
    BY <2>0, <2>1, <2>2, <2>3 DEF TypeContents
<1>8. CASE UNCHANGED <<pc, on, queue, closed>>
  <2>1. Waiting(s)' = Waiting(s) /\ Woken(s)' = Woken(s)
    BY <1>8 DEF Waiting, Woken, In
  <2> QED
    BY <1>8, <2>1, SameWakeups
<1> QED
  BY <1>1, <1>2, <1>3, <1>4, <1>5, <1>6, <1>7, <1>8 DEF Next, Recv, Socket, Bind, Find, vars

\* No thread sleeps in recvfrom on a closed socket, or on one with a datagram
\* that no woken thread is coming for: notify_one in enqueue and notify_all in
\* close are enough.
THEOREM SocketLosesNoWakeup == Spec => []NoLostWakeup
<1>1. Init => NoLostWakeup
  BY DEF Init, NoLostWakeup, Waiting, In
<1> QED
  BY <1>1, SocketTypes, AlwaysOwner, NextSocketWakeups, PTL DEF Spec

-----------------------------------------------------------------------------
\* d was sent to one of the addresses in as.
Answers(as, d) == \E a \in as : a.port = d.port /\ a.ip \in {d.ip, AnyIp}

\* The history of names knows the name a socket has, and the datagram in hand
\* has matched one of its socket's names since it was found.
NamesKnown ==
  /\ \A s \in table : local[s] \in names[s]
  /\ \A f \in found : Answers(names[f.sock], f.dgram)

\* Nothing but the next lookup takes a name out of the history.
LEMMA NamesGrow ==
  ASSUME TypeAddresses, TypeFound, [Next]_vars, NEW f \in found
  PROVE  names[f.sock] \subseteq names'[f.sock]
<1>0. f.sock \in Id
  BY FoundIsOne
<1>1. CASE Socket
  BY <1>0, <1>1 DEF Socket, Rename, TypeAddresses, Id
<1>2. ASSUME NEW r \in Id, NEW a \in BindTo, Bind(r, a)
      PROVE  names[f.sock] \subseteq names'[f.sock]
  BY <1>0, <1>2 DEF Bind, Rename, TypeAddresses
<1>3. CASE UNCHANGED names
  BY <1>3
<1>4. ASSUME NEW d \in Datagram, NEW r \in Id, Find(d, r) PROVE FALSE
  BY <1>4 DEF Find
<1> QED
  BY <1>1, <1>2, <1>3, <1>4 DEF Next, Recv, RecvFrom, Take, RecvClosed, RecvWait, Spurious,
                                Remove, Close, Enqueue, vars

LEMMA NextNamesKnown == TypeOK /\ NamesKnown /\ [Next]_vars => NamesKnown'
<1> SUFFICES ASSUME TypeAddresses, TypeFound, NamesKnown, [Next]_vars
             PROVE  NamesKnown'
  BY TypeParts
<1>i. table \subseteq Id
  BY DEF TypeAddresses, Id
<1>1. ASSUME NEW s \in table' PROVE local'[s] \in names'[s]
  <2>1. CASE Socket
    BY <1>1, <1>i, <2>1 DEF Socket, Rename, TypeAddresses, NamesKnown, Id
  <2>2. ASSUME NEW r \in Id, NEW a \in BindTo, Bind(r, a)
        PROVE  local'[s] \in names'[s]
    BY <1>1, <1>i, <2>2 DEF Bind, Rename, TypeAddresses, NamesKnown
  <2>3. CASE UNCHANGED <<local, names>> /\ table' \subseteq table
    BY <1>1, <2>3 DEF NamesKnown
  <2>4. ASSUME NEW d \in Datagram, NEW r \in Id, Find(d, r)
        PROVE  local'[s] \in names'[s]
    BY <1>1, <1>i, <2>4 DEF Find
  <2> QED
    BY <2>1, <2>2, <2>3, <2>4 DEF Next, Recv, RecvFrom, Take, RecvClosed, RecvWait, Spurious,
                                  Remove, Close, Enqueue, vars
<1>2. ASSUME NEW f \in found' PROVE Answers(names'[f.sock], f.dgram)
  <2>1. CASE f \in found
    <3>1. Answers(names[f.sock], f.dgram)
      BY <2>1 DEF NamesKnown
    <3>2. names[f.sock] \subseteq names'[f.sock]
      BY <2>1, NamesGrow
    <3> QED
      BY <3>1, <3>2 DEF Answers
  <2>2. ASSUME NEW d \in Datagram, NEW s \in Id, Find(d, s)
        PROVE  Answers(names'[f.sock], f.dgram)
    <3>1. f = [sock |-> s, dgram |-> d]
      BY <1>2, <2>2 DEF Find
    <3>2. f.sock = s /\ f.dgram = d
      BY <3>1
    <3>3. /\ names'[s] = {local[s]}
          /\ local[s].port = d.port /\ local[s].ip \in {d.ip, AnyIp}
      BY <2>2 DEF Find, Matches
    <3> QED
      BY <3>2, <3>3 DEF Answers
  <2> QED
    BY <1>2, <2>1, <2>2 DEF Next, Recv, Socket, Bind, RecvFrom, Take, RecvClosed, RecvWait,
                            Spurious, Remove, Close, Enqueue, vars
<1> QED
  BY <1>1, <1>2 DEF NamesKnown

\* What s is given matched one of the addresses in the history.
GetsItsOwn(s) ==
  accepted'[s] # accepted[s]
    => \E d \in Datagram, a \in names[s] :
         /\ accepted'[s] = Append(accepted[s], d)
         /\ a.port = d.port
         /\ a.ip \in {d.ip, AnyIp}

LEMMA StepAddressed ==
  ASSUME TypeContents, TypeFound, NamesKnown, [Next]_vars, NEW s \in Id
  PROVE  GetsItsOwn(s)
<1>1. ASSUME NEW f \in found, Enqueue(f) PROVE GetsItsOwn(s)
  <2>1. f.sock \in Id /\ f.dgram \in Datagram
    BY FoundIsOne
  <2>2. \/ accepted'[s] = accepted[s]
        \/ accepted'[s] = Append(accepted[s], f.dgram) /\ f.sock = s
    <3>1. CASE accepted' = accepted
      BY <3>1
    <3>2. CASE accepted' = [accepted EXCEPT ![f.sock] = Append(@, f.dgram)]
      BY <2>1, <3>2 DEF TypeContents
    <3> QED
      BY <1>1, <3>1, <3>2 DEF Enqueue
  <2>3. Answers(names[f.sock], f.dgram)
    BY DEF NamesKnown
  <2> QED
    BY <2>1, <2>2, <2>3 DEF Answers, GetsItsOwn
<1>2. CASE accepted' = accepted
  BY <1>2 DEF GetsItsOwn
<1> QED
  BY <1>1, <1>2 DEF Next, Recv, Socket, Bind, RecvFrom, Take, RecvClosed, RecvWait, Spurious,
                    Remove, Close, Find, vars

\* A socket is given no datagram but those for the address it had when
\* find_socket matched it, or was bound to since: none for an address it gave
\* up before, however bind, close and the worker interleave.
THEOREM SocketsGetTheirOwn == Spec => Addressed
<1>1. Init => NamesKnown
  BY DEF Init, NamesKnown
<1>2. Spec => []NamesKnown
  BY <1>1, SocketTypes, NextNamesKnown, PTL DEF Spec
<1>3. TypeOK /\ NamesKnown /\ [Next]_vars => [\A s \in Id : GetsItsOwn(s)]_vars
  BY StepAddressed, TypeParts
<1>4. Spec => [][\A s \in Id : GetsItsOwn(s)]_vars
  BY <1>2, <1>3, SocketTypes, PTL DEF Spec
<1> QED
  BY <1>4 DEF Addressed, GetsItsOwn
-----------------------------------------------------------------------------
\* What a socket has been given counts among the datagrams that found a socket,
\* and one in hand is counted before it is enqueued.
Counted ==
  /\ arrived \in 0 .. MaxDatagrams
  /\ \A s \in Id : Len(accepted[s]) <= arrived /\ (found # {} => Len(accepted[s]) < arrived)

LEMMA NextCounted == TypeOK /\ Counted /\ [Next]_vars => Counted'
<1> SUFFICES ASSUME TypeContents, TypeFound, Counted, [Next]_vars
             PROVE  Counted'
  BY TypeParts
<1>1. ASSUME NEW f \in found, Enqueue(f) PROVE Counted'
  <2>0. f.sock \in Id /\ f.dgram \in Datagram /\ found' = {} /\ arrived' = arrived
    BY <1>1, FoundIsOne DEF Enqueue
  <2>1. ASSUME NEW s \in Id PROVE Len(accepted'[s]) <= arrived
    <3>1. accepted[s] \in Seq(Datagram) /\ Len(accepted[s]) < arrived /\ arrived \in Nat
      BY DEF TypeContents, Counted
    <3>2. accepted'[s] = accepted[s] \/ accepted'[s] = Append(accepted[s], f.dgram)
      BY <1>1, <2>0 DEF Enqueue, TypeContents
    <3>3. Len(Append(accepted[s], f.dgram)) = Len(accepted[s]) + 1
      BY <2>0, <3>1
    <3> QED
      BY <3>1, <3>2, <3>3
  <2> QED
    BY <2>0, <2>1 DEF Counted
<1>2. ASSUME NEW d \in Datagram, NEW s \in Id, Find(d, s) PROVE Counted'
  <2>1. /\ arrived < MaxDatagrams /\ arrived' = arrived + 1 /\ accepted' = accepted
        /\ arrived \in Nat
    BY <1>2 DEF Find, Counted
  <2>2. \A r \in Id : Len(accepted[r]) \in Nat /\ Len(accepted[r]) <= arrived
    BY DEF Counted, TypeContents
  <2> QED
    BY <2>1, <2>2 DEF Counted
<1>3. CASE UNCHANGED <<accepted, found, arrived>>
  BY <1>3 DEF Counted
<1> QED
  BY <1>1, <1>2, <1>3 DEF Next, Recv, Socket, Bind, RecvFrom, Take, RecvClosed, RecvWait, Spurious,
                          Remove, Close, vars

LEMMA AlwaysCounted == Spec => []Counted
<1>1. Init => Counted
  BY DEF Init, Counted
<1> QED
  BY <1>1, SocketTypes, NextCounted, PTL DEF Spec

\* While a socket is open what recvfrom has not taken is what is in its queue.
LEMMA FrontIsNext ==
  ASSUME NEW S, NEW r \in Seq(S), NEW q \in Seq(S), q # <<>>
  PROVE  Len(r) < Len(r \o q) /\ (r \o q)[Len(r) + 1] = Head(q)
OBVIOUS

LEMMA StepImplementsChannel ==
  ASSUME TypeContents, TypeFound, Owner, Fifo, Counted, [Next]_vars, NEW s \in Id
  PROVE  [SocketChannel(s)!ChannelNext]_(SocketChannel(s)!channelVars)
<1> SUFFICES SocketChannel(s)!ChannelNext \/ UNCHANGED SocketChannel(s)!channelVars
  OBVIOUS
<1> USE DEF SocketChannel!channelVars
<1>1. ASSUME NEW t \in Thread, Take(t)
      PROVE  SocketChannel(s)!Receive \/ UNCHANGED SocketChannel(s)!channelVars
  <2>1. CASE on[t] = s
    <3>1. queue[s] # <<>>
      BY <1>1, <2>1 DEF Take
    <3>2. ~closed[s] /\ cleared[s] = <<>>
      BY <3>1 DEF Owner
    <3>3. /\ received[s] \in Seq(Datagram) /\ queue[s] \in Seq(Datagram)
          /\ accepted[s] = received[s] \o queue[s]
      <4>1. received[s] \in Seq(Datagram) /\ queue[s] \in Seq(Datagram)
        BY DEF TypeContents
      <4>2. accepted[s] = received[s] \o queue[s] \o <<>>
        BY <3>2 DEF Fifo
      <4> QED
        BY <4>1, <4>2, NothingCleared
    <3>4. /\ received'[s] = Append(received[s], Head(queue[s]))
          /\ accepted' = accepted /\ closed' = closed
      BY <1>1, <2>1 DEF Take, TypeContents
    <3>5. Len(received[s]) < Len(accepted[s])
          /\ accepted[s][Len(received[s]) + 1] = Head(queue[s])
      BY <3>1, <3>3, FrontIsNext
    <3> QED
      BY <3>4, <3>5 DEF SocketChannel!Receive
  <2>2. CASE on[t] # s
    BY <1>1, <2>2 DEF Take, TypeContents
  <2> QED
    BY <2>1, <2>2
<1>2. ASSUME NEW t \in Thread, Close(t)
      PROVE  SocketChannel(s)!Shut \/ UNCHANGED SocketChannel(s)!channelVars
  BY <1>2 DEF Close, TypeContents, SocketChannel!Shut
<1>3. ASSUME NEW f \in found, Enqueue(f)
      PROVE  SocketChannel(s)!Send(f.dgram) \/ UNCHANGED SocketChannel(s)!channelVars
  <2>1. f.sock \in Id /\ f.dgram \in Datagram
    BY FoundIsOne
  <2>2. CASE f.sock = s /\ ~closed[s]
    <3>1. /\ Len(accepted[s]) < arrived /\ arrived <= MaxDatagrams
          /\ Len(accepted[s]) \in Nat /\ Len(received[s]) \in Nat /\ arrived \in Nat
      BY DEF Counted, TypeContents
    <3>2. Len(accepted[s]) < Len(received[s]) + MaxDatagrams
      BY <3>1
    <3>3. /\ accepted'[s] = Append(accepted[s], f.dgram)
          /\ received' = received /\ closed' = closed
      BY <1>3, <2>1, <2>2 DEF Enqueue, TypeContents
    <3> QED
      BY <2>2, <3>2, <3>3 DEF SocketChannel!Send
  <2>3. CASE f.sock # s \/ closed[s]
    BY <1>3, <2>1, <2>3 DEF Enqueue, TypeContents
  <2> QED
    BY <2>2, <2>3
<1>4. CASE UNCHANGED <<accepted, received, closed>>
  BY <1>4
<1> QED
  BY <1>1, <1>2, <1>3, <1>4, FoundIsOne
     DEF Next, Recv, Socket, Bind, RecvFrom, RecvClosed, RecvWait, Spurious, Remove, Find, vars,
         SocketChannel!ChannelNext

\* Every socket is a FIFO channel from the worker to the threads in recvfrom
\* that closesocket shuts, although the table, the queue and the flag are not
\* guarded by one lock: nothing is lost in the gaps but what close throws away.
THEOREM SocketsAreChannels == Spec => ImplementsChannels
<1>1. Init => \A s \in Id : SocketChannel(s)!ChannelInit
  BY DEF Init, SocketChannel!ChannelInit
<1>2. TypeOK /\ Owner /\ Fifo /\ Counted /\ [Next]_vars
        => \A s \in Id : [SocketChannel(s)!ChannelNext]_(SocketChannel(s)!channelVars)
  BY StepImplementsChannel, TypeParts
<1> QED
  BY <1>1, <1>2, SocketTypes, AlwaysOwner, SocketsAreFifo, AlwaysCounted, PTL
     DEF Spec, ImplementsChannels

\* The same of one socket: seen alone, it behaves as the abstract channel does.
THEOREM SocketIsChannel ==
  ASSUME NEW s \in Id
  PROVE  Spec => SocketChannel(s)!ChannelSpec
<1>1. Init => SocketChannel(s)!ChannelInit
  BY DEF Init, SocketChannel!ChannelInit
<1>2. TypeOK /\ Owner /\ Fifo /\ Counted /\ [Next]_vars
        => [SocketChannel(s)!ChannelNext]_(SocketChannel(s)!channelVars)
  BY StepImplementsChannel, TypeParts
<1> QED
  BY <1>1, <1>2, SocketTypes, AlwaysOwner, SocketsAreFifo, AlwaysCounted, PTL
     DEF Spec, SocketChannel!ChannelSpec
=============================================================================
