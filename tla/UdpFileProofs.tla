--------------------------- MODULE UdpFileProofs ---------------------------
(***************************************************************************)
(* The file transfer, for any senders, chunks, junk and number of          *)
(* datagrams: the receiver and the link-layer thread use their socket as   *)
(* UdpSocket allows, the file written is one sender's whole file, and the  *)
(* receiver waits only for chunks that were never queued.                  *)
(***************************************************************************)
EXTENDS UdpFile, SequenceTheorems, TLAPS

USE FileAssumption DEF FileAssumption

Arrivals == {ToHere(c) : c \in AllChunks \cup Junk}

\* The receiver is in the functions of its one socket only, and what is in hand,
\* queued or accepted came from a sender or is junk.
SocketInv ==
  /\ pc \in [{Receiver} -> Sock!Pc]
  /\ on \in [{Receiver} -> {0, sock}]
  /\ pc[Receiver] # "idle" => on[Receiver] = sock
  /\ \A f \in found : f.sock = sock /\ f.dgram \in Arrivals
  /\ queue \in [{sock} -> Seq(Arrivals)]
  /\ accepted \in [{sock} -> Seq(Arrivals)]

Holds(q, d) == \E n \in 1 .. Len(q) : q[n] = d

\* What is queued was accepted.
QueueInv == \A n \in 1 .. Len(queue[sock]) : Holds(accepted[sock], queue[sock][n])

\* A chunk stored was queued to the socket before, in the place its sender gave
\* it; one of them set the total; the file is written when all are there, and
\* then nothing more is stored.
StoreInv ==
  /\ \A s \in Sender : \A i \in DOMAIN slots : slots[i] = s => i \in QueuedFrom(s)
  /\ \A n \in total : \E i \in DOMAIN slots : n = Chunks[slots[i]]
  /\ file # {} => /\ main \in {"closing", "done"}
                  /\ total # {}
                  /\ \A n \in total : HaveAll(slots, n)

FileInv == FileTypeOK /\ SocketInv /\ QueueInv /\ StoreInv

-----------------------------------------------------------------------------
LEMMA ChunkOfSender ==
  ASSUME NEW c \in AllChunks
  PROVE  /\ c.kind = "chunk"
         /\ c.from \in Sender
         /\ c.total = Chunks[c.from]
         /\ c.idx \in Index(c.from)
         /\ c = Chunk(c.from, c.idx)
<1>1. PICK s \in Sender : c \in {Chunk(s, i) : i \in Index(s)}
  BY DEF AllChunks
<1>2. PICK i \in Index(s) : c = Chunk(s, i)
  BY <1>1
<1> QED
  BY <1>2 DEF Chunk

LEMMA ChunkByKind ==
  ASSUME NEW d \in Arrivals, d.data.kind = "chunk"
  PROVE  d.data \in AllChunks
<1>1. PICK c \in AllChunks \cup Junk : d = ToHere(c)
  BY DEF Arrivals
<1>2. d.data = c
  BY <1>1 DEF ToHere
<1> QED
  BY <1>2

\* While it is in a function of the socket the receiver takes from that one.
LEMMA TakeFromSock ==
  ASSUME SocketInv, Sock!Take(Receiver)
  PROVE  /\ queue[sock] # <<>>
         /\ queue' = [queue EXCEPT ![sock] = Tail(@)]
         /\ pc' = [pc EXCEPT ![Receiver] = "idle"]
         /\ on' = [on EXCEPT ![Receiver] = 0]
         /\ UNCHANGED <<found, accepted>>
<1>1. on[Receiver] = sock
  BY DEF Sock!Take, Sock!AtLock, SocketInv
<1> QED
  BY <1>1 DEF Sock!Take

LEMMA InitFileInv == Init => FileInv
<1> SUFFICES ASSUME Init PROVE FileInv
  OBVIOUS
<1> USE DEF Init, sock
<1>1. FileTypeOK
  BY DEF FileTypeOK
<1>2. SocketInv
  BY EmptySeq DEF SocketInv, Sock!Init, Sock!Id, Sock!Pc
<1>3. QueueInv
  BY DEF QueueInv, Sock!Init, Sock!Id
<1>4. StoreInv
  BY DEF StoreInv
<1> QED
  BY <1>1, <1>2, <1>3, <1>4 DEF FileInv

-----------------------------------------------------------------------------
LEMMA EnqueueKeepsSocket ==
  ASSUME SocketInv, QueueInv, NEW f \in found, Sock!Enqueue(f)
  PROVE  /\ SocketInv' /\ QueueInv'
         /\ \A d : Holds(accepted[sock], d) => Holds(accepted'[sock], d)
<1> USE DEF Sock!Pc
<1>0. f.sock = sock /\ f.dgram \in Arrivals
  BY DEF SocketInv
<1>1. pc' \in [{Receiver} -> Sock!Pc] /\ (pc'[Receiver] # "idle" => pc[Receiver] # "idle")
  BY DEF Sock!Enqueue, Sock!NotifyOne, Sock!Waiting, Sock!In, SocketInv
<1>2. on' = on /\ found' \subseteq found
  BY DEF Sock!Enqueue
<1>3. CASE closed[f.sock]
  <2>1. UNCHANGED <<queue, accepted>>
    BY <1>3 DEF Sock!Enqueue
  <2> QED
    BY <1>1, <1>2, <2>1 DEF SocketInv, QueueInv, Holds
<1>4. CASE ~closed[f.sock]
  <2>1. /\ queue' = [queue EXCEPT ![sock] = Append(@, f.dgram)]
        /\ accepted' = [accepted EXCEPT ![sock] = Append(@, f.dgram)]
    BY <1>0, <1>4 DEF Sock!Enqueue
  <2>2. queue[sock] \in Seq(Arrivals) /\ accepted[sock] \in Seq(Arrivals)
    BY DEF SocketInv
  <2>3. queue'[sock] = Append(queue[sock], f.dgram) /\ accepted'[sock] = Append(accepted[sock], f.dgram)
    BY <2>1 DEF SocketInv
  <2>4. SocketInv'
    BY <1>0, <1>1, <1>2, <2>1, <2>2 DEF SocketInv
  <2>5. ASSUME NEW d, Holds(accepted[sock], d) PROVE Holds(accepted'[sock], d)
    <3>1. PICK n \in 1 .. Len(accepted[sock]) : accepted[sock][n] = d
      BY <2>5 DEF Holds
    <3>2. n \in 1 .. Len(accepted'[sock]) /\ accepted'[sock][n] = d
      BY <1>0, <2>2, <2>3, <3>1, AppendProperties
    <3> QED
      BY <3>2 DEF Holds
  <2>6. Holds(accepted'[sock], f.dgram)
    <3>1. LET n == Len(accepted[sock]) + 1
          IN  n \in 1 .. Len(accepted'[sock]) /\ accepted'[sock][n] = f.dgram
      BY <1>0, <2>2, <2>3, AppendProperties
    <3> QED
      BY <3>1 DEF Holds
  <2>7. ASSUME NEW n \in 1 .. Len(queue'[sock]) PROVE Holds(accepted'[sock], queue'[sock][n])
    <3>1. CASE n \in 1 .. Len(queue[sock])
      BY <1>0, <2>2, <2>3, <2>5, <3>1, AppendProperties DEF QueueInv
    <3>2. CASE n = Len(queue[sock]) + 1
      BY <1>0, <2>2, <2>3, <2>6, <3>2, AppendProperties
    <3> QED
      BY <1>0, <2>2, <2>3, <3>1, <3>2, AppendProperties
  <2> QED
    BY <2>4, <2>5, <2>7 DEF QueueInv
<1> QED
  BY <1>3, <1>4

LEMMA TakeKeepsSocket ==
  ASSUME SocketInv, QueueInv, Sock!Take(Receiver)
  PROVE  SocketInv' /\ QueueInv' /\ UNCHANGED accepted
<1>1. queue[sock] \in Seq(Arrivals) /\ queue[sock] # <<>>
  BY TakeFromSock DEF SocketInv
<1>2. queue'[sock] = Tail(queue[sock]) /\ Tail(queue[sock]) \in Seq(Arrivals)
  BY <1>1, TakeFromSock DEF SocketInv
<1>3. SocketInv'
  BY <1>2, TakeFromSock DEF SocketInv, Sock!Pc
<1>4. ASSUME NEW n \in 1 .. Len(queue'[sock]) PROVE Holds(accepted'[sock], queue'[sock][n])
  <2>1. n + 1 \in 1 .. Len(queue[sock]) /\ queue'[sock][n] = queue[sock][n + 1]
    BY <1>1, <1>2
  <2> QED
    BY <2>1, TakeFromSock DEF QueueInv, Holds
<1> QED
  BY <1>3, <1>4, TakeFromSock DEF QueueInv

\* The steps that put nothing in the queue and take nothing out, except all of
\* it when the socket is closed.
LEMMA OtherStepKeepsSocket ==
  ASSUME FileTypeOK, SocketInv, QueueInv,
         \/ Receive /\ ~TakeChunk
         \/ Spurious
         \/ \E s \in Sender : SendChunk(s)
         \/ \E c \in wire \cup Junk : Dispatch(c)
         \/ UNCHANGED vars
  PROVE  SocketInv' /\ QueueInv' /\ UNCHANGED accepted
<1> USE DEF Sock!Pc
<1>1. CASE UNCHANGED sockVars
  BY <1>1 DEF sockVars, SocketInv, QueueInv, Holds
<1>2. CASE OpenSocket \/ BindSocket
  BY <1>2 DEF OpenSocket, BindSocket, Sock!Socket, Sock!Bind, SocketInv, QueueInv, Holds
<1>3. CASE CallRecv
  BY <1>3 DEF CallRecv, Sock!RecvFrom, SocketInv, QueueInv, Holds
<1>4. CASE Sleep
  BY <1>4 DEF Sleep, Sock!RecvWait, Sock!AtLock, SocketInv, QueueInv, Holds
<1>5. CASE Spurious
  BY <1>5 DEF Spurious, Sock!Spurious, SocketInv, QueueInv, Holds
<1>6. CASE CloseSocket
  <2>1. CASE Sock!Remove(Receiver, sock)
    BY <2>1 DEF Sock!Remove, SocketInv, QueueInv, Holds
  <2>2. CASE Sock!Close(Receiver)
    <3>1. on[Receiver] = sock
      BY <2>2 DEF Sock!Close, SocketInv
    <3>2. /\ queue' = [queue EXCEPT ![sock] = <<>>]
          /\ pc' = [u \in {Receiver} |-> "idle"]
          /\ on' = [on EXCEPT ![Receiver] = 0]
          /\ UNCHANGED <<found, accepted>>
      BY <2>2, <3>1 DEF Sock!Close
    <3> QED
      BY <3>2, EmptySeq DEF SocketInv, QueueInv
  <2> QED
    BY <1>6, <2>1, <2>2 DEF CloseSocket
<1>7. ASSUME NEW c \in wire \cup Junk, Dispatch(c) PROVE SocketInv' /\ QueueInv' /\ UNCHANGED accepted
  <2>1. c \in AllChunks \cup Junk
    BY DEF FileTypeOK
  <2>2. \A f \in found' : f.sock = sock /\ f.dgram \in Arrivals
    BY <1>7, <2>1 DEF Dispatch, Sock!Find, Arrivals
  <2>3. UNCHANGED <<pc, on, queue, accepted>>
    BY <1>7 DEF Dispatch, Sock!Find
  <2> QED
    BY <2>2, <2>3 DEF SocketInv, QueueInv, Holds
<1> QED
  BY <1>1, <1>2, <1>3, <1>4, <1>5, <1>6, <1>7 DEF Receive, SendChunk, vars

-----------------------------------------------------------------------------
\* What was queued from a sender stays so.
LEMMA QueuedStays ==
  ASSUME \A d : Holds(accepted[sock], d) => Holds(accepted'[sock], d), NEW s
  PROVE  QueuedFrom(s) \subseteq QueuedFrom(s)'
<1> SUFFICES ASSUME NEW i \in QueuedFrom(s) PROVE i \in QueuedFrom(s)'
  OBVIOUS
<1>1. PICK n \in 1 .. Len(accepted[sock]) : accepted[sock][n].data = Chunk(s, i)
  BY DEF QueuedFrom
<1>2. Holds(accepted'[sock], accepted[sock][n])
  BY DEF Holds
<1> QED
  BY <1>1, <1>2 DEF Holds, QueuedFrom

\* A step that takes no chunk from the socket.
LEMMA OtherStepKeepsStore ==
  ASSUME FileInv, \A d : Holds(accepted[sock], d) => Holds(accepted'[sock], d),
         \/ Receive /\ ~TakeChunk
         \/ Spurious \/ Deliver
         \/ \E s \in Sender : SendChunk(s)
         \/ \E c \in wire \cup Junk : Dispatch(c)
         \/ UNCHANGED vars
  PROVE  FileTypeOK' /\ StoreInv'
<1> USE DEF FileInv
<1>1. UNCHANGED <<total, slots, file>>
  BY DEF Receive, OpenSocket, BindSocket, CallRecv, Sleep, CloseSocket, Spurious, Deliver,
         SendChunk, Dispatch, fileVars, vars
<1>2. /\ main' \in {"starting", "binding", "looping", "receiving", "closing", "done", "failed"}
      /\ main \in {"closing", "done"} => main' \in {"closing", "done"}
  BY DEF Receive, OpenSocket, BindSocket, CallRecv, Sleep, CloseSocket, Spurious, Deliver,
         SendChunk, Dispatch, fileVars, vars, FileTypeOK
<1>3. /\ next' \in [Sender -> Nat]
      /\ \A s \in Sender : next'[s] <= Chunks[s]
      /\ wire' \subseteq AllChunks
  <2>1. CASE UNCHANGED <<next, wire>>
    BY <2>1 DEF FileTypeOK
  <2>2. ASSUME NEW s \in Sender, SendChunk(s)
        PROVE  /\ next' \in [Sender -> Nat]
               /\ \A r \in Sender : next'[r] <= Chunks[r]
               /\ wire' \subseteq AllChunks
    <3>1. Chunk(s, next[s]) \in AllChunks
      BY <2>2 DEF SendChunk, AllChunks
    <3> QED
      BY <2>2, <3>1 DEF SendChunk, FileTypeOK, Index
  <2> QED
    BY <2>1, <2>2 DEF Receive, OpenSocket, BindSocket, CallRecv, Sleep, CloseSocket, Spurious, Deliver,
         Dispatch, fileVars, vars
<1>4. FileTypeOK'
  BY <1>1, <1>2, <1>3 DEF FileTypeOK
<1>5. ASSUME NEW s \in Sender, NEW i \in DOMAIN slots', slots'[i] = s PROVE i \in QueuedFrom(s)'
  BY <1>1, <1>5, QueuedStays DEF StoreInv
<1> QED
  BY <1>1, <1>2, <1>4, <1>5 DEF StoreInv, HaveAll

\* A chunk that is in range is stored in the place its sender gave it.
LEMMA StoringKeeps ==
  ASSUME FileInv, NEW c \in AllChunks, c.idx \in QueuedFrom(c.from),
         main = "receiving", InRange(c), total' = TotalOf(c), slots' = Stored(c),
         \/ main' = "looping" /\ UNCHANGED file
         \/ main' = "failed" /\ UNCHANGED file
         \/ /\ main' = "closing" /\ file' = {Stored(c)}
            /\ \A n \in TotalOf(c) : HaveAll(Stored(c), n),
         UNCHANGED <<next, wire, accepted>>
  PROVE  FileTypeOK' /\ StoreInv'
<1> USE DEF FileInv
<1>1. /\ c.from \in Sender
      /\ c.total = Chunks[c.from]
      /\ c.idx \in Index(c.from)
  BY ChunkOfSender
<1>2. file = {}
  BY DEF StoreInv, FileTypeOK
<1>3. \E s \in Sender : total' = {Chunks[s]}
  BY <1>1 DEF TotalOf, FileTypeOK
<1>4. DOMAIN slots' = DOMAIN slots \cup {c.idx}
  BY DEF Stored
<1>5. \A i \in DOMAIN slots' : slots'[i] = IF i \in DOMAIN slots THEN slots[i] ELSE c.from
  BY DEF Stored
<1>6. DOMAIN slots' \subseteq UNION {0 .. n - 1 : n \in total'}
  <2>1. PICK s \in Sender : total' = {Chunks[s]}
    BY <1>3
  <2>2. DOMAIN slots \subseteq 0 .. Chunks[s] - 1
    BY <2>1 DEF FileTypeOK, TotalOf
  <2>3. c.idx \in 0 .. Chunks[s] - 1
    BY <1>1, <2>1 DEF InRange, Index
  <2> QED
    BY <1>4, <2>1, <2>2, <2>3
<1>7. ASSUME NEW s \in Sender, NEW i \in DOMAIN slots', slots'[i] = s PROVE i \in QueuedFrom(s)'
  <2>1. QueuedFrom(s)' = QueuedFrom(s)
    BY DEF QueuedFrom
  <2> QED
    BY <1>4, <1>5, <1>7, <2>1 DEF StoreInv
<1>8. slots' \in [DOMAIN slots' -> Sender]
  BY <1>1, <1>4 DEF FileTypeOK, Stored
<1>9. FileTypeOK'
  BY <1>2, <1>3, <1>6, <1>8 DEF FileTypeOK
<1>10. \A n \in total' : \E i \in DOMAIN slots' : n = Chunks[slots'[i]]
  <2>1. CASE total = {}
    <3>1. DOMAIN slots = {}
      BY <2>1 DEF FileTypeOK
    <3> QED
      BY <1>1, <1>4, <1>5, <2>1, <3>1 DEF TotalOf
  <2>2. CASE total # {}
    BY <1>4, <1>5, <2>2 DEF TotalOf, StoreInv
  <2> QED
    BY <2>1, <2>2
<1>11. file' # {} => /\ main' \in {"closing", "done"}
                     /\ total' # {}
                     /\ \A n \in total' : HaveAll(slots', n)
  BY <1>2, <1>3
<1> QED
  BY <1>7, <1>9, <1>10, <1>11 DEF StoreInv

LEMMA TakeChunkKeepsInv == FileInv /\ TakeChunk => FileInv'
<1> SUFFICES ASSUME FileInv, TakeChunk PROVE FileInv'
  OBVIOUS
<1> DEFINE d == Head(queue[sock])
           c == d.data
<1>1. /\ main = "receiving"
      /\ queue[sock] # <<>>
      /\ Sock!Take(Receiver)
      /\ TakeLong(c) \/ SkipDamaged(c) \/ SkipBeyond(c) \/ Store(c) \/ Write(c)
      /\ UNCHANGED <<next, wire>>
  BY DEF TakeChunk, TakeLong, SkipDamaged, SkipBeyond, Store, Write, Got
<1>2. d \in Arrivals /\ Holds(accepted[sock], d)
  BY <1>1 DEF FileInv, SocketInv, QueueInv
<1> HIDE DEF d
<1>3. SocketInv' /\ QueueInv' /\ UNCHANGED accepted
  BY <1>1, TakeKeepsSocket DEF FileInv
<1>4. CASE TakeLong(c) \/ SkipDamaged(c)
  <2>1. FileTypeOK'
    BY <1>1, <1>4 DEF TakeLong, SkipDamaged, FileInv, FileTypeOK
  <2>2. StoreInv'
    BY <1>1, <1>3, <1>4 DEF TakeLong, SkipDamaged, FileInv, StoreInv, QueuedFrom
  <2> QED
    BY <1>3, <2>1, <2>2 DEF FileInv
<1>5. CASE c.kind = "chunk"
  <2>1. c \in AllChunks
    BY <1>2, <1>5, ChunkByKind
  <2>2. c.from \in Sender /\ c.idx \in Index(c.from) /\ c.total = Chunks[c.from] /\ c = Chunk(c.from, c.idx)
    BY <2>1, ChunkOfSender
  <2>3. c.idx \in QueuedFrom(c.from)
    BY <1>2, <2>2 DEF Holds, QueuedFrom
  <2> HIDE DEF c
  <2>4. CASE SkipBeyond(c)
    <3>1. total # {}
      BY <2>2, <2>4 DEF SkipBeyond, InRange, TotalOf, Index
    <3>2. UNCHANGED <<total, slots, file>> /\ main' = "looping"
      BY <2>4, <3>1 DEF SkipBeyond, TotalOf
    <3>3. FileTypeOK'
      BY <1>1, <3>2 DEF FileInv, FileTypeOK
    <3>4. StoreInv'
      BY <1>1, <1>3, <3>2 DEF FileInv, StoreInv, QueuedFrom
    <3> QED
      BY <1>3, <3>3, <3>4 DEF FileInv
  <2>5. CASE Store(c) \/ Write(c)
    <3>1. /\ InRange(c) /\ total' = TotalOf(c) /\ slots' = Stored(c)
          /\ \/ main' = "looping" /\ UNCHANGED file
             \/ main' = "failed" /\ UNCHANGED file
             \/ /\ main' = "closing" /\ file' = {Stored(c)}
                /\ \A n \in TotalOf(c) : HaveAll(Stored(c), n)
      BY <2>5 DEF Store, Write
    <3>2. FileTypeOK' /\ StoreInv'
      BY <1>1, <1>3, <2>1, <2>3, <3>1, StoringKeeps
    <3> QED
      BY <1>3, <3>2 DEF FileInv
  <2> QED
    BY <1>1, <1>5, <2>4, <2>5 DEF TakeLong, SkipDamaged, Got
<1> QED
  BY <1>1, <1>4, <1>5 DEF SkipBeyond, Store, Write, Got

LEMMA NextFileInv == FileInv /\ [Next]_vars => FileInv'
<1> SUFFICES ASSUME FileInv, [Next]_vars PROVE FileInv'
  OBVIOUS
<1>1. CASE TakeChunk
  BY <1>1, TakeChunkKeepsInv
<1>2. CASE Deliver
  <2>1. PICK f \in found : Sock!Enqueue(f)
    BY <1>2 DEF Deliver
  <2>2. SocketInv' /\ QueueInv' /\ \A d : Holds(accepted[sock], d) => Holds(accepted'[sock], d)
    BY <2>1, EnqueueKeepsSocket DEF FileInv
  <2>3. FileTypeOK' /\ StoreInv'
    BY <1>2, <2>2, OtherStepKeepsStore
  <2> QED
    BY <2>2, <2>3 DEF FileInv
<1>3. CASE ~TakeChunk /\ ~Deliver
  <2>1. \/ Receive /\ ~TakeChunk
        \/ Spurious
        \/ \E s \in Sender : SendChunk(s)
        \/ \E c \in wire \cup Junk : Dispatch(c)
        \/ UNCHANGED vars
    BY <1>3 DEF Next
  <2>2. SocketInv' /\ QueueInv' /\ UNCHANGED accepted
    BY <2>1, OtherStepKeepsSocket DEF FileInv
  <2>3. \A d : Holds(accepted[sock], d) => Holds(accepted'[sock], d)
    BY <2>2 DEF Holds
  <2>4. FileTypeOK' /\ StoreInv'
    BY <2>1, <2>3, OtherStepKeepsStore
  <2> QED
    BY <2>2, <2>4 DEF FileInv
<1> QED
  BY <1>1, <1>2, <1>3

LEMMA FileInvHolds == Spec => []FileInv
BY InitFileInv, NextFileInv, PTL DEF Spec

\* The state of run_udp_recv_file keeps its types, and no chunk is stored beyond
\* the total: the slots that recv_file indexes are there.
THEOREM FileTypes == Spec => []FileTypeOK
<1>1. FileInv => FileTypeOK
  BY DEF FileInv
<1> QED
  BY <1>1, FileInvHolds, PTL

\* The file that run_udp_recv_file writes has a chunk that reached the socket at
\* each of its places, and is one sender's whole file, unless two senders' chunks
\* reached the socket.
THEOREM FileIsWhole == Spec => []WholeOfOne
<1>1. FileInv => WholeOfOne
  <2> SUFFICES ASSUME FileInv, NEW f \in file
               PROVE  /\ \E s \in Sender : DOMAIN f = Index(s)
                      /\ \A i \in DOMAIN f : i \in QueuedFrom(f[i])
                      /\ (\A r, s \in Sender : r = s \/ QueuedFrom(r) = {} \/ QueuedFrom(s) = {})
                           => \E s \in Sender : f = [i \in Index(s) |-> s]
    BY DEF WholeOfOne
  <2>1. f = slots /\ total # {}
    BY DEF FileInv, FileTypeOK, StoreInv
  <2>2. PICK n \in total : \E i \in DOMAIN slots : n = Chunks[slots[i]]
    BY <2>1 DEF FileInv, StoreInv
  <2>3. PICK k \in DOMAIN slots : n = Chunks[slots[k]]
    BY <2>2
  <2>4. slots[k] \in Sender /\ total = {n}
    BY <2>2 DEF FileInv, FileTypeOK
  <2>5. \A i \in DOMAIN slots : slots[i] \in Sender /\ i \in QueuedFrom(slots[i])
    BY DEF FileInv, FileTypeOK, StoreInv
  <2>6. DOMAIN slots = Index(slots[k])
    <3>1. DOMAIN slots \subseteq 0 .. n - 1
      BY <2>4 DEF FileInv, FileTypeOK
    <3>2. 0 .. n - 1 \subseteq DOMAIN slots
      BY <2>2 DEF FileInv, StoreInv, HaveAll
    <3> QED
      BY <2>3, <3>1, <3>2 DEF Index
  <2>7. slots = [i \in DOMAIN slots |-> slots[i]]
    BY DEF FileInv, FileTypeOK
  <2>8. ASSUME \A r, s \in Sender : r = s \/ QueuedFrom(r) = {} \/ QueuedFrom(s) = {}
        PROVE  slots = [i \in Index(slots[k]) |-> slots[k]]
    <3>1. \A i \in DOMAIN slots : slots[i] = slots[k]
      BY <2>5, <2>8
    <3> QED
      BY <2>6, <2>7, <3>1
  <2> QED
    BY <2>1, <2>4, <2>5, <2>6, <2>8
<1> QED
  BY <1>1, FileInvHolds, PTL

-----------------------------------------------------------------------------
LEMMA StepOfSocket == FileInv /\ [Next]_vars => [Sock!Next]_sockVars
<1> SUFFICES ASSUME FileInv, [Next]_vars PROVE Sock!Next \/ UNCHANGED sockVars
  BY DEF sockVars, Sock!vars
<1>0. sock \in Sock!Id /\ Receiver \in {Receiver}
  BY DEF sock, Sock!Id
<1>1. CASE OpenSocket
  BY <1>1 DEF OpenSocket, Sock!Next
<1>2. CASE BindSocket
  BY <1>0, <1>2 DEF BindSocket, Sock!Next
<1>3. CASE CallRecv
  BY <1>0, <1>3 DEF CallRecv, Sock!Next
<1>4. CASE Sleep
  BY <1>4 DEF Sleep, Sock!Next, Sock!Recv
<1>5. CASE Spurious
  BY <1>5 DEF Spurious, Sock!Next
<1>6. CASE TakeChunk
  <2>1. Sock!Take(Receiver)
    BY <1>6 DEF TakeChunk, TakeLong, SkipDamaged, SkipBeyond, Store, Write, Got
  <2> QED
    BY <2>1 DEF Sock!Next, Sock!Recv
<1>7. CASE CloseSocket
  BY <1>0, <1>7 DEF CloseSocket, Sock!Next
<1>8. CASE Deliver
  BY <1>8 DEF Deliver, Sock!Next
<1>9. ASSUME NEW c \in wire \cup Junk, Dispatch(c) PROVE Sock!Next
  <2>1. ToHere(c) \in {ToHere(e) : e \in AllChunks \cup Junk}
    BY DEF FileInv, FileTypeOK
  <2> QED
    BY <1>0, <1>9, <2>1 DEF Dispatch, Sock!Next
<1>10. CASE UNCHANGED vars \/ \E s \in Sender : SendChunk(s)
  BY <1>10 DEF vars, SendChunk
<1> QED
  BY <1>1, <1>2, <1>3, <1>4, <1>5, <1>6, <1>7, <1>8, <1>9, <1>10 DEF Next, Receive

\* Whatever the file transfer does with its socket is what UdpSocket specifies,
\* the fairness of its threads apart: what holds of sockets holds of this one.
THEOREM SocketUsed == Spec => Sock!Init /\ [][Sock!Next]_sockVars
<1>1. Init => Sock!Init
  BY DEF Init
<1> QED
  BY <1>1, FileInvHolds, StepOfSocket, PTL DEF Spec

-----------------------------------------------------------------------------
\* run_udp_recv_file still has its socket and no whole file.
Listening == main \in {"starting", "binding", "looping", "receiving"}

\* A chunk the receiver has taken is in its slot, or beyond the total.
TakenInv ==
  Listening =>
    \A c \in AllChunks :
      Holds(accepted[sock], ToHere(c)) =>
        \/ Holds(queue[sock], ToHere(c))
        \/ c.idx \in DOMAIN slots
        \/ \E n \in total : ~(c.idx < n)

\* It goes on only while a slot is empty, and sleeps only with an empty queue.
WantsInv ==
  /\ Listening => \A n \in total : ~HaveAll(slots, n)
  /\ pc[Receiver] = "waiting" => queue[sock] = <<>>

\* When the receiver has nothing left to take, or sleeps, no file has been queued
\* whole, except one longer or shorter than the total it was told first.
WaitsForMore ==
  main \in {"looping", "receiving"} /\ (queue[sock] = <<>> \/ pc[Receiver] = "waiting") =>
    \A s \in Sender : QueuedFrom(s) = Index(s) => total \notin {{}, {Chunks[s]}}

LEMMA InitWants == Init => TakenInv /\ WantsInv
<1> SUFFICES ASSUME Init PROVE TakenInv /\ WantsInv
  OBVIOUS
<1>1. accepted[sock] = <<>> /\ queue[sock] = <<>> /\ total = {}
  BY DEF Init, Sock!Init, Sock!Id, sock
<1>2. \A d : ~Holds(accepted[sock], d)
  BY <1>1 DEF Holds
<1> QED
  BY <1>1, <1>2 DEF TakenInv, WantsInv

LEMMA HoldsAppend ==
  ASSUME NEW S, NEW q \in Seq(S), NEW e \in S, NEW d
  PROVE  Holds(Append(q, e), d) <=> Holds(q, d) \/ d = e
<1>1. /\ Len(q) \in Nat /\ Len(Append(q, e)) = Len(q) + 1
      /\ \A n \in 1 .. Len(q) : Append(q, e)[n] = q[n]
      /\ Append(q, e)[Len(q) + 1] = e
  BY AppendProperties
<1>2. \A n : n \in 1 .. Len(q) + 1 <=> n \in 1 .. Len(q) \/ n = Len(q) + 1
  BY <1>1
<1> QED
  BY ONLY <1>1, <1>2 DEF Holds

LEMMA HoldsTail ==
  ASSUME NEW S, NEW q \in Seq(S), q # <<>>, NEW d, Holds(q, d)
  PROVE  d = Head(q) \/ Holds(Tail(q), d)
<1>1. PICK n \in 1 .. Len(q) : q[n] = d
  BY DEF Holds
<1>2. CASE n = 1
  BY <1>1, <1>2
<1>3. CASE n # 1
  <2>1. n - 1 \in 1 .. Len(Tail(q)) /\ Tail(q)[n - 1] = q[n]
    BY <1>1, <1>3
  <2> QED
    BY <1>1, <2>1 DEF Holds
<1> QED
  BY <1>2, <1>3

LEMMA DeliverKeepsWants == FileInv /\ TakenInv /\ WantsInv /\ Deliver => TakenInv' /\ WantsInv'
<1> SUFFICES ASSUME FileInv, TakenInv, WantsInv, Deliver PROVE TakenInv' /\ WantsInv'
  OBVIOUS
<1>1. PICK f \in found : Sock!Enqueue(f)
  BY DEF Deliver
<1>2. f.sock = sock /\ f.dgram \in Arrivals
  BY DEF FileInv, SocketInv
<1>3. UNCHANGED <<main, total, slots>>
  BY DEF Deliver, fileVars
<1>4. CASE closed[f.sock]
  <2>1. UNCHANGED <<queue, accepted, pc>>
    BY <1>1, <1>4 DEF Sock!Enqueue
  <2> QED
    BY <1>3, <2>1 DEF TakenInv, WantsInv, Listening, HaveAll
<1>5. CASE ~closed[f.sock]
  <2>1. /\ queue[sock] \in Seq(Arrivals) /\ accepted[sock] \in Seq(Arrivals)
        /\ queue'[sock] = Append(queue[sock], f.dgram)
        /\ accepted'[sock] = Append(accepted[sock], f.dgram)
    BY <1>1, <1>2, <1>5 DEF Sock!Enqueue, FileInv, SocketInv
  <2>2. pc'[Receiver] # "waiting"
    BY <1>1, <1>2, <1>5 DEF Sock!Enqueue, Sock!NotifyOne, Sock!Waiting, Sock!In, FileInv, SocketInv
  <2>3. \A d : Holds(accepted'[sock], d) => Holds(accepted[sock], d) \/ d = f.dgram
    BY <1>2, <2>1, HoldsAppend
  <2>4. \A d : Holds(queue[sock], d) \/ d = f.dgram => Holds(queue'[sock], d)
    BY <1>2, <2>1, HoldsAppend
  <2>5. TakenInv'
    BY <1>3, <2>3, <2>4 DEF TakenInv, Listening
  <2>6. WantsInv'
    BY <1>3, <2>2 DEF WantsInv, Listening, HaveAll
  <2> QED
    BY <2>5, <2>6
<1> QED
  BY <1>4, <1>5

LEMMA TakeChunkKeepsWants == FileInv /\ TakenInv /\ WantsInv /\ TakeChunk => TakenInv' /\ WantsInv'
<1> SUFFICES ASSUME FileInv, TakenInv, WantsInv, TakeChunk PROVE TakenInv' /\ WantsInv'
  OBVIOUS
<1> DEFINE d == Head(queue[sock])
           c == d.data
<1>1. /\ main = "receiving"
      /\ queue[sock] # <<>>
      /\ Sock!Take(Receiver)
      /\ TakeLong(c) \/ SkipDamaged(c) \/ SkipBeyond(c) \/ Store(c) \/ Write(c)
  BY DEF TakeChunk, TakeLong, SkipDamaged, SkipBeyond, Store, Write, Got
<1>2. queue[sock] \in Seq(Arrivals) /\ d \in Arrivals /\ d = ToHere(c)
  <2>1. queue[sock] \in Seq(Arrivals)
    BY DEF FileInv, SocketInv
  <2>2. d \in Arrivals
    BY <1>1, <2>1
  <2> QED
    BY <2>1, <2>2 DEF Arrivals, ToHere
<1>3. /\ accepted' = accepted /\ queue'[sock] = Tail(queue[sock])
      /\ pc'[Receiver] # "waiting"
  BY <1>1, TakeFromSock DEF FileInv, SocketInv
<1>4. \A e : Holds(queue[sock], e) => e = d \/ Holds(queue'[sock], e)
  BY <1>1, <1>2, <1>3, HoldsTail
<1> HIDE DEF d
<1>5. \A e \in AllChunks : ToHere(e) = d => e = c
  BY <1>2 DEF ToHere
<1>6. CASE main' \in {"failed", "closing"}
  BY <1>3, <1>6 DEF TakenInv, WantsInv, Listening
<1>7. CASE SkipDamaged(c)
  <2>1. \A e \in AllChunks : ToHere(e) # d
    BY <1>5, <1>7, ChunkOfSender DEF SkipDamaged, Got
  <2>2. main' = "looping" /\ UNCHANGED <<total, slots>>
    BY <1>7 DEF SkipDamaged
  <2>3. Listening
    BY <1>1 DEF Listening
  <2> QED
    BY <1>3, <1>4, <2>1, <2>2, <2>3 DEF TakenInv, WantsInv, HaveAll
<1>8. CASE SkipBeyond(c)
  <2>1. c \in AllChunks
    BY <1>2, <1>8, ChunkByKind DEF SkipBeyond, Got
  <2>2. c.idx < c.total
    BY <2>1, ChunkOfSender DEF Index
  <2>3. /\ UNCHANGED <<total, slots>> /\ main' = "looping"
        /\ \E n \in total : ~(c.idx < n)
    BY <1>8, <2>2 DEF SkipBeyond, InRange, TotalOf
  <2>4. Listening
    BY <1>1 DEF Listening
  <2>5. TakenInv'
    BY <1>3, <1>4, <1>5, <2>3, <2>4 DEF TakenInv
  <2>6. WantsInv'
    BY <1>3, <2>3, <2>4 DEF WantsInv, HaveAll
  <2> QED
    BY <2>5, <2>6
<1>9. CASE Store(c)
  <2>1. /\ total' = TotalOf(c) /\ slots' = Stored(c) /\ main' = "looping"
        /\ \A n \in TotalOf(c) : ~HaveAll(Stored(c), n)
    BY <1>9 DEF Store
  <2>2. DOMAIN slots' = DOMAIN slots \cup {c.idx} /\ total \subseteq total'
    BY <2>1 DEF Stored, TotalOf
  <2>3. Listening
    BY <1>1 DEF Listening
  <2>4. TakenInv'
    BY <1>3, <1>4, <1>5, <2>2, <2>3 DEF TakenInv
  <2>5. WantsInv'
    BY <1>3, <2>1 DEF WantsInv
  <2> QED
    BY <2>4, <2>5
<1> QED
  BY <1>1, <1>6, <1>7, <1>8, <1>9 DEF TakeLong, Write

LEMMA OtherStepKeepsWants ==
  ASSUME FileInv, TakenInv, WantsInv, [Next]_vars, ~TakeChunk, ~Deliver
  PROVE  TakenInv' /\ WantsInv'
<1>t. pc \in [{Receiver} -> Sock!Pc] /\ on[Receiver] \in {0, sock} /\ (pc[Receiver] # "idle" => on[Receiver] = sock)
  BY DEF FileInv, SocketInv
<1>1. UNCHANGED <<total, slots>> /\ (Listening' => Listening)
  BY DEF Next, Receive, OpenSocket, BindSocket, CallRecv, Sleep, CloseSocket, Spurious,
         SendChunk, Dispatch, fileVars, vars, Listening
<1>2. UNCHANGED <<queue, accepted>> \/ (Sock!Close(Receiver) /\ ~Listening')
  BY DEF Next, Receive, OpenSocket, BindSocket, CallRecv, Sleep, CloseSocket, Spurious, SendChunk,
         Dispatch, fileVars, sockVars, vars, Listening, Sock!Socket, Sock!Bind, Sock!RecvFrom,
         Sock!RecvWait, Sock!Spurious, Sock!Remove, Sock!Find
<1>3. pc'[Receiver] = "waiting" => queue'[sock] = <<>>
  <2>1. CASE Sleep
    BY <1>t, <2>1 DEF Sleep, Sock!RecvWait, Sock!AtLock
  <2>2. CASE CallRecv
    BY <1>t, <2>2 DEF CallRecv, Sock!RecvFrom
  <2>3. CASE Spurious
    BY <1>t, <2>3 DEF Spurious, Sock!Spurious
  <2>4. CASE CloseSocket
    BY <1>t, <2>4 DEF CloseSocket, Sock!Remove, Sock!Close
  <2>5. CASE UNCHANGED <<pc, queue>>
    BY <2>5 DEF WantsInv
  <2> QED
    BY <2>1, <2>2, <2>3, <2>4, <2>5 DEF Next, Receive, OpenSocket, BindSocket, SendChunk, Dispatch,
       sockVars, vars, Sock!Socket, Sock!Bind, Sock!Find
<1>4. TakenInv'
  BY <1>1, <1>2 DEF TakenInv
<1>5. WantsInv'
  BY <1>1, <1>3 DEF WantsInv, HaveAll
<1> QED
  BY <1>4, <1>5

LEMMA WantsInvHolds == Spec => [](TakenInv /\ WantsInv)
<1>1. FileInv /\ TakenInv /\ WantsInv /\ [Next]_vars => (TakenInv /\ WantsInv)'
  BY DeliverKeepsWants, TakeChunkKeepsWants, OtherStepKeepsWants
<1> QED
  BY <1>1, InitWants, FileInvHolds, PTL DEF Spec

\* A receiver in recvfrom that sleeps, or that has taken all that came, wants
\* chunks that never reached its socket, for every file whose total it goes by: no
\* chunk is lost between the socket and its slot, and the last one does not go
\* unnoticed.  EndsWhenAllQueued needs no more than that receiver and link-layer
\* thread go on.
THEOREM StopsOnlyForMore == Spec => []WaitsForMore
<1>1. FileInv /\ TakenInv /\ WantsInv => WaitsForMore
  <2> SUFFICES ASSUME FileInv, TakenInv, WantsInv, main \in {"looping", "receiving"},
                      queue[sock] = <<>> \/ pc[Receiver] = "waiting",
                      NEW s \in Sender, QueuedFrom(s) = Index(s), total \in {{}, {Chunks[s]}}
               PROVE  FALSE
    BY DEF WaitsForMore
  <2>1. queue[sock] = <<>> /\ Listening
    BY DEF WantsInv, Listening
  <2>2. ASSUME NEW i \in Index(s) PROVE i \in DOMAIN slots \/ \E n \in total : ~(i < n)
    <3>1. PICK n \in 1 .. Len(accepted[sock]) : accepted[sock][n].data = Chunk(s, i)
      BY DEF QueuedFrom
    <3>2. accepted[sock][n] \in Arrivals
      BY DEF FileInv, SocketInv
    <3>3. accepted[sock][n] = ToHere(Chunk(s, i))
      BY <3>1, <3>2 DEF Arrivals, ToHere
    <3>4. Holds(accepted[sock], ToHere(Chunk(s, i))) /\ Chunk(s, i) \in AllChunks
      BY <3>3 DEF Holds, AllChunks
    <3>5. ~Holds(queue[sock], ToHere(Chunk(s, i)))
      BY <2>1 DEF Holds
    <3>6. Chunk(s, i).idx = i
      BY DEF Chunk
    <3> QED
      BY <2>1, <3>4, <3>5, <3>6 DEF TakenInv
  <2>3. 0 \in Index(s) /\ Chunks[s] \in Nat
    BY DEF Index
  <2>4. total = {Chunks[s]}
    <3>1. CASE total = {}
      <4>1. DOMAIN slots = {}
        BY <3>1 DEF FileInv, FileTypeOK
      <4> QED
        BY <2>2, <2>3, <3>1, <4>1
    <3> QED
      BY <3>1
  <2>5. Index(s) \subseteq DOMAIN slots
    BY <2>2, <2>3, <2>4 DEF Index
  <2> QED
    BY <2>1, <2>4, <2>5 DEF WantsInv, HaveAll, Index
<1> QED
  BY <1>1, FileInvHolds, WantsInvHolds, PTL
=============================================================================
