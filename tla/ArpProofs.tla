----------------------------- MODULE ArpProofs -----------------------------
(***************************************************************************)
(* What resolve_mac keeps for any threads, hosts, adapters, timeouts and   *)
(* delays: it gives up only after all its retries, and it never returns an *)
(* adapter that lost the address too long ago.                             *)
(***************************************************************************)
EXTENDS Arp, TLAPS

CacheTypes ==
  /\ DOMAIN cache \subseteq Ip
  /\ \A i \in DOMAIN cache : cache[i] \in [mac : Mac, age : 0 .. CacheTtl + 1]

CallTypes ==
  /\ pc \in [Thread -> Pc]
  /\ target \in [Thread -> Ip]
  /\ attempt \in [Thread -> 0 .. MaxRetries]
  /\ timer \in [Thread -> 0 .. ReplyTimeout]
  /\ elapsed \in [Thread -> 0 .. MaxRetries * ReplyTimeout]
  /\ answer \in [Thread -> Mac]

OwnerTypes ==
  /\ owner \in [Ip -> Mac]
  /\ away \in [Ip -> [Mac -> 0 .. StaleAge]]

WireTypes == wire \subseteq ArpFrame

\* The time a call has taken is at least that of its attempts: those before the
\* present one in full, and the present one as long as its timer has run.
ElapsedInv ==
  \A t \in Thread :
    /\ pc[t] = "idle" => attempt[t] = 0
    /\ pc[t] = "asking" => attempt[t] < MaxRetries /\ attempt[t] * ReplyTimeout <= elapsed[t]
    /\ pc[t] \in {"looking", "listening"} =>
         attempt[t] >= 1 /\ (attempt[t] - 1) * ReplyTimeout + timer[t] <= elapsed[t]
    /\ pc[t] = "gaveUp" => MaxRetries * ReplyTimeout <= elapsed[t]

\* Frames and live cache entries name an adapter that had the address when the
\* frame was sent.
SeenInv ==
  /\ owner[LocalIp] = LocalMac
  /\ \A i \in Ip : away[i][owner[i]] = 0
  /\ \A f \in wire : away[f.ip][f.mac] <= f.age
  /\ \A i \in DOMAIN cache :
       cache[i].age <= CacheTtl => away[i][cache[i].mac] <= cache[i].age + MaxDelay

ArpInv == ArpTypeOK /\ ElapsedInv /\ SeenInv

USE ArpAssumption DEF ArpAssumption

-----------------------------------------------------------------------------
LEMMA ProductsGrow ==
  ASSUME NEW a \in Nat, NEW b \in Nat, NEW r \in Nat, a <= b
  PROVE  a * r \in Nat /\ b * r \in Nat /\ a * r <= b * r
<1>1. PICK c \in Nat : b = a + c
  <2>1. b - a \in Nat /\ b = a + (b - a)
    OBVIOUS
  <2> QED
    BY <2>1
<1>2. b * r = a * r + c * r
  BY <1>1
<1>3. a * r \in Nat /\ c * r \in Nat
  OBVIOUS
<1> QED
  BY <1>2, <1>3

LEMMA OneMore ==
  ASSUME NEW a \in Nat, a >= 1, NEW r \in Nat
  PROVE  (a - 1) * r \in Nat /\ (a - 1) * r + r = a * r
<1>1. a - 1 \in Nat
  OBVIOUS
<1>2. (a - 1) * r + r = ((a - 1) + 1) * r
  BY <1>1
<1>3. (a - 1) * r \in Nat
  BY <1>1
<1> QED
  BY <1>2, <1>3

LEMMA WholeTime == MaxRetries * ReplyTimeout \in Nat
BY ProductsGrow

LEMMA TypesSplit == ArpTypeOK <=> CacheTypes /\ CallTypes /\ OwnerTypes /\ WireTypes /\ missed \in BOOLEAN
BY DEF ArpTypeOK, CacheTypes, CallTypes, OwnerTypes, WireTypes

LEMMA TypesSplitNext ==
  ArpTypeOK' <=> CacheTypes' /\ CallTypes' /\ OwnerTypes' /\ WireTypes' /\ missed' \in BOOLEAN
BY DEF ArpTypeOK, CacheTypes, CallTypes, OwnerTypes, WireTypes

LEMMA FrameTypes ==
  ASSUME NEW f \in ArpFrame
  PROVE  /\ f.ip \in Ip /\ f.mac \in Mac /\ f.tip \in Ip /\ f.age \in 0 .. MaxDelay
         /\ f.to \in Mac \cup {Broadcast} /\ f.op \in {"request", "reply"}
BY DEF ArpFrame

LEMMA InsertTypes ==
  ASSUME CacheTypes, NEW i \in Ip, NEW m \in Mac, Insert(i, m)
  PROVE  CacheTypes'
BY DEF CacheTypes, Insert

LEMMA RequestTypes ==
  ASSUME NEW i \in Ip, NEW m \in Mac, NEW p \in Ip, NEW c \in BOOLEAN
  PROVE  Request(i, m, p, c) \in ArpFrame
BY DEF Request, ArpFrame

LEMMA ReplyTypes ==
  ASSUME NEW i \in Ip, NEW m \in Mac, NEW f \in ArpFrame, NEW c \in BOOLEAN
  PROVE  Reply(i, m, f, c) \in ArpFrame
BY DEF Reply, ArpFrame

LEMMA FramesAge ==
  ASSUME WireTypes, Tick, NEW f \in wire'
  PROVE  /\ f \in ArpFrame
         /\ \E g \in wire : f.ip = g.ip /\ f.mac = g.mac /\ f.age = g.age + 1
<1>1. PICK g \in wire : g.age < MaxDelay /\ f = [g EXCEPT !.age = @ + 1]
  BY DEF Tick
<1>2. g \in ArpFrame
  BY DEF WireTypes
<1>3. g.age + 1 \in 0 .. MaxDelay
  BY <1>1, <1>2, FrameTypes
<1> QED
  BY <1>1, <1>2, <1>3 DEF ArpFrame

LEMMA LiveTypes ==
  ASSUME CacheTypes
  PROVE  DOMAIN Live \subseteq DOMAIN cache /\ \A i \in DOMAIN Live : Live[i] = cache[i]
BY DEF Live, LiveIps

-----------------------------------------------------------------------------
LEMMA InitArpInv == Init => ArpInv
<1> SUFFICES ASSUME Init PROVE ArpInv
  OBVIOUS
<1>1. ArpTypeOK
  <2>1. StaleAge \in Nat /\ StaleAge >= 0 /\ LocalIp \in Ip
    BY DEF StaleAge, Ip
  <2>2. DOMAIN cache = {}
    BY DEF Init
  <2>3. CallTypes
    BY <2>1, WholeTime DEF Init, CallTypes, Pc
  <2>4. OwnerTypes
    BY <2>1 DEF Init, OwnerTypes
  <2> QED
    BY <2>2, <2>3, <2>4, TypesSplit DEF Init, CacheTypes, WireTypes
<1>2. ElapsedInv
  BY DEF Init, ElapsedInv
<1>3. SeenInv
  BY DEF Init, SeenInv, Ip
<1> QED
  BY <1>1, <1>2, <1>3 DEF ArpInv

LEMMA CallKeepsTypes ==
  ASSUME ArpTypeOK, ElapsedInv, NEW t \in Thread,
         Step(t) \/ DeviceFails(t) \/ \E i \in PeerIp : CacheHit(t, i) \/ CacheMiss(t, i)
  PROVE  ArpTypeOK'
<1>0. CacheTypes /\ CallTypes /\ OwnerTypes /\ WireTypes /\ missed \in BOOLEAN /\ LocalIp \in Ip
  BY TypesSplit DEF Ip
<1>1. OwnerTypes' /\ missed' \in BOOLEAN
  <2>1. UNCHANGED <<owner, away, missed>>
    BY DEF Step, Ask, Look, HearNothing, TimeOut, Return, DeviceFails, CacheHit, CacheMiss
  <2> QED
    BY <1>0, <2>1 DEF OwnerTypes
<1>2. CASE Ask(t)
  <2>1. CacheTypes'
    BY <1>0, <1>2 DEF Ask, CacheTypes
  <2>2. CallTypes'
    <3>1. attempt[t] \in Nat /\ attempt[t] < MaxRetries
      BY <1>0, <1>2 DEF Ask, CallTypes, ElapsedInv
    <3> QED
      BY <1>0, <1>2, <3>1 DEF Ask, CallTypes, Pc
  <2>3. WireTypes'
    <3>1. Request(LocalIp, LocalMac, target[t], OwnCrcLast) \in ArpFrame
      BY <1>0, RequestTypes DEF CallTypes, OwnCrcLast
    <3> QED
      BY <1>0, <1>2, <3>1 DEF Ask, Send, WireTypes
  <2> QED
    BY <1>1, <2>1, <2>2, <2>3, TypesSplitNext
<1>3. CASE Look(t) \/ HearNothing(t) \/ TimeOut(t) \/ DeviceFails(t)
  <2>1. CacheTypes' /\ WireTypes'
    BY <1>0, <1>3 DEF Look, HearNothing, TimeOut, DeviceFails, CacheTypes, WireTypes
  <2>2. CallTypes'
    BY <1>0, <1>3 DEF Look, HearNothing, TimeOut, DeviceFails, CallTypes, Pc
  <2> QED
    BY <1>1, <2>1, <2>2, TypesSplitNext
<1>4. CASE Return(t)
  <2>1. CacheTypes' /\ WireTypes'
    BY <1>0, <1>4 DEF Return, CacheTypes, WireTypes
  <2>2. CallTypes'
    BY <1>0, <1>4, WholeTime DEF Return, CallTypes, Pc
  <2> QED
    BY <1>1, <2>1, <2>2, TypesSplitNext
<1>5. ASSUME NEW i \in PeerIp, CacheHit(t, i) \/ CacheMiss(t, i) PROVE ArpTypeOK'
  <2>1. cache' = Live /\ wire' = wire
    BY <1>5 DEF CacheHit, CacheMiss
  <2>2. CacheTypes' /\ WireTypes'
    BY <1>0, <2>1, LiveTypes DEF CacheTypes, WireTypes
  <2>3. CallTypes'
    <3>1. CASE CacheHit(t, i)
      <4>1. cache[i].mac \in Mac
        BY <1>0, <3>1 DEF CacheHit, LiveIps, CacheTypes
      <4> QED
        BY <1>0, <3>1, <4>1 DEF CacheHit, CallTypes, Pc, Ip
    <3>2. CASE CacheMiss(t, i)
      BY <1>0, <3>2 DEF CacheMiss, CallTypes, Pc, Ip
    <3> QED
      BY <1>5, <3>1, <3>2
  <2> QED
    BY <1>1, <2>2, <2>3, TypesSplitNext
<1> QED
  BY <1>2, <1>3, <1>4, <1>5 DEF Step

LEMMA HostsKeepTypes ==
  ASSUME ArpTypeOK,
         \/ \E f \in wire : Capture(f) \/ PeerReplies(f) \/ \E t \in Thread : Hear(t, f)
         \/ \E p \in PeerIp, i \in Ip : PeerAsks(p, i)
         \/ \E p \in PeerIp, m \in PeerMac : Move(p, m)
         \/ Tick
         \/ UNCHANGED vars
  PROVE  ArpTypeOK'
<1>0. /\ CacheTypes /\ CallTypes /\ OwnerTypes /\ WireTypes /\ missed \in BOOLEAN
      /\ LocalIp \in Ip /\ PeerIp \subseteq Ip
  BY TypesSplit DEF Ip
<1>1. ASSUME NEW f \in wire, Capture(f) PROVE ArpTypeOK'
  <2>0. f \in ArpFrame
    BY <1>0 DEF WireTypes
  <2>1. CallTypes' /\ OwnerTypes'
    <3>1. UNCHANGED <<callVars, owner, away>>
      BY <1>1 DEF Capture, Answer, Learn, Ignore
    <3> QED
      BY <1>0, <3>1 DEF callVars, CallTypes, OwnerTypes
  <2>2. CacheTypes'
    <3>1. CASE UNCHANGED cache
      BY <1>0, <3>1 DEF CacheTypes
    <3>2. CASE Insert(f.ip, f.mac)
      BY <1>0, <2>0, <3>2, FrameTypes, InsertTypes
    <3> QED
      BY <1>1, <3>1, <3>2 DEF Capture, Answer, Learn, Ignore
  <2>3. WireTypes'
    <3>1. AnswerTo(f) \in ArpFrame
      BY <1>0, <2>0, ReplyTypes DEF AnswerTo, OwnCrcLast
    <3> QED
      BY <1>0, <1>1, <3>1 DEF Capture, Answer, Learn, Ignore, Send, WireTypes
  <2>4. missed' \in BOOLEAN
    BY <1>0, <1>1 DEF Capture, Answer, Learn, Ignore
  <2> QED
    BY <2>1, <2>2, <2>3, <2>4, TypesSplitNext
<1>2. ASSUME NEW f \in wire, PeerReplies(f) PROVE ArpTypeOK'
  <2>0. f \in ArpFrame /\ f.tip \in Ip /\ owner[f.tip] \in Mac
    BY <1>0, FrameTypes DEF WireTypes, OwnerTypes
  <2>1. Reply(f.tip, owner[f.tip], f, PaddedFirst) \in ArpFrame
    BY <2>0, ReplyTypes
  <2>2. WireTypes'
    BY <1>0, <1>2, <2>1 DEF PeerReplies, PeersSend, Send, WireTypes
  <2>3. CacheTypes' /\ CallTypes' /\ OwnerTypes' /\ missed' \in BOOLEAN
    BY <1>0, <1>2 DEF PeerReplies, callVars, CacheTypes, CallTypes, OwnerTypes
  <2> QED
    BY <2>2, <2>3, TypesSplitNext
<1>3. ASSUME NEW f \in wire, NEW t \in Thread, Hear(t, f) PROVE ArpTypeOK'
  <2>0. f.ip \in Ip /\ f.mac \in Mac
    BY <1>0, FrameTypes DEF WireTypes
  <2>1. CacheTypes'
    BY <1>0, <1>3, <2>0, InsertTypes DEF Hear
  <2>2. CallTypes'
    BY <1>0, <1>3, <2>0 DEF Hear, CallTypes, Pc
  <2>3. OwnerTypes' /\ WireTypes' /\ missed' \in BOOLEAN
    BY <1>0, <1>3 DEF Hear, OwnerTypes, WireTypes
  <2> QED
    BY <2>1, <2>2, <2>3, TypesSplitNext
<1>4. ASSUME NEW p \in PeerIp, NEW i \in Ip, PeerAsks(p, i) PROVE ArpTypeOK'
  <2>1. Request(p, owner[p], i, PaddedFirst) \in ArpFrame
    BY <1>0, RequestTypes DEF OwnerTypes
  <2>2. WireTypes'
    BY <1>0, <1>4, <2>1 DEF PeerAsks, PeersSend, Send, WireTypes
  <2>3. CacheTypes' /\ CallTypes' /\ OwnerTypes' /\ missed' \in BOOLEAN
    BY <1>0, <1>4 DEF PeerAsks, callVars, CacheTypes, CallTypes, OwnerTypes
  <2> QED
    BY <2>2, <2>3, TypesSplitNext
<1>5. ASSUME NEW p \in PeerIp, NEW m \in PeerMac, Move(p, m) PROVE ArpTypeOK'
  <2>1. CacheTypes' /\ CallTypes' /\ WireTypes' /\ missed' \in BOOLEAN
    BY <1>0, <1>5 DEF Move, callVars, CacheTypes, CallTypes, WireTypes
  <2>2. OwnerTypes'
    <3>1. 0 \in 0 .. StaleAge
      BY DEF StaleAge
    <3> QED
      BY <1>0, <1>5, <3>1 DEF Move, PeerMac, OwnerTypes
  <2> QED
    BY <2>1, <2>2, TypesSplitNext
<1>6. CASE Tick
  <2>1. CacheTypes'
    BY <1>0, <1>6 DEF Tick, OneOf, CacheTypes
  <2>2. CallTypes'
    BY <1>0, <1>6, WholeTime DEF Tick, OneOf, CallTypes
  <2>3. OwnerTypes'
    BY <1>0, <1>6 DEF Tick, OneOf, OwnerTypes, StaleAge
  <2>4. WireTypes'
    BY <1>0, <1>6, FramesAge DEF WireTypes
  <2>5. missed' \in BOOLEAN
    BY <1>0, <1>6 DEF Tick
  <2> QED
    BY <2>1, <2>2, <2>3, <2>4, <2>5, TypesSplitNext
<1>7. CASE UNCHANGED vars
  BY <1>0, <1>7, TypesSplitNext DEF vars, CacheTypes, CallTypes, OwnerTypes, WireTypes
<1> QED
  BY <1>1, <1>2, <1>3, <1>4, <1>5, <1>6, <1>7

-----------------------------------------------------------------------------
LEMMA StepKeepsElapsed ==
  ASSUME ArpTypeOK, ElapsedInv, NEW t \in Thread,
         Step(t) \/ DeviceFails(t) \/ \E i \in PeerIp : CacheHit(t, i) \/ CacheMiss(t, i)
  PROVE  ElapsedInv'
<1> DEFINE P(u) ==
      /\ pc'[u] = "idle" => attempt'[u] = 0
      /\ pc'[u] = "asking" => attempt'[u] < MaxRetries /\ attempt'[u] * ReplyTimeout <= elapsed'[u]
      /\ pc'[u] \in {"looking", "listening"} =>
           attempt'[u] >= 1 /\ (attempt'[u] - 1) * ReplyTimeout + timer'[u] <= elapsed'[u]
      /\ pc'[u] = "gaveUp" => MaxRetries * ReplyTimeout <= elapsed'[u]
<1>0. CallTypes
  BY TypesSplit
<1>1. ASSUME NEW u \in Thread, u # t PROVE P(u)
  <2>1. /\ pc'[u] = pc[u] /\ attempt'[u] = attempt[u]
        /\ timer'[u] = timer[u] /\ elapsed'[u] = elapsed[u]
    BY <1>0, <1>1 DEF CallTypes, Step, Ask, Look, HearNothing, TimeOut, Return, DeviceFails, CacheHit, CacheMiss
  <2> QED
    BY <2>1 DEF ElapsedInv
<1>2. attempt[t] \in Nat /\ attempt[t] <= MaxRetries /\ timer[t] \in Nat /\ elapsed[t] \in Nat
  BY <1>0, WholeTime DEF CallTypes
<1>3. CASE Ask(t)
  <2>1. attempt'[t] = attempt[t] + 1 /\ timer'[t] = 0 /\ elapsed'[t] = elapsed[t] /\ pc'[t] = "looking"
    BY <1>0, <1>3 DEF Ask, CallTypes
  <2>2. attempt[t] * ReplyTimeout <= elapsed[t] /\ attempt[t] * ReplyTimeout \in Nat
    BY <1>2, <1>3, ProductsGrow DEF Ask, ElapsedInv
  <2>3. attempt'[t] - 1 = attempt[t]
    BY <1>2, <2>1
  <2>4. (attempt'[t] - 1) * ReplyTimeout + timer'[t] <= elapsed'[t]
    BY <2>1, <2>2, <2>3
  <2>5. P(t)
    BY <1>2, <2>1, <2>4
  <2> QED
    BY <1>1, <2>5 DEF ElapsedInv
<1>4. CASE Look(t) \/ HearNothing(t)
  <2>1. /\ pc[t] \in {"looking", "listening"} /\ pc'[t] \in {"looking", "listening"}
        /\ UNCHANGED <<attempt, timer, elapsed>>
    BY <1>0, <1>4 DEF Look, HearNothing, CallTypes
  <2>2. P(t)
    BY <2>1 DEF ElapsedInv
  <2> QED
    BY <1>1, <2>2 DEF ElapsedInv
<1>5. CASE TimeOut(t)
  <2>1. /\ pc[t] = "looking" /\ timer[t] >= ReplyTimeout /\ UNCHANGED <<attempt, timer, elapsed>>
        /\ pc'[t] = IF attempt[t] < MaxRetries THEN "asking" ELSE "gaveUp"
    BY <1>0, <1>5 DEF TimeOut, CallTypes
  <2>2. attempt[t] >= 1 /\ (attempt[t] - 1) * ReplyTimeout + timer[t] <= elapsed[t]
    BY <2>1 DEF ElapsedInv
  <2>3. (attempt[t] - 1) * ReplyTimeout \in Nat /\ (attempt[t] - 1) * ReplyTimeout + ReplyTimeout = attempt[t] * ReplyTimeout
    BY <1>2, <2>2, OneMore
  <2>4. attempt[t] * ReplyTimeout <= elapsed[t]
    BY <1>2, <2>1, <2>2, <2>3
  <2>5. ~(attempt[t] < MaxRetries) => attempt[t] = MaxRetries
    BY <1>2
  <2>6. P(t)
    BY <2>1, <2>4, <2>5
  <2> QED
    BY <1>1, <2>6 DEF ElapsedInv
<1>6. CASE Return(t)
  <2>1. pc'[t] = "idle" /\ attempt'[t] = 0
    BY <1>0, <1>6 DEF Return, CallTypes
  <2>2. P(t)
    BY <2>1
  <2> QED
    BY <1>1, <2>2 DEF ElapsedInv
<1>7. ASSUME NEW i \in PeerIp, CacheHit(t, i) \/ CacheMiss(t, i) PROVE ElapsedInv'
  <2>1. pc[t] = "idle" /\ pc'[t] \in {"resolved", "asking"} /\ UNCHANGED <<attempt, elapsed>>
    BY <1>0, <1>7 DEF CacheHit, CacheMiss, CallTypes
  <2>2. attempt[t] = 0 /\ attempt[t] * ReplyTimeout = 0
    BY <2>1 DEF ElapsedInv
  <2>3. P(t)
    BY <1>2, <2>1, <2>2
  <2> QED
    BY <1>1, <2>3 DEF ElapsedInv
<1>8. CASE DeviceFails(t)
  <2>1. pc'[t] = "error"
    BY <1>0, <1>8 DEF DeviceFails, CallTypes
  <2>2. P(t)
    BY <2>1
  <2> QED
    BY <1>1, <2>2 DEF ElapsedInv
<1> QED
  BY <1>3, <1>4, <1>5, <1>6, <1>7, <1>8 DEF Step

\* One tick adds at most as much to the timer of a call as to its elapsed time.
LEMMA TickKeepsElapsed ==
  ASSUME ArpTypeOK, ElapsedInv, Tick
  PROVE  ElapsedInv'
<1> SUFFICES ASSUME NEW t \in Thread
             PROVE  /\ pc'[t] = "idle" => attempt'[t] = 0
                    /\ pc'[t] = "asking" => attempt'[t] < MaxRetries /\ attempt'[t] * ReplyTimeout <= elapsed'[t]
                    /\ pc'[t] \in {"looking", "listening"} =>
                         attempt'[t] >= 1 /\ (attempt'[t] - 1) * ReplyTimeout + timer'[t] <= elapsed'[t]
                    /\ pc'[t] = "gaveUp" => MaxRetries * ReplyTimeout <= elapsed'[t]
  BY DEF ElapsedInv
<1> DEFINE whole == MaxRetries * ReplyTimeout
<1>0. CallTypes
  BY TypesSplit
<1>1. /\ attempt[t] \in Nat /\ attempt[t] <= MaxRetries /\ timer[t] \in Nat /\ elapsed[t] \in Nat
      /\ elapsed[t] <= whole /\ whole \in Nat /\ timer[t] <= ReplyTimeout
  BY <1>0, WholeTime DEF CallTypes
<1>2. /\ pc' = pc /\ attempt' = attempt
      /\ timer'[t] = IF InCall(t) THEN OneOf(timer[t] + 1, ReplyTimeout) ELSE timer[t]
      /\ elapsed'[t] = IF InCall(t) THEN OneOf(elapsed[t] + 1, whole) ELSE elapsed[t]
  BY <1>0 DEF Tick, CallTypes
<1>3. elapsed'[t] \in Nat /\ elapsed[t] <= elapsed'[t]
  <2> HIDE DEF whole
  <2> QED
    BY <1>1, <1>2 DEF OneOf
<1>4. attempt[t] * ReplyTimeout \in Nat /\ attempt[t] * ReplyTimeout <= whole
  BY <1>1, ProductsGrow
<1>5. pc[t] = "asking" => attempt[t] < MaxRetries /\ attempt[t] * ReplyTimeout <= elapsed'[t]
  <2> SUFFICES ASSUME pc[t] = "asking"
               PROVE  attempt[t] < MaxRetries /\ attempt[t] * ReplyTimeout <= elapsed'[t]
    OBVIOUS
  <2>1. attempt[t] < MaxRetries /\ attempt[t] * ReplyTimeout <= elapsed[t]
    BY DEF ElapsedInv
  <2> QED
    BY <1>1, <1>3, <1>4, <2>1
<1>6. pc[t] \in {"looking", "listening"} =>
        attempt[t] >= 1 /\ (attempt[t] - 1) * ReplyTimeout + timer'[t] <= elapsed'[t]
  <2> SUFFICES ASSUME pc[t] \in {"looking", "listening"}
               PROVE  attempt[t] >= 1 /\ (attempt[t] - 1) * ReplyTimeout + timer'[t] <= elapsed'[t]
    OBVIOUS
  <2> DEFINE before == (attempt[t] - 1) * ReplyTimeout
             now    == attempt[t] * ReplyTimeout
  <2>1. attempt[t] >= 1 /\ before + timer[t] <= elapsed[t]
    BY DEF ElapsedInv
  <2>2. before \in Nat /\ before + ReplyTimeout = now
    BY <1>1, <2>1, OneMore
  <2>3. InCall(t)
    BY <1>1, <2>1 DEF InCall
  <2>4. now \in Nat /\ now <= whole
    BY <1>4
  <2> HIDE DEF before, now, whole
  <2>5. before + timer'[t] <= elapsed'[t]
    BY <1>1, <1>2, <2>1, <2>2, <2>3, <2>4 DEF OneOf
  <2> QED
    BY <2>1, <2>5 DEF before
<1>7. pc[t] = "gaveUp" => whole <= elapsed'[t]
  BY <1>1, <1>3 DEF ElapsedInv
<1>8. pc[t] = "idle" => attempt[t] = 0
  BY DEF ElapsedInv
<1> QED
  BY <1>2, <1>5, <1>6, <1>7, <1>8

LEMMA NextElapsed == ArpTypeOK /\ ElapsedInv /\ [Next]_vars => ElapsedInv'
<1> SUFFICES ASSUME ArpTypeOK, ElapsedInv, [Next]_vars PROVE ElapsedInv'
  OBVIOUS
<1>1. ASSUME NEW f \in wire, NEW t \in Thread, Hear(t, f) PROVE ElapsedInv'
  <2>1. UNCHANGED <<attempt, timer, elapsed>>
    BY <1>1 DEF Hear
  <2>2. ASSUME NEW u \in Thread, u # t PROVE pc'[u] = pc[u]
    BY <1>1, <2>2 DEF Hear, ArpTypeOK
  <2>3. pc[t] = "listening" /\ pc'[t] \in {"resolved", "looking"}
    BY <1>1 DEF Hear, ArpTypeOK
  <2>4. ASSUME NEW u \in Thread
        PROVE  pc'[u] = pc[u] \/ (pc[u] = "listening" /\ pc'[u] \in {"resolved", "looking"})
    BY <2>2, <2>3
  <2> QED
    BY <2>1, <2>4 DEF ElapsedInv
<1>2. CASE \/ \E f \in wire : Capture(f) \/ PeerReplies(f)
           \/ \E p \in PeerIp, i \in Ip : PeerAsks(p, i)
           \/ \E p \in PeerIp, m \in PeerMac : Move(p, m)
           \/ UNCHANGED vars
  <2>1. UNCHANGED <<pc, attempt, timer, elapsed>>
    BY <1>2 DEF Capture, Answer, Learn, Ignore, PeerReplies, PeerAsks, Move, vars, callVars
  <2> QED
    BY <2>1 DEF ElapsedInv
<1>3. CASE Tick
  BY <1>3, TickKeepsElapsed
<1>4. ASSUME NEW t \in Thread,
             Step(t) \/ DeviceFails(t) \/ \E i \in PeerIp : CacheHit(t, i) \/ CacheMiss(t, i)
      PROVE  ElapsedInv'
  BY <1>4, StepKeepsElapsed
<1> QED
  BY <1>1, <1>2, <1>3, <1>4 DEF Next

-----------------------------------------------------------------------------
\* What is heard is put into the cache as seen just now: the adapter had the
\* address no longer ago than the frame was under way.
LEMMA InsertKeepsSeen ==
  ASSUME ArpTypeOK, SeenInv, NEW f \in wire, Insert(f.ip, f.mac), UNCHANGED away
  PROVE  \A i \in DOMAIN cache' :
           cache'[i].age <= CacheTtl => away'[i][cache'[i].mac] <= cache'[i].age + MaxDelay
<1>1. f \in ArpFrame /\ f.age \in 0 .. MaxDelay /\ f.ip \in Ip /\ f.mac \in Mac
  BY TypesSplit, FrameTypes DEF WireTypes
<1>2. away[f.ip][f.mac] <= f.age /\ away[f.ip][f.mac] \in Nat
  BY <1>1, TypesSplit DEF SeenInv, OwnerTypes
<1>3. away[f.ip][f.mac] <= 0 + MaxDelay
  BY <1>1, <1>2
<1> SUFFICES ASSUME NEW i \in DOMAIN cache', cache'[i].age <= CacheTtl
             PROVE  away[i][cache'[i].mac] <= cache'[i].age + MaxDelay
  OBVIOUS
<1>4. CASE i = f.ip
  <2>1. cache'[i].mac = f.mac /\ cache'[i].age = 0
    BY <1>4 DEF Insert
  <2> QED
    BY <1>3, <1>4, <2>1
<1>5. CASE i # f.ip
  <2>1. i \in DOMAIN cache /\ cache'[i] = cache[i]
    BY <1>5 DEF Insert
  <2> QED
    BY <2>1 DEF SeenInv
<1> QED
  BY <1>4, <1>5

\* A frame that is sent names the adapter its address has now.
LEMMA SendKeepsSeen ==
  ASSUME SeenInv, NEW f, away[f.ip][f.mac] = 0, f.age = 0, Send(f), UNCHANGED away
  PROVE  \A g \in wire' : away'[g.ip][g.mac] <= g.age
BY DEF SeenInv, Send

LEMMA CallKeepsSeen ==
  ASSUME ArpTypeOK, SeenInv, NEW t \in Thread,
         Step(t) \/ DeviceFails(t) \/ \E i \in PeerIp : CacheHit(t, i) \/ CacheMiss(t, i)
  PROVE  SeenInv'
<1>0. CacheTypes /\ LocalIp \in Ip /\ UNCHANGED <<owner, away>>
  BY TypesSplit DEF Ip, Step, Ask, Look, HearNothing, TimeOut, Return, DeviceFails, CacheHit, CacheMiss
<1>1. CASE Ask(t)
  <2> DEFINE f == Request(LocalIp, LocalMac, target[t], OwnCrcLast)
  <2>1. f.ip = LocalIp /\ f.mac = LocalMac /\ f.age = 0
    BY DEF Request
  <2>2. away[f.ip][f.mac] = 0
    BY <1>0, <2>1 DEF SeenInv
  <2>3. Send(f) /\ cache' = cache
    BY <1>1 DEF Ask
  <2> HIDE DEF f
  <2>4. \A g \in wire' : away'[g.ip][g.mac] <= g.age
    BY <1>0, <2>1, <2>2, <2>3, SendKeepsSeen
  <2> QED
    BY <1>0, <2>3, <2>4 DEF SeenInv
<1>2. CASE UNCHANGED <<cache, wire>>
  BY <1>0, <1>2 DEF SeenInv
<1>3. CASE cache' = Live /\ wire' = wire
  BY <1>0, <1>3, LiveTypes DEF SeenInv
<1>4. Ask(t) \/ UNCHANGED <<cache, wire>> \/ (cache' = Live /\ wire' = wire)
  BY DEF Step, Look, HearNothing, TimeOut, Return, DeviceFails, CacheHit, CacheMiss
<1> QED
  BY <1>1, <1>2, <1>3, <1>4

LEMMA TickKeepsSeen ==
  ASSUME ArpTypeOK, SeenInv, Tick
  PROVE  SeenInv'
<1>0. CacheTypes /\ OwnerTypes /\ WireTypes /\ LocalIp \in Ip
  BY TypesSplit DEF Ip
<1>1. owner' = owner /\ \A i \in Ip : away'[i][owner[i]] = 0
  BY <1>0 DEF Tick, OwnerTypes
<1>2. ASSUME NEW i \in Ip, NEW m \in Mac
      PROVE  away[i][m] \in Nat /\ away'[i][m] \in Nat /\ away'[i][m] <= away[i][m] + 1
  <2>1. away[i][m] \in Nat /\ StaleAge \in Nat
    BY <1>0 DEF OwnerTypes, StaleAge
  <2>2. away'[i][m] = IF owner[i] = m THEN 0 ELSE OneOf(away[i][m] + 1, StaleAge)
    BY DEF Tick
  <2> QED
    BY <2>1, <2>2 DEF OneOf
<1>3. ASSUME NEW f \in wire' PROVE away'[f.ip][f.mac] <= f.age
  <2>1. PICK g \in wire : f.ip = g.ip /\ f.mac = g.mac /\ f.age = g.age + 1
    BY <1>0, FramesAge
  <2>2. g.ip \in Ip /\ g.mac \in Mac /\ g.age \in Nat /\ away[g.ip][g.mac] <= g.age
    BY <1>0, FrameTypes DEF WireTypes, SeenInv
  <2> QED
    BY <1>2, <2>1, <2>2
<1>4. ASSUME NEW i \in DOMAIN cache', cache'[i].age <= CacheTtl
      PROVE  away'[i][cache'[i].mac] <= cache'[i].age + MaxDelay
  <2>1. i \in DOMAIN cache /\ cache'[i] = [cache[i] EXCEPT !.age = OneOf(@ + 1, CacheTtl + 1)]
    BY DEF Tick
  <2>2. i \in Ip /\ cache[i] \in [mac : Mac, age : 0 .. CacheTtl + 1]
    BY <1>0, <2>1 DEF CacheTypes
  <2>3. cache'[i].mac = cache[i].mac /\ cache'[i].age = OneOf(cache[i].age + 1, CacheTtl + 1)
    BY <2>1, <2>2
  <2>4. cache[i].mac \in Mac /\ cache[i].age \in Nat
    BY <2>2
  <2>5. cache'[i].age = cache[i].age + 1 /\ cache[i].age <= CacheTtl
    BY <1>4, <2>3, <2>4 DEF OneOf
  <2>6. away[i][cache[i].mac] <= cache[i].age + MaxDelay
    BY <2>1, <2>5 DEF SeenInv
  <2> QED
    BY <1>2, <2>2, <2>3, <2>4, <2>5, <2>6
<1> QED
  BY <1>0, <1>1, <1>3, <1>4 DEF SeenInv

LEMMA NextSeen == ArpTypeOK /\ SeenInv /\ [Next]_vars => SeenInv'
<1> SUFFICES ASSUME ArpTypeOK, SeenInv, [Next]_vars PROVE SeenInv'
  OBVIOUS
<1>0. WireTypes /\ OwnerTypes /\ LocalIp \in Ip /\ PeerIp \subseteq Ip
  BY TypesSplit DEF Ip
<1>1. ASSUME NEW f \in wire,
             Capture(f) \/ \E t \in Thread : Hear(t, f)
      PROVE  SeenInv'
  <2>1. UNCHANGED <<owner, away>>
    BY <1>1 DEF Capture, Answer, Learn, Ignore, Hear
  <2>2. cache' = cache \/ Insert(f.ip, f.mac)
    BY <1>1 DEF Capture, Answer, Learn, Ignore, Hear
  <2>3. \A i \in DOMAIN cache' :
          cache'[i].age <= CacheTtl => away'[i][cache'[i].mac] <= cache'[i].age + MaxDelay
    <3>1. CASE cache' = cache
      BY <2>1, <3>1 DEF SeenInv
    <3>2. CASE Insert(f.ip, f.mac)
      BY <2>1, <3>2, InsertKeepsSeen
    <3> QED
      BY <2>2, <3>1, <3>2
  <2>4. \A g \in wire' : away'[g.ip][g.mac] <= g.age
    <3>1. wire' = wire \/ Send(AnswerTo(f))
      BY <1>1 DEF Capture, Answer, Learn, Ignore, Hear
    <3>2. CASE wire' = wire
      BY <2>1, <3>2 DEF SeenInv
    <3>3. CASE Send(AnswerTo(f))
      <4>1. AnswerTo(f).ip = LocalIp /\ AnswerTo(f).mac = LocalMac /\ AnswerTo(f).age = 0
        BY DEF AnswerTo, Reply
      <4>2. away[LocalIp][LocalMac] = 0
        BY <1>0 DEF SeenInv
      <4> QED
        BY <2>1, <3>3, <4>1, <4>2, SendKeepsSeen
    <3> QED
      BY <3>1, <3>2, <3>3
  <2> QED
    BY <2>1, <2>3, <2>4 DEF SeenInv
<1>2. ASSUME NEW f \in wire, PeerReplies(f) PROVE SeenInv'
  <2> DEFINE g == Reply(f.tip, owner[f.tip], f, PaddedFirst)
  <2>1. g.ip = f.tip /\ g.mac = owner[f.tip] /\ g.age = 0
    BY DEF Reply
  <2>2. away[g.ip][g.mac] = 0
    BY <1>0, <2>1, FrameTypes DEF SeenInv, WireTypes
  <2>3. Send(g) /\ UNCHANGED <<cache, owner, away>>
    BY <1>2 DEF PeerReplies, PeersSend
  <2> HIDE DEF g
  <2>4. \A e \in wire' : away'[e.ip][e.mac] <= e.age
    BY <2>1, <2>2, <2>3, SendKeepsSeen
  <2> QED
    BY <2>3, <2>4 DEF SeenInv
<1>3. ASSUME NEW p \in PeerIp, NEW i \in Ip, PeerAsks(p, i) PROVE SeenInv'
  <2> DEFINE g == Request(p, owner[p], i, PaddedFirst)
  <2>1. g.ip = p /\ g.mac = owner[p] /\ g.age = 0
    BY DEF Request
  <2>2. away[g.ip][g.mac] = 0
    BY <1>0, <2>1 DEF SeenInv
  <2>3. Send(g) /\ UNCHANGED <<cache, owner, away>>
    BY <1>3 DEF PeerAsks, PeersSend
  <2> HIDE DEF g
  <2>4. \A e \in wire' : away'[e.ip][e.mac] <= e.age
    BY <2>1, <2>2, <2>3, SendKeepsSeen
  <2> QED
    BY <2>3, <2>4 DEF SeenInv
<1>4. ASSUME NEW p \in PeerIp, NEW m \in PeerMac, Move(p, m) PROVE SeenInv'
  <2>1. p \in Ip /\ p # LocalIp /\ m \in Mac /\ UNCHANGED <<cache, wire>>
    BY <1>0, <1>4 DEF Move, PeerMac
  <2>2. owner' = [owner EXCEPT ![p] = m] /\ away' = [away EXCEPT ![p][m] = 0]
    BY <1>4 DEF Move
  <2>3. \A i \in Ip : away'[i][owner'[i]] = 0
    BY <1>0, <2>1, <2>2 DEF OwnerTypes, SeenInv
  <2>4. ASSUME NEW i \in Ip, NEW a \in Mac
        PROVE  away[i][a] \in Nat /\ away'[i][a] \in Nat /\ away'[i][a] <= away[i][a]
    BY <1>0, <2>1, <2>2 DEF OwnerTypes
  <2>5. ASSUME NEW f \in wire PROVE away'[f.ip][f.mac] <= f.age
    <3>1. f.ip \in Ip /\ f.mac \in Mac /\ f.age \in Nat
      BY <1>0, FrameTypes DEF WireTypes
    <3>2. away[f.ip][f.mac] <= f.age
      BY DEF SeenInv
    <3> QED
      BY <2>4, <3>1, <3>2
  <2>6. ASSUME NEW i \in DOMAIN cache, cache[i].age <= CacheTtl
        PROVE  away'[i][cache[i].mac] <= cache[i].age + MaxDelay
    <3>1. i \in Ip /\ cache[i].mac \in Mac /\ cache[i].age \in Nat
      BY TypesSplit DEF CacheTypes
    <3>2. away[i][cache[i].mac] <= cache[i].age + MaxDelay
      BY <2>6 DEF SeenInv
    <3> QED
      BY <2>4, <3>1, <3>2
  <2>7. owner'[LocalIp] = LocalMac
    BY <1>0, <2>1, <2>2 DEF SeenInv, OwnerTypes
  <2> QED
    BY <2>1, <2>3, <2>5, <2>6, <2>7 DEF SeenInv
<1>5. CASE Tick
  BY <1>5, TickKeepsSeen
<1>6. CASE UNCHANGED vars
  BY <1>6 DEF vars, SeenInv
<1>7. ASSUME NEW t \in Thread,
             Step(t) \/ DeviceFails(t) \/ \E i \in PeerIp : CacheHit(t, i) \/ CacheMiss(t, i)
      PROVE  SeenInv'
  BY <1>7, CallKeepsSeen
<1> QED
  BY <1>1, <1>2, <1>3, <1>4, <1>5, <1>6, <1>7 DEF Next

-----------------------------------------------------------------------------
LEMMA NextArpTypes == ArpTypeOK /\ ElapsedInv /\ [Next]_vars => ArpTypeOK'
BY CallKeepsTypes, HostsKeepTypes DEF Next

LEMMA ArpInvHolds == Spec => []ArpInv
<1>1. ArpInv /\ [Next]_vars => ArpInv'
  BY NextArpTypes, NextElapsed, NextSeen DEF ArpInv
<1> QED
  BY <1>1, InitArpInv, PTL DEF Spec

\* The variables keep their types, and a call of resolve_mac never sends more
\* than ARP_MAX_RETRIES requests.
THEOREM ArpTypes == Spec => []ArpTypeOK
BY ArpInvHolds, PTL DEF ArpInv

\* resolve_mac gives up only when all its attempts have had their timeouts.
THEOREM GivesUpLast == Spec => []GivesUpLate
<1>1. ArpInv => GivesUpLate
  <2> SUFFICES ASSUME ArpInv, NEW t \in Thread, pc[t] = "gaveUp"
               PROVE  elapsed[t] >= MaxRetries * ReplyTimeout
    BY DEF GivesUpLate
  <2>1. MaxRetries * ReplyTimeout <= elapsed[t] /\ elapsed[t] \in Nat
    BY WholeTime DEF ArpInv, ElapsedInv, ArpTypeOK
  <2> QED
    BY <2>1, WholeTime
<1> QED
  BY <1>1, ArpInvHolds, PTL

\* resolve_mac answers, from the cache or from a reply, only with an adapter that
\* had the address within the life of a cache entry and the delay of a frame.
THEOREM AnswersRecent == Spec => AnswersAreRecent
<1> DEFINE Recent(t) == pc[t] # "resolved" /\ pc'[t] = "resolved"
                          => away[target'[t]][answer'[t]] <= CacheTtl + MaxDelay
<1>1. ASSUME ArpInv, [Next]_vars, NEW t \in Thread, pc[t] # "resolved", pc'[t] = "resolved"
      PROVE  away[target'[t]][answer'[t]] <= CacheTtl + MaxDelay
  <2>0. CacheTypes /\ CallTypes /\ OwnerTypes /\ WireTypes /\ SeenInv
    BY <1>1, TypesSplit DEF ArpInv
  <2>1. ASSUME NEW i \in PeerIp, CacheHit(t, i)
        PROVE  away[target'[t]][answer'[t]] <= CacheTtl + MaxDelay
    <3>1. target'[t] = i /\ answer'[t] = cache[i].mac /\ i \in DOMAIN cache /\ cache[i].age <= CacheTtl
      BY <2>0, <2>1 DEF CacheHit, LiveIps, CallTypes
    <3>2. cache[i].age \in Nat /\ cache[i].mac \in Mac /\ i \in Ip
      BY <2>0, <3>1 DEF CacheTypes
    <3>3. away[i][cache[i].mac] <= cache[i].age + MaxDelay /\ away[i][cache[i].mac] \in Nat
      BY <2>0, <3>1, <3>2 DEF SeenInv, OwnerTypes
    <3> QED
      BY <3>1, <3>2, <3>3
  <2>2. ASSUME NEW f \in wire, Hear(t, f)
        PROVE  away[target'[t]][answer'[t]] <= CacheTtl + MaxDelay
    <3>1. target'[t] = f.ip /\ answer'[t] = f.mac
      BY <1>1, <2>0, <2>2 DEF Hear, CallTypes
    <3>2. f.age \in 0 .. MaxDelay /\ f.ip \in Ip /\ f.mac \in Mac
      BY <2>0, FrameTypes DEF WireTypes
    <3>3. away[f.ip][f.mac] <= f.age /\ away[f.ip][f.mac] \in Nat
      BY <2>0, <3>2 DEF SeenInv, OwnerTypes
    <3> QED
      BY <3>1, <3>2, <3>3
  <2>3. (\E i \in PeerIp : CacheHit(t, i)) \/ \E f \in wire : Hear(t, f)
    <3>1. ASSUME NEW u \in Thread, u # t,
                 \/ \E i \in PeerIp : CacheHit(u, i) \/ CacheMiss(u, i)
                 \/ Step(u) \/ DeviceFails(u)
                 \/ \E f \in wire : Hear(u, f)
          PROVE  pc'[t] = pc[t]
      BY <2>0, <3>1 DEF CallTypes, Step, Ask, Look, HearNothing, TimeOut, Return, DeviceFails,
                        CacheHit, CacheMiss, Hear
    <3>2. ASSUME Step(t) \/ DeviceFails(t) \/ \E i \in PeerIp : CacheMiss(t, i)
          PROVE  FALSE
      BY <1>1, <2>0, <3>2 DEF CallTypes, Step, Ask, Look, HearNothing, TimeOut, Return, DeviceFails, CacheMiss
    <3>3. ASSUME \/ \E f \in wire : Capture(f) \/ PeerReplies(f)
                 \/ \E p \in PeerIp, i \in Ip : PeerAsks(p, i)
                 \/ \E p \in PeerIp, m \in PeerMac : Move(p, m)
                 \/ Tick \/ UNCHANGED vars
          PROVE  FALSE
      BY <1>1, <3>3 DEF Capture, Answer, Learn, Ignore, PeerReplies, PeerAsks, Move, Tick, vars, callVars
    <3> QED
      BY <1>1, <3>1, <3>2, <3>3 DEF Next
  <2> QED
    BY <2>1, <2>2, <2>3
<1>2. ArpInv /\ [Next]_vars => [\A t \in Thread : Recent(t)]_vars
  BY <1>1
<1> QED
  BY <1>2, ArpInvHolds, PTL DEF Spec, AnswersAreRecent
=============================================================================
