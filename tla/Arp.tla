-------------------------------- MODULE Arp --------------------------------
(***************************************************************************)
(* ARP (enternet/arp.rs): the cache, the threads in resolve_mac, and       *)
(* recv_loop (enternet/datalink/recv.rs), which learns from ARP frames and *)
(* answers requests.  The network loses, delays, doubles and reorders      *)
(* frames, none longer than MaxDelay; the hosts of PeerIp may change their *)
(* adapters.  Every time is an age that Tick moves, and stands still where *)
(* no condition of the code could tell it from a greater one.  The entries *)
(* are the dynamic ones: datalink_send enters a static one only in place   *)
(* of resolve_mac, in a process that reads the cache no more.              *)
(***************************************************************************)
EXTENDS Naturals, FiniteSets

CONSTANTS Thread,         \* the threads that call resolve_mac
          LocalIp,        \* the address of this host
          PeerIp,         \* the addresses of the other hosts
          Mac,            \* the adapters
          LocalMac,       \* that of this host
          Broadcast,      \* BROADCAST_MAC
          CacheTtl,       \* CACHE_TTL
          MaxRetries,     \* ARP_MAX_RETRIES
          ReplyTimeout,   \* ARP_REPLY_TIMEOUT
          MaxDelay,       \* how long a frame can be under way
          PaddedFirst,    \* whether the peers pad a frame before they append its CRC
          MaxWire         \* bound: the frames of the peers under way

Ip == PeerIp \cup {LocalIp}

ASSUME ArpAssumption ==
  /\ LocalIp \notin PeerIp
  /\ LocalMac \in Mac /\ Broadcast \notin Mac
  /\ CacheTtl \in Nat /\ MaxDelay \in Nat
  /\ MaxRetries \in Nat \ {0} /\ ReplyTimeout \in Nat \ {0}
  /\ PaddedFirst \in BOOLEAN
  /\ MaxWire \in Nat

PeerMac == Mac \ {LocalMac}

VARIABLES cache,     \* ArpCache.entries: for the addresses it has, [mac, age]
          pc,        \* what each thread is doing
          target,    \* the address it resolves
          attempt,   \* its requests so far
          timer,     \* the time since the last of them
          elapsed,   \* history: the time since the first of them
          answer,    \* the adapter resolve_mac returns
          owner,     \* the adapter of each address
          away,      \* history: the time since an adapter had an address
          wire,      \* the ARP frames under way
          missed     \* history: whether recv_loop has dropped a request for this host

vars == <<cache, pc, target, attempt, timer, elapsed, answer, owner, away, wire, missed>>
callVars == <<pc, target, attempt, timer, elapsed, answer>>

(***************************************************************************)
(* "asking" in resolve_mac, with a request to send; "looking" at the head  *)
(* of the capture loop; "listening" in next_packet; "resolved", "gaveUp"   *)
(* and "error" with a result for its caller.                               *)
(***************************************************************************)
Pc == {"idle", "asking", "looking", "listening", "resolved", "gaveUp", "error"}

StaleAge == CacheTtl + MaxDelay + 1

OneOf(a, b) == IF a < b THEN a ELSE b

\* An ARP frame of build_frame is too short, and is padded behind its CRC.
OwnCrcLast == FALSE

Request(ip, mac, tip, crcLast) ==
  [op |-> "request", to |-> Broadcast, ip |-> ip, mac |-> mac, tip |-> tip,
   crcLast |-> crcLast, age |-> 0]

Reply(ip, mac, f, crcLast) ==
  [op |-> "reply", to |-> f.mac, ip |-> ip, mac |-> mac, tip |-> f.ip,
   crcLast |-> crcLast, age |-> 0]

Init ==
  /\ cache = [i \in {} |-> [mac |-> LocalMac, age |-> 0]]
  /\ pc = [t \in Thread |-> "idle"]
  /\ target = [t \in Thread |-> LocalIp]
  /\ attempt = [t \in Thread |-> 0]
  /\ timer = [t \in Thread |-> 0]
  /\ elapsed = [t \in Thread |-> 0]
  /\ answer = [t \in Thread |-> LocalMac]
  /\ owner \in [Ip -> Mac]
  /\ \A i \in Ip : owner[i] = LocalMac <=> i = LocalIp
  /\ away = [i \in Ip |-> [m \in Mac |-> IF owner[i] = m THEN 0 ELSE StaleAge]]
  /\ wire = {}
  /\ missed = FALSE

-----------------------------------------------------------------------------
\* Faulty variants, for the check that each property can fail.
LiveIpsForever == DOMAIN cache

\* lookup drops the entries older than CACHE_TTL before it reads one.
LiveIps == {i \in DOMAIN cache : cache[i].age <= CacheTtl}
Live    == [i \in LiveIps |-> cache[i]]

Insert(i, m) ==
  cache' = [j \in DOMAIN cache \cup {i} |-> IF j = i THEN [mac |-> m, age |-> 0] ELSE cache[j]]

Send(f) == wire' = wire \cup {f}

CacheHit(t, i) ==
  /\ pc[t] = "idle"
  /\ i \in LiveIps
  /\ cache' = Live
  /\ target' = [target EXCEPT ![t] = i]
  /\ answer' = [answer EXCEPT ![t] = cache[i].mac]
  /\ pc' = [pc EXCEPT ![t] = "resolved"]
  /\ UNCHANGED <<attempt, timer, elapsed, owner, away, wire, missed>>

CacheMiss(t, i) ==
  /\ pc[t] = "idle"
  /\ i \notin LiveIps
  /\ cache' = Live
  /\ target' = [target EXCEPT ![t] = i]
  /\ pc' = [pc EXCEPT ![t] = "asking"]
  /\ UNCHANGED <<attempt, timer, elapsed, answer, owner, away, wire, missed>>

AskUncounted(t) ==
  /\ pc[t] = "asking"
  /\ Send(Request(LocalIp, LocalMac, target[t], OwnCrcLast))
  /\ timer' = [timer EXCEPT ![t] = 0]
  /\ pc' = [pc EXCEPT ![t] = "looking"]
  /\ UNCHANGED <<cache, target, attempt, elapsed, answer, owner, away, missed>>

AskOnOldTimer(t) ==
  /\ pc[t] = "asking"
  /\ Send(Request(LocalIp, LocalMac, target[t], OwnCrcLast))
  /\ attempt' = [attempt EXCEPT ![t] = @ + 1]
  /\ pc' = [pc EXCEPT ![t] = "looking"]
  /\ UNCHANGED <<cache, target, timer, elapsed, answer, owner, away, missed>>

\* A request goes out and its deadline is set.
Ask(t) ==
  /\ pc[t] = "asking"
  /\ Send(Request(LocalIp, LocalMac, target[t], OwnCrcLast))
  /\ attempt' = [attempt EXCEPT ![t] = @ + 1]
  /\ timer' = [timer EXCEPT ![t] = 0]
  /\ pc' = [pc EXCEPT ![t] = "looking"]
  /\ UNCHANGED <<cache, target, elapsed, answer, owner, away, missed>>

Look(t) ==
  /\ pc[t] = "looking"
  /\ timer[t] < ReplyTimeout
  /\ pc' = [pc EXCEPT ![t] = "listening"]
  /\ UNCHANGED <<cache, target, attempt, timer, elapsed, answer, owner, away, wire, missed>>

\* next_packet returns a frame, past the deadline too: the thread learns from
\* it, whatever it is, and is done if it is the reply of its target.
Hear(t, f) ==
  /\ pc[t] = "listening"
  /\ Insert(f.ip, f.mac)
  /\ IF f.op = "reply" /\ f.ip = target[t]
     THEN /\ pc' = [pc EXCEPT ![t] = "resolved"]
          /\ answer' = [answer EXCEPT ![t] = f.mac]
     ELSE /\ pc' = [pc EXCEPT ![t] = "looking"]
          /\ UNCHANGED answer
  /\ UNCHANGED <<target, attempt, timer, elapsed, owner, away, wire, missed>>

\* next_packet times out after a second without a frame.
HearNothing(t) ==
  /\ pc[t] = "listening"
  /\ pc' = [pc EXCEPT ![t] = "looking"]
  /\ UNCHANGED <<cache, target, attempt, timer, elapsed, answer, owner, away, wire, missed>>

\* One request too many.
TimeOutInclusive(t) ==
  /\ pc[t] = "looking"
  /\ timer[t] >= ReplyTimeout
  /\ pc' = [pc EXCEPT ![t] = IF attempt[t] <= MaxRetries THEN "asking" ELSE "gaveUp"]
  /\ UNCHANGED <<cache, target, attempt, timer, elapsed, answer, owner, away, wire, missed>>

TimeOut(t) ==
  /\ pc[t] = "looking"
  /\ timer[t] >= ReplyTimeout
  /\ pc' = [pc EXCEPT ![t] = IF attempt[t] < MaxRetries THEN "asking" ELSE "gaveUp"]
  /\ UNCHANGED <<cache, target, attempt, timer, elapsed, answer, owner, away, wire, missed>>

\* open_device, sendpacket or next_packet fails.
DeviceFails(t) ==
  /\ pc[t] \in {"asking", "listening"}
  /\ pc' = [pc EXCEPT ![t] = "error"]
  /\ UNCHANGED <<cache, target, attempt, timer, elapsed, answer, owner, away, wire, missed>>

Return(t) ==
  /\ pc[t] \in {"resolved", "gaveUp", "error"}
  /\ pc' = [pc EXCEPT ![t] = "idle"]
  /\ target' = [target EXCEPT ![t] = LocalIp]
  /\ attempt' = [attempt EXCEPT ![t] = 0]
  /\ timer' = [timer EXCEPT ![t] = 0]
  /\ elapsed' = [elapsed EXCEPT ![t] = 0]
  /\ answer' = [answer EXCEPT ![t] = LocalMac]
  /\ UNCHANGED <<cache, owner, away, wire, missed>>

\* handle_frame drops a frame for another adapter, and one without its CRC in
\* the last bytes; handle_incoming gets the rest.
Accepts(f) == f.to \in {LocalMac, Broadcast} /\ f.crcLast

AnswerTo(f) == Reply(LocalIp, LocalMac, f, OwnCrcLast)

Answer(f) ==
  /\ Accepts(f)
  /\ f.op = "request" /\ f.tip = LocalIp
  /\ Insert(f.ip, f.mac)
  /\ Send(AnswerTo(f))
  /\ UNCHANGED <<callVars, owner, away, missed>>

Learn(f) ==
  /\ Accepts(f)
  /\ ~(f.op = "request" /\ f.tip = LocalIp)
  /\ Insert(f.ip, f.mac)
  /\ UNCHANGED <<callVars, owner, away, wire, missed>>

Ignore(f) ==
  /\ ~Accepts(f)
  /\ missed' = (missed \/ (f.op = "request" /\ f.tip = LocalIp))
  /\ UNCHANGED <<cache, callVars, owner, away, wire>>

\* recv_loop captures f, if the process runs it.
Capture(f) == Answer(f) \/ Learn(f) \/ Ignore(f)

-----------------------------------------------------------------------------
\* A peer asks for an address, or answers a request for its own.  A frame that
\* nobody takes before it is too old is lost.
PeersSend(f) ==
  /\ Cardinality({g \in wire : g.ip \in PeerIp}) < MaxWire
  /\ Send(f)

PeerAsks(p, i) ==
  /\ PeersSend(Request(p, owner[p], i, PaddedFirst))
  /\ UNCHANGED <<cache, callVars, owner, away, missed>>

PeerReplies(f) ==
  /\ f.op = "request" /\ f.tip \in PeerIp \ {f.ip}
  /\ PeersSend(Reply(f.tip, owner[f.tip], f, PaddedFirst))
  /\ UNCHANGED <<cache, callVars, owner, away, missed>>

Move(p, m) ==
  /\ owner' = [owner EXCEPT ![p] = m]
  /\ away' = [away EXCEPT ![p][m] = 0]
  /\ UNCHANGED <<cache, callVars, wire, missed>>

InCall(t) == pc[t] \in {"asking", "looking", "listening"} /\ attempt[t] > 0

Tick ==
  /\ cache' = [i \in DOMAIN cache |-> [cache[i] EXCEPT !.age = OneOf(@ + 1, CacheTtl + 1)]]
  /\ timer' = [t \in Thread |-> IF InCall(t) THEN OneOf(timer[t] + 1, ReplyTimeout) ELSE timer[t]]
  /\ elapsed' = [t \in Thread |-> IF InCall(t) THEN OneOf(elapsed[t] + 1, MaxRetries * ReplyTimeout)
                                  ELSE elapsed[t]]
  /\ away' = [i \in Ip |-> [m \in Mac |-> IF owner[i] = m THEN 0
                                          ELSE OneOf(away[i][m] + 1, StaleAge)]]
  /\ wire' = {[f EXCEPT !.age = @ + 1] : f \in {g \in wire : g.age < MaxDelay}}
  /\ UNCHANGED <<pc, target, attempt, answer, owner, missed>>

Step(t) == Ask(t) \/ Look(t) \/ HearNothing(t) \/ TimeOut(t) \/ Return(t)

Next ==
  \/ \E t \in Thread, i \in PeerIp : CacheHit(t, i) \/ CacheMiss(t, i)
  \/ \E t \in Thread : Step(t) \/ DeviceFails(t)
  \/ \E f \in wire : Capture(f) \/ PeerReplies(f) \/ \E t \in Thread : Hear(t, f)
  \/ \E p \in PeerIp, i \in Ip : PeerAsks(p, i)
  \/ \E p \in PeerIp, m \in PeerMac : Move(p, m)
  \/ Tick

\* A thread in resolve_mac goes on, next_packet returns, and time passes.
Spec ==
  /\ Init
  /\ [][Next]_vars
  /\ WF_vars(Tick)
  /\ \A t \in Thread : WF_vars(Step(t))

-----------------------------------------------------------------------------
ArpFrame == [op : {"request", "reply"}, to : Mac \cup {Broadcast}, ip : Ip, mac : Mac, tip : Ip,
             crcLast : BOOLEAN, age : 0 .. MaxDelay]

\* Every variable has its type, and no call sends more than MaxRetries requests.
ArpTypeOK ==
  /\ DOMAIN cache \subseteq Ip
  /\ \A i \in DOMAIN cache : cache[i] \in [mac : Mac, age : 0 .. CacheTtl + 1]
  /\ pc \in [Thread -> Pc]
  /\ target \in [Thread -> Ip]
  /\ attempt \in [Thread -> 0 .. MaxRetries]
  /\ timer \in [Thread -> 0 .. ReplyTimeout]
  /\ elapsed \in [Thread -> 0 .. MaxRetries * ReplyTimeout]
  /\ answer \in [Thread -> Mac]
  /\ owner \in [Ip -> Mac]
  /\ away \in [Ip -> [Mac -> 0 .. StaleAge]]
  /\ wire \subseteq ArpFrame
  /\ missed \in BOOLEAN

\* The adapter that resolve_mac returns had the address no longer ago than the
\* life of a cache entry and the delay of a frame, although entries are renewed
\* by whatever is heard, late frames included.
AnswersAreRecent ==
  [][\A t \in Thread : pc[t] # "resolved" /\ pc'[t] = "resolved"
       => away[target'[t]][answer'[t]] <= CacheTtl + MaxDelay]_vars

\* resolve_mac gives up only after every retry has had its whole timeout.
GivesUpLate ==
  \A t \in Thread : pc[t] = "gaveUp" => elapsed[t] >= MaxRetries * ReplyTimeout

\* Every call of resolve_mac returns, however many foreign frames it hears and
\* whatever the network loses.
CallsReturn == \A t \in Thread : pc[t] # "idle" ~> pc[t] = "idle"

\* recv_loop answers every request for this host that it captures (README.md,
\* section on ARP).
AnswersRequests == ~missed
=============================================================================
