------------------------------ MODULE ProxyProofs ------------------------------
(* Proofs about Proxy.  A handler thread touches its own job only, so the      *)
(* inductive invariant says of each job separately what its place in the       *)
(* handler implies (JobOK); the engine's operators touch the history of every  *)
(* job and nothing else of it.  The refinement of TrafficContract adds that    *)
(* what leaves the proxy is covered by the first session (Wired).              *)
EXTENDS Proxy, TLAPS

Before == {"upgrade", "block", "connect"} \cup Checking
Passed == {"connect"} \cup Plain \cup Tunnel \cup Tls

\* While a request is handled its history covers what the engine holds now.
Kept(p, j, ps, d, ips) ==
    p \in InFlight =>
        /\ j.banned \subseteq ips
        /\ InForce(ps, Chosen(j.call, d)) \in j.ruled
        /\ InForce(ps, j.named) \in j.ruled

\* Which branch of the handler a job is on.
OnPath(p, j) ==
    /\ p \in Before => j.dest = NoAddr
    /\ p \in Before \ {"upgrade"} => j.call.method \in {"HTTP", "CONNECT"}
    /\ p \in Plain => j.call.method = "HTTP"
    /\ p \in Tunnel \cup Tls => j.call.method = "CONNECT"
    /\ p = "relay" => j.call.port # TlsPort
    /\ p \in Tls => j.call.port = TlsPort

NotBanned(j) == j.ip = NoAddr \/ j.ip \notin j.banned
Allowed(j) == \E pol \in j.ruled : Reachable(pol, j.call, j.ip) /\ ~Refused(pol, j.call)
Tolerated(j) == \E pol \in j.ruled : ~pol.block
TlsCall(j) == j.call.method = "CONNECT" /\ j.call.port = TlsPort

\* What the checks behind a job have established.
Judged(p, j) ==
    /\ p = "policy" => NotBanned(j)
    /\ p \in Passed \/ j.dest # NoAddr => NotBanned(j) /\ Allowed(j)
    /\ p = "read" => j.pol \in j.ruled
    /\ j.call.body = "dirty" /\ j.passed # "nothing" =>
           Tolerated(j) \/ (j.passed = "unscanned" /\ ~j.call.length)

\* Events are pushed when the traffic has ended; before the request went out nothing was sent.
Logged(p, j) ==
    /\ p \in InFlight \ {"finally"} => j.events = <<>>
    /\ OneVerdict(j.events)
    /\ Says(j.events, "block") => ~j.sent
    /\ Says(j.events, "block") /\ Found(j.events) => TlsCall(j)
    /\ j.sent => p \in {"reply", "error", "log", "relay", "tunnel", "finally", "over"}
    /\ p = "over" /\ j.sent /\ ~TlsCall(j) /\ ~j.gone => Says(j.events, "allow")

\* The sessions a job holds.
Holding(p, j) ==
    /\ p \in Before => j.sessions = {}
    /\ p \in Plain \cup Tunnel => j.sessions \subseteq {1}
    /\ p = "over" /\ j.sessions # {} => TlsCall(j) \/ j.gone

JobOK(p, j, ps, d, ips) ==
    /\ j \in JobType
    /\ Kept(p, j, ps, d, ips)
    /\ OnPath(p, j)
    /\ Judged(p, j)
    /\ Logged(p, j)
    /\ Holding(p, j)

Frame ==
    /\ policies \in Seq(PolicyType)
    /\ default \in PolicyNames
    /\ blocked \subseteq Addrs
    /\ dns \in [Hosts -> Addrs \cup {NoAddr}]
    /\ pc \in [Requests -> {"idle", "over"} \cup InFlight]
    /\ job \in [Requests -> JobType \cup {<<>>}]
    /\ loads \in 0 .. MaxLoads /\ moves \in 0 .. MaxMoves

IInv ==
    /\ Frame
    /\ \A r \in Requests : pc[r] # "idle" => JobOK(pc[r], job[r], policies, default, blocked)

--------------------------------------------------------------------------------
LEMMA LenientType == Lenient \in PolicyType
BY DEF Lenient, PolicyType

LEMMA InForceType ==
    ASSUME NEW ps \in Seq(PolicyType), NEW n
    PROVE  InForce(ps, n) \in PolicyType
<1> DEFINE best == IF Named(ps, n) # {} THEN Named(ps, n) ELSE Named(ps, "restricted")
<1>1. best \subseteq DOMAIN ps
  BY DEF Named
<1>2. CASE best # {}
  <2>1. (CHOOSE i \in best : TRUE) \in best
    BY <1>2
  <2>2. ps[CHOOSE i \in best : TRUE] \in PolicyType
    <3> DEFINE k == CHOOSE i \in best : TRUE
    <3>1. k \in DOMAIN ps
      BY <1>1, <2>1
    <3> HIDE DEF k
    <3>2. ps[k] \in PolicyType
      BY <3>1
    <3> QED BY <3>2 DEF k
  <2> QED BY <1>2, <2>2 DEF InForce
<1>3. CASE best = {} /\ ps # <<>>
  <2>1. ps[1] \in PolicyType
    BY <1>3
  <2> QED BY <1>3, <2>1 DEF InForce
<1>4. CASE best = {} /\ ps = <<>>
  BY <1>4, LenientType DEF InForce
<1> QED BY <1>2, <1>3, <1>4

(* The event log of a request: one word of the handler, and what the sniffer adds to it. *)

LEMMA Silence ==
    /\ <<>> \in Seq(EventType) /\ OneVerdict(<<>>) /\ ~Found(<<>>)
    /\ \A v \in {"allow", "block"} : ~Says(<<>>, v)
BY DEF OneVerdict, Found, Says

LEMMA OneWord ==
    ASSUME NEW log, log = <<>>, NEW v \in {"allow", "block"}
    PROVE  /\ Append(log, Verdict(v)) \in Seq(EventType)
           /\ OneVerdict(Append(log, Verdict(v))) /\ ~Found(Append(log, Verdict(v)))
           /\ Says(Append(log, Verdict(v)), v)
           /\ v = "allow" => ~Says(Append(log, Verdict(v)), "block")
           /\ \A i \in DOMAIN Append(log, Verdict(v)) : Append(log, Verdict(v))[i] = Verdict(v)
<1> DEFINE s == Append(log, Verdict(v))
<1>1. Verdict(v) \in EventType /\ ~Verdict(v).sniffer /\ Verdict(v).verdict = v
  BY DEF Verdict, EventType
<1>2. s \in Seq(EventType) /\ DOMAIN s = {1} /\ s[1] = Verdict(v)
  BY <1>1
<1>3. v = "allow" => Verdict(v) # Verdict("block")
  BY DEF Verdict
<1> HIDE DEF s
<1>4. OneVerdict(s) /\ ~Found(s) /\ Says(s, v) /\ (v = "allow" => ~Says(s, "block"))
  BY <1>1, <1>2, <1>3 DEF OneVerdict, Found, Says
<1>5. \A i \in DOMAIN s : s[i] = Verdict(v)
  BY <1>2
<1> QED BY <1>2, <1>4, <1>5 DEF s

LEMMA Joined ==
    ASSUME NEW log \in Seq(EventType), NEW found \in Findings
    PROVE  /\ log \o found \in Seq(EventType)
           /\ DOMAIN log \subseteq DOMAIN (log \o found)
           /\ \A i \in DOMAIN log : (log \o found)[i] = log[i]
           /\ \A i \in DOMAIN (log \o found) \ DOMAIN log :
                  (log \o found)[i] \in FindingType /\ (log \o found)[i].sniffer
<1>1. found \in Seq(FindingType)
  BY ProxyConstants
<1>2. found \in Seq(EventType)
  <2>1. FindingType \subseteq EventType
    BY DEF EventType
  <2> QED BY <1>1, <2>1
<1>3. \A e \in FindingType : e.sniffer
  BY DEF FindingType
<1> DEFINE t == log \o found
<1>4. /\ t \in Seq(EventType) /\ Len(t) = Len(log) + Len(found)
      /\ Len(log) \in Nat /\ Len(found) \in Nat
      /\ DOMAIN log = 1 .. Len(log) /\ DOMAIN t = 1 .. Len(t) /\ DOMAIN found = 1 .. Len(found)
  BY <1>2
<1>5. \A i \in 1 .. Len(log) : t[i] = log[i]
  BY <1>2
<1>6. \A i \in DOMAIN t \ DOMAIN log : i - Len(log) \in 1 .. Len(found) /\ t[i] = found[i - Len(log)]
  BY <1>2, <1>4
<1> HIDE DEF t
<1>7. \A i \in DOMAIN t \ DOMAIN log : t[i] \in FindingType
  BY <1>1, <1>6
<1> QED BY <1>3, <1>4, <1>5, <1>7 DEF t

\* Findings change nothing about what the handler says.
LEMMA Reported ==
    ASSUME NEW log \in Seq(EventType), OneVerdict(log), NEW found \in Findings
    PROVE  /\ log \o found \in Seq(EventType) /\ OneVerdict(log \o found)
           /\ \A v \in {"allow", "block"} : Says(log \o found, v) <=> Says(log, v)
<1> DEFINE t == log \o found
<1>1. /\ t \in Seq(EventType) /\ DOMAIN log \subseteq DOMAIN t
      /\ \A i \in DOMAIN log : t[i] = log[i]
      /\ \A i \in DOMAIN t \ DOMAIN log : t[i] \in FindingType /\ t[i].sniffer
  BY Joined
<1>2. \A v \in {"allow", "block"} : ~Verdict(v).sniffer
  BY DEF Verdict
<1> HIDE DEF t
<1>3. OneVerdict(t)
  BY <1>1 DEF OneVerdict
<1>4. \A v \in {"allow", "block"} : Says(t, v) <=> Says(log, v)
  BY <1>1, <1>2 DEF Says
<1> QED BY <1>1, <1>3, <1>4 DEF t

\* What _log_event leaves: findings and, behind them, its own event.
LEMMA LastWord ==
    ASSUME NEW log, log = <<>>, NEW found \in Findings
    PROVE  LET t == Append(log \o found, Verdict("allow")) IN
           /\ t \in Seq(EventType) /\ OneVerdict(t) /\ Says(t, "allow") /\ ~Says(t, "block")
           /\ \A i \in DOMAIN t : t[i].sniffer \/ t[i] = Verdict("allow")
<1> DEFINE s == log \o found
           t == Append(s, Verdict("allow"))
<1>1. s \in Seq(EventType) /\ \A i \in DOMAIN s : s[i].sniffer
  <2>1. log \in Seq(EventType) /\ DOMAIN log = {}
    BY Silence
  <2> QED BY <2>1, Joined
<1>2. Verdict("allow") \in EventType /\ ~Verdict("allow").sniffer
  BY DEF Verdict, EventType
<1>3. Verdict("allow") # Verdict("block") /\ ~Verdict("block").sniffer
  BY DEF Verdict
<1> HIDE DEF s
<1>4. /\ t \in Seq(EventType) /\ DOMAIN s = 1 .. Len(s) /\ Len(s) \in Nat
      /\ DOMAIN t = 1 .. Len(s) + 1 /\ t[Len(s) + 1] = Verdict("allow")
      /\ \A i \in 1 .. Len(s) : t[i] = s[i]
  BY <1>1, <1>2
<1> HIDE DEF t
<1>5. \A i \in DOMAIN t : (t[i].sniffer /\ i \in DOMAIN s) \/ (i = Len(s) + 1 /\ t[i] = Verdict("allow"))
  BY <1>1, <1>4
<1>6. OneVerdict(t)
  BY <1>2, <1>5 DEF OneVerdict
<1>7. Says(t, "allow") /\ ~Says(t, "block")
  BY <1>3, <1>4, <1>5 DEF Says
<1> QED BY <1>4, <1>5, <1>6, <1>7 DEF s, t

LEMMA AddressType ==
    ASSUME Frame, NEW r \in Requests, job[r] \in JobType
    PROVE  Address(r) \in Addrs \cup {NoAddr}
<1>1. job[r].call \in CallType
  BY ProxyConstants DEF JobType
<1>2. job[r].call.host \in Hosts
  BY <1>1 DEF CallType
<1> QED BY <1>2 DEF Frame, Address

\* One thread takes a step, the rest stands still.
LEMMA OneMoves ==
    ASSUME IInv, NEW r \in Requests, UNCHANGED around,
           NEW p \in {"over"} \cup InFlight, NEW j,
           pc' = [pc EXCEPT ![r] = p],
           job' = [job EXCEPT ![r] = j],
           JobOK(p, j, policies, default, blocked)
    PROVE  IInv'
<1>1. j \in JobType
  BY DEF JobOK
<1>2. Frame'
  BY <1>1 DEF IInv, Frame, around, engine
<1>3. \A s \in Requests : pc'[s] # "idle" => JobOK(pc'[s], job'[s], policies, default, blocked)
  <2> SUFFICES ASSUME NEW s \in Requests, pc'[s] # "idle"
               PROVE  JobOK(pc'[s], job'[s], policies, default, blocked)
    OBVIOUS
  <2>1. CASE s = r
    <3>1. pc'[s] = p /\ job'[s] = j
      BY <2>1 DEF IInv, Frame
    <3> QED BY <3>1
  <2>2. CASE s # r
    <3>1. pc'[s] = pc[s] /\ job'[s] = job[s]
      BY <2>2 DEF IInv, Frame
    <3> QED BY <3>1 DEF IInv
  <2> QED BY <2>1, <2>2
<1>4. policies' = policies /\ default' = default /\ blocked' = blocked
  BY DEF around, engine
<1> QED BY <1>2, <1>3, <1>4 DEF IInv

\* The same for a step that leaves the job as it is.
LEMMA OnlyMoves ==
    ASSUME IInv, NEW r \in Requests, UNCHANGED <<around, job>>,
           NEW p \in {"over"} \cup InFlight,
           pc' = [pc EXCEPT ![r] = p],
           JobOK(p, job[r], policies, default, blocked)
    PROVE  IInv'
<1>1. job' = [job EXCEPT ![r] = job[r]]
  BY DEF IInv, Frame
<1> QED BY <1>1, OneMoves
--------------------------------------------------------------------------------
(* One lemma per step of a handler thread *)

\* 426 and over.
LEMMA RefuseUpgradeStep ==
    ASSUME IInv, NEW r \in Requests, RefuseUpgrade(r)
    PROVE  IInv'
<1>1. pc[r] = "upgrade" /\ JobOK("upgrade", job[r], policies, default, blocked) /\ UNCHANGED around
  BY DEF IInv, RefuseUpgrade, Goes
<1>2. CASE pc' = [pc EXCEPT ![r] = "over"] /\ job' = job
  <2>1. JobOK("over", job[r], policies, default, blocked)
    BY <1>1, <1>2, Silence DEF JobOK, Kept, OnPath, Judged, NotBanned, Allowed, Tolerated, TlsCall, Logged, Holding, Before, Passed, InFlight, Checking, Plain, Tunnel, Tls
  <2>2. "over" \in {"over"} \cup InFlight
    BY DEF InFlight, Checking, Plain, Tunnel, Tls
  <2> QED BY <1>1, <1>2, <2>1, <2>2, OnlyMoves
<1> QED BY <1>2 DEF RefuseUpgrade, Goes, around, engine

\* The sniffer's first session.
LEMMA OnConnectStep ==
    ASSUME IInv, NEW r \in Requests, OnConnect(r)
    PROVE  IInv'
<1>1. pc[r] = "connect" /\ JobOK("connect", job[r], policies, default, blocked) /\ UNCHANGED around
  BY DEF IInv, OnConnect, Goes, Open
<1>2. CASE pc' = [pc EXCEPT ![r] = "forward"] /\ job' = [job EXCEPT ![r].sessions = @ \cup {1}] /\ job[r].call.method = "HTTP"
  <2> DEFINE j == [job[r] EXCEPT !.sessions = @ \cup {1}]
  <2>1. job[r] \in JobType
    BY <1>1 DEF JobOK
  <2>2. j \in JobType
    BY <2>1 DEF JobType
  <2>3. /\ j.call = job[r].call /\ j.named = job[r].named /\ j.ip = job[r].ip /\ j.dest = job[r].dest
        /\ j.pol = job[r].pol /\ j.events = job[r].events /\ j.sent = job[r].sent /\ j.inbound = job[r].inbound
        /\ j.passed = job[r].passed /\ j.gone = job[r].gone /\ j.ruled = job[r].ruled /\ j.banned = job[r].banned
        /\ j.sessions = job[r].sessions \cup {1}
    BY <2>1 DEF JobType
  <2> HIDE DEF j
  <2>4. JobOK("forward", j, policies, default, blocked)
    <3>1. Kept("forward", j, policies, default, blocked)
      BY <1>1, <1>2, <2>3 DEF JobOK, Kept, Before, Passed, InFlight, Checking, Plain, Tunnel, Tls
    <3>2. OnPath("forward", j)
      BY <1>1, <1>2, <2>3 DEF JobOK, OnPath, Before, Passed, InFlight, Checking, Plain, Tunnel, Tls
    <3>3. Judged("forward", j)
      BY <1>1, <1>2, <2>3 DEF JobOK, Judged, OnPath, Kept, NotBanned, Allowed, Tolerated, TlsCall, Logged, Before, Passed, InFlight, Checking, Plain, Tunnel, Tls
    <3>4. Logged("forward", j)
      BY <1>1, <1>2, <2>3, Silence DEF JobOK, Logged, OnPath, TlsCall, Before, Passed, InFlight, Checking, Plain, Tunnel, Tls
    <3>5. Holding("forward", j)
      BY <1>1, <1>2, <2>3 DEF JobOK, Holding, OnPath, TlsCall, Before, Passed, InFlight, Checking, Plain, Tunnel, Tls
    <3> QED BY <2>2, <3>1, <3>2, <3>3, <3>4, <3>5 DEF JobOK
  <2>5. "forward" \in {"over"} \cup InFlight
    BY DEF InFlight, Checking, Plain, Tunnel, Tls
  <2>6. job' = [job EXCEPT ![r] = j]
    BY <1>2 DEF j
  <2> QED BY <1>1, <1>2, <2>4, <2>5, <2>6, OneMoves
<1>3. CASE pc' = [pc EXCEPT ![r] = "dial"] /\ job' = [job EXCEPT ![r].sessions = @ \cup {1}] /\ job[r].call.method # "HTTP"
  <2> DEFINE j == [job[r] EXCEPT !.sessions = @ \cup {1}]
  <2>1. job[r] \in JobType
    BY <1>1 DEF JobOK
  <2>2. j \in JobType
    BY <2>1 DEF JobType
  <2>3. /\ j.call = job[r].call /\ j.named = job[r].named /\ j.ip = job[r].ip /\ j.dest = job[r].dest
        /\ j.pol = job[r].pol /\ j.events = job[r].events /\ j.sent = job[r].sent /\ j.inbound = job[r].inbound
        /\ j.passed = job[r].passed /\ j.gone = job[r].gone /\ j.ruled = job[r].ruled /\ j.banned = job[r].banned
        /\ j.sessions = job[r].sessions \cup {1}
    BY <2>1 DEF JobType
  <2> HIDE DEF j
  <2>4. JobOK("dial", j, policies, default, blocked)
    <3>1. Kept("dial", j, policies, default, blocked)
      BY <1>1, <1>3, <2>3 DEF JobOK, Kept, Before, Passed, InFlight, Checking, Plain, Tunnel, Tls
    <3>2. OnPath("dial", j)
      BY <1>1, <1>3, <2>3 DEF JobOK, OnPath, Before, Passed, InFlight, Checking, Plain, Tunnel, Tls
    <3>3. Judged("dial", j)
      BY <1>1, <1>3, <2>3 DEF JobOK, Judged, OnPath, Kept, NotBanned, Allowed, Tolerated, TlsCall, Logged, Before, Passed, InFlight, Checking, Plain, Tunnel, Tls
    <3>4. Logged("dial", j)
      BY <1>1, <1>3, <2>3, Silence DEF JobOK, Logged, OnPath, TlsCall, Before, Passed, InFlight, Checking, Plain, Tunnel, Tls
    <3>5. Holding("dial", j)
      BY <1>1, <1>3, <2>3 DEF JobOK, Holding, OnPath, TlsCall, Before, Passed, InFlight, Checking, Plain, Tunnel, Tls
    <3> QED BY <2>2, <3>1, <3>2, <3>3, <3>4, <3>5 DEF JobOK
  <2>5. "dial" \in {"over"} \cup InFlight
    BY DEF InFlight, Checking, Plain, Tunnel, Tls
  <2>6. job' = [job EXCEPT ![r] = j]
    BY <1>3 DEF j
  <2> QED BY <1>1, <1>3, <2>4, <2>5, <2>6, OneMoves
<1> QED BY <1>2, <1>3 DEF OnConnect, Goes, Open, around, engine

\* 403 and the event, or neither.
LEMMA SendBlockStep ==
    ASSUME IInv, NEW r \in Requests, SendBlock(r)
    PROVE  IInv'
<1>1. pc[r] = "block" /\ JobOK("block", job[r], policies, default, blocked) /\ UNCHANGED around
  BY DEF IInv, SendBlock, Goes
<1>2. CASE pc' = [pc EXCEPT ![r] = "over"] /\ job' = [job EXCEPT ![r].events = Append(@, Verdict("block"))]
  <2> DEFINE j == [job[r] EXCEPT !.events = Append(@, Verdict("block"))]
  <2>1. job[r] \in JobType
    BY <1>1 DEF JobOK
  <2>2. job[r].events = <<>>
    BY <1>1 DEF JobOK, Logged, InFlight, Checking, Plain, Tunnel, Tls
  <2>3. /\ Append(job[r].events, Verdict("block")) \in Seq(EventType)
        /\ OneVerdict(Append(job[r].events, Verdict("block"))) /\ ~Found(Append(job[r].events, Verdict("block")))
    BY <2>2, OneWord
  <2>4. j \in JobType
    BY <2>1, <2>3 DEF JobType
  <2>5. /\ j.call = job[r].call /\ j.named = job[r].named /\ j.ip = job[r].ip /\ j.dest = job[r].dest
        /\ j.pol = job[r].pol /\ j.sessions = job[r].sessions /\ j.sent = job[r].sent /\ j.inbound = job[r].inbound
        /\ j.passed = job[r].passed /\ j.gone = job[r].gone /\ j.ruled = job[r].ruled /\ j.banned = job[r].banned
        /\ j.events = Append(job[r].events, Verdict("block"))
    BY <2>1 DEF JobType
  <2> HIDE DEF j
  <2>6. JobOK("over", j, policies, default, blocked)
    <3>1. Kept("over", j, policies, default, blocked)
      BY <1>1, <1>2, <2>5 DEF JobOK, Kept, Before, Passed, InFlight, Checking, Plain, Tunnel, Tls
    <3>2. OnPath("over", j)
      BY <1>1, <1>2, <2>5 DEF JobOK, OnPath, Before, Passed, InFlight, Checking, Plain, Tunnel, Tls
    <3>3. Judged("over", j)
      BY <1>1, <1>2, <2>5 DEF JobOK, Judged, OnPath, Kept, NotBanned, Allowed, Tolerated, TlsCall, Logged, Before, Passed, InFlight, Checking, Plain, Tunnel, Tls
    <3>4. Logged("over", j)
      BY <1>1, <1>2, <2>5, <2>3 DEF JobOK, Logged, OnPath, TlsCall, Before, Passed, InFlight, Checking, Plain, Tunnel, Tls
    <3>5. Holding("over", j)
      BY <1>1, <1>2, <2>5 DEF JobOK, Holding, OnPath, TlsCall, Before, Passed, InFlight, Checking, Plain, Tunnel, Tls
    <3> QED BY <2>4, <3>1, <3>2, <3>3, <3>4, <3>5 DEF JobOK
  <2>7. "over" \in {"over"} \cup InFlight
    BY DEF InFlight, Checking, Plain, Tunnel, Tls
  <2>8. job' = [job EXCEPT ![r] = j]
    BY <1>2 DEF j
  <2> QED BY <1>1, <1>2, <2>6, <2>7, <2>8, OneMoves
<1>3. CASE pc' = [pc EXCEPT ![r] = "over"] /\ job' = job /\ job[r].gone
  <2>1. JobOK("over", job[r], policies, default, blocked)
    BY <1>1, <1>3, Silence DEF JobOK, Kept, OnPath, Judged, NotBanned, Allowed, Tolerated, TlsCall, Logged, Holding, Before, Passed, InFlight, Checking, Plain, Tunnel, Tls
  <2>2. "over" \in {"over"} \cup InFlight
    BY DEF InFlight, Checking, Plain, Tunnel, Tls
  <2> QED BY <1>1, <1>3, <2>1, <2>2, OnlyMoves
<1> QED BY <1>2, <1>3 DEF SendBlock, Goes, around, engine

\* The request goes upstream.
LEMMA ForwardStep ==
    ASSUME IInv, NEW r \in Requests, Forward(r)
    PROVE  IInv'
<1>1. pc[r] = "forward" /\ JobOK("forward", job[r], policies, default, blocked) /\ UNCHANGED around
  BY DEF IInv, Forward, Goes
<1>2. CASE pc' = [pc EXCEPT ![r] = "reply"] /\ job' = [job EXCEPT ![r].dest = Address(r), ![r].sent = TRUE] /\ Address(r) # NoAddr
  <2> DEFINE j == [job[r] EXCEPT !.dest = Address(r), !.sent = TRUE]
  <2>1. job[r] \in JobType
    BY <1>1 DEF JobOK
  <2>2. Address(r) \in Addrs \cup {NoAddr}
    BY <2>1, AddressType DEF IInv
  <2>3. j \in JobType
    BY <2>1, <2>2 DEF JobType
  <2>4. /\ j.call = job[r].call /\ j.named = job[r].named /\ j.ip = job[r].ip /\ j.pol = job[r].pol
        /\ j.sessions = job[r].sessions /\ j.events = job[r].events /\ j.inbound = job[r].inbound /\ j.passed = job[r].passed
        /\ j.gone = job[r].gone /\ j.ruled = job[r].ruled /\ j.banned = job[r].banned /\ j.dest = Address(r)
        /\ j.sent = TRUE
    BY <2>1 DEF JobType
  <2> HIDE DEF j
  <2>5. JobOK("reply", j, policies, default, blocked)
    <3>1. Kept("reply", j, policies, default, blocked)
      BY <1>1, <1>2, <2>4 DEF JobOK, Kept, Before, Passed, InFlight, Checking, Plain, Tunnel, Tls
    <3>2. OnPath("reply", j)
      BY <1>1, <1>2, <2>4 DEF JobOK, OnPath, Before, Passed, InFlight, Checking, Plain, Tunnel, Tls
    <3>3. Judged("reply", j)
      BY <1>1, <1>2, <2>4 DEF JobOK, Judged, OnPath, Kept, NotBanned, Allowed, Tolerated, TlsCall, Logged, Before, Passed, InFlight, Checking, Plain, Tunnel, Tls
    <3>4. Logged("reply", j)
      BY <1>1, <1>2, <2>4, Silence DEF JobOK, Logged, OnPath, TlsCall, Before, Passed, InFlight, Checking, Plain, Tunnel, Tls
    <3>5. Holding("reply", j)
      BY <1>1, <1>2, <2>4 DEF JobOK, Holding, OnPath, TlsCall, Before, Passed, InFlight, Checking, Plain, Tunnel, Tls
    <3> QED BY <2>3, <3>1, <3>2, <3>3, <3>4, <3>5 DEF JobOK
  <2>6. "reply" \in {"over"} \cup InFlight
    BY DEF InFlight, Checking, Plain, Tunnel, Tls
  <2>7. job' = [job EXCEPT ![r] = j]
    BY <1>2 DEF j
  <2> QED BY <1>1, <1>2, <2>5, <2>6, <2>7, OneMoves
<1> QED BY <1>2 DEF Forward, Goes, around, engine

\* No connection, or no answer.
LEMMA ForwardFailsStep ==
    ASSUME IInv, NEW r \in Requests, ForwardFails(r)
    PROVE  IInv'
<1>1. pc[r] = "forward" /\ JobOK("forward", job[r], policies, default, blocked) /\ UNCHANGED around
  BY DEF IInv, ForwardFails, Goes
<1>2. CASE pc' = [pc EXCEPT ![r] = "error"] /\ job' = job
  <2>1. JobOK("error", job[r], policies, default, blocked)
    BY <1>1, <1>2, Silence DEF JobOK, Kept, OnPath, Judged, NotBanned, Allowed, Tolerated, TlsCall, Logged, Holding, Before, Passed, InFlight, Checking, Plain, Tunnel, Tls
  <2>2. "error" \in {"over"} \cup InFlight
    BY DEF InFlight, Checking, Plain, Tunnel, Tls
  <2> QED BY <1>1, <1>2, <2>1, <2>2, OnlyMoves
<1>3. CASE pc' = [pc EXCEPT ![r] = "error"] /\ job' = [job EXCEPT ![r].dest = Address(r), ![r].sent = TRUE] /\ Address(r) # NoAddr
  <2> DEFINE j == [job[r] EXCEPT !.dest = Address(r), !.sent = TRUE]
  <2>1. job[r] \in JobType
    BY <1>1 DEF JobOK
  <2>2. Address(r) \in Addrs \cup {NoAddr}
    BY <2>1, AddressType DEF IInv
  <2>3. j \in JobType
    BY <2>1, <2>2 DEF JobType
  <2>4. /\ j.call = job[r].call /\ j.named = job[r].named /\ j.ip = job[r].ip /\ j.pol = job[r].pol
        /\ j.sessions = job[r].sessions /\ j.events = job[r].events /\ j.inbound = job[r].inbound /\ j.passed = job[r].passed
        /\ j.gone = job[r].gone /\ j.ruled = job[r].ruled /\ j.banned = job[r].banned /\ j.dest = Address(r)
        /\ j.sent = TRUE
    BY <2>1 DEF JobType
  <2> HIDE DEF j
  <2>5. JobOK("error", j, policies, default, blocked)
    <3>1. Kept("error", j, policies, default, blocked)
      BY <1>1, <1>3, <2>4 DEF JobOK, Kept, Before, Passed, InFlight, Checking, Plain, Tunnel, Tls
    <3>2. OnPath("error", j)
      BY <1>1, <1>3, <2>4 DEF JobOK, OnPath, Before, Passed, InFlight, Checking, Plain, Tunnel, Tls
    <3>3. Judged("error", j)
      BY <1>1, <1>3, <2>4 DEF JobOK, Judged, OnPath, Kept, NotBanned, Allowed, Tolerated, TlsCall, Logged, Before, Passed, InFlight, Checking, Plain, Tunnel, Tls
    <3>4. Logged("error", j)
      BY <1>1, <1>3, <2>4, Silence DEF JobOK, Logged, OnPath, TlsCall, Before, Passed, InFlight, Checking, Plain, Tunnel, Tls
    <3>5. Holding("error", j)
      BY <1>1, <1>3, <2>4 DEF JobOK, Holding, OnPath, TlsCall, Before, Passed, InFlight, Checking, Plain, Tunnel, Tls
    <3> QED BY <2>3, <3>1, <3>2, <3>3, <3>4, <3>5 DEF JobOK
  <2>6. "error" \in {"over"} \cup InFlight
    BY DEF InFlight, Checking, Plain, Tunnel, Tls
  <2>7. job' = [job EXCEPT ![r] = j]
    BY <1>3 DEF j
  <2> QED BY <1>1, <1>3, <2>5, <2>6, <2>7, OneMoves
<1> QED BY <1>2, <1>3 DEF ForwardFails, Goes, around, engine

\* The answer, or an error.
LEMMA ReplyStep ==
    ASSUME IInv, NEW r \in Requests, Reply(r)
    PROVE  IInv'
<1>1. pc[r] = "reply" /\ JobOK("reply", job[r], policies, default, blocked) /\ UNCHANGED around
  BY DEF IInv, Reply, Goes
<1>2. CASE pc' = [pc EXCEPT ![r] = "log"] /\ job' = job
  <2>1. JobOK("log", job[r], policies, default, blocked)
    BY <1>1, <1>2, Silence DEF JobOK, Kept, OnPath, Judged, NotBanned, Allowed, Tolerated, TlsCall, Logged, Holding, Before, Passed, InFlight, Checking, Plain, Tunnel, Tls
  <2>2. "log" \in {"over"} \cup InFlight
    BY DEF InFlight, Checking, Plain, Tunnel, Tls
  <2> QED BY <1>1, <1>2, <2>1, <2>2, OnlyMoves
<1>3. CASE pc' = [pc EXCEPT ![r] = "error"] /\ job' = job
  <2>1. JobOK("error", job[r], policies, default, blocked)
    BY <1>1, <1>3, Silence DEF JobOK, Kept, OnPath, Judged, NotBanned, Allowed, Tolerated, TlsCall, Logged, Holding, Before, Passed, InFlight, Checking, Plain, Tunnel, Tls
  <2>2. "error" \in {"over"} \cup InFlight
    BY DEF InFlight, Checking, Plain, Tunnel, Tls
  <2> QED BY <1>1, <1>3, <2>1, <2>2, OnlyMoves
<1> QED BY <1>2, <1>3 DEF Reply, Goes, around, engine

\* 502, or the client is gone.
LEMMA SendErrorStep ==
    ASSUME IInv, NEW r \in Requests, SendError(r)
    PROVE  IInv'
<1>1. pc[r] = "error" /\ JobOK("error", job[r], policies, default, blocked) /\ UNCHANGED around
  BY DEF IInv, SendError, Goes
<1>2. CASE pc' = [pc EXCEPT ![r] = "log"] /\ job' = job
  <2>1. JobOK("log", job[r], policies, default, blocked)
    BY <1>1, <1>2, Silence DEF JobOK, Kept, OnPath, Judged, NotBanned, Allowed, Tolerated, TlsCall, Logged, Holding, Before, Passed, InFlight, Checking, Plain, Tunnel, Tls
  <2>2. "log" \in {"over"} \cup InFlight
    BY DEF InFlight, Checking, Plain, Tunnel, Tls
  <2> QED BY <1>1, <1>2, <2>1, <2>2, OnlyMoves
<1>3. CASE pc' = [pc EXCEPT ![r] = "over"] /\ job' = job /\ job[r].gone
  <2>1. JobOK("over", job[r], policies, default, blocked)
    BY <1>1, <1>3, Silence DEF JobOK, Kept, OnPath, Judged, NotBanned, Allowed, Tolerated, TlsCall, Logged, Holding, Before, Passed, InFlight, Checking, Plain, Tunnel, Tls
  <2>2. "over" \in {"over"} \cup InFlight
    BY DEF InFlight, Checking, Plain, Tunnel, Tls
  <2> QED BY <1>1, <1>3, <2>1, <2>2, OnlyMoves
<1> QED BY <1>2, <1>3 DEF SendError, Goes, around, engine

\* The findings and the event of a plain request.
LEMMA LogRequestStep ==
    ASSUME IInv, NEW r \in Requests, LogRequest(r)
    PROVE  IInv'
<1>1. pc[r] = "log" /\ JobOK("log", job[r], policies, default, blocked) /\ UNCHANGED around
  BY DEF IInv, LogRequest, Goes, LogEvent
<1>2. ASSUME NEW found \in Findings, pc' = [pc EXCEPT ![r] = "over"],
             job' = [job EXCEPT ![r].sessions = @ \ {1}, ![r].events = Append(@ \o found, Verdict("allow"))]
      PROVE  IInv'
  <2> DEFINE j == [job[r] EXCEPT !.sessions = @ \ {1}, !.events = Append(@ \o found, Verdict("allow"))]
  <2>1. job[r] \in JobType
    BY <1>1 DEF JobOK
  <2>2. job[r].events = <<>>
    BY <1>1 DEF JobOK, Logged, InFlight, Checking, Plain, Tunnel, Tls
  <2>3. /\ Append(job[r].events \o found, Verdict("allow")) \in Seq(EventType)
        /\ OneVerdict(Append(job[r].events \o found, Verdict("allow")))
        /\ Says(Append(job[r].events \o found, Verdict("allow")), "allow")
        /\ ~Says(Append(job[r].events \o found, Verdict("allow")), "block")
    BY <2>2, LastWord
  <2>4. j \in JobType
    BY <2>1, <2>3 DEF JobType
  <2>5. /\ j.call = job[r].call /\ j.named = job[r].named /\ j.ip = job[r].ip /\ j.dest = job[r].dest
        /\ j.pol = job[r].pol /\ j.sent = job[r].sent /\ j.inbound = job[r].inbound /\ j.passed = job[r].passed
        /\ j.gone = job[r].gone /\ j.ruled = job[r].ruled /\ j.banned = job[r].banned /\ j.sessions = job[r].sessions \ {1}
        /\ j.events = Append(job[r].events \o found, Verdict("allow"))
    BY <2>1 DEF JobType
  <2> HIDE DEF j
  <2>6. JobOK("over", j, policies, default, blocked)
    <3>1. Kept("over", j, policies, default, blocked)
      BY <1>1, <1>2, <2>5 DEF JobOK, Kept, Before, Passed, InFlight, Checking, Plain, Tunnel, Tls
    <3>2. OnPath("over", j)
      BY <1>1, <1>2, <2>5 DEF JobOK, OnPath, Before, Passed, InFlight, Checking, Plain, Tunnel, Tls
    <3>3. Judged("over", j)
      BY <1>1, <1>2, <2>5 DEF JobOK, Judged, OnPath, Kept, NotBanned, Allowed, Tolerated, TlsCall, Logged, Before, Passed, InFlight, Checking, Plain, Tunnel, Tls
    <3>4. Logged("over", j)
      BY <1>1, <1>2, <2>5, <2>3 DEF JobOK, Logged, OnPath, TlsCall, Before, Passed, InFlight, Checking, Plain, Tunnel, Tls
    <3>5. Holding("over", j)
      BY <1>1, <1>2, <2>5 DEF JobOK, Holding, OnPath, TlsCall, Before, Passed, InFlight, Checking, Plain, Tunnel, Tls
    <3> QED BY <2>4, <3>1, <3>2, <3>3, <3>4, <3>5 DEF JobOK
  <2>7. "over" \in {"over"} \cup InFlight
    BY DEF InFlight, Checking, Plain, Tunnel, Tls
  <2>8. job' = [job EXCEPT ![r] = j]
    BY <1>2 DEF j
  <2> QED BY <1>1, <1>2, <2>6, <2>7, <2>8, OneMoves
<1> QED BY <1>2 DEF LogRequest, Goes, LogEvent, around, engine

\* The tunnel's connection.
LEMMA DialStep ==
    ASSUME IInv, NEW r \in Requests, Dial(r)
    PROVE  IInv'
<1>1. pc[r] = "dial" /\ JobOK("dial", job[r], policies, default, blocked) /\ UNCHANGED around
  BY DEF IInv, Dial, Goes
<1>2. CASE pc' = [pc EXCEPT ![r] = "established"] /\ job' = [job EXCEPT ![r].dest = Address(r)] /\ Address(r) # NoAddr
  <2> DEFINE j == [job[r] EXCEPT !.dest = Address(r)]
  <2>1. job[r] \in JobType
    BY <1>1 DEF JobOK
  <2>2. Address(r) \in Addrs \cup {NoAddr}
    BY <2>1, AddressType DEF IInv
  <2>3. j \in JobType
    BY <2>1, <2>2 DEF JobType
  <2>4. /\ j.call = job[r].call /\ j.named = job[r].named /\ j.ip = job[r].ip /\ j.pol = job[r].pol
        /\ j.sessions = job[r].sessions /\ j.events = job[r].events /\ j.sent = job[r].sent /\ j.inbound = job[r].inbound
        /\ j.passed = job[r].passed /\ j.gone = job[r].gone /\ j.ruled = job[r].ruled /\ j.banned = job[r].banned
        /\ j.dest = Address(r)
    BY <2>1 DEF JobType
  <2> HIDE DEF j
  <2>5. JobOK("established", j, policies, default, blocked)
    <3>1. Kept("established", j, policies, default, blocked)
      BY <1>1, <1>2, <2>4 DEF JobOK, Kept, Before, Passed, InFlight, Checking, Plain, Tunnel, Tls
    <3>2. OnPath("established", j)
      BY <1>1, <1>2, <2>4 DEF JobOK, OnPath, Before, Passed, InFlight, Checking, Plain, Tunnel, Tls
    <3>3. Judged("established", j)
      BY <1>1, <1>2, <2>4 DEF JobOK, Judged, OnPath, Kept, NotBanned, Allowed, Tolerated, TlsCall, Logged, Before, Passed, InFlight, Checking, Plain, Tunnel, Tls
    <3>4. Logged("established", j)
      BY <1>1, <1>2, <2>4, Silence DEF JobOK, Logged, OnPath, TlsCall, Before, Passed, InFlight, Checking, Plain, Tunnel, Tls
    <3>5. Holding("established", j)
      BY <1>1, <1>2, <2>4 DEF JobOK, Holding, OnPath, TlsCall, Before, Passed, InFlight, Checking, Plain, Tunnel, Tls
    <3> QED BY <2>3, <3>1, <3>2, <3>3, <3>4, <3>5 DEF JobOK
  <2>6. "established" \in {"over"} \cup InFlight
    BY DEF InFlight, Checking, Plain, Tunnel, Tls
  <2>7. job' = [job EXCEPT ![r] = j]
    BY <1>2 DEF j
  <2> QED BY <1>1, <1>2, <2>5, <2>6, <2>7, OneMoves
<1> QED BY <1>2 DEF Dial, Goes, around, engine

\* No connection.
LEMMA DialFailsStep ==
    ASSUME IInv, NEW r \in Requests, DialFails(r)
    PROVE  IInv'
<1>1. pc[r] = "dial" /\ JobOK("dial", job[r], policies, default, blocked) /\ UNCHANGED around
  BY DEF IInv, DialFails, Goes, Leave
<1>2. CASE pc' = [pc EXCEPT ![r] = "over"] /\ job' = [job EXCEPT ![r].sessions = @ \ {1}]
  <2> DEFINE j == [job[r] EXCEPT !.sessions = @ \ {1}]
  <2>1. job[r] \in JobType
    BY <1>1 DEF JobOK
  <2>2. j \in JobType
    BY <2>1 DEF JobType
  <2>3. /\ j.call = job[r].call /\ j.named = job[r].named /\ j.ip = job[r].ip /\ j.dest = job[r].dest
        /\ j.pol = job[r].pol /\ j.events = job[r].events /\ j.sent = job[r].sent /\ j.inbound = job[r].inbound
        /\ j.passed = job[r].passed /\ j.gone = job[r].gone /\ j.ruled = job[r].ruled /\ j.banned = job[r].banned
        /\ j.sessions = job[r].sessions \ {1}
    BY <2>1 DEF JobType
  <2> HIDE DEF j
  <2>4. JobOK("over", j, policies, default, blocked)
    <3>1. Kept("over", j, policies, default, blocked)
      BY <1>1, <1>2, <2>3 DEF JobOK, Kept, Before, Passed, InFlight, Checking, Plain, Tunnel, Tls
    <3>2. OnPath("over", j)
      BY <1>1, <1>2, <2>3 DEF JobOK, OnPath, Before, Passed, InFlight, Checking, Plain, Tunnel, Tls
    <3>3. Judged("over", j)
      BY <1>1, <1>2, <2>3 DEF JobOK, Judged, OnPath, Kept, NotBanned, Allowed, Tolerated, TlsCall, Logged, Before, Passed, InFlight, Checking, Plain, Tunnel, Tls
    <3>4. Logged("over", j)
      BY <1>1, <1>2, <2>3, Silence DEF JobOK, Logged, OnPath, TlsCall, Before, Passed, InFlight, Checking, Plain, Tunnel, Tls
    <3>5. Holding("over", j)
      BY <1>1, <1>2, <2>3 DEF JobOK, Holding, OnPath, TlsCall, Before, Passed, InFlight, Checking, Plain, Tunnel, Tls
    <3> QED BY <2>2, <3>1, <3>2, <3>3, <3>4, <3>5 DEF JobOK
  <2>5. "over" \in {"over"} \cup InFlight
    BY DEF InFlight, Checking, Plain, Tunnel, Tls
  <2>6. job' = [job EXCEPT ![r] = j]
    BY <1>2 DEF j
  <2> QED BY <1>1, <1>2, <2>4, <2>5, <2>6, OneMoves
<1> QED BY <1>2 DEF DialFails, Goes, Leave, around, engine

\* 200, or the client is gone.
LEMMA EstablishedStep ==
    ASSUME IInv, NEW r \in Requests, Established(r)
    PROVE  IInv'
<1>1. pc[r] = "established" /\ JobOK("established", job[r], policies, default, blocked) /\ UNCHANGED around
  BY DEF IInv, Established, Goes
<1>2. CASE pc' = [pc EXCEPT ![r] = "intercept"] /\ job' = job /\ job[r].call.port = TlsPort
  <2>1. JobOK("intercept", job[r], policies, default, blocked)
    BY <1>1, <1>2, Silence DEF JobOK, Kept, OnPath, Judged, NotBanned, Allowed, Tolerated, TlsCall, Logged, Holding, Before, Passed, InFlight, Checking, Plain, Tunnel, Tls
  <2>2. "intercept" \in {"over"} \cup InFlight
    BY DEF InFlight, Checking, Plain, Tunnel, Tls
  <2> QED BY <1>1, <1>2, <2>1, <2>2, OnlyMoves
<1>3. CASE pc' = [pc EXCEPT ![r] = "relay"] /\ job' = job /\ job[r].call.port # TlsPort
  <2>1. JobOK("relay", job[r], policies, default, blocked)
    BY <1>1, <1>3, Silence DEF JobOK, Kept, OnPath, Judged, NotBanned, Allowed, Tolerated, TlsCall, Logged, Holding, Before, Passed, InFlight, Checking, Plain, Tunnel, Tls
  <2>2. "relay" \in {"over"} \cup InFlight
    BY DEF InFlight, Checking, Plain, Tunnel, Tls
  <2> QED BY <1>1, <1>3, <2>1, <2>2, OnlyMoves
<1>4. CASE pc' = [pc EXCEPT ![r] = "over"] /\ job' = job /\ job[r].gone
  <2>1. JobOK("over", job[r], policies, default, blocked)
    BY <1>1, <1>4, Silence DEF JobOK, Kept, OnPath, Judged, NotBanned, Allowed, Tolerated, TlsCall, Logged, Holding, Before, Passed, InFlight, Checking, Plain, Tunnel, Tls
  <2>2. "over" \in {"over"} \cup InFlight
    BY DEF InFlight, Checking, Plain, Tunnel, Tls
  <2> QED BY <1>1, <1>4, <2>1, <2>2, OnlyMoves
<1> QED BY <1>2, <1>3, <1>4 DEF Established, Goes, around, engine

\* Bytes of a plain tunnel.
LEMMA RelayBytesStep ==
    ASSUME IInv, NEW r \in Requests, RelayBytes(r)
    PROVE  IInv'
<1>1. pc[r] = "relay" /\ JobOK("relay", job[r], policies, default, blocked) /\ UNCHANGED around
  BY DEF IInv, RelayBytes
<1>2. CASE pc' = [pc EXCEPT ![r] = "relay"] /\ job' = [job EXCEPT ![r].sent = TRUE]
  <2> DEFINE j == [job[r] EXCEPT !.sent = TRUE]
  <2>1. job[r] \in JobType
    BY <1>1 DEF JobOK
  <2>2. j \in JobType
    BY <2>1 DEF JobType
  <2>3. /\ j.call = job[r].call /\ j.named = job[r].named /\ j.ip = job[r].ip /\ j.dest = job[r].dest
        /\ j.pol = job[r].pol /\ j.sessions = job[r].sessions /\ j.events = job[r].events /\ j.inbound = job[r].inbound
        /\ j.passed = job[r].passed /\ j.gone = job[r].gone /\ j.ruled = job[r].ruled /\ j.banned = job[r].banned
        /\ j.sent = TRUE
    BY <2>1 DEF JobType
  <2> HIDE DEF j
  <2>4. JobOK("relay", j, policies, default, blocked)
    <3>1. Kept("relay", j, policies, default, blocked)
      BY <1>1, <1>2, <2>3 DEF JobOK, Kept, Before, Passed, InFlight, Checking, Plain, Tunnel, Tls
    <3>2. OnPath("relay", j)
      BY <1>1, <1>2, <2>3 DEF JobOK, OnPath, Before, Passed, InFlight, Checking, Plain, Tunnel, Tls
    <3>3. Judged("relay", j)
      BY <1>1, <1>2, <2>3 DEF JobOK, Judged, OnPath, Kept, NotBanned, Allowed, Tolerated, TlsCall, Logged, Before, Passed, InFlight, Checking, Plain, Tunnel, Tls
    <3>4. Logged("relay", j)
      BY <1>1, <1>2, <2>3, Silence DEF JobOK, Logged, OnPath, TlsCall, Before, Passed, InFlight, Checking, Plain, Tunnel, Tls
    <3>5. Holding("relay", j)
      BY <1>1, <1>2, <2>3 DEF JobOK, Holding, OnPath, TlsCall, Before, Passed, InFlight, Checking, Plain, Tunnel, Tls
    <3> QED BY <2>2, <3>1, <3>2, <3>3, <3>4, <3>5 DEF JobOK
  <2>5. "relay" \in {"over"} \cup InFlight
    BY DEF InFlight, Checking, Plain, Tunnel, Tls
  <2>6. job' = [job EXCEPT ![r] = j]
    BY <1>2 DEF j
  <2> QED BY <1>1, <1>2, <2>4, <2>5, <2>6, OneMoves
<1>3. CASE pc' = [pc EXCEPT ![r] = "relay"] /\ job' = [job EXCEPT ![r].inbound = TRUE]
  <2> DEFINE j == [job[r] EXCEPT !.inbound = TRUE]
  <2>1. job[r] \in JobType
    BY <1>1 DEF JobOK
  <2>2. j \in JobType
    BY <2>1 DEF JobType
  <2>3. /\ j.call = job[r].call /\ j.named = job[r].named /\ j.ip = job[r].ip /\ j.dest = job[r].dest
        /\ j.pol = job[r].pol /\ j.sessions = job[r].sessions /\ j.events = job[r].events /\ j.sent = job[r].sent
        /\ j.passed = job[r].passed /\ j.gone = job[r].gone /\ j.ruled = job[r].ruled /\ j.banned = job[r].banned
        /\ j.inbound = TRUE
    BY <2>1 DEF JobType
  <2> HIDE DEF j
  <2>4. JobOK("relay", j, policies, default, blocked)
    <3>1. Kept("relay", j, policies, default, blocked)
      BY <1>1, <1>3, <2>3 DEF JobOK, Kept, Before, Passed, InFlight, Checking, Plain, Tunnel, Tls
    <3>2. OnPath("relay", j)
      BY <1>1, <1>3, <2>3 DEF JobOK, OnPath, Before, Passed, InFlight, Checking, Plain, Tunnel, Tls
    <3>3. Judged("relay", j)
      BY <1>1, <1>3, <2>3 DEF JobOK, Judged, OnPath, Kept, NotBanned, Allowed, Tolerated, TlsCall, Logged, Before, Passed, InFlight, Checking, Plain, Tunnel, Tls
    <3>4. Logged("relay", j)
      BY <1>1, <1>3, <2>3, Silence DEF JobOK, Logged, OnPath, TlsCall, Before, Passed, InFlight, Checking, Plain, Tunnel, Tls
    <3>5. Holding("relay", j)
      BY <1>1, <1>3, <2>3 DEF JobOK, Holding, OnPath, TlsCall, Before, Passed, InFlight, Checking, Plain, Tunnel, Tls
    <3> QED BY <2>2, <3>1, <3>2, <3>3, <3>4, <3>5 DEF JobOK
  <2>5. "relay" \in {"over"} \cup InFlight
    BY DEF InFlight, Checking, Plain, Tunnel, Tls
  <2>6. job' = [job EXCEPT ![r] = j]
    BY <1>3 DEF j
  <2> QED BY <1>1, <1>3, <2>4, <2>5, <2>6, OneMoves
<1>4. pc' = [pc EXCEPT ![r] = "relay"]
  BY <1>1 DEF RelayBytes, IInv, Frame
<1> QED BY <1>1, <1>2, <1>3, <1>4 DEF RelayBytes, around, engine

\* The findings and the event of a plain tunnel.
LEMMA RelayEndsStep ==
    ASSUME IInv, NEW r \in Requests, RelayEnds(r)
    PROVE  IInv'
<1>1. pc[r] = "relay" /\ JobOK("relay", job[r], policies, default, blocked) /\ UNCHANGED around
  BY DEF IInv, RelayEnds, Goes, LogEvent
<1>2. ASSUME NEW found \in Findings, pc' = [pc EXCEPT ![r] = "over"],
             job' = [job EXCEPT ![r].sessions = @ \ {1}, ![r].events = Append(@ \o found, Verdict("allow"))]
      PROVE  IInv'
  <2> DEFINE j == [job[r] EXCEPT !.sessions = @ \ {1}, !.events = Append(@ \o found, Verdict("allow"))]
  <2>1. job[r] \in JobType
    BY <1>1 DEF JobOK
  <2>2. job[r].events = <<>>
    BY <1>1 DEF JobOK, Logged, InFlight, Checking, Plain, Tunnel, Tls
  <2>3. /\ Append(job[r].events \o found, Verdict("allow")) \in Seq(EventType)
        /\ OneVerdict(Append(job[r].events \o found, Verdict("allow")))
        /\ Says(Append(job[r].events \o found, Verdict("allow")), "allow")
        /\ ~Says(Append(job[r].events \o found, Verdict("allow")), "block")
    BY <2>2, LastWord
  <2>4. j \in JobType
    BY <2>1, <2>3 DEF JobType
  <2>5. /\ j.call = job[r].call /\ j.named = job[r].named /\ j.ip = job[r].ip /\ j.dest = job[r].dest
        /\ j.pol = job[r].pol /\ j.sent = job[r].sent /\ j.inbound = job[r].inbound /\ j.passed = job[r].passed
        /\ j.gone = job[r].gone /\ j.ruled = job[r].ruled /\ j.banned = job[r].banned /\ j.sessions = job[r].sessions \ {1}
        /\ j.events = Append(job[r].events \o found, Verdict("allow"))
    BY <2>1 DEF JobType
  <2> HIDE DEF j
  <2>6. JobOK("over", j, policies, default, blocked)
    <3>1. Kept("over", j, policies, default, blocked)
      BY <1>1, <1>2, <2>5 DEF JobOK, Kept, Before, Passed, InFlight, Checking, Plain, Tunnel, Tls
    <3>2. OnPath("over", j)
      BY <1>1, <1>2, <2>5 DEF JobOK, OnPath, Before, Passed, InFlight, Checking, Plain, Tunnel, Tls
    <3>3. Judged("over", j)
      BY <1>1, <1>2, <2>5 DEF JobOK, Judged, OnPath, Kept, NotBanned, Allowed, Tolerated, TlsCall, Logged, Before, Passed, InFlight, Checking, Plain, Tunnel, Tls
    <3>4. Logged("over", j)
      BY <1>1, <1>2, <2>5, <2>3 DEF JobOK, Logged, OnPath, TlsCall, Before, Passed, InFlight, Checking, Plain, Tunnel, Tls
    <3>5. Holding("over", j)
      BY <1>1, <1>2, <2>5 DEF JobOK, Holding, OnPath, TlsCall, Before, Passed, InFlight, Checking, Plain, Tunnel, Tls
    <3> QED BY <2>4, <3>1, <3>2, <3>3, <3>4, <3>5 DEF JobOK
  <2>7. "over" \in {"over"} \cup InFlight
    BY DEF InFlight, Checking, Plain, Tunnel, Tls
  <2>8. job' = [job EXCEPT ![r] = j]
    BY <1>2 DEF j
  <2> QED BY <1>1, <1>2, <2>6, <2>7, <2>8, OneMoves
<1> QED BY <1>2 DEF RelayEnds, Goes, LogEvent, around, engine

\* The second session.
LEMMA InterceptStep ==
    ASSUME IInv, NEW r \in Requests, Intercept(r)
    PROVE  IInv'
<1>1. pc[r] = "intercept" /\ JobOK("intercept", job[r], policies, default, blocked) /\ UNCHANGED around
  BY DEF IInv, Intercept, Goes, Open
<1>2. CASE pc' = [pc EXCEPT ![r] = "wrap"] /\ job' = [job EXCEPT ![r].sessions = @ \cup {2}]
  <2> DEFINE j == [job[r] EXCEPT !.sessions = @ \cup {2}]
  <2>1. job[r] \in JobType
    BY <1>1 DEF JobOK
  <2>2. j \in JobType
    BY <2>1 DEF JobType
  <2>3. /\ j.call = job[r].call /\ j.named = job[r].named /\ j.ip = job[r].ip /\ j.dest = job[r].dest
        /\ j.pol = job[r].pol /\ j.events = job[r].events /\ j.sent = job[r].sent /\ j.inbound = job[r].inbound
        /\ j.passed = job[r].passed /\ j.gone = job[r].gone /\ j.ruled = job[r].ruled /\ j.banned = job[r].banned
        /\ j.sessions = job[r].sessions \cup {2}
    BY <2>1 DEF JobType
  <2> HIDE DEF j
  <2>4. JobOK("wrap", j, policies, default, blocked)
    <3>1. Kept("wrap", j, policies, default, blocked)
      BY <1>1, <1>2, <2>3 DEF JobOK, Kept, Before, Passed, InFlight, Checking, Plain, Tunnel, Tls
    <3>2. OnPath("wrap", j)
      BY <1>1, <1>2, <2>3 DEF JobOK, OnPath, Before, Passed, InFlight, Checking, Plain, Tunnel, Tls
    <3>3. Judged("wrap", j)
      BY <1>1, <1>2, <2>3 DEF JobOK, Judged, OnPath, Kept, NotBanned, Allowed, Tolerated, TlsCall, Logged, Before, Passed, InFlight, Checking, Plain, Tunnel, Tls
    <3>4. Logged("wrap", j)
      BY <1>1, <1>2, <2>3, Silence DEF JobOK, Logged, OnPath, TlsCall, Before, Passed, InFlight, Checking, Plain, Tunnel, Tls
    <3>5. Holding("wrap", j)
      BY <1>1, <1>2, <2>3 DEF JobOK, Holding, OnPath, TlsCall, Before, Passed, InFlight, Checking, Plain, Tunnel, Tls
    <3> QED BY <2>2, <3>1, <3>2, <3>3, <3>4, <3>5 DEF JobOK
  <2>5. "wrap" \in {"over"} \cup InFlight
    BY DEF InFlight, Checking, Plain, Tunnel, Tls
  <2>6. job' = [job EXCEPT ![r] = j]
    BY <1>2 DEF j
  <2> QED BY <1>1, <1>2, <2>4, <2>5, <2>6, OneMoves
<1> QED BY <1>2 DEF Intercept, Goes, Open, around, engine

\* The handshake with the client.
LEMMA WrapStep ==
    ASSUME IInv, NEW r \in Requests, Wrap(r)
    PROVE  IInv'
<1>1. pc[r] = "wrap" /\ JobOK("wrap", job[r], policies, default, blocked) /\ UNCHANGED around
  BY DEF IInv, Wrap, Goes, Leave
<1>2. CASE pc' = [pc EXCEPT ![r] = "upstream"] /\ job' = job
  <2>1. JobOK("upstream", job[r], policies, default, blocked)
    BY <1>1, <1>2, Silence DEF JobOK, Kept, OnPath, Judged, NotBanned, Allowed, Tolerated, TlsCall, Logged, Holding, Before, Passed, InFlight, Checking, Plain, Tunnel, Tls
  <2>2. "upstream" \in {"over"} \cup InFlight
    BY DEF InFlight, Checking, Plain, Tunnel, Tls
  <2> QED BY <1>1, <1>2, <2>1, <2>2, OnlyMoves
<1>3. CASE pc' = [pc EXCEPT ![r] = "over"] /\ job' = [job EXCEPT ![r].sessions = @ \ {2}]
  <2> DEFINE j == [job[r] EXCEPT !.sessions = @ \ {2}]
  <2>1. job[r] \in JobType
    BY <1>1 DEF JobOK
  <2>2. j \in JobType
    BY <2>1 DEF JobType
  <2>3. /\ j.call = job[r].call /\ j.named = job[r].named /\ j.ip = job[r].ip /\ j.dest = job[r].dest
        /\ j.pol = job[r].pol /\ j.events = job[r].events /\ j.sent = job[r].sent /\ j.inbound = job[r].inbound
        /\ j.passed = job[r].passed /\ j.gone = job[r].gone /\ j.ruled = job[r].ruled /\ j.banned = job[r].banned
        /\ j.sessions = job[r].sessions \ {2}
    BY <2>1 DEF JobType
  <2> HIDE DEF j
  <2>4. JobOK("over", j, policies, default, blocked)
    <3>1. Kept("over", j, policies, default, blocked)
      BY <1>1, <1>3, <2>3 DEF JobOK, Kept, Before, Passed, InFlight, Checking, Plain, Tunnel, Tls
    <3>2. OnPath("over", j)
      BY <1>1, <1>3, <2>3 DEF JobOK, OnPath, Before, Passed, InFlight, Checking, Plain, Tunnel, Tls
    <3>3. Judged("over", j)
      BY <1>1, <1>3, <2>3 DEF JobOK, Judged, OnPath, Kept, NotBanned, Allowed, Tolerated, TlsCall, Logged, Before, Passed, InFlight, Checking, Plain, Tunnel, Tls
    <3>4. Logged("over", j)
      BY <1>1, <1>3, <2>3, Silence DEF JobOK, Logged, OnPath, TlsCall, Before, Passed, InFlight, Checking, Plain, Tunnel, Tls
    <3>5. Holding("over", j)
      BY <1>1, <1>3, <2>3 DEF JobOK, Holding, OnPath, TlsCall, Before, Passed, InFlight, Checking, Plain, Tunnel, Tls
    <3> QED BY <2>2, <3>1, <3>2, <3>3, <3>4, <3>5 DEF JobOK
  <2>5. "over" \in {"over"} \cup InFlight
    BY DEF InFlight, Checking, Plain, Tunnel, Tls
  <2>6. job' = [job EXCEPT ![r] = j]
    BY <1>3 DEF j
  <2> QED BY <1>1, <1>3, <2>4, <2>5, <2>6, OneMoves
<1>4. CASE pc' = [pc EXCEPT ![r] = "over"] /\ job' = job
  <2>1. JobOK("over", job[r], policies, default, blocked)
    BY <1>1, <1>4, Silence DEF JobOK, Kept, OnPath, Judged, NotBanned, Allowed, Tolerated, TlsCall, Logged, Holding, Before, Passed, InFlight, Checking, Plain, Tunnel, Tls
  <2>2. "over" \in {"over"} \cup InFlight
    BY DEF InFlight, Checking, Plain, Tunnel, Tls
  <2> QED BY <1>1, <1>4, <2>1, <2>2, OnlyMoves
<1> QED BY <1>2, <1>3, <1>4 DEF Wrap, Goes, Leave, around, engine

\* The interceptor's connection and policy.
LEMMA DialTlsStep ==
    ASSUME IInv, NEW r \in Requests, DialTls(r)
    PROVE  IInv'
<1>1. pc[r] = "upstream" /\ JobOK("upstream", job[r], policies, default, blocked) /\ UNCHANGED around
  BY DEF IInv, DialTls, Goes
<1>2. CASE pc' = [pc EXCEPT ![r] = "read"] /\ job' = [job EXCEPT ![r].dest = Address(r), ![r].pol = InForce(policies, job[r].named)] /\ Address(r) # NoAddr
  <2> DEFINE j == [job[r] EXCEPT !.dest = Address(r), !.pol = InForce(policies, job[r].named)]
  <2>1. job[r] \in JobType
    BY <1>1 DEF JobOK
  <2>2. Address(r) \in Addrs \cup {NoAddr}
    BY <2>1, AddressType DEF IInv
  <2>3. InForce(policies, job[r].named) \in PolicyType
    BY InForceType DEF IInv, Frame
  <2>4. j \in JobType
    BY <2>1, <2>2, <2>3 DEF JobType
  <2>5. /\ j.call = job[r].call /\ j.named = job[r].named /\ j.ip = job[r].ip /\ j.sessions = job[r].sessions
        /\ j.events = job[r].events /\ j.sent = job[r].sent /\ j.inbound = job[r].inbound /\ j.passed = job[r].passed
        /\ j.gone = job[r].gone /\ j.ruled = job[r].ruled /\ j.banned = job[r].banned /\ j.dest = Address(r)
        /\ j.pol = InForce(policies, job[r].named)
    BY <2>1 DEF JobType
  <2> HIDE DEF j
  <2>6. JobOK("read", j, policies, default, blocked)
    <3>1. Kept("read", j, policies, default, blocked)
      BY <1>1, <1>2, <2>5 DEF JobOK, Kept, Before, Passed, InFlight, Checking, Plain, Tunnel, Tls
    <3>2. OnPath("read", j)
      BY <1>1, <1>2, <2>5 DEF JobOK, OnPath, Before, Passed, InFlight, Checking, Plain, Tunnel, Tls
    <3>3. Judged("read", j)
      BY <1>1, <1>2, <2>5 DEF JobOK, Judged, OnPath, Kept, NotBanned, Allowed, Tolerated, TlsCall, Logged, Before, Passed, InFlight, Checking, Plain, Tunnel, Tls
    <3>4. Logged("read", j)
      BY <1>1, <1>2, <2>5, Silence DEF JobOK, Logged, OnPath, TlsCall, Before, Passed, InFlight, Checking, Plain, Tunnel, Tls
    <3>5. Holding("read", j)
      BY <1>1, <1>2, <2>5 DEF JobOK, Holding, OnPath, TlsCall, Before, Passed, InFlight, Checking, Plain, Tunnel, Tls
    <3> QED BY <2>4, <3>1, <3>2, <3>3, <3>4, <3>5 DEF JobOK
  <2>7. "read" \in {"over"} \cup InFlight
    BY DEF InFlight, Checking, Plain, Tunnel, Tls
  <2>8. job' = [job EXCEPT ![r] = j]
    BY <1>2 DEF j
  <2> QED BY <1>1, <1>2, <2>6, <2>7, <2>8, OneMoves
<1> QED BY <1>2 DEF DialTls, Goes, around, engine

\* No connection.
LEMMA DialTlsFailsStep ==
    ASSUME IInv, NEW r \in Requests, DialTlsFails(r)
    PROVE  IInv'
<1>1. pc[r] = "upstream" /\ JobOK("upstream", job[r], policies, default, blocked) /\ UNCHANGED around
  BY DEF IInv, DialTlsFails, Goes, Leave
<1>2. CASE pc' = [pc EXCEPT ![r] = "over"] /\ job' = [job EXCEPT ![r].sessions = @ \ {2}]
  <2> DEFINE j == [job[r] EXCEPT !.sessions = @ \ {2}]
  <2>1. job[r] \in JobType
    BY <1>1 DEF JobOK
  <2>2. j \in JobType
    BY <2>1 DEF JobType
  <2>3. /\ j.call = job[r].call /\ j.named = job[r].named /\ j.ip = job[r].ip /\ j.dest = job[r].dest
        /\ j.pol = job[r].pol /\ j.events = job[r].events /\ j.sent = job[r].sent /\ j.inbound = job[r].inbound
        /\ j.passed = job[r].passed /\ j.gone = job[r].gone /\ j.ruled = job[r].ruled /\ j.banned = job[r].banned
        /\ j.sessions = job[r].sessions \ {2}
    BY <2>1 DEF JobType
  <2> HIDE DEF j
  <2>4. JobOK("over", j, policies, default, blocked)
    <3>1. Kept("over", j, policies, default, blocked)
      BY <1>1, <1>2, <2>3 DEF JobOK, Kept, Before, Passed, InFlight, Checking, Plain, Tunnel, Tls
    <3>2. OnPath("over", j)
      BY <1>1, <1>2, <2>3 DEF JobOK, OnPath, Before, Passed, InFlight, Checking, Plain, Tunnel, Tls
    <3>3. Judged("over", j)
      BY <1>1, <1>2, <2>3 DEF JobOK, Judged, OnPath, Kept, NotBanned, Allowed, Tolerated, TlsCall, Logged, Before, Passed, InFlight, Checking, Plain, Tunnel, Tls
    <3>4. Logged("over", j)
      BY <1>1, <1>2, <2>3, Silence DEF JobOK, Logged, OnPath, TlsCall, Before, Passed, InFlight, Checking, Plain, Tunnel, Tls
    <3>5. Holding("over", j)
      BY <1>1, <1>2, <2>3 DEF JobOK, Holding, OnPath, TlsCall, Before, Passed, InFlight, Checking, Plain, Tunnel, Tls
    <3> QED BY <2>2, <3>1, <3>2, <3>3, <3>4, <3>5 DEF JobOK
  <2>5. "over" \in {"over"} \cup InFlight
    BY DEF InFlight, Checking, Plain, Tunnel, Tls
  <2>6. job' = [job EXCEPT ![r] = j]
    BY <1>2 DEF j
  <2> QED BY <1>1, <1>2, <2>4, <2>5, <2>6, OneMoves
<1> QED BY <1>2 DEF DialTlsFails, Goes, Leave, around, engine

\* 403 and the event.
LEMMA BlockTlsStep ==
    ASSUME IInv, NEW r \in Requests, BlockTls(r)
    PROVE  IInv'
<1>1. pc[r] = "read" /\ JobOK("read", job[r], policies, default, blocked) /\ UNCHANGED around
  BY DEF IInv, BlockTls, Goes
<1>2. CASE pc' = [pc EXCEPT ![r] = "finally"] /\ job' = [job EXCEPT ![r].sessions = @ \ {2}, ![r].events = Append(@, Verdict("block"))]
  <2> DEFINE j == [job[r] EXCEPT !.sessions = @ \ {2}, !.events = Append(@, Verdict("block"))]
  <2>1. job[r] \in JobType
    BY <1>1 DEF JobOK
  <2>2. job[r].events = <<>>
    BY <1>1 DEF JobOK, Logged, InFlight, Checking, Plain, Tunnel, Tls
  <2>3. /\ Append(job[r].events, Verdict("block")) \in Seq(EventType)
        /\ OneVerdict(Append(job[r].events, Verdict("block"))) /\ ~Found(Append(job[r].events, Verdict("block")))
    BY <2>2, OneWord
  <2>4. j \in JobType
    BY <2>1, <2>3 DEF JobType
  <2>5. /\ j.call = job[r].call /\ j.named = job[r].named /\ j.ip = job[r].ip /\ j.dest = job[r].dest
        /\ j.pol = job[r].pol /\ j.sent = job[r].sent /\ j.inbound = job[r].inbound /\ j.passed = job[r].passed
        /\ j.gone = job[r].gone /\ j.ruled = job[r].ruled /\ j.banned = job[r].banned /\ j.sessions = job[r].sessions \ {2}
        /\ j.events = Append(job[r].events, Verdict("block"))
    BY <2>1 DEF JobType
  <2> HIDE DEF j
  <2>6. JobOK("finally", j, policies, default, blocked)
    <3>1. Kept("finally", j, policies, default, blocked)
      BY <1>1, <1>2, <2>5 DEF JobOK, Kept, Before, Passed, InFlight, Checking, Plain, Tunnel, Tls
    <3>2. OnPath("finally", j)
      BY <1>1, <1>2, <2>5 DEF JobOK, OnPath, Before, Passed, InFlight, Checking, Plain, Tunnel, Tls
    <3>3. Judged("finally", j)
      BY <1>1, <1>2, <2>5 DEF JobOK, Judged, OnPath, Kept, NotBanned, Allowed, Tolerated, TlsCall, Logged, Before, Passed, InFlight, Checking, Plain, Tunnel, Tls
    <3>4. Logged("finally", j)
      BY <1>1, <1>2, <2>5, <2>3 DEF JobOK, Logged, OnPath, TlsCall, Before, Passed, InFlight, Checking, Plain, Tunnel, Tls
    <3>5. Holding("finally", j)
      BY <1>1, <1>2, <2>5 DEF JobOK, Holding, OnPath, TlsCall, Before, Passed, InFlight, Checking, Plain, Tunnel, Tls
    <3> QED BY <2>4, <3>1, <3>2, <3>3, <3>4, <3>5 DEF JobOK
  <2>7. "finally" \in {"over"} \cup InFlight
    BY DEF InFlight, Checking, Plain, Tunnel, Tls
  <2>8. job' = [job EXCEPT ![r] = j]
    BY <1>2 DEF j
  <2> QED BY <1>1, <1>2, <2>6, <2>7, <2>8, OneMoves
<1> QED BY <1>2 DEF BlockTls, Goes, around, engine

\* The request goes upstream, with its body or without, or nothing came.
LEMMA ForwardTlsStep ==
    ASSUME IInv, NEW r \in Requests, ForwardTls(r)
    PROVE  IInv'
<1>1. pc[r] = "read" /\ JobOK("read", job[r], policies, default, blocked) /\ UNCHANGED around
  BY DEF IInv, ForwardTls, Goes
<1>2. CASE pc' = [pc EXCEPT ![r] = "tunnel"] /\ job' = [job EXCEPT ![r].sent = TRUE, ![r].passed = "scanned"] /\ ~RefusedTls(r)
  <2> DEFINE j == [job[r] EXCEPT !.sent = TRUE, !.passed = "scanned"]
  <2>1. job[r] \in JobType
    BY <1>1 DEF JobOK
  <2>2. j \in JobType
    BY <2>1 DEF JobType
  <2>3. /\ j.call = job[r].call /\ j.named = job[r].named /\ j.ip = job[r].ip /\ j.dest = job[r].dest
        /\ j.pol = job[r].pol /\ j.sessions = job[r].sessions /\ j.events = job[r].events /\ j.inbound = job[r].inbound
        /\ j.gone = job[r].gone /\ j.ruled = job[r].ruled /\ j.banned = job[r].banned /\ j.sent = TRUE
        /\ j.passed = "scanned"
    BY <2>1 DEF JobType
  <2> HIDE DEF j
  <2>4. JobOK("tunnel", j, policies, default, blocked)
    <3>1. Kept("tunnel", j, policies, default, blocked)
      BY <1>1, <1>2, <2>3 DEF JobOK, Kept, Before, Passed, InFlight, Checking, Plain, Tunnel, Tls
    <3>2. OnPath("tunnel", j)
      BY <1>1, <1>2, <2>3 DEF JobOK, OnPath, Before, Passed, InFlight, Checking, Plain, Tunnel, Tls
    <3>3. Judged("tunnel", j)
      BY <1>1, <1>2, <2>3 DEF JobOK, Judged, OnPath, Kept, NotBanned, Allowed, Tolerated, TlsCall, Logged, RefusedTls, Before, Passed, InFlight, Checking, Plain, Tunnel, Tls
    <3>4. Logged("tunnel", j)
      BY <1>1, <1>2, <2>3, Silence DEF JobOK, Logged, OnPath, TlsCall, Before, Passed, InFlight, Checking, Plain, Tunnel, Tls
    <3>5. Holding("tunnel", j)
      BY <1>1, <1>2, <2>3 DEF JobOK, Holding, OnPath, TlsCall, Before, Passed, InFlight, Checking, Plain, Tunnel, Tls
    <3> QED BY <2>2, <3>1, <3>2, <3>3, <3>4, <3>5 DEF JobOK
  <2>5. "tunnel" \in {"over"} \cup InFlight
    BY DEF InFlight, Checking, Plain, Tunnel, Tls
  <2>6. job' = [job EXCEPT ![r] = j]
    BY <1>2 DEF j
  <2> QED BY <1>1, <1>2, <2>4, <2>5, <2>6, OneMoves
<1>3. CASE pc' = [pc EXCEPT ![r] = "tunnel"] /\ job' = [job EXCEPT ![r].sent = TRUE]
  <2> DEFINE j == [job[r] EXCEPT !.sent = TRUE]
  <2>1. job[r] \in JobType
    BY <1>1 DEF JobOK
  <2>2. j \in JobType
    BY <2>1 DEF JobType
  <2>3. /\ j.call = job[r].call /\ j.named = job[r].named /\ j.ip = job[r].ip /\ j.dest = job[r].dest
        /\ j.pol = job[r].pol /\ j.sessions = job[r].sessions /\ j.events = job[r].events /\ j.inbound = job[r].inbound
        /\ j.passed = job[r].passed /\ j.gone = job[r].gone /\ j.ruled = job[r].ruled /\ j.banned = job[r].banned
        /\ j.sent = TRUE
    BY <2>1 DEF JobType
  <2> HIDE DEF j
  <2>4. JobOK("tunnel", j, policies, default, blocked)
    <3>1. Kept("tunnel", j, policies, default, blocked)
      BY <1>1, <1>3, <2>3 DEF JobOK, Kept, Before, Passed, InFlight, Checking, Plain, Tunnel, Tls
    <3>2. OnPath("tunnel", j)
      BY <1>1, <1>3, <2>3 DEF JobOK, OnPath, Before, Passed, InFlight, Checking, Plain, Tunnel, Tls
    <3>3. Judged("tunnel", j)
      BY <1>1, <1>3, <2>3 DEF JobOK, Judged, OnPath, Kept, NotBanned, Allowed, Tolerated, TlsCall, Logged, Before, Passed, InFlight, Checking, Plain, Tunnel, Tls
    <3>4. Logged("tunnel", j)
      BY <1>1, <1>3, <2>3, Silence DEF JobOK, Logged, OnPath, TlsCall, Before, Passed, InFlight, Checking, Plain, Tunnel, Tls
    <3>5. Holding("tunnel", j)
      BY <1>1, <1>3, <2>3 DEF JobOK, Holding, OnPath, TlsCall, Before, Passed, InFlight, Checking, Plain, Tunnel, Tls
    <3> QED BY <2>2, <3>1, <3>2, <3>3, <3>4, <3>5 DEF JobOK
  <2>5. "tunnel" \in {"over"} \cup InFlight
    BY DEF InFlight, Checking, Plain, Tunnel, Tls
  <2>6. job' = [job EXCEPT ![r] = j]
    BY <1>3 DEF j
  <2> QED BY <1>1, <1>3, <2>4, <2>5, <2>6, OneMoves
<1>4. CASE pc' = [pc EXCEPT ![r] = "tunnel"] /\ job' = job
  <2>1. JobOK("tunnel", job[r], policies, default, blocked)
    BY <1>1, <1>4, Silence DEF JobOK, Kept, OnPath, Judged, NotBanned, Allowed, Tolerated, TlsCall, Logged, Holding, Before, Passed, InFlight, Checking, Plain, Tunnel, Tls
  <2>2. "tunnel" \in {"over"} \cup InFlight
    BY DEF InFlight, Checking, Plain, Tunnel, Tls
  <2> QED BY <1>1, <1>4, <2>1, <2>2, OnlyMoves
<1> QED BY <1>2, <1>3, <1>4 DEF ForwardTls, Goes, around, engine

\* An exception passes through finally.
LEMMA ReadFailsStep ==
    ASSUME IInv, NEW r \in Requests, ReadFails(r)
    PROVE  IInv'
<1>1. pc[r] = "read" /\ JobOK("read", job[r], policies, default, blocked) /\ UNCHANGED around
  BY DEF IInv, ReadFails, Goes
<1>2. CASE pc' = [pc EXCEPT ![r] = "finally"] /\ job' = job
  <2>1. JobOK("finally", job[r], policies, default, blocked)
    BY <1>1, <1>2, Silence DEF JobOK, Kept, OnPath, Judged, NotBanned, Allowed, Tolerated, TlsCall, Logged, Holding, Before, Passed, InFlight, Checking, Plain, Tunnel, Tls
  <2>2. "finally" \in {"over"} \cup InFlight
    BY DEF InFlight, Checking, Plain, Tunnel, Tls
  <2> QED BY <1>1, <1>2, <2>1, <2>2, OnlyMoves
<1> QED BY <1>2 DEF ReadFails, Goes, around, engine

\* Bytes behind what was scanned.
LEMMA RelayTlsStep ==
    ASSUME IInv, NEW r \in Requests, RelayTls(r)
    PROVE  IInv'
<1>1. pc[r] = "tunnel" /\ JobOK("tunnel", job[r], policies, default, blocked) /\ UNCHANGED around
  BY DEF IInv, RelayTls
<1>2. CASE pc' = [pc EXCEPT ![r] = "tunnel"] /\ job' = [job EXCEPT ![r].passed = "unscanned"] /\ ~job[r].call.length
  <2> DEFINE j == [job[r] EXCEPT !.passed = "unscanned"]
  <2>1. job[r] \in JobType
    BY <1>1 DEF JobOK
  <2>2. j \in JobType
    BY <2>1 DEF JobType
  <2>3. /\ j.call = job[r].call /\ j.named = job[r].named /\ j.ip = job[r].ip /\ j.dest = job[r].dest
        /\ j.pol = job[r].pol /\ j.sessions = job[r].sessions /\ j.events = job[r].events /\ j.sent = job[r].sent
        /\ j.inbound = job[r].inbound /\ j.gone = job[r].gone /\ j.ruled = job[r].ruled /\ j.banned = job[r].banned
        /\ j.passed = "unscanned"
    BY <2>1 DEF JobType
  <2> HIDE DEF j
  <2>4. JobOK("tunnel", j, policies, default, blocked)
    <3>1. Kept("tunnel", j, policies, default, blocked)
      BY <1>1, <1>2, <2>3 DEF JobOK, Kept, Before, Passed, InFlight, Checking, Plain, Tunnel, Tls
    <3>2. OnPath("tunnel", j)
      BY <1>1, <1>2, <2>3 DEF JobOK, OnPath, Before, Passed, InFlight, Checking, Plain, Tunnel, Tls
    <3>3. Judged("tunnel", j)
      BY <1>1, <1>2, <2>3 DEF JobOK, Judged, OnPath, Kept, NotBanned, Allowed, Tolerated, TlsCall, Logged, Before, Passed, InFlight, Checking, Plain, Tunnel, Tls
    <3>4. Logged("tunnel", j)
      BY <1>1, <1>2, <2>3, Silence DEF JobOK, Logged, OnPath, TlsCall, Before, Passed, InFlight, Checking, Plain, Tunnel, Tls
    <3>5. Holding("tunnel", j)
      BY <1>1, <1>2, <2>3 DEF JobOK, Holding, OnPath, TlsCall, Before, Passed, InFlight, Checking, Plain, Tunnel, Tls
    <3> QED BY <2>2, <3>1, <3>2, <3>3, <3>4, <3>5 DEF JobOK
  <2>5. "tunnel" \in {"over"} \cup InFlight
    BY DEF InFlight, Checking, Plain, Tunnel, Tls
  <2>6. job' = [job EXCEPT ![r] = j]
    BY <1>2 DEF j
  <2> QED BY <1>1, <1>2, <2>4, <2>5, <2>6, OneMoves
<1>3. CASE pc' = [pc EXCEPT ![r] = "tunnel"] /\ job' = [job EXCEPT ![r].inbound = TRUE]
  <2> DEFINE j == [job[r] EXCEPT !.inbound = TRUE]
  <2>1. job[r] \in JobType
    BY <1>1 DEF JobOK
  <2>2. j \in JobType
    BY <2>1 DEF JobType
  <2>3. /\ j.call = job[r].call /\ j.named = job[r].named /\ j.ip = job[r].ip /\ j.dest = job[r].dest
        /\ j.pol = job[r].pol /\ j.sessions = job[r].sessions /\ j.events = job[r].events /\ j.sent = job[r].sent
        /\ j.passed = job[r].passed /\ j.gone = job[r].gone /\ j.ruled = job[r].ruled /\ j.banned = job[r].banned
        /\ j.inbound = TRUE
    BY <2>1 DEF JobType
  <2> HIDE DEF j
  <2>4. JobOK("tunnel", j, policies, default, blocked)
    <3>1. Kept("tunnel", j, policies, default, blocked)
      BY <1>1, <1>3, <2>3 DEF JobOK, Kept, Before, Passed, InFlight, Checking, Plain, Tunnel, Tls
    <3>2. OnPath("tunnel", j)
      BY <1>1, <1>3, <2>3 DEF JobOK, OnPath, Before, Passed, InFlight, Checking, Plain, Tunnel, Tls
    <3>3. Judged("tunnel", j)
      BY <1>1, <1>3, <2>3 DEF JobOK, Judged, OnPath, Kept, NotBanned, Allowed, Tolerated, TlsCall, Logged, Before, Passed, InFlight, Checking, Plain, Tunnel, Tls
    <3>4. Logged("tunnel", j)
      BY <1>1, <1>3, <2>3, Silence DEF JobOK, Logged, OnPath, TlsCall, Before, Passed, InFlight, Checking, Plain, Tunnel, Tls
    <3>5. Holding("tunnel", j)
      BY <1>1, <1>3, <2>3 DEF JobOK, Holding, OnPath, TlsCall, Before, Passed, InFlight, Checking, Plain, Tunnel, Tls
    <3> QED BY <2>2, <3>1, <3>2, <3>3, <3>4, <3>5 DEF JobOK
  <2>5. "tunnel" \in {"over"} \cup InFlight
    BY DEF InFlight, Checking, Plain, Tunnel, Tls
  <2>6. job' = [job EXCEPT ![r] = j]
    BY <1>3 DEF j
  <2> QED BY <1>1, <1>3, <2>4, <2>5, <2>6, OneMoves
<1>4. pc' = [pc EXCEPT ![r] = "tunnel"]
  BY <1>1 DEF RelayTls, IInv, Frame
<1> QED BY <1>1, <1>2, <1>3, <1>4 DEF RelayTls, around, engine

\* The relay returns.
LEMMA TunnelEndsStep ==
    ASSUME IInv, NEW r \in Requests, TunnelEnds(r)
    PROVE  IInv'
<1>1. pc[r] = "tunnel" /\ JobOK("tunnel", job[r], policies, default, blocked) /\ UNCHANGED around
  BY DEF IInv, TunnelEnds, Goes
<1>2. CASE pc' = [pc EXCEPT ![r] = "finally"] /\ job' = job
  <2>1. JobOK("finally", job[r], policies, default, blocked)
    BY <1>1, <1>2, Silence DEF JobOK, Kept, OnPath, Judged, NotBanned, Allowed, Tolerated, TlsCall, Logged, Holding, Before, Passed, InFlight, Checking, Plain, Tunnel, Tls
  <2>2. "finally" \in {"over"} \cup InFlight
    BY DEF InFlight, Checking, Plain, Tunnel, Tls
  <2> QED BY <1>1, <1>2, <2>1, <2>2, OnlyMoves
<1> QED BY <1>2 DEF TunnelEnds, Goes, around, engine

\* The relay breaks.
LEMMA TunnelBreaksStep ==
    ASSUME IInv, NEW r \in Requests, TunnelBreaks(r)
    PROVE  IInv'
<1>1. pc[r] = "tunnel" /\ JobOK("tunnel", job[r], policies, default, blocked) /\ UNCHANGED around
  BY DEF IInv, TunnelBreaks, Goes
<1>2. CASE pc' = [pc EXCEPT ![r] = "finally"] /\ job' = [job EXCEPT ![r].events = Append(@, Verdict("allow"))]
  <2> DEFINE j == [job[r] EXCEPT !.events = Append(@, Verdict("allow"))]
  <2>1. job[r] \in JobType
    BY <1>1 DEF JobOK
  <2>2. job[r].events = <<>>
    BY <1>1 DEF JobOK, Logged, InFlight, Checking, Plain, Tunnel, Tls
  <2>3. /\ Append(job[r].events, Verdict("allow")) \in Seq(EventType)
        /\ OneVerdict(Append(job[r].events, Verdict("allow"))) /\ ~Found(Append(job[r].events, Verdict("allow")))
        /\ ~Says(Append(job[r].events, Verdict("allow")), "block")
    BY <2>2, OneWord
  <2>4. j \in JobType
    BY <2>1, <2>3 DEF JobType
  <2>5. /\ j.call = job[r].call /\ j.named = job[r].named /\ j.ip = job[r].ip /\ j.dest = job[r].dest
        /\ j.pol = job[r].pol /\ j.sessions = job[r].sessions /\ j.sent = job[r].sent /\ j.inbound = job[r].inbound
        /\ j.passed = job[r].passed /\ j.gone = job[r].gone /\ j.ruled = job[r].ruled /\ j.banned = job[r].banned
        /\ j.events = Append(job[r].events, Verdict("allow"))
    BY <2>1 DEF JobType
  <2> HIDE DEF j
  <2>6. JobOK("finally", j, policies, default, blocked)
    <3>1. Kept("finally", j, policies, default, blocked)
      BY <1>1, <1>2, <2>5 DEF JobOK, Kept, Before, Passed, InFlight, Checking, Plain, Tunnel, Tls
    <3>2. OnPath("finally", j)
      BY <1>1, <1>2, <2>5 DEF JobOK, OnPath, Before, Passed, InFlight, Checking, Plain, Tunnel, Tls
    <3>3. Judged("finally", j)
      BY <1>1, <1>2, <2>5 DEF JobOK, Judged, OnPath, Kept, NotBanned, Allowed, Tolerated, TlsCall, Logged, Before, Passed, InFlight, Checking, Plain, Tunnel, Tls
    <3>4. Logged("finally", j)
      BY <1>1, <1>2, <2>5, <2>3 DEF JobOK, Logged, OnPath, TlsCall, Before, Passed, InFlight, Checking, Plain, Tunnel, Tls
    <3>5. Holding("finally", j)
      BY <1>1, <1>2, <2>5 DEF JobOK, Holding, OnPath, TlsCall, Before, Passed, InFlight, Checking, Plain, Tunnel, Tls
    <3> QED BY <2>4, <3>1, <3>2, <3>3, <3>4, <3>5 DEF JobOK
  <2>7. "finally" \in {"over"} \cup InFlight
    BY DEF InFlight, Checking, Plain, Tunnel, Tls
  <2>8. job' = [job EXCEPT ![r] = j]
    BY <1>2 DEF j
  <2> QED BY <1>1, <1>2, <2>6, <2>7, <2>8, OneMoves
<1> QED BY <1>2 DEF TunnelBreaks, Goes, around, engine

\* The findings of an intercepted tunnel.
LEMMA FinallyStep ==
    ASSUME IInv, NEW r \in Requests, Finally(r)
    PROVE  IInv'
<1>1. pc[r] = "finally" /\ JobOK("finally", job[r], policies, default, blocked) /\ UNCHANGED around
  BY DEF IInv, Finally, Goes
<1>2. ASSUME NEW found \in Findings, pc' = [pc EXCEPT ![r] = "over"],
             job' = [job EXCEPT ![r].sessions = @ \ {2}, ![r].events = @ \o found]
      PROVE  IInv'
  <2> DEFINE j == [job[r] EXCEPT !.sessions = @ \ {2}, !.events = @ \o found]
  <2>1. job[r] \in JobType
    BY <1>1 DEF JobOK
  <2>2. job[r].events \in Seq(EventType) /\ OneVerdict(job[r].events)
    BY <1>1, <2>1 DEF JobOK, Logged, JobType
  <2>3. /\ job[r].events \o found \in Seq(EventType) /\ OneVerdict(job[r].events \o found)
        /\ Says(job[r].events \o found, "block") <=> Says(job[r].events, "block")
    BY <2>2, Reported
  <2>4. j \in JobType
    BY <2>1, <2>3 DEF JobType
  <2>5. /\ j.call = job[r].call /\ j.named = job[r].named /\ j.ip = job[r].ip /\ j.dest = job[r].dest
        /\ j.pol = job[r].pol /\ j.sent = job[r].sent /\ j.inbound = job[r].inbound /\ j.passed = job[r].passed
        /\ j.gone = job[r].gone /\ j.ruled = job[r].ruled /\ j.banned = job[r].banned /\ j.sessions = job[r].sessions \ {2}
        /\ j.events = job[r].events \o found
    BY <2>1 DEF JobType
  <2> HIDE DEF j
  <2>6. JobOK("over", j, policies, default, blocked)
    <3>1. Kept("over", j, policies, default, blocked)
      BY <1>1, <1>2, <2>5 DEF JobOK, Kept, Before, Passed, InFlight, Checking, Plain, Tunnel, Tls
    <3>2. OnPath("over", j)
      BY <1>1, <1>2, <2>5 DEF JobOK, OnPath, Before, Passed, InFlight, Checking, Plain, Tunnel, Tls
    <3>3. Judged("over", j)
      BY <1>1, <1>2, <2>5 DEF JobOK, Judged, OnPath, Kept, NotBanned, Allowed, Tolerated, TlsCall, Logged, Before, Passed, InFlight, Checking, Plain, Tunnel, Tls
    <3>4. Logged("over", j)
      BY <1>1, <1>2, <2>5, <2>3 DEF JobOK, Logged, OnPath, TlsCall, Before, Passed, InFlight, Checking, Plain, Tunnel, Tls
    <3>5. Holding("over", j)
      BY <1>1, <1>2, <2>5 DEF JobOK, Holding, OnPath, TlsCall, Before, Passed, InFlight, Checking, Plain, Tunnel, Tls
    <3> QED BY <2>4, <3>1, <3>2, <3>3, <3>4, <3>5 DEF JobOK
  <2>7. "over" \in {"over"} \cup InFlight
    BY DEF InFlight, Checking, Plain, Tunnel, Tls
  <2>8. job' = [job EXCEPT ![r] = j]
    BY <1>2 DEF j
  <2> QED BY <1>1, <1>2, <2>6, <2>7, <2>8, OneMoves
<1> QED BY <1>2 DEF Finally, Goes, around, engine

\* A request starts with what the engine holds.
LEMMA ArriveStep ==
    ASSUME IInv, NEW r \in Requests, NEW c \in Calls, Arrive(r, c)
    PROVE  IInv'
<1> DEFINE p == IF c.method = "UPGRADE" THEN "upgrade" ELSE "resolve"
           n == Chosen(c, default)
           j == [call |-> c, named |-> n, ip |-> NoAddr, dest |-> NoAddr,
                 pol |-> Lenient, sessions |-> {}, events |-> <<>>, sent |-> FALSE,
                 inbound |-> FALSE, passed |-> "nothing", gone |-> FALSE,
                 ruled |-> {InForce(policies, n)}, banned |-> blocked]
<1>1. c \in CallType
  BY ProxyConstants
<1>2. n \in PolicyNames
  BY <1>1 DEF IInv, Frame, Chosen, CallType
<1>3. InForce(policies, n) \in PolicyType
  BY InForceType DEF IInv, Frame
<1>4. <<>> \in Seq(EventType)
  BY Silence
<1> HIDE DEF n
<1>5. j \in JobType
  BY <1>2, <1>3, <1>4, LenientType DEF JobType, IInv, Frame
<1>6. p \in {"upgrade", "resolve"}
  OBVIOUS
<1>7. p = "resolve" => c.method \in {"HTTP", "CONNECT"}
  BY <1>1 DEF CallType
<1>8. JobOK(p, j, policies, default, blocked)
  <2>1. Kept(p, j, policies, default, blocked)
    BY DEF Kept, n
  <2>2. OnPath(p, j)
    BY <1>6, <1>7 DEF OnPath, Before, InFlight, Checking, Plain, Tunnel, Tls
  <2>3. Judged(p, j)
    BY <1>6 DEF Judged, Passed, Plain, Tunnel, Tls
  <2>4. Logged(p, j)
    BY <1>6, Silence DEF Logged
  <2>5. Holding(p, j)
    BY <1>6 DEF Holding, Plain, Tunnel
  <2> QED BY <1>5, <2>1, <2>2, <2>3, <2>4, <2>5 DEF JobOK
<1>9. p \in {"over"} \cup InFlight
  BY <1>6 DEF InFlight, Checking
<1>10. pc' = [pc EXCEPT ![r] = p] /\ job' = [job EXCEPT ![r] = j] /\ UNCHANGED around
  BY DEF Arrive, Goes, n
<1> HIDE DEF p, j
<1> QED BY <1>8, <1>9, <1>10, OneMoves

\* The address evaluate() works with.
LEMMA ResolveStep ==
    ASSUME IInv, NEW r \in Requests, Resolve(r)
    PROVE  IInv'
<1> DEFINE p == IF Address(r) = NoAddr THEN "policy" ELSE "blocklist"
           j == [job[r] EXCEPT !.ip = Address(r)]
<1>1. JobOK("resolve", job[r], policies, default, blocked)
  BY DEF IInv, Resolve, Goes
<1>2. job[r] \in JobType /\ Address(r) \in Addrs \cup {NoAddr}
  BY <1>1, AddressType DEF JobOK, IInv
<1>3. j \in JobType
  BY <1>2 DEF JobType
<1>4. /\ j.call = job[r].call /\ j.named = job[r].named /\ j.dest = job[r].dest /\ j.sent = job[r].sent
      /\ j.passed = job[r].passed
      /\ j.sessions = job[r].sessions /\ j.events = job[r].events /\ j.gone = job[r].gone
      /\ j.ruled = job[r].ruled /\ j.banned = job[r].banned /\ j.ip = Address(r)
  BY <1>2 DEF JobType
<1>5. p \in {"policy", "blocklist"} /\ (p = "policy" => Address(r) = NoAddr)
  OBVIOUS
<1>6. pc' = [pc EXCEPT ![r] = p] /\ job' = [job EXCEPT ![r] = j] /\ UNCHANGED around
  BY DEF Resolve, Goes
<1> HIDE DEF p, j
<1>7. JobOK(p, j, policies, default, blocked)
  BY <1>1, <1>3, <1>4, <1>5
     DEF JobOK, Kept, OnPath, Judged, NotBanned, Allowed, Tolerated, TlsCall, Logged, Holding, Before, Passed, InFlight, Checking, Plain, Tunnel, Tls
<1>8. p \in {"over"} \cup InFlight
  BY <1>5 DEF InFlight, Checking
<1> QED BY <1>6, <1>7, <1>8, OneMoves

\* An address that is not blocked now has not been blocked all the time.
LEMMA CheckBlocklistStep ==
    ASSUME IInv, NEW r \in Requests, CheckBlocklist(r)
    PROVE  IInv'
<1> DEFINE p == IF job[r].ip \in blocked THEN "block" ELSE "policy"
<1>1. JobOK("blocklist", job[r], policies, default, blocked)
  BY DEF IInv, CheckBlocklist, Goes
<1>2. p \in {"block", "policy"} /\ (p = "policy" => job[r].ip \notin blocked)
  OBVIOUS
<1>3. pc' = [pc EXCEPT ![r] = p] /\ UNCHANGED <<around, job>>
  BY DEF CheckBlocklist, Goes
<1> HIDE DEF p
<1>4. JobOK(p, job[r], policies, default, blocked)
  BY <1>1, <1>2
     DEF JobOK, Kept, OnPath, Judged, NotBanned, Logged, Holding, Before, Passed, InFlight, Checking, Plain, Tunnel, Tls
<1>5. p \in {"over"} \cup InFlight
  BY <1>2 DEF InFlight, Checking
<1> QED BY <1>3, <1>4, <1>5, OnlyMoves

\* The policy that lets a request pass stands at this moment.
LEMMA CheckPolicyStep ==
    ASSUME IInv, NEW r \in Requests, CheckPolicy(r)
    PROVE  IInv'
<1> DEFINE c == job[r].call
           pol == InForce(policies, Chosen(c, default))
           passes == Reachable(pol, c, job[r].ip) /\ ~Refused(pol, c)
           p == IF passes THEN "connect" ELSE "block"
<1>1. JobOK("policy", job[r], policies, default, blocked)
  BY DEF IInv, CheckPolicy, Goes
<1>2. pol \in job[r].ruled
  BY <1>1 DEF JobOK, Kept, InFlight, Checking
<1>3. passes => Allowed(job[r])
  BY <1>2 DEF Allowed
<1>4. p \in {"connect", "block"} /\ (p = "connect" => Allowed(job[r]))
  BY <1>3
<1>5. pc' = [pc EXCEPT ![r] = p] /\ UNCHANGED <<around, job>>
  BY DEF CheckPolicy, Goes
<1> HIDE DEF p
<1>6. JobOK(p, job[r], policies, default, blocked)
  BY <1>1, <1>4
     DEF JobOK, Kept, OnPath, Judged, NotBanned, Logged, Holding, Before, Passed, InFlight, Checking, Plain, Tunnel, Tls
<1>7. p \in {"over"} \cup InFlight
  BY <1>4 DEF InFlight
<1> QED BY <1>5, <1>6, <1>7, OnlyMoves

\* A client that hangs up only weakens what is claimed of its request.
LEMMA HangUpStep ==
    ASSUME IInv, NEW r \in Requests, HangUp(r)
    PROVE  IInv'
<1> DEFINE j == [job[r] EXCEPT !.gone = TRUE]
           p == pc[r]
<1>1. p \in InFlight /\ JobOK(p, job[r], policies, default, blocked)
  BY DEF IInv, HangUp, InFlight, Checking, Plain, Tunnel, Tls
<1>2. job[r] \in JobType
  BY <1>1 DEF JobOK
<1>3. /\ j \in JobType
      /\ j.call = job[r].call /\ j.named = job[r].named /\ j.dest = job[r].dest /\ j.ip = job[r].ip
      /\ j.pol = job[r].pol /\ j.sessions = job[r].sessions /\ j.events = job[r].events
      /\ j.sent = job[r].sent /\ j.passed = job[r].passed /\ j.ruled = job[r].ruled /\ j.banned = job[r].banned
  BY <1>2 DEF JobType
<1>4. p # "over"
  BY <1>1 DEF InFlight, Checking, Plain, Tunnel, Tls
<1>5. pc' = [pc EXCEPT ![r] = p] /\ job' = [job EXCEPT ![r] = j] /\ UNCHANGED around
  BY DEF HangUp, IInv, Frame
<1> HIDE DEF j, p
<1>6. JobOK(p, j, policies, default, blocked)
  BY <1>1, <1>3, <1>4 DEF JobOK, Kept, OnPath, Judged, NotBanned, Allowed, Tolerated, TlsCall, Logged, Holding
<1> QED BY <1>1, <1>5, <1>6, OneMoves

--------------------------------------------------------------------------------
(* The engine's operators, and the world *)

\* A job's history goes on covering the engine: Witness adds what is loaded now.
LEMMA WitnessKeeps ==
    ASSUME IInv, NEW ps \in Seq(PolicyType), NEW d \in PolicyNames, NEW ips \in SUBSET Addrs,
           Witness(ps, d, ips), UNCHANGED pc, NEW r \in Requests, pc[r] # "idle"
    PROVE  JobOK(pc[r], job'[r], ps, d, ips)
<1> DEFINE j == [job[r] EXCEPT !.ruled = @ \cup Standing(job[r], ps, d), !.banned = @ \cap ips]
<1>1. JobOK(pc[r], job[r], policies, default, blocked)
  BY DEF IInv
<1>2. CASE pc[r] \in InFlight
  <2>1. job[r] \in JobType
    BY <1>1 DEF JobOK
  <2>2. Standing(job[r], ps, d) \subseteq PolicyType
    BY InForceType DEF Standing
  <2>3. j \in JobType
    BY <2>1, <2>2 DEF JobType
  <2>4. /\ j.call = job[r].call /\ j.named = job[r].named /\ j.dest = job[r].dest /\ j.ip = job[r].ip
        /\ j.pol = job[r].pol /\ j.sessions = job[r].sessions /\ j.events = job[r].events
        /\ j.sent = job[r].sent /\ j.gone = job[r].gone /\ j.passed = job[r].passed
        /\ j.ruled = job[r].ruled \cup Standing(job[r], ps, d) /\ j.banned = job[r].banned \cap ips
    BY <2>1 DEF JobType
  <2>5. job'[r] = j
    BY <1>2 DEF Witness
  <2>6. pc[r] # "over"
    BY <1>2 DEF InFlight, Checking, Plain, Tunnel, Tls
  <2> HIDE DEF j
  <2>7. Kept(pc[r], j, ps, d, ips)
    BY <2>4 DEF Kept, Standing
  <2>8. Judged(pc[r], j)
    BY <1>1, <2>4 DEF JobOK, Judged, NotBanned, Allowed, Tolerated, TlsCall
  <2>9. OnPath(pc[r], j) /\ Logged(pc[r], j) /\ Holding(pc[r], j)
    BY <1>1, <2>4, <2>6 DEF JobOK, OnPath, Logged, Holding, TlsCall
  <2> QED BY <2>3, <2>5, <2>7, <2>8, <2>9 DEF JobOK
<1>3. CASE pc[r] \notin InFlight
  <2>1. job'[r] = job[r]
    BY <1>3 DEF Witness
  <2> QED BY <1>1, <1>3, <2>1 DEF JobOK, Kept
<1> QED BY <1>2, <1>3

LEMMA ReloadStep ==
    ASSUME IInv, NEW f \in Files, Reload(f)
    PROVE  IInv'
<1>1. f \in FileType
  BY ProxyConstants
<1>2. policies' \in Seq(PolicyType) /\ default' \in PolicyNames /\ blocked' \in SUBSET Addrs
  BY <1>1 DEF Reload, FileType, IInv, Frame
<1>3. Witness(policies', default', blocked') /\ UNCHANGED <<pc, dns, moves>>
  BY DEF Reload
<1>4. \A r \in Requests : pc[r] # "idle" => JobOK(pc[r], job'[r], policies', default', blocked')
  <2> SUFFICES ASSUME NEW r \in Requests, pc[r] # "idle"
               PROVE  JobOK(pc[r], job'[r], policies', default', blocked')
    OBVIOUS
  <2> QED BY <1>2, <1>3, WitnessKeeps
<1>5. loads' \in 0 .. MaxLoads
  BY ProxyConstants DEF Reload, IInv, Frame
<1>6. \A r \in Requests : job'[r] \in JobType \cup {<<>>}
  <2> SUFFICES ASSUME NEW r \in Requests PROVE job'[r] \in JobType \cup {<<>>}
    OBVIOUS
  <2>1. CASE pc[r] # "idle"
    BY <1>4, <2>1 DEF JobOK
  <2>2. CASE pc[r] = "idle"
    <3>1. pc[r] \notin InFlight
      BY <2>2 DEF InFlight, Checking, Plain, Tunnel, Tls
    <3>2. job'[r] = job[r]
      BY <1>3, <3>1 DEF Witness
    <3> QED BY <3>2 DEF IInv, Frame
  <2> QED BY <2>1, <2>2
<1>7. job' \in [Requests -> JobType \cup {<<>>}]
  <2>1. job' = [r \in Requests |-> job'[r]]
    BY <1>3 DEF Witness
  <2> QED BY <1>6, <2>1
<1>8. Frame'
  BY <1>2, <1>3, <1>5, <1>7 DEF IInv, Frame
<1> QED BY <1>3, <1>4, <1>8 DEF IInv

\* A ban is on top of what was blocked all the time.
LEMMA BlockIpStep ==
    ASSUME IInv, NEW a \in Addrs, BlockIp(a)
    PROVE  IInv'
<1>1. blocked' = blocked \cup {a} /\ UNCHANGED <<policies, default, dns, pc, job, moves>>
  BY DEF BlockIp
<1>2. Frame'
  BY <1>1, ProxyConstants DEF BlockIp, IInv, Frame
<1>3. \A r \in Requests : pc[r] # "idle" => JobOK(pc[r], job[r], policies, default, blocked')
  BY <1>1 DEF IInv, JobOK, Kept
<1> QED BY <1>1, <1>2, <1>3 DEF IInv

LEMMA NameMovesStep ==
    ASSUME IInv, NEW h \in Hosts, NEW a \in Addrs \cup {NoAddr}, NameMoves(h, a)
    PROVE  IInv'
<1>1. Frame'
  BY ProxyConstants DEF NameMoves, engine, IInv, Frame
<1> QED BY <1>1 DEF NameMoves, engine, IInv

--------------------------------------------------------------------------------
LEMMA InitInv == Init => IInv
<1> SUFFICES ASSUME Init PROVE IInv
  OBVIOUS
<1>1. \A f \in Files : f.entries \in Seq(PolicyType) /\ f.default \in PolicyNames /\ f.banned \subseteq Addrs
  BY ProxyConstants DEF FileType
<1>2. policies \in Seq(PolicyType) /\ default \in PolicyNames /\ blocked \subseteq Addrs
  BY <1>1 DEF Init
<1> QED BY <1>2, ProxyConstants DEF Init, IInv, Frame

LEMMA StepInv == IInv /\ [Next]_vars => IInv'
<1> SUFFICES ASSUME IInv, [Next]_vars PROVE IInv'
  OBVIOUS
<1>1. CASE \E r \in Requests, c \in Calls : Arrive(r, c)
  BY <1>1, ArriveStep
<1>2. ASSUME NEW r \in Requests, Evaluate(r) PROVE IInv'
  BY <1>2, RefuseUpgradeStep, ResolveStep, CheckBlocklistStep, CheckPolicyStep, SendBlockStep, OnConnectStep
     DEF Evaluate
<1>3. ASSUME NEW r \in Requests, HandleHttp(r) PROVE IInv'
  BY <1>3, ForwardStep, ForwardFailsStep, ReplyStep, SendErrorStep, LogRequestStep DEF HandleHttp
<1>4. ASSUME NEW r \in Requests, HandleConnect(r) PROVE IInv'
  BY <1>4, DialStep, DialFailsStep, EstablishedStep, RelayBytesStep, RelayEndsStep DEF HandleConnect
<1>5. ASSUME NEW r \in Requests, HandleTls(r) PROVE IInv'
  BY <1>5, InterceptStep, WrapStep, DialTlsStep, DialTlsFailsStep, BlockTlsStep, ForwardTlsStep,
     ReadFailsStep, RelayTlsStep, TunnelEndsStep, TunnelBreaksStep, FinallyStep DEF HandleTls
<1>6. ASSUME NEW r \in Requests, HangUp(r) PROVE IInv'
  BY <1>6, HangUpStep
<1>7. CASE \E f \in Files : Reload(f)
  BY <1>7, ReloadStep
<1>8. CASE \E a \in Addrs : BlockIp(a)
  BY <1>8, BlockIpStep
<1>9. CASE \E h \in Hosts, a \in Addrs \cup {NoAddr} : NameMoves(h, a)
  BY <1>9, NameMovesStep
<1>10. CASE UNCHANGED vars
  BY <1>10 DEF vars, engine, IInv, Frame
<1> QED BY <1>1, <1>2, <1>3, <1>4, <1>5, <1>6, <1>7, <1>8, <1>9, <1>10 DEF Next

\* The invariant JobOK of every request holds in every reachable state.
THEOREM ProxyInvariance == Spec => []IInv
BY InitInv, StepInv, PTL DEF Spec

\* Every variable keeps its type, for any requests, policies, files and addresses.
THEOREM ProxyTypes == Spec => []TypeOK
<1>1. IInv => TypeOK
  BY DEF IInv, Frame, JobOK, TypeOK
<1> QED BY <1>1, ProxyInvariance, PTL

\* Whatever the proxy contacts was allowed by rules that stood while the request was handled,
\* and so was a body that passed the interceptor, unless nobody waited for it, over any number
\* of reloads, bans and moves.
THEOREM RulesAreHeld == Spec => []RulesHold
<1>1. IInv => RulesHold
  <2> SUFFICES ASSUME IInv, NEW r \in Requests, Contacted(r)
               PROVE  /\ Allowed(job[r])
                      /\ job[r].dest \in job[r].banned => job[r].ip # job[r].dest
                      /\ job[r].call.body = "dirty" /\ job[r].passed # "nothing" =>
                             Tolerated(job[r]) \/ (job[r].passed = "unscanned" /\ ~job[r].call.length)
    BY DEF RulesHold, Allowed, Tolerated
  <2>1. JobOK(pc[r], job[r], policies, default, blocked)
    BY DEF IInv, Contacted
  <2> QED BY <2>1 DEF JobOK, Judged, NotBanned, Contacted
<1> QED BY <1>1, ProxyInvariance, PTL

\* What the handler says of a request in the event log is true, whatever findings of the
\* sniffer stand beside it.
THEOREM LogTellsTruth == Spec => []LogIsTrue
<1>1. IInv => LogIsTrue
  <2> SUFFICES ASSUME IInv, NEW r \in Requests, pc[r] # "idle"
               PROVE  /\ OneVerdict(job[r].events)
                      /\ Says(job[r].events, "block") => ~job[r].sent
                      /\ Says(job[r].events, "block") /\ Found(job[r].events) => TlsCall(job[r])
                      /\ pc[r] = "over" /\ job[r].sent /\ ~TlsCall(job[r]) /\ ~job[r].gone
                             => Says(job[r].events, "allow")
    BY DEF LogIsTrue, Over, TlsCall, Intercepted
  <2>1. JobOK(pc[r], job[r], policies, default, blocked)
    BY DEF IInv
  <2> QED BY <2>1 DEF JobOK, Logged
<1> QED BY <1>1, ProxyInvariance, PTL

\* Only interception and clients that hang up leave a sniffer session behind.
THEOREM SessionsExplained == Spec => []SessionsHaveCause
<1>1. IInv => SessionsHaveCause
  <2> SUFFICES ASSUME IInv, NEW r \in Requests, pc[r] = "over"
               PROVE  job[r].sessions # {} => TlsCall(job[r]) \/ job[r].gone
    BY DEF SessionsHaveCause, Over, TlsCall, Intercepted
  <2>1. JobOK("over", job[r], policies, default, blocked)
    BY DEF IInv
  <2> QED BY <2>1 DEF JobOK, Holding
<1> QED BY <1>1, ProxyInvariance, PTL

--------------------------------------------------------------------------------
(* Refinement of TrafficContract *)

\* Behind the checks the first session stays open to the end.
Wired(p, j) == p \in Plain \cup Tunnel \cup Tls => 1 \in j.sessions

AllWired == \A r \in Requests : pc[r] # "idle" => Wired(pc[r], job[r])

\* The places of a thread whose traffic goes on.
Moving == InFlight \ {"finally"}

LEMMA MovingOpen ==
    /\ \A p \in Moving : p \in InFlight /\ Phase(p) = "open"
    /\ "finally" \in InFlight /\ Phase("finally") = "stopped" /\ Phase("over") = "closed"
BY DEF Moving, Phase, InFlight, Checking, Plain, Tunnel, Tls

LEMMA ShownAs ==
    ASSUME NEW p \in InFlight, NEW j
    PROVE  Shown(p, j) = [phase |-> Phase(p), sessions |-> j.sessions, reach |-> Reach(j),
                          events |-> j.events]
<1>1. p # "idle"
  BY DEF InFlight, Checking, Plain, Tunnel, Tls
<1> QED BY <1>1 DEF Shown

LEMMA ShownOver ==
    ASSUME NEW j
    PROVE  Shown("over", j) = [phase |-> "closed", sessions |-> j.sessions, reach |-> Reach(j),
                               events |-> j.events]
BY DEF Shown, Phase

\* Its parts one by one.
LEMMA ShownParts ==
    ASSUME NEW p \in InFlight, NEW j
    PROVE  /\ Shown(p, j).sessions = j.sessions /\ Shown(p, j).reach = Reach(j)
           /\ Shown(p, j).events = j.events /\ Shown("over", j).events = j.events
<1>1. p # "idle"
  BY DEF InFlight, Checking, Plain, Tunnel, Tls
<1> QED BY <1>1 DEF Shown

\* What the watchers learn from each kind of step: nothing, ...
LEMMA QuietShows ==
    ASSUME NEW p \in InFlight, NEW j, NEW q \in InFlight, NEW k, Phase(q) = Phase(p),
           k.sessions = j.sessions, Reach(k) = Reach(j), k.events = j.events
    PROVE  Shown(q, k) = Shown(p, j)
<1>1. p # "idle" /\ q # "idle"
  BY DEF InFlight, Checking, Plain, Tunnel, Tls
<1> QED BY <1>1 DEF Shown

\* ... a session, ...
LEMMA AnnounceShows ==
    ASSUME NEW p \in Moving, NEW j, NEW q \in Moving, NEW k, NEW i \in {1, 2},
           k.sessions = j.sessions \cup {i}, Reach(k) = Reach(j), k.events = j.events
    PROVE  Traffic!Moves(Shown(p, j), Shown(q, k))
<1> DEFINE c == [phase |-> "open", sessions |-> j.sessions, reach |-> Reach(j), events |-> j.events]
           d == [phase |-> "open", sessions |-> j.sessions \cup {i}, reach |-> Reach(j),
                 events |-> j.events]
<1>1. Traffic!Announce(c, d)
  BY DEF Traffic!Announce
<1>2. Traffic!Moves(c, d)
  BY <1>1 DEF Traffic!Moves
<1> QED BY <1>2, ShownAs, MovingOpen

\* ... a first contact, ...
LEMMA ContactShows ==
    ASSUME NEW p \in Moving, NEW j, NEW q \in Moving, NEW k, 1 \in j.sessions,
           k.sessions = j.sessions, k.events = j.events,
           Reach(j) = "nobody", Reach(k) = "contacted"
    PROVE  Traffic!Moves(Shown(p, j), Shown(q, k))
<1> DEFINE c == [phase |-> "open", sessions |-> j.sessions, reach |-> "nobody", events |-> j.events]
           d == [phase |-> "open", sessions |-> j.sessions, reach |-> "contacted",
                 events |-> j.events]
<1>1. Traffic!Contact(c, d)
  BY DEF Traffic!Contact, Traffic!Announced
<1>2. Traffic!Moves(c, d)
  BY <1>1 DEF Traffic!Moves
<1> QED BY <1>2, ShownAs, MovingOpen

\* ... bytes, ...
LEMMA SendShows ==
    ASSUME NEW p \in Moving, NEW j, NEW q \in Moving, NEW k, 1 \in j.sessions,
           k.sessions = j.sessions, k.sent = TRUE, k.events = j.events
    PROVE  Traffic!Moves(Shown(p, j), Shown(q, k))
<1> DEFINE c == [phase |-> "open", sessions |-> j.sessions, reach |-> Reach(j), events |-> j.events]
           d == [phase |-> "open", sessions |-> j.sessions, reach |-> "sent", events |-> j.events]
<1>1. Reach(k) = "sent"
  BY DEF Reach
<1>2. Traffic!Send(c, d)
  BY DEF Traffic!Send, Traffic!Announced
<1>3. Traffic!Moves(c, d)
  BY <1>2 DEF Traffic!Moves
<1> QED BY <1>1, <1>3, ShownAs, MovingOpen

\* ... or an end, of the traffic or of the connection.
LEMMA EndShows ==
    ASSUME NEW p \in InFlight, NEW j, NEW q \in {"finally", "over"}, NEW k, p # q,
           k.sessions \subseteq j.sessions, Reach(k) = Reach(j),
           Traffic!Pushes(Shown(p, j), Shown(q, k))
    PROVE  Traffic!Moves(Shown(p, j), Shown(q, k))
<1> DEFINE c == [phase |-> Phase(p), sessions |-> j.sessions, reach |-> Reach(j), events |-> j.events]
           d == [phase |-> Phase(q), sessions |-> k.sessions, reach |-> Reach(j), events |-> k.events]
<1>1. Shown(p, j) = c /\ Shown(q, k) = d
  BY ShownAs, ShownOver, MovingOpen
<1>2. <<Phase(p), Phase(q)>>
          \in {<<"open", "stopped">>, <<"open", "closed">>, <<"stopped", "closed">>}
  BY MovingOpen DEF Moving
<1>3. Traffic!Pushes(c, d)
  BY <1>1
<1>4. Traffic!End(c, d)
  BY <1>2, <1>3 DEF Traffic!End
<1> QED BY <1>1, <1>4 DEF Traffic!Moves

\* The contract allows what an end pushes: nothing, ...
LEMMA NothingPushed ==
    ASSUME NEW c, NEW d, d.events = c.events, OneVerdict(c.events)
    PROVE  Traffic!Pushes(c, d)
BY DEF Traffic!Pushes, OneVerdict

\* ... a verdict, ...
LEMMA VerdictPushed ==
    ASSUME NEW c, NEW d, c.events = <<>>, NEW v \in {"allow", "block"},
           d.events = Append(c.events, Verdict(v)),
           v = "allow" => c.sessions # {}, v = "block" => c.reach # "sent"
    PROVE  Traffic!Pushes(c, d)
<1>1. DOMAIN c.events = {}
  OBVIOUS
<1>2. OneVerdict(d.events) /\ \A i \in DOMAIN d.events : d.events[i] = Verdict(v)
  <2> DEFINE s == c.events
             t == Append(s, Verdict(v))
  <2>1. s = <<>> /\ d.events = t
    OBVIOUS
  <2> HIDE DEF s
  <2>2. OneVerdict(t) /\ \A i \in DOMAIN t : t[i] = Verdict(v)
    BY <2>1, OneWord
  <2> HIDE DEF t
  <2> QED BY <2>1, <2>2
<1>3. Verdict(v).sniffer = FALSE /\ Verdict(v).verdict = v
  BY DEF Verdict
<1>4. \A i \in DOMAIN d.events : Traffic!May(c, d.events[i])
  BY <1>2, <1>3 DEF Traffic!May, Traffic!Announced
<1> QED BY <1>1, <1>2, <1>4 DEF Traffic!Pushes, OneVerdict

\* ... findings with a verdict behind them, ...
LEMMA LogPushed ==
    ASSUME NEW c, NEW d, c.events = <<>>, c.sessions # {}, NEW found \in Findings,
           d.events = Append(c.events \o found, Verdict("allow"))
    PROVE  Traffic!Pushes(c, d)
<1>1. DOMAIN c.events = {}
  BY Silence
<1>2. /\ OneVerdict(d.events)
      /\ \A i \in DOMAIN d.events : d.events[i].sniffer \/ d.events[i] = Verdict("allow")
  <2> DEFINE s == c.events
             t == Append(s \o found, Verdict("allow"))
  <2>1. s = <<>> /\ d.events = t
    OBVIOUS
  <2> HIDE DEF s
  <2>2. OneVerdict(t) /\ \A i \in DOMAIN t : t[i].sniffer \/ t[i] = Verdict("allow")
    BY <2>1, LastWord
  <2> HIDE DEF t
  <2> QED BY <2>1, <2>2
<1>3. Verdict("allow").verdict = "allow"
  BY DEF Verdict
<1>4. \A i \in DOMAIN d.events : Traffic!May(c, d.events[i])
  BY <1>2, <1>3 DEF Traffic!May, Traffic!Announced
<1> QED BY <1>1, <1>2, <1>4 DEF Traffic!Pushes, OneVerdict

\* ... and findings behind a verdict.
LEMMA FindingsPushed ==
    ASSUME NEW c, NEW d, c.events \in Seq(EventType), OneVerdict(c.events), c.sessions # {},
           NEW found \in Findings, d.events = c.events \o found
    PROVE  Traffic!Pushes(c, d)
<1>1. /\ DOMAIN c.events \subseteq DOMAIN d.events
      /\ \A i \in DOMAIN c.events : d.events[i] = c.events[i]
      /\ \A i \in DOMAIN d.events \ DOMAIN c.events : d.events[i].sniffer
  BY Joined
<1>2. OneVerdict(d.events)
  BY Reported
<1>3. \A i \in DOMAIN d.events \ DOMAIN c.events : Traffic!May(c, d.events[i])
  BY <1>1 DEF Traffic!May, Traffic!Announced
<1> QED BY <1>1, <1>2, <1>3 DEF Traffic!Pushes, OneVerdict

\* What thread r does is no business of the others and shows as a step of request r.
Passes(r) ==
    /\ \A s \in Requests \ {r} : pc'[s] = pc[s] /\ job'[s] = job[s]
    /\ Wired(pc'[r], job'[r])
    /\ \/ Shown(pc'[r], job'[r]) = Shown(pc[r], job[r])
       \/ Traffic!Moves(Shown(pc[r], job[r]), Shown(pc'[r], job'[r]))

\* The checks, and what only moves a thread on.
LEMMA ChecksPass ==
    ASSUME IInv, AllWired, NEW r \in Requests,
           Resolve(r) \/ CheckBlocklist(r) \/ CheckPolicy(r) \/ HangUp(r) \/ Reply(r)
    PROVE  Passes(r)
<1>1. pc[r] \in InFlight /\ job[r] \in JobType /\ Wired(pc[r], job[r])
  BY DEF IInv, AllWired, JobOK, Resolve, CheckBlocklist, CheckPolicy, HangUp, Reply, Goes,
         InFlight, Checking, Plain, Tunnel, Tls
<1>2. \A s \in Requests \ {r} : pc'[s] = pc[s] /\ job'[s] = job[s]
  BY DEF IInv, Frame, Resolve, CheckBlocklist, CheckPolicy, HangUp, Reply, Goes
<1>3. /\ job'[r].sessions = job[r].sessions /\ job'[r].events = job[r].events
      /\ job'[r].sent = job[r].sent /\ job'[r].dest = job[r].dest
  <2>1. CASE UNCHANGED job
    BY <2>1
  <2>2. CASE Resolve(r) \/ HangUp(r)
    BY <1>1, <2>2 DEF Resolve, HangUp, IInv, Frame, JobType
  <2> QED BY <2>1, <2>2 DEF CheckBlocklist, CheckPolicy, Reply
<1>4. pc'[r] \in InFlight /\ (pc'[r] \in Plain \cup Tunnel \cup Tls => pc[r] \in Plain \cup Tunnel \cup Tls)
  BY <1>1 DEF IInv, Frame, Resolve, CheckBlocklist, CheckPolicy, HangUp, Reply, Goes,
         InFlight, Checking, Plain, Tunnel, Tls
<1>5. Reach(job'[r]) = Reach(job[r])
  BY <1>3 DEF Reach
<1>6. Phase(pc'[r]) = Phase(pc[r])
  BY DEF IInv, Frame, Resolve, CheckBlocklist, CheckPolicy, HangUp, Reply, Goes, Phase
<1>7. Shown(pc'[r], job'[r]) = Shown(pc[r], job[r])
  BY <1>1, <1>3, <1>4, <1>5, <1>6, QuietShows
<1> QED BY <1>1, <1>2, <1>3, <1>4, <1>7 DEF Passes, Wired

\* A thread whose traffic goes on has pushed no event yet; behind the checks it holds a session.
LEMMA InFlightFacts ==
    ASSUME IInv, AllWired, NEW r \in Requests, pc[r] \in InFlight
    PROVE  /\ job[r] \in JobType /\ job[r].events \in Seq(EventType) /\ OneVerdict(job[r].events)
           /\ pc[r] # "finally" => job[r].events = <<>>
           /\ pc[r] \in Plain \cup Tunnel \cup Tls => 1 \in job[r].sessions
           /\ job[r].sent => pc[r] \in {"reply", "error", "log", "relay", "tunnel", "finally"}
           /\ pc[r] \in Before => job[r].dest = NoAddr
<1>1. pc[r] # "idle" /\ pc[r] # "over"
  BY DEF InFlight, Checking, Plain, Tunnel, Tls
<1> QED BY <1>1 DEF IInv, AllWired, Wired, JobOK, JobType, Logged, OnPath

\* An end passes when the contract allows what it pushes.
LEMMA EndPasses ==
    ASSUME IInv, AllWired, NEW r \in Requests, pc[r] \in InFlight, NEW q \in {"finally", "over"},
           pc[r] # q, pc' = [pc EXCEPT ![r] = q],
           \A s \in Requests \ {r} : job'[s] = job[s],
           job'[r].sessions \subseteq job[r].sessions,
           q = "finally" => 1 \in job'[r].sessions,
           job'[r].sent = job[r].sent, job'[r].dest = job[r].dest,
           Traffic!Pushes(Shown(pc[r], job[r]), Shown(q, job'[r]))
    PROVE  Passes(r)
<1>1. pc'[r] = q /\ \A s \in Requests \ {r} : pc'[s] = pc[s]
  BY DEF IInv, Frame
<1>2. Reach(job'[r]) = Reach(job[r])
  BY DEF Reach
<1>3. Traffic!Moves(Shown(pc[r], job[r]), Shown(q, job'[r]))
  BY <1>2, EndShows
<1>4. Wired(q, job'[r])
  BY DEF Wired, Plain, Tunnel, Tls
<1> QED BY <1>1, <1>3, <1>4 DEF Passes

\* The ways out of the handler, and into its finally, that push no event ...
LEMMA SilentEndsPass ==
    ASSUME IInv, AllWired, NEW r \in Requests, NEW q \in {"finally", "over"}, pc'[r] = q,
           \/ SendBlock(r) /\ UNCHANGED job
           \/ RefuseUpgrade(r) \/ SendError(r) \/ DialFails(r)
           \/ Established(r) \/ Wrap(r) \/ DialTlsFails(r) \/ ReadFails(r) \/ TunnelEnds(r)
    PROVE  Passes(r)
<1>1. /\ pc[r] \in InFlight /\ pc[r] # "finally" /\ pc' = [pc EXCEPT ![r] = q]
      /\ q = "finally" => pc[r] \in Tls
      /\ \/ UNCHANGED job
         \/ \E i \in {1, 2} : q = "over" /\ job' = [job EXCEPT ![r].sessions = @ \ {i}]
  BY DEF RefuseUpgrade, SendBlock, SendError, DialFails, Established, Wrap, DialTlsFails,
         ReadFails, TunnelEnds, Goes, Leave, InFlight, Checking, Plain, Tunnel, Tls, IInv, Frame
<1>2. job[r] \in JobType /\ job[r].events = <<>> /\ (q = "finally" => 1 \in job[r].sessions)
  BY <1>1, InFlightFacts
<1>3. /\ job'[r].sessions \subseteq job[r].sessions /\ job'[r].events = <<>>
      /\ job'[r].sent = job[r].sent /\ job'[r].dest = job[r].dest
      /\ q = "finally" => 1 \in job'[r].sessions
      /\ \A s \in Requests \ {r} : job'[s] = job[s]
  <2>1. CASE UNCHANGED job
    BY <1>2, <2>1
  <2>2. ASSUME NEW i \in {1, 2}, q = "over", job' = [job EXCEPT ![r].sessions = @ \ {i}]
        PROVE  /\ job'[r].sessions \subseteq job[r].sessions /\ job'[r].events = <<>>
               /\ job'[r].sent = job[r].sent /\ job'[r].dest = job[r].dest
               /\ \A s \in Requests \ {r} : job'[s] = job[s]
    BY <1>2, <2>2 DEF IInv, Frame, JobType
  <2> QED BY <1>1, <2>1, <2>2
<1>4. Traffic!Pushes(Shown(pc[r], job[r]), Shown(q, job'[r]))
  <2>1. Shown(pc[r], job[r]).events = <<>> /\ Shown(q, job'[r]).events = <<>>
    BY <1>1, <1>2, <1>3, ShownParts, MovingOpen
  <2> QED BY <2>1, NothingPushed, Silence
<1>5. pc[r] # q /\ q \in {"finally", "over"}
  BY <1>1 DEF InFlight, Checking, Plain, Tunnel, Tls
<1> QED BY <1>1, <1>3, <1>4, <1>5, EndPasses

\* ... those that push a verdict ...
LEMMA VerdictsPass ==
    ASSUME IInv, AllWired, NEW r \in Requests,
           \/ SendBlock(r) /\ ~UNCHANGED job
           \/ BlockTls(r) \/ TunnelBreaks(r)
    PROVE  Passes(r)
<1> DEFINE v == IF pc[r] = "tunnel" THEN "allow" ELSE "block"
           q == IF pc[r] = "block" THEN "over" ELSE "finally"
<1>1. /\ pc[r] \in InFlight /\ pc[r] \in {"block", "read", "tunnel"} /\ pc[r] # "finally"
      /\ pc' = [pc EXCEPT ![r] = q]
      /\ \/ job' = [job EXCEPT ![r].events = Append(@, Verdict(v))]
         \/ job' = [job EXCEPT ![r].sessions = @ \ {2}, ![r].events = Append(@, Verdict(v))]
  BY DEF SendBlock, BlockTls, TunnelBreaks, Goes, InFlight, Tls
<1>2. job[r] \in JobType /\ job[r].events = <<>>
  BY <1>1, InFlightFacts
<1>3. v = "block" => Reach(job[r]) # "sent"
  <2>1. pc[r] \in {"block", "read"} => ~job[r].sent
    BY <1>1, InFlightFacts
  <2> QED BY <1>1, <2>1 DEF Reach
<1>4. pc[r] # "block" => 1 \in job[r].sessions
  BY <1>1, InFlightFacts DEF Tls
<1>5. v \in {"allow", "block"} /\ q \in {"finally", "over"} /\ pc[r] # q
  BY <1>1
<1>6. (v = "allow" => 1 \in job[r].sessions) /\ (q = "finally" => 1 \in job[r].sessions)
  BY <1>4
<1> HIDE DEF v, q
<1>7. /\ job'[r].sessions \subseteq job[r].sessions
      /\ 1 \in job[r].sessions => 1 \in job'[r].sessions
      /\ job'[r].events = Append(job[r].events, Verdict(v))
      /\ job'[r].sent = job[r].sent /\ job'[r].dest = job[r].dest
      /\ \A s \in Requests \ {r} : job'[s] = job[s]
  <2>1. CASE job' = [job EXCEPT ![r].events = Append(@, Verdict(v))]
    BY <1>2, <2>1 DEF IInv, Frame, JobType
  <2>2. CASE job' = [job EXCEPT ![r].sessions = @ \ {2}, ![r].events = Append(@, Verdict(v))]
    BY <1>2, <2>2 DEF IInv, Frame, JobType
  <2> QED BY <1>1, <2>1, <2>2
<1>8. Traffic!Pushes(Shown(pc[r], job[r]), Shown(q, job'[r]))
  <2> DEFINE c == Shown(pc[r], job[r])
             d == Shown(q, job'[r])
  <2>1. /\ c.events = job[r].events /\ c.sessions = job[r].sessions /\ c.reach = Reach(job[r])
        /\ d.events = job'[r].events
    BY <1>1, <1>5, ShownParts, MovingOpen
  <2> HIDE DEF c, d
  <2>2. c.events = <<>> /\ d.events = Append(c.events, Verdict(v))
    BY <1>2, <1>7, <2>1
  <2>3. (v = "allow" => c.sessions # {}) /\ (v = "block" => c.reach # "sent")
    BY <1>3, <1>6, <2>1
  <2>4. Traffic!Pushes(c, d)
    BY <1>5, <2>2, <2>3, VerdictPushed
  <2> QED BY <2>4 DEF c, d
<1> QED BY <1>1, <1>5, <1>6, <1>7, <1>8, EndPasses

\* ... those that go through _log_event ...
LEMMA LogsPass ==
    ASSUME IInv, AllWired, NEW r \in Requests, LogRequest(r) \/ RelayEnds(r)
    PROVE  Passes(r)
<1>1. /\ pc[r] \in InFlight /\ pc[r] \in {"log", "relay"} /\ pc' = [pc EXCEPT ![r] = "over"]
      /\ LogEvent(r)
  BY DEF LogRequest, RelayEnds, Goes, InFlight, Plain, Tunnel
<1>2. PICK found \in Findings :
          job' = [job EXCEPT ![r].sessions = @ \ {1},
                             ![r].events = Append(@ \o found, Verdict("allow"))]
  BY <1>1 DEF LogEvent
<1>3. job[r] \in JobType /\ job[r].events = <<>> /\ 1 \in job[r].sessions
  BY <1>1, InFlightFacts DEF Plain, Tunnel
<1>4. /\ job'[r].sessions \subseteq job[r].sessions
      /\ job'[r].events = Append(job[r].events \o found, Verdict("allow"))
      /\ job'[r].sent = job[r].sent /\ job'[r].dest = job[r].dest
      /\ \A s \in Requests \ {r} : job'[s] = job[s]
  BY <1>2, <1>3 DEF IInv, Frame, JobType
<1>5. Traffic!Pushes(Shown(pc[r], job[r]), Shown("over", job'[r]))
  <2> DEFINE c == Shown(pc[r], job[r])
             d == Shown("over", job'[r])
  <2>1. c.events = job[r].events /\ c.sessions = job[r].sessions /\ d.events = job'[r].events
    BY <1>1, ShownParts
  <2> HIDE DEF c, d
  <2>2. Traffic!Pushes(c, d)
    BY <1>3, <1>4, <2>1, LogPushed
  <2> QED BY <2>2 DEF c, d
<1> QED BY <1>1, <1>4, <1>5, EndPasses

\* ... and the findings of the interceptor's finally.
LEMMA FinallyPasses ==
    ASSUME IInv, AllWired, NEW r \in Requests, Finally(r)
    PROVE  Passes(r)
<1>1. /\ pc[r] \in InFlight /\ pc[r] = "finally" /\ pc' = [pc EXCEPT ![r] = "over"]
  BY DEF Finally, Goes, InFlight, Tls
<1>2. PICK found \in Findings :
          job' = [job EXCEPT ![r].sessions = @ \ {2}, ![r].events = @ \o found]
  BY DEF Finally
<1>3. /\ job[r] \in JobType /\ job[r].events \in Seq(EventType) /\ OneVerdict(job[r].events)
      /\ 1 \in job[r].sessions
  BY <1>1, InFlightFacts DEF Tls
<1>4. /\ job'[r].sessions \subseteq job[r].sessions /\ job'[r].events = job[r].events \o found
      /\ job'[r].sent = job[r].sent /\ job'[r].dest = job[r].dest
      /\ \A s \in Requests \ {r} : job'[s] = job[s]
  BY <1>2, <1>3 DEF IInv, Frame, JobType
<1>5. Traffic!Pushes(Shown(pc[r], job[r]), Shown("over", job'[r]))
  <2> DEFINE c == Shown(pc[r], job[r])
             d == Shown("over", job'[r])
  <2>1. c.events = job[r].events /\ c.sessions = job[r].sessions /\ d.events = job'[r].events
    BY <1>1, ShownParts
  <2> HIDE DEF c, d
  <2>2. Traffic!Pushes(c, d)
    BY <1>3, <1>4, <2>1, FindingsPushed
  <2> QED BY <2>2 DEF c, d
<1> QED BY <1>1, <1>4, <1>5, EndPasses

\* Steps on which nothing new shows.
LEMMA QuietPass ==
    ASSUME IInv, AllWired, NEW r \in Requests, pc'[r] \in Moving, UNCHANGED job,
           SendError(r) \/ ForwardFails(r) \/ Established(r) \/ Wrap(r) \/ ForwardTls(r)
    PROVE  Passes(r)
<1>1. pc[r] \in Plain \cup Tunnel \cup Tls /\ pc[r] # "finally"
  BY DEF SendError, ForwardFails, Established, Wrap, ForwardTls, Goes, Plain, Tunnel, Tls
<1>2. pc[r] \in Moving /\ pc[r] \in InFlight
  BY <1>1 DEF Moving, InFlight
<1>3. \A s \in Requests \ {r} : pc'[s] = pc[s] /\ job'[s] = job[s]
  BY DEF IInv, Frame, SendError, ForwardFails, Established, Wrap, ForwardTls, Goes
<1>4. 1 \in job'[r].sessions
  BY <1>1, <1>2, InFlightFacts
<1>5. Shown(pc'[r], job'[r]) = Shown(pc[r], job[r])
  BY <1>2, QuietShows, MovingOpen
<1> QED BY <1>3, <1>4, <1>5 DEF Passes, Wired

\* The sessions are opened in front of all that leaves the proxy.
LEMMA AnnouncePass ==
    ASSUME IInv, AllWired, NEW r \in Requests, OnConnect(r) \/ Intercept(r)
    PROVE  Passes(r)
<1> DEFINE i == IF pc[r] = "connect" THEN 1 ELSE 2
<1>1. pc[r] \in {"connect", "intercept"} /\ job' = [job EXCEPT ![r].sessions = @ \cup {i}]
  BY DEF OnConnect, Intercept, Goes, Open
<1>2. pc[r] \in Moving
  BY <1>1 DEF Moving, InFlight, Tls
<1>3. pc'[r] \in Moving /\ pc'[r] \in Plain \cup Tunnel \cup Tls
  BY <1>1 DEF OnConnect, Intercept, Goes, Moving, InFlight, Plain, Tunnel, Tls, IInv, Frame
<1>4. job[r] \in JobType /\ (pc[r] = "intercept" => 1 \in job[r].sessions)
  BY <1>2, InFlightFacts DEF Moving, Tls
<1>5. i \in {1, 2} /\ (pc[r] = "connect" => i = 1)
  OBVIOUS
<1> HIDE DEF i
<1>6. /\ job'[r].sessions = job[r].sessions \cup {i} /\ job'[r].events = job[r].events
      /\ job'[r].sent = job[r].sent /\ job'[r].dest = job[r].dest
  BY <1>1, <1>4 DEF IInv, Frame, JobType
<1>7. \A s \in Requests \ {r} : pc'[s] = pc[s] /\ job'[s] = job[s]
  BY <1>1 DEF IInv, Frame, OnConnect, Intercept, Goes
<1>8. 1 \in job'[r].sessions
  BY <1>1, <1>4, <1>5, <1>6
<1>9. Reach(job'[r]) = Reach(job[r])
  BY <1>6 DEF Reach
<1>10. Traffic!Moves(Shown(pc[r], job[r]), Shown(pc'[r], job'[r]))
  BY <1>2, <1>3, <1>5, <1>6, <1>9, AnnounceShows
<1> QED BY <1>7, <1>8, <1>10 DEF Passes, Wired

\* A tunnel dials its destination; the interceptor dials it again.
LEMMA DialsPass ==
    ASSUME IInv, AllWired, NEW r \in Requests, Dial(r) \/ DialTls(r)
    PROVE  Passes(r)
<1>1. pc[r] \in {"dial", "upstream"} /\ pc[r] \in Moving
  BY DEF Dial, DialTls, Goes, Moving, InFlight, Tunnel, Tls
<1>2. pc'[r] \in Moving
  BY <1>1 DEF Dial, DialTls, Goes, Moving, InFlight, Tunnel, Tls, IInv, Frame
<1>3. job[r] \in JobType /\ 1 \in job[r].sessions /\ ~job[r].sent
  BY <1>1, InFlightFacts DEF Moving, Tunnel, Tls
<1>4. Address(r) \in Addrs /\ Address(r) # NoAddr
  BY <1>3, AddressType DEF Dial, DialTls, IInv
<1>5. /\ job'[r].sessions = job[r].sessions /\ job'[r].events = job[r].events
      /\ job'[r].sent = FALSE /\ job'[r].dest = Address(r)
  BY <1>3 DEF Dial, DialTls, IInv, Frame, JobType
<1>6. \A s \in Requests \ {r} : pc'[s] = pc[s] /\ job'[s] = job[s]
  BY DEF IInv, Frame, Dial, DialTls, Goes
<1>7. Reach(job'[r]) = "contacted"
  BY <1>4, <1>5 DEF Reach
<1>8. CASE job[r].dest = NoAddr
  <2>1. Reach(job[r]) = "nobody"
    BY <1>3, <1>8 DEF Reach
  <2>2. Traffic!Moves(Shown(pc[r], job[r]), Shown(pc'[r], job'[r]))
    BY <1>1, <1>2, <1>3, <1>5, <1>7, <2>1, ContactShows
  <2> QED BY <1>3, <1>5, <1>6, <2>2 DEF Passes, Wired
<1>9. CASE job[r].dest # NoAddr
  <2>1. Reach(job[r]) = "contacted"
    BY <1>3, <1>9 DEF Reach
  <2>2. Shown(pc'[r], job'[r]) = Shown(pc[r], job[r])
    BY <1>1, <1>2, <1>5, <1>7, <2>1, QuietShows, MovingOpen
  <2> QED BY <1>3, <1>5, <1>6, <2>2 DEF Passes, Wired
<1> QED BY <1>8, <1>9

\* Bytes of the request leave the proxy.
LEMMA SendsPass ==
    ASSUME IInv, AllWired, NEW r \in Requests,
           \/ Forward(r)
           \/ (ForwardFails(r) \/ ForwardTls(r)) /\ ~UNCHANGED job
    PROVE  Passes(r)
<1>1. pc[r] \in {"forward", "read"} /\ pc[r] \in Moving /\ pc[r] \in Plain \cup Tunnel \cup Tls
  BY DEF Forward, ForwardFails, ForwardTls, Goes, Moving, InFlight, Plain, Tunnel, Tls
<1>2. pc'[r] \in Moving
  BY <1>1 DEF Forward, ForwardFails, ForwardTls, Goes, Moving, InFlight, Plain, Tunnel, Tls,
              IInv, Frame
<1>3. job[r] \in JobType /\ 1 \in job[r].sessions
  BY <1>1, InFlightFacts DEF Moving
<1>4. /\ job'[r].sessions = job[r].sessions /\ job'[r].events = job[r].events
      /\ job'[r].sent = TRUE
  BY <1>3 DEF Forward, ForwardFails, ForwardTls, IInv, Frame, JobType
<1>5. \A s \in Requests \ {r} : pc'[s] = pc[s] /\ job'[s] = job[s]
  BY DEF IInv, Frame, Forward, ForwardFails, ForwardTls, Goes
<1>6. Traffic!Moves(Shown(pc[r], job[r]), Shown(pc'[r], job'[r]))
  BY <1>1, <1>2, <1>3, <1>4, SendShows
<1> QED BY <1>3, <1>4, <1>5, <1>6 DEF Passes, Wired

\* The loops of the two relays: the first bytes upstream show, the rest does not.
LEMMA RelaysPass ==
    ASSUME IInv, AllWired, NEW r \in Requests, RelayBytes(r) \/ RelayTls(r)
    PROVE  Passes(r)
<1>1. /\ pc[r] \in {"relay", "tunnel"} /\ pc[r] \in Moving /\ pc[r] \in Plain \cup Tunnel \cup Tls
      /\ pc' = pc
  BY DEF RelayBytes, RelayTls, Moving, InFlight, Plain, Tunnel, Tls
<1>2. job[r] \in JobType /\ 1 \in job[r].sessions
  BY <1>1, InFlightFacts DEF Moving
<1>3. /\ job'[r].sessions = job[r].sessions /\ job'[r].events = job[r].events
      /\ job'[r].dest = job[r].dest
      /\ job'[r].sent = TRUE \/ job'[r].sent = job[r].sent
  BY <1>2 DEF RelayBytes, RelayTls, IInv, Frame, JobType
<1>4. \A s \in Requests \ {r} : pc'[s] = pc[s] /\ job'[s] = job[s]
  BY <1>1 DEF IInv, Frame, RelayBytes, RelayTls
<1>5. Wired(pc'[r], job'[r])
  BY <1>2, <1>3 DEF Wired
<1>6. CASE job'[r].sent = TRUE
  <2>1. Traffic!Moves(Shown(pc[r], job[r]), Shown(pc'[r], job'[r]))
    BY <1>1, <1>2, <1>3, <1>6, SendShows
  <2> QED BY <1>4, <1>5, <2>1 DEF Passes
<1>7. CASE job'[r].sent = job[r].sent
  <2>1. Reach(job'[r]) = Reach(job[r])
    BY <1>3, <1>7 DEF Reach
  <2>2. Shown(pc'[r], job'[r]) = Shown(pc[r], job[r])
    BY <1>1, <1>3, <2>1, QuietShows, MovingOpen
  <2> QED BY <1>4, <1>5, <2>2 DEF Passes
<1> QED BY <1>3, <1>6, <1>7

\* A request arrives: nothing of it is known before.
LEMMA ArrivePasses ==
    ASSUME IInv, AllWired, NEW r \in Requests, NEW c \in Calls, Arrive(r, c)
    PROVE  Passes(r)
<1> DEFINE j == [call |-> c, named |-> Chosen(c, default), ip |-> NoAddr, dest |-> NoAddr,
                 pol |-> Lenient, sessions |-> {}, events |-> <<>>, sent |-> FALSE,
                 inbound |-> FALSE, passed |-> "nothing", gone |-> FALSE,
                 ruled |-> {InForce(policies, Chosen(c, default))}, banned |-> blocked]
<1>1. pc[r] = "idle" /\ pc'[r] \in {"upgrade", "resolve"} /\ job'[r] = j
  BY DEF Arrive, Goes, IInv, Frame
<1>2. \A s \in Requests \ {r} : pc'[s] = pc[s] /\ job'[s] = job[s]
  BY DEF Arrive, Goes, IInv, Frame
<1>3. Shown(pc[r], job[r]) = [phase |-> "new", sessions |-> {}, reach |-> "nobody", events |-> <<>>]
  BY <1>1 DEF Shown
<1>4. Shown(pc'[r], job'[r]) = [phase |-> "open", sessions |-> {}, reach |-> "nobody", events |-> <<>>]
  <2>1. j.sessions = {} /\ j.events = <<>> /\ j.dest = NoAddr /\ ~j.sent
    OBVIOUS
  <2> HIDE DEF j
  <2>2. Reach(j) = "nobody"
    BY <2>1 DEF Reach
  <2> QED BY <1>1, <2>1, <2>2 DEF Shown, Phase
<1>5. Traffic!Moves(Shown(pc[r], job[r]), Shown(pc'[r], job'[r]))
  <2>1. ASSUME NEW held, NEW log
        PROVE  Traffic!Accept(
                   [phase |-> "new", sessions |-> held, reach |-> "nobody", events |-> log],
                   [phase |-> "open", sessions |-> held, reach |-> "nobody", events |-> log])
    BY DEF Traffic!Accept
  <2> QED BY <1>3, <1>4, <2>1 DEF Traffic!Moves
<1> QED BY <1>1, <1>2, <1>5 DEF Passes, Wired, Plain, Tunnel, Tls

\* What one thread does is a step of the contract.
LEMMA OnePasses ==
    ASSUME IInv, AllWired, NEW r \in Requests, Passes(r)
    PROVE  AllWired' /\ [Traffic!Next]_(Traffic!vars)
<1> DEFINE c == [s \in Requests |-> Shown(pc[s], job[s])]
           d == [s \in Requests |-> Shown(pc'[s], job'[s])]
<1>1. \A s \in Requests \ {r} : pc'[s] = pc[s] /\ job'[s] = job[s]
  BY DEF Passes
<1>2. AllWired'
  BY <1>1 DEF Passes, AllWired
<1>3. \A s \in Requests \ {r} : d[s] = c[s]
  BY <1>1
<1>4. c[r] = Shown(pc[r], job[r]) /\ d[r] = Shown(pc'[r], job'[r])
  OBVIOUS
<1>5. d = [c EXCEPT ![r] = d[r]]
  <2>1. \A s \in Requests : d[s] = [c EXCEPT ![r] = d[r]][s]
    BY <1>3
  <2> QED BY <2>1
<1>6. CASE Shown(pc'[r], job'[r]) = Shown(pc[r], job[r])
  <2>1. d = c
    BY <1>3, <1>4, <1>6
  <2> QED BY <1>2, <2>1 DEF Traffic!vars
<1>7. CASE Traffic!Moves(Shown(pc[r], job[r]), Shown(pc'[r], job'[r]))
  <2>1. Traffic!Moves(c[r], d[r])
    BY <1>4, <1>7
  <2>2. Traffic!Next
    <3> HIDE DEF c, d
    <3>1. \E s \in Requests : LET e == d[s] IN d = [c EXCEPT ![s] = e] /\ Traffic!Moves(c[s], e)
      BY <1>5, <2>1
    <3> USE DEF c, d
    <3> QED BY <3>1 DEF Traffic!Next
  <2> QED BY <1>2, <2>2
<1> QED BY <1>6, <1>7 DEF Passes

\* The operators of the engine and the name service show nothing.
LEMMA WitnessUnseen ==
    ASSUME IInv, AllWired, NEW ps, NEW n, NEW ips, Witness(ps, n, ips), UNCHANGED pc
    PROVE  AllWired' /\ UNCHANGED Traffic!vars
<1>1. ASSUME NEW r \in Requests
      PROVE  /\ pc[r] # "idle" => Wired(pc[r], job'[r])
             /\ Shown(pc[r], job'[r]) = Shown(pc[r], job[r])
  <2>1. CASE pc[r] \in InFlight
    <3>1. job[r] \in JobType /\ pc[r] # "idle" /\ pc[r] # "over"
      BY <2>1, InFlightFacts DEF InFlight, Checking, Plain, Tunnel, Tls
    <3>2. job'[r] = [job[r] EXCEPT !.ruled = @ \cup Standing(job[r], ps, n), !.banned = @ \cap ips]
      BY <2>1 DEF Witness
    <3>3. /\ job'[r].sessions = job[r].sessions /\ job'[r].events = job[r].events
          /\ job'[r].sent = job[r].sent /\ job'[r].dest = job[r].dest
      BY <3>1, <3>2 DEF JobType
    <3>4. Shown(pc[r], job'[r]) = Shown(pc[r], job[r])
      BY <3>3 DEF Shown, Reach
    <3> QED BY <3>1, <3>3, <3>4 DEF AllWired, Wired
  <2>2. CASE pc[r] \notin InFlight
    <3>1. job'[r] = job[r]
      BY <2>2 DEF Witness
    <3> QED BY <3>1 DEF AllWired
  <2> QED BY <2>1, <2>2
<1>2. AllWired'
  BY <1>1 DEF AllWired
<1>3. [r \in Requests |-> Shown(pc[r], job'[r])] = [r \in Requests |-> Shown(pc[r], job[r])]
  BY <1>1
<1> QED BY <1>2, <1>3 DEF Traffic!vars

LEMMA TrafficStep ==
    ASSUME IInv, AllWired, [Next]_vars
    PROVE  AllWired' /\ [Traffic!Next]_(Traffic!vars)
<1>1. CASE \E r \in Requests, c \in Calls : Arrive(r, c)
  BY <1>1, ArrivePasses, OnePasses
<1>2. ASSUME NEW r \in Requests,
             Evaluate(r) \/ HandleHttp(r) \/ HandleConnect(r) \/ HandleTls(r) \/ HangUp(r)
      PROVE  Passes(r)
  <2>1. CASE Evaluate(r)
    <3>1. CASE SendBlock(r)
      <4>1. pc'[r] = "over"
        BY <3>1 DEF SendBlock, Goes, IInv, Frame
      <4> QED BY <3>1, <4>1, SilentEndsPass, VerdictsPass
    <3>2. CASE RefuseUpgrade(r)
      <4>1. pc'[r] = "over"
        BY <3>2 DEF RefuseUpgrade, Goes, IInv, Frame
      <4> QED BY <3>2, <4>1, SilentEndsPass
    <3> QED BY <2>1, <3>1, <3>2, ChecksPass, AnnouncePass DEF Evaluate
  <2>2. CASE SendError(r) \/ Established(r) \/ Wrap(r)
    <3>1. pc'[r] = "over" \/ (pc'[r] \in Moving /\ UNCHANGED job)
      BY <2>2 DEF SendError, Established, Wrap, Goes, IInv, Frame, Moving, InFlight, Plain, Tunnel, Tls
    <3> QED BY <2>2, <3>1, SilentEndsPass, QuietPass
  <2>3. CASE ForwardFails(r) \/ ForwardTls(r)
    <3>1. pc'[r] \in Moving
      BY <2>3 DEF ForwardFails, ForwardTls, Goes, IInv, Frame, Moving, InFlight, Plain, Tunnel, Tls
    <3> QED BY <2>3, <3>1, QuietPass, SendsPass
  <2>4. CASE DialFails(r) \/ DialTlsFails(r) \/ ReadFails(r) \/ TunnelEnds(r)
    <3>1. pc'[r] \in {"finally", "over"}
      BY <2>4 DEF DialFails, DialTlsFails, ReadFails, TunnelEnds, Goes, IInv, Frame
    <3> QED BY <2>4, <3>1, SilentEndsPass
  <2>5. CASE Forward(r)
    BY <2>5, SendsPass
  <2>6. CASE Dial(r) \/ DialTls(r)
    BY <2>6, DialsPass
  <2>7. CASE BlockTls(r) \/ TunnelBreaks(r)
    BY <2>7, VerdictsPass
  <2>8. CASE Reply(r) \/ HangUp(r)
    BY <2>8, ChecksPass
  <2>9. CASE Intercept(r)
    BY <2>9, AnnouncePass
  <2>10. CASE RelayBytes(r) \/ RelayTls(r)
    BY <2>10, RelaysPass
  <2>11. CASE LogRequest(r) \/ RelayEnds(r)
    BY <2>11, LogsPass
  <2>12. CASE Finally(r)
    BY <2>12, FinallyPasses
  <2> QED BY <1>2, <2>1, <2>2, <2>3, <2>4, <2>5, <2>6, <2>7, <2>8, <2>9, <2>10, <2>11, <2>12
          DEF HandleHttp, HandleConnect, HandleTls
<1>3. ASSUME NEW r \in Requests,
             Evaluate(r) \/ HandleHttp(r) \/ HandleConnect(r) \/ HandleTls(r) \/ HangUp(r)
      PROVE  AllWired' /\ [Traffic!Next]_(Traffic!vars)
  BY <1>2, <1>3, OnePasses
<1>4. CASE \E f \in Files : Reload(f)
  BY <1>4, WitnessUnseen DEF Reload
<1>5. CASE UNCHANGED <<pc, job>>
  BY <1>5 DEF AllWired, Traffic!vars
<1>6. CASE \E a \in Addrs : BlockIp(a)
  BY <1>5, <1>6 DEF BlockIp
<1>7. CASE \E h \in Hosts, a \in Addrs \cup {NoAddr} : NameMoves(h, a)
  BY <1>5, <1>7 DEF NameMoves
<1>8. CASE UNCHANGED vars
  BY <1>5, <1>8 DEF vars
<1> QED BY <1>1, <1>3, <1>4, <1>6, <1>7, <1>8 DEF Next

LEMMA TrafficBegins == Init => AllWired /\ Traffic!Init
<1> SUFFICES ASSUME Init PROVE AllWired /\ Traffic!Init
  OBVIOUS
<1>1. \A r \in Requests : pc[r] = "idle"
  BY DEF Init
<1>2. [r \in Requests |-> Shown(pc[r], job[r])] = [r \in Requests |-> Traffic!Unseen]
  BY <1>1 DEF Shown, Traffic!Unseen
<1> QED BY <1>1, <1>2 DEF AllWired, Traffic!Init

\* Threads, reloads, bans, lookups and hang-ups in any interleaving keep to TrafficContract,
\* for any requests, policies, files, addresses and findings: nobody is contacted and nothing
\* sent outside a session the sniffer keeps, and when the handler has given its verdict the
\* traffic is at its end: only findings can follow.
THEOREM ProxyImplements == Spec => ImplementsTraffic
<1>1. IInv /\ AllWired /\ [Next]_vars => AllWired' /\ [Traffic!Next]_(Traffic!vars)
  BY TrafficStep
<1> QED BY <1>1, TrafficBegins, ProxyInvariance, PTL DEF Spec, ImplementsTraffic, Traffic!Spec
================================================================================
