--------------------------------- MODULE Proxy ---------------------------------
(* agentguard/ag_proxy: the intercepting proxy agents reach the network by.    *)
(* Every connection has a handler thread (ProxyHandler, proxy.py) that asks    *)
(* the shared PolicyEngine, opens a session with the network sniffer, and then *)
(* forwards a plain request, relays a CONNECT tunnel, or hands the tunnel to   *)
(* TLSInterceptor.intercept (tls_interceptor.py).  pc names the call a thread  *)
(* is about to make; between two calls the engine can be reloaded, the name    *)
(* can move to another address, and the client can hang up.                    *)
EXTENDS Integers, Sequences

CONSTANTS
    Requests,        \* handler threads, one request each
    Calls,           \* the requests that can arrive
    Hosts, Addrs,    \* names of destinations, and their addresses
    Private,         \* the addresses for which is_private holds
    NoAddr,          \* the name does not resolve
    Ports, TlsPort,  \* TlsPort: 443, or no port at all without an interceptor
    PolicyNames,     \* names of policies, "restricted" among them
    Unnamed,         \* a request without an X-AgentGuard-Policy header
    Files,           \* the contents policy.yaml can have
    Findings,        \* what analyse() can return: the events of its findings
    MaxLoads,        \* bound: changes of the engine by its operators
    MaxMoves         \* bound: changes of name resolution

\* What evaluate() and intercept() read of a policy; no ports: all are allowed.
PolicyType == [name : PolicyNames \cup {"none"}, ports : SUBSET Ports, external : BOOLEAN,
               inspect : BOOLEAN, block : BOOLEAN]

\* A policy.yaml that parses.  entries: the policies that load; breaks: an exception
\* ends load() behind them, by a missing key or an empty document.
FileType == [entries : Seq(PolicyType), breaks : BOOLEAN, default : PolicyNames,
             banned : SUBSET Addrs]

\* body: "dirty" scores above every threshold, "file" is an upload that should be blocked.
\* length: there is a Content-Length (for the interceptor: in the first 512 KB), so the body
\* is waited for.  UPGRADE is a CONNECT with an Upgrade header.
CallType == [method : {"HTTP", "CONNECT", "UPGRADE"}, host : Hosts, port : Ports,
             policy : PolicyNames \cup {Unnamed}, body : {"clean", "dirty", "file"},
             length : BOOLEAN]

\* An event in the EventStore: the handler's own verdict, or a finding of the sniffer, which
\* is a "block" too when its score is 60 or more.
FindingType == [sniffer : {TRUE}, verdict : {"block", "alert"}]
EventType == [sniffer : {FALSE}, verdict : {"allow", "block"}] \cup FindingType
Verdict(v) == [sniffer |-> FALSE, verdict |-> v]

ASSUME ProxyConstants ==
    /\ Calls \subseteq CallType
    /\ Private \subseteq Addrs /\ NoAddr \notin Addrs
    /\ "restricted" \in PolicyNames /\ Unnamed \notin PolicyNames
    /\ Files \subseteq FileType
    /\ Findings \subseteq Seq(FindingType)
    /\ MaxLoads \in Nat /\ MaxMoves \in Nat

VARIABLES
    policies,    \* engine.policies in the order of the file
    default,     \* engine.default_policy
    blocked,     \* engine.blocked_ips
    dns,         \* what a name resolves to
    pc, job,     \* job[r]: the thread's local variables, its sessions and its events
    loads, moves

engine == <<policies, default, blocked>>
vars == <<engine, dns, pc, job, loads, moves>>

Checking == {"resolve", "blocklist", "policy"}
Plain == {"forward", "reply", "error", "log"}
Tunnel == {"dial", "established", "relay"}
Tls == {"intercept", "wrap", "upstream", "read", "tunnel", "finally"}
InFlight == {"upgrade", "block", "connect"} \cup Checking \cup Plain \cup Tunnel \cup Tls

\* named: detail["policy"]; ip: what evaluate() resolved; dest: the address connected to;
\* pol: the interceptor's policy; sessions: the open ones, 2 is the interceptor's own;
\* events: what was pushed to the EventStore; sent: bytes of the request reached upstream;
\* inbound: a relay carried bytes back; passed: how the interceptor let the body pass.
\* History: gone, the client hung up; ruled, every policy that stood for this request since
\* it arrived; banned, the addresses that were blocked all that time.
JobType == [call : Calls, named : PolicyNames, ip : Addrs \cup {NoAddr}, dest : Addrs \cup {NoAddr},
            pol : PolicyType, sessions : SUBSET {1, 2}, events : Seq(EventType),
            sent : BOOLEAN, inbound : BOOLEAN, passed : {"nothing", "scanned", "unscanned"},
            gone : BOOLEAN, ruled : SUBSET PolicyType, banned : SUBSET Addrs]

\* Every variable has its type; a request that arrived has its job.
TypeOK ==
    /\ policies \in Seq(PolicyType)
    /\ default \in PolicyNames
    /\ blocked \subseteq Addrs
    /\ dns \in [Hosts -> Addrs \cup {NoAddr}]
    /\ pc \in [Requests -> {"idle", "over"} \cup InFlight]
    /\ job \in [Requests -> JobType \cup {<<>>}]
    /\ \A r \in Requests : pc[r] # "idle" => job[r] \in JobType
    /\ loads \in 0 .. MaxLoads /\ moves \in 0 .. MaxMoves

--------------------------------------------------------------------------------
(* PolicyEngine *)

\* The fields .get() supplies when not even one policy is loaded.
Lenient == [name |-> "none", ports |-> {}, external |-> TRUE, inspect |-> TRUE, block |-> TRUE]

Named(ps, n) == {i \in DOMAIN ps : ps[i].name = n}

\* Mutant: without any policy the rules are looked up without their defaults.
MutInForce(ps, n) ==
    LET best == IF Named(ps, n) # {} THEN Named(ps, n) ELSE Named(ps, "restricted") IN
    IF best # {} THEN ps[CHOOSE i \in best : TRUE]
    ELSE IF ps # <<>> THEN ps[1] ELSE [name |-> "none"]

\* get_policy: the policy of that name, or else "restricted", or else the first.
InForce(ps, n) ==
    LET best == IF Named(ps, n) # {} THEN Named(ps, n) ELSE Named(ps, "restricted") IN
    IF best # {} THEN ps[CHOOSE i \in best : TRUE]
    ELSE IF ps # <<>> THEN ps[1] ELSE Lenient

\* policy_name or self.default_policy
Chosen(c, d) == IF c.policy = Unnamed THEN d ELSE c.policy

\* The policies that stand for a job while ps and d are loaded.
Standing(j, ps, d) == {InForce(ps, Chosen(j.call, d)), InForce(ps, j.named)}

Witness(ps, d, ips) ==
    job' = [r \in Requests |->
               IF pc[r] \in InFlight
                 THEN [job[r] EXCEPT !.ruled = @ \cup Standing(job[r], ps, d), !.banned = @ \cap ips]
                 ELSE job[r]]

\* POST /api/proxy/reload: load() replaces everything under the lock.  When it throws
\* halfway the policies are those before the error, the rest is as it was.
Reload(f) ==
    /\ loads < MaxLoads /\ loads' = loads + 1
    /\ policies' = f.entries
    /\ default' = IF f.breaks THEN default ELSE f.default
    /\ blocked' = IF f.breaks THEN blocked ELSE f.banned
    /\ Witness(policies', default', blocked')
    /\ UNCHANGED <<dns, pc, moves>>

\* POST /api/proxy/block_ip.  The address is in memory only: the next reload forgets it.
BlockIp(a) ==
    /\ loads < MaxLoads /\ loads' = loads + 1
    /\ a \notin blocked /\ blocked' = blocked \cup {a}
    /\ UNCHANGED <<policies, default, dns, pc, job, moves>>

\* The constructor lets an exception of load() through: the proxy starts on a good file.
Init ==
    /\ \E f \in Files : ~f.breaks /\ policies = f.entries /\ default = f.default /\ blocked = f.banned
    /\ dns \in [Hosts -> Addrs \cup {NoAddr}]
    /\ pc = [r \in Requests |-> "idle"]
    /\ job = [r \in Requests |-> <<>>]
    /\ loads = 0 /\ moves = 0

--------------------------------------------------------------------------------
(* evaluate() *)

Goes(r, from, to) == pc[r] = from /\ pc' = [pc EXCEPT ![r] = to]
Open(r, i) == job' = [job EXCEPT ![r].sessions = @ \cup {i}]
Leave(r, i) == job' = [job EXCEPT ![r].sessions = @ \ {i}]
Address(r) == dns[job[r].call.host]
around == <<engine, dns, loads, moves>>

\* A connection is accepted and its request line and headers are read.
Arrive(r, c) ==
    /\ Goes(r, "idle", IF c.method = "UPGRADE" THEN "upgrade" ELSE "resolve")
    /\ job' = [job EXCEPT ![r] =
          [call |-> c, named |-> Chosen(c, default), ip |-> NoAddr, dest |-> NoAddr,
           pol |-> Lenient, sessions |-> {}, events |-> <<>>, sent |-> FALSE,
           inbound |-> FALSE, passed |-> "nothing", gone |-> FALSE,
           ruled |-> {InForce(policies, Chosen(c, default))}, banned |-> blocked]]
    /\ UNCHANGED around

\* 426, before any rule and without an event.
RefuseUpgrade(r) == Goes(r, "upgrade", "over") /\ UNCHANGED <<around, job>>

\* gethostbyname; on gaierror the blocklist is skipped.
Resolve(r) ==
    /\ Goes(r, "resolve", IF Address(r) = NoAddr THEN "policy" ELSE "blocklist")
    /\ job' = [job EXCEPT ![r].ip = Address(r)]
    /\ UNCHANGED around

\* Mutant: an address counts as blocked only if it is external too.
MutCheckBlocklist(r) ==
    /\ Goes(r, "blocklist", IF job[r].ip \in blocked \ Private THEN "block" ELSE "policy")
    /\ UNCHANGED <<around, job>>

CheckBlocklist(r) ==
    /\ Goes(r, "blocklist", IF job[r].ip \in blocked THEN "block" ELSE "policy")
    /\ UNCHANGED <<around, job>>

\* The port whitelist and the rule about external addresses; a name is not external.
Reachable(pol, c, ip) ==
    /\ pol.ports = {} \/ c.port \in pol.ports
    /\ pol.external \/ ip \in Private \cup {NoAddr}

\* Injection and upload inspection; a CONNECT has no body yet, and without a Content-Length
\* none is read, or forwarded.
Refused(pol, c) ==
    /\ c.method = "HTTP" /\ c.length /\ pol.block
    /\ \/ c.body = "file"
       \/ c.body = "dirty" /\ pol.inspect

CheckPolicy(r) ==
    LET c == job[r].call
        pol == InForce(policies, Chosen(c, default))
    IN  /\ Goes(r, "policy", IF Reachable(pol, c, job[r].ip) /\ ~Refused(pol, c) THEN "connect" ELSE "block")
        /\ UNCHANGED <<around, job>>

\* _send_block writes first and logs afterwards: a client that is gone leaves no event.
\* There is no session yet that _log_event could end.
SendBlock(r) ==
    /\ Goes(r, "block", "over")
    /\ \/ job' = [job EXCEPT ![r].events = Append(@, Verdict("block"))]
       \/ job[r].gone /\ UNCHANGED job
    /\ UNCHANGED around

\* Mutant: the sniffer is told of plain requests only, the interceptor opens its own session.
MutOnConnect(r) ==
    LET plain == job[r].call.method = "HTTP" IN
    /\ Goes(r, "connect", IF plain THEN "forward" ELSE "dial")
    /\ \/ plain /\ Open(r, 1)
       \/ ~plain /\ UNCHANGED job
    /\ UNCHANGED around

OnConnect(r) ==
    /\ Goes(r, "connect", IF job[r].call.method = "HTTP" THEN "forward" ELSE "dial")
    /\ Open(r, 1)
    /\ UNCHANGED around

--------------------------------------------------------------------------------
(* _handle_http *)

\* The name is resolved again by HTTPConnection.
Forward(r) ==
    /\ Goes(r, "forward", "reply")
    /\ Address(r) # NoAddr
    /\ job' = [job EXCEPT ![r].dest = Address(r), ![r].sent = TRUE]
    /\ UNCHANGED around

\* No connection, or none that answers.
ForwardFails(r) ==
    /\ Goes(r, "forward", "error")
    /\ \/ UNCHANGED job
       \/ Address(r) # NoAddr /\ job' = [job EXCEPT ![r].dest = Address(r), ![r].sent = TRUE]
    /\ UNCHANGED around

\* The answer is read, scanned and written; either side can break off.
Reply(r) ==
    /\ Goes(r, "reply", "log") \/ Goes(r, "reply", "error")
    /\ UNCHANGED <<around, job>>

\* Mutant: the handler returns after the 502, as do_CONNECT does.
MutSendError(r) ==
    /\ Goes(r, "error", "over")
    /\ \/ Leave(r, 1)
       \/ job[r].gone /\ UNCHANGED job
    /\ UNCHANGED around

\* The 502 is written inside the except block: when the client is gone it throws again,
\* and neither the event nor the end of the session is reached.
SendError(r) ==
    /\ Goes(r, "error", "log") \/ (Goes(r, "error", "over") /\ job[r].gone)
    /\ UNCHANGED <<around, job>>

\* _log_event ends the session, pushes an event for each finding and then its own.
LogEvent(r) ==
    \E found \in Findings :
        job' = [job EXCEPT ![r].sessions = @ \ {1},
                           ![r].events = Append(@ \o found, Verdict("allow"))]

LogRequest(r) == Goes(r, "log", "over") /\ LogEvent(r) /\ UNCHANGED around

--------------------------------------------------------------------------------
(* do_CONNECT and _relay *)

Dial(r) ==
    /\ Goes(r, "dial", "established")
    /\ Address(r) # NoAddr
    /\ job' = [job EXCEPT ![r].dest = Address(r)]
    /\ UNCHANGED around

\* Mutant: only the failure is reported to the sniffer.
MutDialFails(r) == Goes(r, "dial", "over") /\ UNCHANGED <<around, job>>

\* The session ends, its findings are dropped, the client gets a 502 if it is there; no event.
DialFails(r) == Goes(r, "dial", "over") /\ Leave(r, 1) /\ UNCHANGED around

\* The 200 is written outside any try: a client that is gone ends the thread here.
Established(r) ==
    /\ \/ Goes(r, "established", IF job[r].call.port = TlsPort THEN "intercept" ELSE "relay")
       \/ Goes(r, "established", "over") /\ job[r].gone
    /\ UNCHANGED <<around, job>>

\* Bytes in either direction; only the first of each make a difference.
RelayBytes(r) ==
    /\ pc[r] = "relay"
    /\ \/ ~job[r].sent /\ job' = [job EXCEPT ![r].sent = TRUE]
       \/ ~job[r].inbound /\ job' = [job EXCEPT ![r].inbound = TRUE]
    /\ UNCHANGED <<around, pc>>

\* Whatever ends the loop, finally logs the tunnel.
RelayEnds(r) == Goes(r, "relay", "over") /\ LogEvent(r) /\ UNCHANGED around

--------------------------------------------------------------------------------
(* TLSInterceptor.intercept *)

\* A second session takes the place of the first in `detail`: nobody ends the first.
Intercept(r) == Goes(r, "intercept", "wrap") /\ Open(r, 2) /\ UNCHANGED around

\* An SSLError is caught, any other error of make_server_ctx or the handshake is not.
Wrap(r) ==
    /\ \/ Goes(r, "wrap", "upstream") /\ UNCHANGED job
       \/ Goes(r, "wrap", "over") /\ (Leave(r, 2) \/ UNCHANGED job)
    /\ UNCHANGED around

\* The interceptor connects anew, and asks for the policy again.
DialTls(r) ==
    /\ Goes(r, "upstream", "read")
    /\ Address(r) # NoAddr
    /\ job' = [job EXCEPT ![r].dest = Address(r), ![r].pol = InForce(policies, job[r].named)]
    /\ UNCHANGED around

DialTlsFails(r) == Goes(r, "upstream", "over") /\ Leave(r, 2) /\ UNCHANGED around

\* The body is scored whatever inspect_http says; uploads are not recognised here.
RefusedTls(r) == job[r].call.body = "dirty" /\ job[r].pol.block

\* 403 through the tunnel, the event, the end of the session (its findings are dropped).
BlockTls(r) ==
    /\ Goes(r, "read", "finally") /\ RefusedTls(r)
    /\ job' = [job EXCEPT ![r].sessions = @ \ {2}, ![r].events = Append(@, Verdict("block"))]
    /\ UNCHANGED around

\* What was read is scanned and written upstream: the request with its body, or without:
\* the agent stopped early, or there is no Content-Length and the body is still to come.
\* Nothing at all comes when the agent's side has ended or its TLS is broken.
ForwardTls(r) ==
    /\ Goes(r, "read", "tunnel")
    /\ \/ ~RefusedTls(r) /\ job' = [job EXCEPT ![r].sent = TRUE, ![r].passed = "scanned"]
       \/ job' = [job EXCEPT ![r].sent = TRUE]
       \/ UNCHANGED job
    /\ UNCHANGED around

\* A timeout of the read, or a write that fails at once, passes through finally; a write that
\* fails halfway leaves what ForwardTls and TunnelEnds leave.
ReadFails(r) == Goes(r, "read", "finally") /\ UNCHANGED <<around, job>>

\* Bytes in either direction.  The loop scans nothing: a body that nobody waited for follows
\* its headers upstream as it is.
RelayTls(r) ==
    /\ pc[r] = "tunnel"
    /\ \/ /\ ~job[r].call.length /\ job[r].sent /\ job[r].passed = "nothing"
          /\ job' = [job EXCEPT ![r].passed = "unscanned"]
       \/ ~job[r].inbound /\ job' = [job EXCEPT ![r].inbound = TRUE]
    /\ UNCHANGED <<around, pc>>

\* One side closes: the loop is left by return, past the event behind it.
TunnelEnds(r) == Goes(r, "tunnel", "finally") /\ UNCHANGED <<around, job>>

\* select reports an exceptional condition: the loop is left by break.
TunnelBreaks(r) ==
    /\ Goes(r, "tunnel", "finally")
    /\ job' = [job EXCEPT ![r].events = Append(@, Verdict("allow"))]
    /\ UNCHANGED around

\* The end of the session, for the second time after a 403, and an event for each finding.
Finally(r) ==
    /\ Goes(r, "finally", "over")
    /\ \E found \in Findings :
           job' = [job EXCEPT ![r].sessions = @ \ {2}, ![r].events = @ \o found]
    /\ UNCHANGED around

--------------------------------------------------------------------------------
HangUp(r) ==
    /\ pc[r] \in InFlight /\ ~job[r].gone
    /\ job' = [job EXCEPT ![r].gone = TRUE]
    /\ UNCHANGED <<around, pc>>

NameMoves(h, a) ==
    /\ moves < MaxMoves /\ moves' = moves + 1
    /\ dns[h] # a /\ dns' = [dns EXCEPT ![h] = a]
    /\ UNCHANGED <<engine, pc, job, loads>>

Evaluate(r) == RefuseUpgrade(r) \/ Resolve(r) \/ CheckBlocklist(r) \/ CheckPolicy(r) \/ SendBlock(r) \/ OnConnect(r)
HandleHttp(r) == Forward(r) \/ ForwardFails(r) \/ Reply(r) \/ SendError(r) \/ LogRequest(r)
HandleConnect(r) == Dial(r) \/ DialFails(r) \/ Established(r) \/ RelayBytes(r) \/ RelayEnds(r)
HandleTls(r) ==
    \/ Intercept(r) \/ Wrap(r) \/ DialTls(r) \/ DialTlsFails(r)
    \/ BlockTls(r) \/ ForwardTls(r) \/ ReadFails(r)
    \/ RelayTls(r) \/ TunnelEnds(r) \/ TunnelBreaks(r) \/ Finally(r)

Next ==
    \/ \E r \in Requests, c \in Calls : Arrive(r, c)
    \/ \E r \in Requests : Evaluate(r) \/ HandleHttp(r) \/ HandleConnect(r) \/ HandleTls(r) \/ HangUp(r)
    \/ \E f \in Files : Reload(f)
    \/ \E a \in Addrs : BlockIp(a)
    \/ \E h \in Hosts, a \in Addrs \cup {NoAddr} : NameMoves(h, a)

Spec == Init /\ [][Next]_vars

--------------------------------------------------------------------------------
(* Properties *)

Over(r) == pc[r] = "over"
Intercepted(r) == job[r].call.method = "CONNECT" /\ job[r].call.port = TlsPort
Contacted(r) == pc[r] # "idle" /\ job[r].dest # NoAddr

\* No address is contacted and nothing forwarded against rules that stood unchanged while
\* the request was handled, however reloads, bans and lookups interleave with the checks:
\* one policy that stood at some moment allows the destination (and, for a plain request,
\* the body as well); an address that was blocked all the time is only reached when the
\* name resolved to something else at the check; and a body that passes the interceptor was
\* allowed by a policy that stood, or nobody waited for it: it had no Content-Length.
RulesHold ==
    \A r \in Requests :
        Contacted(r) =>
            /\ \E pol \in job[r].ruled :
                   Reachable(pol, job[r].call, job[r].ip) /\ ~Refused(pol, job[r].call)
            /\ job[r].dest \in job[r].banned => job[r].ip # job[r].dest
            /\ job[r].call.body = "dirty" /\ job[r].passed # "nothing" =>
                   \/ \E pol \in job[r].ruled : ~pol.block
                   \/ job[r].passed = "unscanned" /\ ~job[r].call.length

\* Events of a request: whether it has been told v, and whether the sniffer found something.
Says(events, v) == \E i \in DOMAIN events : events[i] = Verdict(v)
Found(events) == \E i \in DOMAIN events : events[i].sniffer
OneVerdict(events) ==
    \A i, k \in DOMAIN events : ~events[i].sniffer /\ ~events[k].sniffer => i = k

\* What the handler itself says in the event log is true, among the findings of the sniffer,
\* which are pushed to the same log, can say "block" as well and block nothing: there is one
\* verdict of its own at most; "block" only when nothing of the request goes upstream, and
\* with findings beside it only by the interceptor; and an "allow" in the end for every
\* plain request or plain tunnel that sent something, unless the client broke off.
LogIsTrue ==
    \A r \in Requests :
        pc[r] # "idle" =>
            /\ OneVerdict(job[r].events)
            /\ Says(job[r].events, "block") => ~job[r].sent
            /\ Says(job[r].events, "block") /\ Found(job[r].events) => Intercepted(r)
            /\ Over(r) /\ job[r].sent /\ ~Intercepted(r) /\ ~job[r].gone => Says(job[r].events, "allow")

\* A session the sniffer still holds after the connection is over belongs to a tunnel that
\* was handed to the interceptor, or to a client that hung up: no other way out leaks one.
SessionsHaveCause ==
    \A r \in Requests :
        Over(r) /\ job[r].sessions # {} => Intercepted(r) \/ job[r].gone

\* What the sniffer and the reader of the event store can know of a request.
Reach(j) == IF j.sent THEN "sent" ELSE IF j.dest # NoAddr THEN "contacted" ELSE "nobody"
Phase(p) == IF p = "over" THEN "closed" ELSE IF p = "finally" THEN "stopped" ELSE "open"
Shown(p, j) ==
    IF p = "idle" THEN [phase |-> "new", sessions |-> {}, reach |-> "nobody", events |-> <<>>]
    ELSE [phase |-> Phase(p), sessions |-> j.sessions, reach |-> Reach(j), events |-> j.events]

Traffic == INSTANCE TrafficContract WITH conn <- [r \in Requests |-> Shown(pc[r], job[r])]

\* Threads, reloads, lookups and hang-ups together keep to TrafficContract: nobody is
\* contacted, no byte sent and nothing found outside a session that the sniffer knows and
\* keeps, and behind its verdict a request sends nothing more: only findings can follow.
ImplementsTraffic == Traffic!Spec

\* tls_interceptor.py:410, "Log successful completion of the relay if not already blocked".
TunnelsAreLogged ==
    \A r \in Requests :
        Over(r) /\ Intercepted(r) /\ job[r].sent /\ job[r].inbound
            => \E i \in DOMAIN job[r].events : ~job[r].events[i].sniffer
================================================================================
