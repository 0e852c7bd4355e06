---------------------------- MODULE TrafficContract ----------------------------
(* What ag_proxy promises those who watch the traffic of its agents: the       *)
(* network sniffer, which is told of sessions, and the reader of the event     *)
(* store.  No thread, engine, lookup or interceptor appears.  Whoever is       *)
(* contacted or gets bytes does so within a session, which the sniffer keeps   *)
(* at least as long as the traffic lasts; events are pushed when it has ended, *)
(* one verdict among any number of findings: what was blocked got no bytes,    *)
(* what is said to be allowed or found had been announced to the sniffer.      *)
CONSTANTS Requests

VARIABLES
    conn    \* conn[r]: what the watchers can know of request r

vars == conn

Unseen == [phase |-> "new", sessions |-> {}, reach |-> "nobody", events |-> <<>>]

Init == conn = [r \in Requests |-> Unseen]

\* The steps of one request, from c to d.
Accept(c, d) == c.phase = "new" /\ d = [c EXCEPT !.phase = "open"]

Announced(c) == c.sessions # {}

Announce(c, d) ==
    /\ c.phase = "open"
    /\ \E session \in {1, 2} : d = [c EXCEPT !.sessions = @ \cup {session}]

Contact(c, d) ==
    /\ c.phase = "open" /\ Announced(c) /\ c.reach = "nobody"
    /\ d = [c EXCEPT !.reach = "contacted"]

Send(c, d) == c.phase = "open" /\ Announced(c) /\ d = [c EXCEPT !.reach = "sent"]

\* A new event e is a finding or the verdict.
May(c, e) ==
    IF e.sniffer \/ e.verdict = "allow" THEN Announced(c) ELSE e.verdict = "block" /\ c.reach # "sent"

Pushes(c, d) ==
    /\ \A i \in DOMAIN c.events : i \in DOMAIN d.events /\ d.events[i] = c.events[i]
    /\ \A i \in DOMAIN d.events \ DOMAIN c.events : May(c, d.events[i])
    /\ \A i, k \in DOMAIN d.events : ~d.events[i].sniffer /\ ~d.events[k].sniffer => i = k

\* The traffic ends, with a verdict or, when something broke off, without one; then the
\* connection does.  Either can come with events; a session can be forgotten.
End(c, d) ==
    /\ <<c.phase, d.phase>> \in {<<"open", "stopped">>, <<"open", "closed">>, <<"stopped", "closed">>}
    /\ d = [phase |-> d.phase, sessions |-> d.sessions, reach |-> c.reach, events |-> d.events]
    /\ d.sessions \subseteq c.sessions
    /\ Pushes(c, d)

Moves(c, d) == Accept(c, d) \/ Announce(c, d) \/ Contact(c, d) \/ Send(c, d) \/ End(c, d)

Next ==
    \E r \in Requests :
        LET d == conn'[r] IN
        /\ conn' = [conn EXCEPT ![r] = d]
        /\ Moves(conn[r], d)

Spec == Init /\ [][Next]_vars
================================================================================
