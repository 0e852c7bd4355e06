-------------------------------- MODULE MCProxy --------------------------------
(* Two addresses, one private; a strict and an open policy; a file that loads, *)
(* one that breaks behind its first policy, and an empty one; bodies with and  *)
(* without a Content-Length; no finding, or a grave and a mild one.             *)
EXTENDS Proxy

Pol(n, ports, external, inspect, block) ==
    [name |-> n, ports |-> ports, external |-> external, inspect |-> inspect, block |-> block]
Strict == Pol("restricted", {443}, FALSE, TRUE, TRUE)
Trusted == Pol("trusted", {}, TRUE, FALSE, TRUE)
Audit == Pol("trusted", {}, TRUE, TRUE, FALSE)

MCFiles == {
    [entries |-> <<Strict, Trusted>>, breaks |-> FALSE, default |-> "trusted", banned |-> {"in"}],
    [entries |-> <<Audit>>, breaks |-> FALSE, default |-> "restricted", banned |-> {"out"}],
    [entries |-> <<Strict>>, breaks |-> TRUE, default |-> "trusted", banned |-> {}],
    [entries |-> <<>>, breaks |-> TRUE, default |-> "trusted", banned |-> {}]}

Call(m, p, pol, b) == [method |-> m, host |-> "api", port |-> p, policy |-> pol, body |-> b, length |-> TRUE]
Chunked(c) == [c EXCEPT !.length = FALSE]
MCCalls ==
    {Call("HTTP", p, pol, "dirty") : p \in {80, 443}, pol \in {"none given", "restricted"}}
        \cup {Call("CONNECT", p, "none given", "dirty") : p \in {80, 443}}
        \cup {Call("HTTP", 443, "none given", "file"), Call("HTTP", 80, "none given", "clean"),
              Call("UPGRADE", 80, "none given", "clean"), Chunked(Call("HTTP", 443, "restricted", "dirty")),
              Chunked(Call("CONNECT", 443, "restricted", "dirty"))}

Alert == [sniffer |-> TRUE, verdict |-> "alert"]
Suspect == [sniffer |-> TRUE, verdict |-> "block"]
MCFindings == {<<>>, <<Suspect, Alert>>}
================================================================================
