-------------------------------- MODULE MCGuard --------------------------------
(* One agent on two CPUs: its policy allows one port, no external network, and *)
(* one token per tick.  Bytes, seconds and rings are a few units wide.         *)
EXTENDS Guard, TLC

CONSTANTS c1, c2, a1, h1, https, other

MCPolicy == [a \in {a1} |->
    [ports |-> {https}, external |-> FALSE, cap |-> 2, inspect |-> TRUE, block |-> TRUE,
     forbids |-> {"fork", "exec", "ptrace", "bind", "raw"}]]

Pkt(hook, port, dirty, size) ==
    [hook |-> hook, pid |-> a1, host |-> h1, port |-> port, ip |-> TRUE,
     http |-> port = https, dirty |-> dirty, size |-> size]

MCPackets == {
    Pkt("egress", https, TRUE, 1),
    Pkt("egress", other, FALSE, 1),
    Pkt("xdp", NoPort, FALSE, 1),
    Pkt("ingress", https, FALSE, 2) }

Symmetry == Permutations({c1, c2})
================================================================================
