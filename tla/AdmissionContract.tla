--------------------------- MODULE AdmissionContract ---------------------------
(* What the kernel program promises about the packets of a host.  No map, ring *)
(* buffer, token bucket, event or order of checks appears.  A packet is judged *)
(* by what stood when it arrived: one that was barred by then passes only on   *)
(* an operator's order or because the guard takes no part in it; one of a      *)
(* stranger is stopped only by an order or a ban; and an order is carried out  *)
(* to the letter.  Nobody is marked for killing who has not earned it.         *)
EXTENDS Integers

CONSTANTS
    Cpus, Agents, Hosts, Packets,
    Forbidden,     \* the packets that the policy of their sender forbids
    Verdicts,
    Halting,       \* Halting[hook]: the verdicts that stop a packet there
    Critical       \* what an agent's offences must add up to

VARIABLES
    on,            \* the guard takes part in the traffic
    orders,        \* orders[a]: the verdict an operator forces on a, or "none"
    banned,        \* hosts
    known,         \* agents under the guard
    marks,         \* marks[a]: restraints of a
    offence,       \* offence[a]: sum of the weights of its forbidden calls
    packet         \* packet[c]: the packet that CPU c has handled last, or Nothing

vars == <<on, orders, banned, known, marks, offence, packet>>

Nothing == <<>>

Init ==
    /\ on = FALSE /\ orders = [a \in Agents |-> "none"]
    /\ banned = {} /\ known = {} /\ marks = [a \in Agents |-> {}]
    /\ offence = [a \in Agents |-> 0]
    /\ packet = [c \in Cpus |-> Nothing]

\* The operators.
Switch == on' = ~on /\ UNCHANGED <<orders, banned, known, marks, offence, packet>>

Order(a, v) ==
    /\ orders' = [orders EXCEPT ![a] = v]
    /\ UNCHANGED <<on, banned, known, marks, offence, packet>>

Ban(h) ==
    /\ banned' = banned \cup {h}
    /\ UNCHANGED <<on, orders, known, marks, offence, packet>>

Enrol(a, M) ==
    /\ a \notin known /\ known' = known \cup {a}
    /\ marks' = [marks EXCEPT ![a] = M]
    /\ UNCHANGED <<on, orders, banned, offence, packet>>

--------------------------------------------------------------------------------
(* System calls *)

Free(c) == packet[c] # Nothing => packet[c].fate # "open"

\* A call of a, allowed (n = 0) or not, has the CPU.
Call(c, a, n) ==
    /\ Free(c) /\ a \in known
    /\ offence' = [offence EXCEPT ![a] = @ + n]
    /\ packet' = [packet EXCEPT ![c] = Nothing]
    /\ UNCHANGED <<on, orders, banned, known, marks>>

MarkKilled(a) ==
    /\ a \in known /\ offence[a] >= Critical
    /\ marks' = [marks EXCEPT ![a] = @ \cup {"KILLED"}]
    /\ UNCHANGED <<on, orders, banned, known, offence, packet>>

--------------------------------------------------------------------------------
(* Packets *)

Barred(p) ==
    \/ p.host \in banned
    \/ /\ p.hook = "egress" /\ p.pid \in known
       /\ marks[p.pid] # {} \/ p \in Forbidden

Arrive(c, p) ==
    /\ Free(c)
    /\ packet' = [packet EXCEPT ![c] =
           [pkt |-> p, barred |-> Barred(p), ruling |-> IF on /\ p.ip THEN "rules" ELSE "off",
            fate |-> "open"]]
    /\ UNCHANGED <<on, orders, banned, known, marks, offence>>

Open(c) == packet[c] # Nothing /\ packet[c].fate = "open"

\* The operator's order is taken in place of the rules.
Overrule(c) ==
    /\ Open(c) /\ packet[c].ruling = "rules"
    /\ orders[packet[c].pkt.pid] # "none"
    /\ packet' = [packet EXCEPT ![c].ruling = orders[packet[c].pkt.pid]]
    /\ UNCHANGED <<on, orders, banned, known, marks, offence>>

MayPass(q) ==
    CASE q.ruling = "off"   -> TRUE
      [] q.ruling = "rules" -> ~q.barred
      [] OTHER              -> q.ruling \notin Halting[q.pkt.hook]

MayDrop(q) ==
    CASE q.ruling = "off"   -> FALSE
      [] q.ruling = "rules" -> q.pkt.host \in banned \/ q.pkt.pid \in known
      [] OTHER              -> q.ruling \in Halting[q.pkt.hook]

Settle(c) ==
    /\ Open(c)
    /\ \/ MayPass(packet[c]) /\ packet' = [packet EXCEPT ![c].fate = "passed"]
       \/ MayDrop(packet[c]) /\ packet' = [packet EXCEPT ![c].fate = "dropped"]
    /\ UNCHANGED <<on, orders, banned, known, marks, offence>>

Next ==
    \/ Switch
    \/ \E a \in Agents, v \in Verdicts \cup {"none"} : Order(a, v)
    \/ \E h \in Hosts : Ban(h)
    \/ \E a \in Agents, M \in SUBSET {"SANDBOXED"} : Enrol(a, M)
    \/ \E c \in Cpus, a \in Agents, n \in 0 .. Critical : Call(c, a, n)
    \/ \E a \in Agents : MarkKilled(a)
    \/ \E c \in Cpus, p \in Packets : Arrive(c, p)
    \/ \E c \in Cpus : Overrule(c) \/ Settle(c)

Spec == Init /\ [][Next]_vars
================================================================================
