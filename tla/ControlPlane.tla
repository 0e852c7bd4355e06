------------------------------ MODULE ControlPlane ------------------------------
(* controlPlaneService: one member of the group control-plane-group reads the  *)
(* topic and emits every event to the connected sockets (kafka/consumer.ts,    *)
(* kafka/handlers, websockets).  kafkajs keeps the position of each partition  *)
(* in memory and commits it after a batch, so a restart repeats what was not   *)
(* committed; with fromBeginning false a group without a committed offset      *)
(* starts behind the last message.                                             *)
EXTENDS EventTopic, Integers

CONSTANT MaxRestarts     \* bound: how often the process may die

ASSUME RestartBound == MaxRestarts \in Nat

VARIABLES
    consumer,    \* "off" (process starting), "on" (run() is fetching), "dead" (start-up threw)
    position,    \* position[p]: messages of p handed to eachMessage, or skipped by the first start
    committed,   \* committed[p]: the offset the broker keeps for the group, or NoOffset
    base,        \* history, base[p]: where the group last started without a committed offset
    shown,       \* history: <<p, i>> for every message i of p that was emitted
    restarts     \* history: deaths of the process

controlVars == <<consumer, position, committed, base, shown, restarts>>

NoOffset == -1        \* what Kafka itself answers when there is none

ControlTypeOK ==
    /\ consumer \in {"off", "on", "dead"}
    /\ position \in [Partitions -> Nat]
    /\ committed \in [Partitions -> Nat \cup {NoOffset}]
    /\ base \in [Partitions -> Nat]
    /\ shown \subseteq Partitions \X (Nat \ {0})
    /\ restarts \in 0 .. MaxRestarts

ControlInit ==
    /\ consumer = "off"
    /\ position = [p \in Partitions |-> 0]
    /\ committed = [p \in Partitions |-> NoOffset]
    /\ base = [p \in Partitions |-> 0]
    /\ shown = {}
    /\ restarts = 0

\* startConsumer joins the group and resolves its offsets: the committed one, else the latest.
StartConsumer ==
    /\ consumer = "off"
    /\ consumer' = "on"
    /\ position' = [p \in Partitions |->
                        IF committed[p] = NoOffset THEN Len(log[p]) ELSE committed[p]]
    /\ base' = [p \in Partitions |->
                        IF committed[p] = NoOffset THEN Len(log[p]) ELSE base[p]]
    /\ UNCHANGED <<committed, shown, restarts>>

\* connect, subscribe or run rejects: index.ts logs it and the server stays up without a consumer.
StartConsumerThrows ==
    /\ consumer = "off"
    /\ consumer' = "dead"
    /\ UNCHANGED <<position, committed, base, shown, restarts>>

\* Mutant: the handler throws on an event without stdout, and the catch drops the message.
MutEachMessage(p) ==
    /\ consumer = "on"
    /\ position[p] < Len(log[p])
    /\ position' = [position EXCEPT ![p] = @ + 1]
    /\ shown' = IF log[p][position[p] + 1].type = "ANOMALY_DETECTED" THEN shown
                ELSE shown \cup {<<p, position[p] + 1>>}
    /\ UNCHANGED <<consumer, committed, base, restarts>>

\* eachMessage: sandboxHandler picks the event's name and io.emit sends it to whoever is connected.
EachMessage(p) ==
    /\ consumer = "on"
    /\ position[p] < Len(log[p])
    /\ position' = [position EXCEPT ![p] = @ + 1]
    /\ shown' = shown \cup {<<p, position[p] + 1>>}
    /\ UNCHANGED <<consumer, committed, base, restarts>>

\* Mutant: the offset of the next message is committed, not of the last one handled.
MutAutoCommit(p) ==
    /\ consumer = "on"
    /\ position[p] > base[p] /\ committed[p] # position[p] + 1
    /\ committed' = [committed EXCEPT ![p] = position[p] + 1]
    /\ UNCHANGED <<consumer, position, base, shown, restarts>>

\* kafkajs commits what eachMessage has returned from.
AutoCommit(p) ==
    /\ consumer = "on"
    /\ position[p] > base[p] /\ committed[p] # position[p]
    /\ committed' = [committed EXCEPT ![p] = position[p]]
    /\ UNCHANGED <<consumer, position, base, shown, restarts>>

\* The process dies, or the group rebalances: positions in memory are lost.
ControlPlaneDies ==
    /\ consumer # "off" /\ restarts < MaxRestarts
    /\ consumer' = "off"
    /\ restarts' = restarts + 1
    /\ UNCHANGED <<position, committed, base, shown>>

ControlNext ==
    \/ StartConsumer \/ StartConsumerThrows \/ ControlPlaneDies
    \/ \E p \in Partitions : EachMessage(p) \/ AutoCommit(p)

\* sandboxHandler names the event the sockets get.
EventName(t) ==
    CASE t = "SANDBOX_CREATED"   -> "sandbox.created"
      [] t = "SANDBOX_DESTROYED" -> "sandbox.destroyed"
      [] t = "ANOMALY_DETECTED"  -> "sandbox.anomaly"

\* The events emitted for run r so far.
Emitted(r) == {EventName(log[m[1]][m[2]].type) : m \in {n \in shown : log[n[1]][n[2]].run = r}}

--------------------------------------------------------------------------------
(* Properties *)

\* Nothing is skipped: from where the group started, every message up to the committed
\* offset was emitted, so a restart repeats messages and never loses one; and within a
\* partition no message is emitted before the ones it follows.
NothingSkipped ==
    /\ \A p \in Partitions :
           committed[p] # NoOffset =>
               \A i \in base[p] + 1 .. committed[p] : <<p, i>> \in shown
    /\ \A m \in shown : \A i \in base[m[1]] + 1 .. m[2] : <<m[1], i>> \in shown

\* An anomaly that was announced behind the consumer's position reaches the sockets,
\* as long as the consumer stays up.
Pending(r, t) ==
    \E p \in Partitions : \E i \in DOMAIN log[p] :
        i > position[p] /\ log[p][i] = [run |-> r, type |-> t]

AlarmRings ==
    \A r \in Runs :
        consumer = "on" /\ Pending(r, "ANOMALY_DETECTED") ~>
            consumer # "on" \/ "sandbox.anomaly" \in Emitted(r)
================================================================================
