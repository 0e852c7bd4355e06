------------------------------- MODULE Lifecycle -------------------------------
(* sandBoxService and controlPlaneService joined by the topic: from the HTTP   *)
(* request to the event on the operator's screen.                              *)
EXTENDS Sandbox, ControlPlane

vars == <<log, sandboxVars, controlVars>>

TypeOK ==
    /\ log \in [Partitions -> Seq(Event)]
    /\ SandboxTypeOK
    /\ ControlTypeOK

Init == SandboxInit /\ ControlInit

Next ==
    \/ SandboxNext /\ UNCHANGED controlVars
    \/ ControlNext /\ UNCHANGED <<log, sandboxVars>>

Spec == Init /\ [][Next]_vars

(* Every awaited call of runSandbox but wait() answers or throws, and          *)
(* setTimeout fires; kafkajs keeps fetching while its consumer runs.  Nothing  *)
(* is assumed of requests, of wait() and the program in the container, of      *)
(* commits, deaths or restarts.                                                *)
Answers(r) == pc[r] # "race" /\ RunSandbox(r) /\ UNCHANGED controlVars
TimesOut(r) == TimerFires(r) /\ UNCHANGED controlVars
Fetches(p) == EachMessage(p) /\ UNCHANGED <<log, sandboxVars>>

FairCalls(r) == WF_vars(Answers(r))
FairTimer(r) == WF_vars(TimesOut(r))
FairFetching(p) == WF_vars(Fetches(p))

Fairness ==
    /\ \A r \in Runs : FairCalls(r) /\ FairTimer(r)
    /\ \A p \in Partitions : FairFetching(p)

FairSpec == Spec /\ Fairness

--------------------------------------------------------------------------------
(* Properties *)

\* An alarm on the screen is true: the program did print a suspicious pattern.
AlarmIsTrue ==
    \A r \in Runs : "sandbox.anomaly" \in Emitted(r) => r \in printed

\* Nobody waits for a step that cannot come: in every reachable state the call that a
\* run is at has an outcome, the timer of a race can fire, and a running consumer can
\* take the next message of a partition it has not read to the end.
NobodyIsStuck ==
    /\ \A r \in Runs :
           /\ pc[r] \in InFlight \ {"race"} => ENABLED <<Answers(r)>>_vars
           /\ pc[r] = "race" => ENABLED <<TimesOut(r)>>_vars
    /\ \A p \in Partitions :
           consumer = "on" /\ position[p] < Len(log[p]) => ENABLED <<Fetches(p)>>_vars

\* The event types of run r that were emitted.
Viewed(r) == {log[m[1]][m[2]].type : m \in {n \in shown : log[n[1]][n[2]].run = r}}

\* The two services keep the contract.
Contract == INSTANCE RunContract WITH
                announced <- [r \in Runs |-> Announced(r)],
                result <- recorded,
                viewed <- [r \in Runs |-> Viewed(r)]

ImplementsContract == Contract!Spec
================================================================================
