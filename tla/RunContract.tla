------------------------------ MODULE RunContract ------------------------------
(* What sandBoxService and controlPlaneService together promise about a run,   *)
(* without containers, partitions or offsets.  A run is opened once and closed *)
(* at most once after that; a result is recorded only for a closed run and     *)
(* says the same as its closing event; the console sees only what was          *)
(* announced.                                                                  *)
CONSTANT Runs

VARIABLES
    announced,   \* announced[r]: the event types published for r
    result,      \* result[r]: the status in the log of runs, or "none"
    viewed       \* viewed[r]: the event types emitted to the console

vars == <<announced, result, viewed>>

Closing == {"SANDBOX_DESTROYED", "ANOMALY_DETECTED"}

\* The closing event a result goes with.
Says(s) == IF s = "anomaly" THEN "ANOMALY_DETECTED" ELSE "SANDBOX_DESTROYED"

Init ==
    /\ announced = [r \in Runs |-> {}]
    /\ result = [r \in Runs |-> "none"]
    /\ viewed = [r \in Runs |-> {}]

Open(r) ==
    /\ announced[r] = {}
    /\ announced' = [announced EXCEPT ![r] = {"SANDBOX_CREATED"}]
    /\ UNCHANGED <<result, viewed>>

Close(r) ==
    /\ announced[r] = {"SANDBOX_CREATED"}
    /\ \E t \in Closing : announced' = [announced EXCEPT ![r] = @ \cup {t}]
    /\ UNCHANGED <<result, viewed>>

Record(r) ==
    /\ result[r] = "none"
    /\ \E s \in {"completed", "failed", "timeout", "anomaly"} :
           /\ Says(s) \in announced[r]
           /\ result' = [result EXCEPT ![r] = s]
    /\ UNCHANGED <<announced, viewed>>

View(r) ==
    /\ \E t \in announced[r] : viewed' = [viewed EXCEPT ![r] = @ \cup {t}]
    /\ UNCHANGED <<announced, result>>

Next == \E r \in Runs : Open(r) \/ Close(r) \/ Record(r) \/ View(r)

Spec == Init /\ [][Next]_vars
================================================================================
