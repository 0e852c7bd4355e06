-------------------------------- MODULE Sandbox --------------------------------
(* sandBoxService: POST /execute runs a command in a throw-away container.     *)
(* A run is the execution of runSandbox (services/sandbox.service.ts) with     *)
(* executeInSandbox (docker/index.ts) inside; pc names the awaited call it is  *)
(* about to make.  Between two awaits anything else may happen: other runs,    *)
(* the program inside the container, the timer, a crash of the service.        *)
EXTENDS EventTopic

\* ExecutionResult.status; "none": no result yet, "error": an exception is on its way.
Status == {"completed", "failed", "timeout", "anomaly"}

VARIABLES
    pc,          \* pc[r]: where runSandbox is
    status,      \* status[r]: the local result, or "none", or "error"
    container,   \* container[r]: the container in the Docker daemon
    held,        \* runs whose local variable `container` is not null
    printed,     \* runs whose program printed a suspicious pattern
    captured,    \* runs where that output has reached stdout or stderr
    recorded,    \* recorded[r]: status in the sandbox_logs row, "none" without a row
    swallowed    \* history: runs whose remove() threw into the empty catch

sandboxVars == <<pc, status, container, held, printed, captured, recorded, swallowed>>

Existing == {"created", "running", "exited"}
Ended == {"replied", "failed", "crashed"}
InFlight == {"connect", "announce", "image", "create", "attach", "start",
             "race", "remove", "close", "record"}

SandboxTypeOK ==
    /\ pc \in [Runs -> {"idle"} \cup InFlight \cup Ended]
    /\ status \in [Runs -> Status \cup {"none", "error"}]
    /\ container \in [Runs -> Existing \cup {"none", "removed"}]
    /\ recorded \in [Runs -> Status \cup {"none"}]
    /\ held \subseteq Runs /\ swallowed \subseteq Runs
    /\ captured \subseteq printed /\ printed \subseteq Runs

SandboxInit ==
    /\ TopicInit
    /\ pc = [r \in Runs |-> "idle"]
    /\ status = [r \in Runs |-> "none"]
    /\ container = [r \in Runs |-> "none"]
    /\ recorded = [r \in Runs |-> "none"]
    /\ held = {} /\ printed = {} /\ captured = {} /\ swallowed = {}

Goes(r, from, to) == pc[r] = from /\ pc' = [pc EXCEPT ![r] = to]
Becomes(r, c) == container' = [container EXCEPT ![r] = c]

--------------------------------------------------------------------------------
(* runSandbox up to the container *)

\* A validated request arrives; runSandbox makes its own producer.
Execute(r) ==
    /\ Goes(r, "idle", "connect")
    /\ UNCHANGED <<status, container, held, printed, captured, recorded, swallowed, log>>

Connect(r) ==
    /\ Goes(r, "connect", "announce") \/ Goes(r, "connect", "failed")
    /\ UNCHANGED <<status, container, held, printed, captured, recorded, swallowed, log>>

AnnounceRun(r) ==
    /\ \/ Goes(r, "announce", "image") /\ Publish(r, "SANDBOX_CREATED")
       \/ Goes(r, "announce", "failed") /\ PublishThrows(r, "SANDBOX_CREATED")
    /\ UNCHANGED <<status, container, held, printed, captured, recorded, swallowed>>

\* ensureImage: the image is there, or pulling it succeeds, or it rejects (outside the try).
EnsureImage(r) ==
    /\ Goes(r, "image", "create") \/ Goes(r, "image", "failed")
    /\ UNCHANGED <<status, container, held, printed, captured, recorded, swallowed, log>>

--------------------------------------------------------------------------------
(* executeInSandbox *)

CreateContainer(r) ==
    /\ Goes(r, "create", "attach")
    /\ Becomes(r, "created")
    /\ held' = held \cup {r}
    /\ UNCHANGED <<status, printed, captured, recorded, swallowed, log>>

\* createContainer rejects: `container` stays null and finally removes nothing,
\* whether or not the daemon made the container before the answer was lost.
CreateFails(r) ==
    /\ Goes(r, "create", "failed")
    /\ status' = [status EXCEPT ![r] = "error"]
    /\ Becomes(r, "created") \/ UNCHANGED container
    /\ UNCHANGED <<held, printed, captured, recorded, swallowed, log>>

Attach(r) ==
    /\ Goes(r, "attach", "start")
    /\ UNCHANGED <<status, container, held, printed, captured, recorded, swallowed, log>>

\* start() answers when the container runs; the timer is armed with the race.
Start(r) ==
    /\ Goes(r, "start", "race")
    /\ Becomes(r, "running")
    /\ UNCHANGED <<status, held, printed, captured, recorded, swallowed, log>>

\* Mutant: an error leaves executeInSandbox without passing through finally.
MutDockerThrows(r) ==
    /\ pc[r] \in {"attach", "start", "race"}
    /\ pc' = [pc EXCEPT ![r] = "failed"]
    /\ status' = [status EXCEPT ![r] = "error"]
    /\ UNCHANGED <<container, held, printed, captured, recorded, swallowed, log>>

\* attach(), start() or wait() rejects with anything but TIMEOUT: through finally, then rethrown.
DockerThrows(r) ==
    /\ \/ Goes(r, "attach", "remove") /\ UNCHANGED container
       \/ Goes(r, "start", "remove") /\ (Becomes(r, "running") \/ UNCHANGED container)
       \/ Goes(r, "race", "remove") /\ UNCHANGED container
    /\ status' = [status EXCEPT ![r] = "error"]
    /\ UNCHANGED <<held, printed, captured, recorded, swallowed, log>>

\* wait() wins the race: the output received so far is scanned, then the exit code looked at.
WaitReturns(r) ==
    /\ container[r] = "exited"
    /\ Goes(r, "race", "remove")
    /\ \E s \in IF r \in captured THEN {"anomaly"} ELSE {"completed", "failed"} :
           status' = [status EXCEPT ![r] = s]
    /\ UNCHANGED <<container, held, printed, captured, recorded, swallowed, log>>

\* Mutant: the timer is cleared as soon as the container has printed something.
MutTimerFires(r) ==
    /\ Goes(r, "race", "remove")
    /\ r \notin printed
    /\ status' = [status EXCEPT ![r] = "timeout"]
    /\ UNCHANGED <<container, held, printed, captured, recorded, swallowed, log>>

\* The timer wins the race.  It is never cleared: a later expiry is ignored by the race.
TimerFires(r) ==
    /\ Goes(r, "race", "remove")
    /\ status' = [status EXCEPT ![r] = "timeout"]
    /\ UNCHANGED <<container, held, printed, captured, recorded, swallowed, log>>

\* Mutant: the error is swallowed in the catch, so the run goes on without a result.
MutAfterRemove(r) == Goes(r, "remove", "close")

\* Mutant: without force the removal waits for the program to end.
MutUnforced(r) ==
    container[r] # "running" /\ Goes(r, "remove", IF status[r] = "error" THEN "failed" ELSE "close")

AfterRemove(r) == Goes(r, "remove", IF status[r] = "error" THEN "failed" ELSE "close")

\* finally: remove({ force: true }) kills a running container.
Remove(r) ==
    /\ AfterRemove(r)
    /\ Becomes(r, "removed")
    /\ UNCHANGED <<status, held, printed, captured, recorded, swallowed, log>>

\* remove() rejects and .catch(() => {}) swallows it; the result is returned all the same.
RemoveFails(r) ==
    /\ AfterRemove(r)
    /\ swallowed' = swallowed \cup {r}
    /\ UNCHANGED <<status, container, held, printed, captured, recorded, log>>

--------------------------------------------------------------------------------
(* runSandbox after the container *)

\* Mutant: the branches of the conditional are swapped.
MutClosingType(s) == IF s = "anomaly" THEN "SANDBOX_DESTROYED" ELSE "ANOMALY_DETECTED"

\* Only a result "anomaly" is announced as one; a timed-out run counts as destroyed.
ClosingType(s) == IF s = "anomaly" THEN "ANOMALY_DETECTED" ELSE "SANDBOX_DESTROYED"

\* Mutant: a failed publish is logged and the run is recorded all the same.
MutAnnounceEnd(r) ==
    /\ Goes(r, "close", "record")
    /\ PublishThrows(r, ClosingType(status[r]))
    /\ UNCHANGED <<status, container, held, printed, captured, recorded, swallowed>>

AnnounceEnd(r) ==
    /\ \/ Goes(r, "close", "record") /\ Publish(r, ClosingType(status[r]))
       \/ Goes(r, "close", "failed") /\ PublishThrows(r, ClosingType(status[r]))
    /\ UNCHANGED <<status, container, held, printed, captured, recorded, swallowed>>

\* sandboxLog.create, then the reply.  When the insert throws the row may exist.
RecordRun(r) ==
    /\ \/ Goes(r, "record", "replied") /\ recorded' = [recorded EXCEPT ![r] = status[r]]
       \/ /\ Goes(r, "record", "failed")
          /\ recorded' = [recorded EXCEPT ![r] = status[r]] \/ UNCHANGED recorded
    /\ UNCHANGED <<status, container, held, printed, captured, swallowed, log>>

--------------------------------------------------------------------------------
(* The program in the container and the service's process *)

\* The program prints something SUSPICIOUS_PATTERNS matches; what it prints once
\* the race is over reaches nobody and is left out.
Prints(r) ==
    /\ container[r] = "running" /\ pc[r] = "race" /\ r \notin printed
    /\ printed' = printed \cup {r}
    /\ UNCHANGED <<pc, status, container, held, captured, recorded, swallowed, log>>

\* demuxStream hands the output to the service.  The attach stream and wait() are
\* two connections: wait() may answer first.
OutputArrives(r) ==
    /\ r \in printed \ captured
    /\ pc[r] = "race"
    /\ captured' = captured \cup {r}
    /\ UNCHANGED <<pc, status, container, held, printed, recorded, swallowed, log>>

\* The program ends by itself.  It need not.
Exits(r) ==
    /\ container[r] = "running"
    /\ Becomes(r, "exited")
    /\ UNCHANGED <<pc, status, held, printed, captured, recorded, swallowed, log>>

\* The service's process dies.  Docker keeps the containers and nothing looks for them later.
SandboxCrashes ==
    /\ \E r \in Runs : pc[r] \in InFlight
    /\ pc' = [r \in Runs |-> IF pc[r] \in InFlight THEN "crashed" ELSE pc[r]]
    /\ UNCHANGED <<status, container, held, printed, captured, recorded, swallowed, log>>

--------------------------------------------------------------------------------
\* What runSandbox does by itself once it was called, in program order.
RunSandbox(r) ==
    \/ Connect(r) \/ AnnounceRun(r) \/ EnsureImage(r)
    \/ CreateContainer(r) \/ CreateFails(r) \/ Attach(r) \/ Start(r) \/ DockerThrows(r)
    \/ WaitReturns(r) \/ TimerFires(r) \/ Remove(r) \/ RemoveFails(r)
    \/ AnnounceEnd(r) \/ RecordRun(r)

Program(r) == Prints(r) \/ OutputArrives(r) \/ Exits(r)

SandboxNext ==
    \/ \E r \in Runs : Execute(r) \/ RunSandbox(r) \/ Program(r)
    \/ SandboxCrashes

--------------------------------------------------------------------------------
(* Properties *)

\* A container that outlives its run has one of three causes: its removal threw,
\* the answer to its creation was lost, or the service died.  Every other way out
\* of executeInSandbox (result, timeout, attach/start/wait error) removes it.
LeftoverHasCause ==
    \A r \in Runs :
        pc[r] \in Ended /\ container[r] \in Existing =>
            r \in swallowed \/ r \notin held \/ pc[r] = "crashed"

\* A run that was started ends, and ends the program it started, whatever that
\* program does: the timer decides when the program does not, and finally removes
\* what is still running.  Only a removal that threw or the death of the service
\* leaves a program running behind a run that is over.
RunsEnd ==
    \A r \in Runs :
        pc[r] \in InFlight ~>
            /\ pc[r] \in Ended
            /\ container[r] # "running" \/ r \in swallowed \/ pc[r] = "crashed"
================================================================================
