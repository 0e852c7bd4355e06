---------------------------- MODULE LifecycleProofs ----------------------------
(* Proofs about Lifecycle, for any set of runs, any partitions and any bound   *)
(* on restarts.  IInv is the inductive invariant: RunOK says how far a run has *)
(* come in its events, its container and its result, ControlOK where the       *)
(* consumer's positions stand in the log.                                      *)
EXTENDS Lifecycle, FiniteSetTheorems, TLAPS

RunOK(r) ==
    /\ pc[r] \in {"idle", "connect", "announce", "image", "create"} =>
           container[r] = "none" /\ r \notin held
    /\ pc[r] \in {"idle", "connect", "announce"} => Announced(r) = {}
    /\ pc[r] \in {"image", "create", "attach", "start", "race", "remove", "close"} =>
           Announced(r) = {"SANDBOX_CREATED"}
    /\ pc[r] = "record" => Announced(r) = {"SANDBOX_CREATED", ClosingType(status[r])}
    /\ pc[r] \in {"attach", "start", "race", "remove"} => r \in held
    /\ r \notin held => container[r] \in {"none", "created"}
    /\ pc[r] = "remove" => status[r] # "none"
    /\ pc[r] \in {"close", "record"} => status[r] \in Status
    /\ pc[r] \notin {"replied", "failed"} => recorded[r] = "none"
    /\ pc[r] \in {"close", "record", "replied"} /\ container[r] \in Existing => r \in swallowed
    /\ pc[r] = "failed" /\ container[r] \in Existing => r \in swallowed \/ r \notin held
    /\ status[r] = "anomaly" => r \in printed
    /\ "ANOMALY_DETECTED" \in Announced(r) => r \in printed

ControlOK ==
    /\ \A p \in Partitions :
           /\ position[p] <= Len(log[p]) /\ base[p] <= Len(log[p])
           /\ committed[p] # NoOffset =>
                  /\ base[p] <= committed[p] /\ committed[p] <= Len(log[p])
                  /\ \A i \in base[p] + 1 .. committed[p] : <<p, i>> \in shown
           /\ consumer = "on" =>
                  /\ base[p] <= position[p]
                  /\ \A i \in base[p] + 1 .. position[p] : <<p, i>> \in shown
    /\ \A m \in shown :
           /\ m[2] \in DOMAIN log[m[1]]
           /\ \A i \in base[m[1]] + 1 .. m[2] : <<m[1], i>> \in shown

IInv == TypeOK /\ (\A r \in Runs : RunOK(r)) /\ ControlOK

--------------------------------------------------------------------------------
(* The log *)

LogTyped == log \in [Partitions -> Seq(Event)]

\* What was in the log stays where it is.
LogGrows ==
    \A p \in Partitions :
        /\ Len(log[p]) <= Len(log'[p])
        /\ \A i \in DOMAIN log[p] : i \in DOMAIN log'[p] /\ log'[p][i] = log[p][i]

\* A publish adds one event to the log and to what is announced for its run alone.
LEMMA PublishAdds ==
    ASSUME LogTyped, NEW r \in Runs, NEW t \in Types, Publish(r, t)
    PROVE  /\ LogTyped'
           /\ LogGrows
           /\ Announced(r)' = Announced(r) \cup {t}
           /\ \A s \in Runs \ {r} : Announced(s)' = Announced(s)
<1> DEFINE e == [run |-> r, type |-> t]
<1>1. PICK p \in Partitions : log' = [log EXCEPT ![p] = Append(@, e)]
  BY DEF Publish
<1>2. e \in Event
  BY DEF Event
<1>3. \A q \in Partitions : log[q] \in Seq(Event)
  BY DEF LogTyped
<1>4. /\ log'[p] = Append(log[p], e)
      /\ \A q \in Partitions \ {p} : log'[q] = log[q]
  BY <1>1 DEF LogTyped
<1>5. /\ Append(log[p], e) \in Seq(Event)
      /\ Len(Append(log[p], e)) = Len(log[p]) + 1
      /\ DOMAIN Append(log[p], e) = 1 .. Len(log[p]) + 1
      /\ \A i \in 1 .. Len(log[p]) : Append(log[p], e)[i] = log[p][i]
      /\ Append(log[p], e)[Len(log[p]) + 1] = e
  BY <1>2, <1>3
<1>6. \A q \in Partitions : DOMAIN log[q] = 1 .. Len(log[q]) /\ Len(log[q]) \in Nat
  BY <1>3
<1>7. LogTyped'
  BY <1>1, <1>5 DEF LogTyped
<1>8. LogGrows
  BY <1>4, <1>5, <1>6 DEF LogGrows
<1>9. ASSUME NEW q \in Partitions, NEW i \in DOMAIN log'[q]
      PROVE  (i \in DOMAIN log[q] /\ log'[q][i] = log[q][i]) \/ log'[q][i] = e
  <2>1. CASE q = p
    BY <1>4, <1>5, <1>6, <2>1
  <2>2. CASE q # p
    BY <1>4, <2>2
  <2> QED BY <2>1, <2>2
<1>10. \E q \in Partitions : \E i \in DOMAIN log'[q] : log'[q][i] = e
  <2>1. Len(log[p]) + 1 \in DOMAIN log'[p] /\ log'[p][Len(log[p]) + 1] = e
    BY <1>4, <1>5, <1>6
  <2> QED BY <2>1
<1>11. ASSUME NEW s \in Runs, NEW u \in Types
       PROVE  u \in Announced(s)' <=> u \in Announced(s) \/ (s = r /\ u = t)
  <2>1. ASSUME u \in Announced(s)  PROVE u \in Announced(s)'
    BY <1>8, <2>1 DEF Announced, LogGrows
  <2>2. ASSUME s = r, u = t  PROVE u \in Announced(s)'
    BY <1>10, <2>2 DEF Announced
  <2>3. ASSUME u \in Announced(s)'  PROVE u \in Announced(s) \/ (s = r /\ u = t)
    <3>0. PICK q \in Partitions : \E i \in DOMAIN log'[q] : log'[q][i] = [run |-> s, type |-> u]
      BY <2>3 DEF Announced
    <3>1. PICK i \in DOMAIN log'[q] : log'[q][i] = [run |-> s, type |-> u]
      BY <3>0
    <3>2. CASE i \in DOMAIN log[q] /\ log'[q][i] = log[q][i]
      BY <3>1, <3>2 DEF Announced
    <3>3. CASE log'[q][i] = e
      <4>1. [run |-> s, type |-> u].run = [run |-> r, type |-> t].run
            /\ [run |-> s, type |-> u].type = [run |-> r, type |-> t].type
        BY <3>1, <3>3
      <4> QED BY <4>1
    <3> QED BY <1>9, <3>2, <3>3
  <2> QED BY <2>1, <2>2, <2>3
<1>12. \A s \in Runs : Announced(s) \subseteq Types /\ Announced(s)' \subseteq Types
  BY DEF Announced
<1>13. Announced(r)' = Announced(r) \cup {t}
  BY <1>11, <1>12
<1>14. \A s \in Runs \ {r} : Announced(s)' = Announced(s)
  BY <1>11, <1>12
<1> QED BY <1>7, <1>8, <1>13, <1>14

\* An unchanged log announces the same.
LEMMA QuietLog ==
    ASSUME LogTyped, log' = log
    PROVE  /\ LogTyped' /\ LogGrows
           /\ \A s \in Runs : Announced(s)' = Announced(s)
<1>1. LogTyped' /\ \A s \in Runs : Announced(s)' = Announced(s)
  BY DEF LogTyped, Announced
<1>2. \A p \in Partitions : log[p] \in Seq(Event)
  BY DEF LogTyped
<1>3. LogGrows
  BY <1>2 DEF LogGrows
<1> QED BY <1>1, <1>3

--------------------------------------------------------------------------------
(* One run's step *)

\* A step of run r leaves every other run where it was.
Only(r) ==
    \A s \in Runs \ {r} :
        /\ pc'[s] = pc[s] /\ status'[s] = status[s]
        /\ container'[s] = container[s] /\ recorded'[s] = recorded[s]
        /\ s \in held' <=> s \in held
        /\ s \in printed' <=> s \in printed
        /\ s \in swallowed' <=> s \in swallowed
        /\ Announced(s)' = Announced(s)

StepOK(r) == LogTyped' /\ LogGrows /\ SandboxTypeOK' /\ Only(r) /\ RunOK(r)'

\* A typed function keeps its type and its other values when one value changes.
LEMMA ExceptTyped ==
    ASSUME NEW D, NEW R, NEW f \in [D -> R], NEW a \in D, NEW b \in R
    PROVE  /\ [f EXCEPT ![a] = b] \in [D -> R]
           /\ [f EXCEPT ![a] = b][a] = b
           /\ \A c \in D \ {a} : [f EXCEPT ![a] = b][c] = f[c]
  OBVIOUS

PcTyped == pc \in [Runs -> {"idle"} \cup InFlight \cup Ended]

LEMMA GoesMoves ==
    ASSUME PcTyped, NEW r \in Runs, NEW a, NEW b \in InFlight \cup Ended, Goes(r, a, b)
    PROVE  /\ PcTyped' /\ pc[r] = a /\ pc'[r] = b
           /\ \A s \in Runs \ {r} : pc'[s] = pc[s]
  BY ExceptTyped DEF Goes, PcTyped

\* Steps that touch neither the log nor a container: the request, connect, ensureImage, attach.
LEMMA PlainStep ==
    ASSUME LogTyped, SandboxTypeOK, NEW r \in Runs, RunOK(r),
           Execute(r) \/ Connect(r) \/ EnsureImage(r) \/ Attach(r)
    PROVE  StepOK(r)
<1>1. UNCHANGED <<status, container, held, printed, captured, recorded, swallowed, log>>
  BY DEF Execute, Connect, EnsureImage, Attach
<1>2. PICK a \in {"idle", "connect", "image", "attach"}, b \in InFlight \cup Ended :
          /\ Goes(r, a, b)
          /\ a = "idle" => b = "connect"
          /\ a = "connect" => b \in {"announce", "failed"}
          /\ a = "image" => b \in {"create", "failed"}
          /\ a = "attach" => b = "start"
  BY DEF Execute, Connect, EnsureImage, Attach, InFlight, Ended
<1>3. /\ PcTyped' /\ pc[r] = a /\ pc'[r] = b
      /\ \A s \in Runs \ {r} : pc'[s] = pc[s]
  BY <1>2, GoesMoves DEF PcTyped, SandboxTypeOK
<1>4. LogTyped' /\ LogGrows /\ \A s \in Runs : Announced(s)' = Announced(s)
  BY <1>1, QuietLog
<1>5. SandboxTypeOK'
  BY <1>1, <1>3 DEF SandboxTypeOK, PcTyped
<1>6. Only(r)
  BY <1>1, <1>3, <1>4 DEF Only
<1>7. RunOK(r)'
  BY <1>1, <1>2, <1>3, <1>4 DEF RunOK, InFlight, Ended, Existing
<1> QED BY <1>4, <1>5, <1>6, <1>7 DEF StepOK

LEMMA AnnounceStep ==
    ASSUME LogTyped, SandboxTypeOK, NEW r \in Runs, RunOK(r), AnnounceRun(r)
    PROVE  StepOK(r)
<1>1. UNCHANGED <<status, container, held, printed, captured, recorded, swallowed>>
  BY DEF AnnounceRun
<1>2. PICK b \in {"image", "failed"} :
          /\ Goes(r, "announce", b)
          /\ b = "image" => Publish(r, "SANDBOX_CREATED")
          /\ Publish(r, "SANDBOX_CREATED") \/ log' = log
  BY DEF AnnounceRun, PublishThrows
<1>3. /\ PcTyped' /\ pc[r] = "announce" /\ pc'[r] = b
      /\ \A s \in Runs \ {r} : pc'[s] = pc[s]
  BY <1>2, GoesMoves DEF PcTyped, SandboxTypeOK, InFlight, Ended
<1>4. /\ LogTyped' /\ LogGrows
      /\ \A s \in Runs \ {r} : Announced(s)' = Announced(s)
      /\ Announced(r)' \in {Announced(r), Announced(r) \cup {"SANDBOX_CREATED"}}
      /\ b = "image" => Announced(r)' = Announced(r) \cup {"SANDBOX_CREATED"}
  BY <1>2, QuietLog, PublishAdds DEF Types
<1>5. SandboxTypeOK'
  BY <1>1, <1>3 DEF SandboxTypeOK, PcTyped
<1>6. Only(r)
  BY <1>1, <1>3, <1>4 DEF Only
<1>7. RunOK(r)'
  <2>1. Announced(r) = {} /\ container[r] = "none" /\ r \notin held /\ recorded[r] = "none"
    BY <1>3 DEF RunOK
  <2>2. "ANOMALY_DETECTED" \notin Announced(r)' /\ (b = "image" => Announced(r)' = {"SANDBOX_CREATED"})
    BY <1>4, <2>1
  <2> QED BY <1>1, <1>2, <1>3, <2>1, <2>2 DEF RunOK, Existing
<1> QED BY <1>4, <1>5, <1>6, <1>7 DEF StepOK

\* Steps that change the container or the result of run r, but not the log: what they
\* all share.
LEMMA DockerFrame ==
    ASSUME LogTyped, SandboxTypeOK, NEW r \in Runs,
           NEW a, NEW b \in InFlight \cup Ended, Goes(r, a, b),
           UNCHANGED <<printed, captured, recorded, log>>,
           NEW st \in Status \cup {"none", "error"}, status' = [status EXCEPT ![r] = st],
           NEW co \in Existing \cup {"none", "removed"}, container' = [container EXCEPT ![r] = co],
           held' \in {held, held \cup {r}}, swallowed' \in {swallowed, swallowed \cup {r}}
    PROVE  /\ LogTyped' /\ LogGrows /\ SandboxTypeOK' /\ Only(r)
           /\ pc[r] = a /\ pc'[r] = b /\ status'[r] = st /\ container'[r] = co
           /\ Announced(r)' = Announced(r)
<1>1. /\ PcTyped' /\ pc[r] = a /\ pc'[r] = b
      /\ \A s \in Runs \ {r} : pc'[s] = pc[s]
  BY GoesMoves DEF PcTyped, SandboxTypeOK
<1>2. /\ status' \in [Runs -> Status \cup {"none", "error"}] /\ status'[r] = st
      /\ \A s \in Runs \ {r} : status'[s] = status[s]
  BY ExceptTyped DEF SandboxTypeOK
<1>3. /\ container' \in [Runs -> Existing \cup {"none", "removed"}] /\ container'[r] = co
      /\ \A s \in Runs \ {r} : container'[s] = container[s]
  BY ExceptTyped DEF SandboxTypeOK
<1>4. LogTyped' /\ LogGrows /\ \A s \in Runs : Announced(s)' = Announced(s)
  BY QuietLog
<1>5. held' \subseteq Runs /\ swallowed' \subseteq Runs
  BY DEF SandboxTypeOK
<1>6. SandboxTypeOK'
  BY <1>1, <1>2, <1>3, <1>5 DEF SandboxTypeOK, PcTyped
<1>7. Only(r)
  BY <1>1, <1>2, <1>3, <1>4 DEF Only
<1> QED BY <1>1, <1>2, <1>3, <1>4, <1>6, <1>7

\* An unchanged function is the function with its own value put back.
LEMMA PutBack ==
    ASSUME NEW D, NEW R, NEW f \in [D -> R], NEW a \in D
    PROVE  f = [f EXCEPT ![a] = f[a]] /\ f[a] \in R
  OBVIOUS

LEMMA CreateStep ==
    ASSUME LogTyped, SandboxTypeOK, NEW r \in Runs, RunOK(r),
           CreateContainer(r) \/ CreateFails(r)
    PROVE  StepOK(r)
<1>1. pc[r] = "create" /\ UNCHANGED <<printed, captured, recorded, swallowed, log>>
  BY DEF CreateContainer, CreateFails, Goes
<1>2. container[r] = "none" /\ r \notin held /\ Announced(r) = {"SANDBOX_CREATED"}
      /\ recorded[r] = "none"
  BY <1>1 DEF RunOK
<1>3. /\ status = [status EXCEPT ![r] = status[r]]
      /\ status[r] \in Status \cup {"none", "error"}
      /\ container = [container EXCEPT ![r] = container[r]]
      /\ container[r] \in Existing \cup {"none", "removed"}
  BY PutBack DEF SandboxTypeOK
<1>4. CASE CreateContainer(r)
  <2>1. /\ LogTyped' /\ LogGrows /\ SandboxTypeOK' /\ Only(r)
        /\ pc'[r] = "attach" /\ status'[r] = status[r] /\ container'[r] = "created"
        /\ Announced(r)' = Announced(r)
    <3>1. /\ Goes(r, "create", "attach") /\ container' = [container EXCEPT ![r] = "created"]
          /\ status' = [status EXCEPT ![r] = status[r]] /\ held' = held \cup {r}
      BY <1>3, <1>4 DEF CreateContainer, Becomes
    <3>2. "attach" \in InFlight \cup Ended /\ "created" \in Existing \cup {"none", "removed"}
      BY DEF InFlight, Existing
    <3>3. held' \in {held, held \cup {r}} /\ swallowed' \in {swallowed, swallowed \cup {r}}
      BY <1>1, <3>1
    <3> QED BY <1>1, <1>3, <3>1, <3>2, <3>3, DockerFrame, ZenonT(60)
  <2>2. RunOK(r)'
    BY <1>1, <1>2, <1>4, <2>1 DEF RunOK, CreateContainer, Existing
  <2> QED BY <2>1, <2>2 DEF StepOK
<1>5. CASE CreateFails(r)
  <2>1. PICK co \in {"created", container[r]} :
            /\ LogTyped' /\ LogGrows /\ SandboxTypeOK' /\ Only(r)
            /\ pc'[r] = "failed" /\ status'[r] = "error" /\ container'[r] = co
            /\ Announced(r)' = Announced(r)
    <3>1. PICK co \in {"created", container[r]} :
              /\ Goes(r, "create", "failed") /\ container' = [container EXCEPT ![r] = co]
              /\ status' = [status EXCEPT ![r] = "error"] /\ held' = held
      BY <1>3, <1>5 DEF CreateFails, Becomes
    <3>2. "failed" \in InFlight \cup Ended /\ co \in Existing \cup {"none", "removed"}
          /\ "error" \in Status \cup {"none", "error"}
      BY <1>3 DEF Ended, Existing
    <3>3. held' \in {held, held \cup {r}} /\ swallowed' \in {swallowed, swallowed \cup {r}}
      BY <1>1, <3>1
    <3> QED BY <1>1, <3>1, <3>2, <3>3, DockerFrame, ZenonT(60)
  <2>2. RunOK(r)'
    BY <1>1, <1>2, <1>5, <2>1 DEF RunOK, CreateFails, Existing
  <2> QED BY <2>1, <2>2 DEF StepOK
<1> QED BY <1>4, <1>5

\* Into the race and out of it: start, an error, the exit, the timer.
LEMMA RaceStep ==
    ASSUME LogTyped, SandboxTypeOK, NEW r \in Runs, RunOK(r),
           Start(r) \/ DockerThrows(r) \/ WaitReturns(r) \/ TimerFires(r)
    PROVE  StepOK(r)
<1>1. UNCHANGED <<held, printed, captured, recorded, swallowed, log>>
  BY DEF Start, DockerThrows, WaitReturns, TimerFires
<1>2. /\ status = [status EXCEPT ![r] = status[r]]
      /\ status[r] \in Status \cup {"none", "error"}
      /\ container = [container EXCEPT ![r] = container[r]]
      /\ container[r] \in Existing \cup {"none", "removed"}
  BY PutBack DEF SandboxTypeOK
<1>3. PICK a \in {"attach", "start", "race"}, b \in {"race", "remove"},
           st \in Status \cup {"none", "error"}, co \in {"running", container[r]} :
          /\ Goes(r, a, b)
          /\ status' = [status EXCEPT ![r] = st] /\ container' = [container EXCEPT ![r] = co]
          /\ b = "remove" => st # "none"
          /\ st = "anomaly" => r \in captured \/ status[r] = "anomaly"
  <2>1. CASE Start(r)
    BY <1>2, <2>1 DEF Start, Becomes
  <2>2. CASE DockerThrows(r)
    <3>1. status' = [status EXCEPT ![r] = "error"]
      BY <2>2 DEF DockerThrows
    <3>2. PICK a \in {"attach", "start", "race"}, co \in {"running", container[r]} :
              Goes(r, a, "remove") /\ container' = [container EXCEPT ![r] = co]
      <4>1. CASE Goes(r, "attach", "remove") /\ UNCHANGED container
        BY <1>2, <4>1
      <4>2. CASE Goes(r, "start", "remove") /\ (Becomes(r, "running") \/ UNCHANGED container)
        BY <1>2, <4>2 DEF Becomes
      <4>3. CASE Goes(r, "race", "remove") /\ UNCHANGED container
        BY <1>2, <4>3
      <4> QED BY <2>2, <4>1, <4>2, <4>3 DEF DockerThrows
    <3> WITNESS a \in {"attach", "start", "race"}, "remove" \in {"race", "remove"},
                "error" \in Status \cup {"none", "error"}, co \in {"running", container[r]}
    <3> QED BY <3>1, <3>2
  <2>3. CASE WaitReturns(r)
    BY <1>2, <2>3 DEF WaitReturns, Status
  <2>4. CASE TimerFires(r)
    BY <1>2, <2>4 DEF TimerFires, Status
  <2> QED BY <2>1, <2>2, <2>3, <2>4
<1>4. /\ LogTyped' /\ LogGrows /\ SandboxTypeOK' /\ Only(r)
      /\ pc[r] = a /\ pc'[r] = b /\ status'[r] = st /\ container'[r] = co
      /\ Announced(r)' = Announced(r)
  <2>1. b \in InFlight \cup Ended /\ co \in Existing \cup {"none", "removed"}
    BY <1>2 DEF InFlight, Existing
  <2>2. held' \in {held, held \cup {r}} /\ swallowed' \in {swallowed, swallowed \cup {r}}
    BY <1>1
  <2> QED BY <1>1, <1>3, <2>1, <2>2, DockerFrame, ZenonT(60)
<1>5. RunOK(r)'
  <2>1. /\ Announced(r) = {"SANDBOX_CREATED"} /\ r \in held /\ recorded[r] = "none"
        /\ status[r] = "anomaly" => r \in printed
    BY <1>3, <1>4 DEF RunOK
  <2>2. captured \subseteq printed
    BY DEF SandboxTypeOK
  <2> QED BY <1>1, <1>3, <1>4, <2>1, <2>2 DEF RunOK
<1> QED BY <1>4, <1>5 DEF StepOK

LEMMA RemoveStep ==
    ASSUME LogTyped, SandboxTypeOK, NEW r \in Runs, RunOK(r), Remove(r) \/ RemoveFails(r)
    PROVE  StepOK(r)
<1>1. UNCHANGED <<status, held, printed, captured, recorded, log>>
  BY DEF Remove, RemoveFails
<1>2. /\ status = [status EXCEPT ![r] = status[r]]
      /\ status[r] \in Status \cup {"none", "error"}
      /\ container = [container EXCEPT ![r] = container[r]]
      /\ container[r] \in Existing \cup {"none", "removed"}
  BY PutBack DEF SandboxTypeOK
<1>3. PICK b \in {"failed", "close"}, co \in {"removed", container[r]} :
          /\ Goes(r, "remove", b)
          /\ b = "close" => status[r] # "error"
          /\ container' = [container EXCEPT ![r] = co]
          /\ co = "removed" \/ swallowed' = swallowed \cup {r}
          /\ swallowed' \in {swallowed, swallowed \cup {r}}
  BY <1>2 DEF Remove, RemoveFails, AfterRemove, Becomes
<1>4. /\ LogTyped' /\ LogGrows /\ SandboxTypeOK' /\ Only(r)
      /\ pc[r] = "remove" /\ pc'[r] = b /\ status'[r] = status[r] /\ container'[r] = co
      /\ Announced(r)' = Announced(r)
  <2>1. b \in InFlight \cup Ended /\ co \in Existing \cup {"none", "removed"}
    BY <1>2 DEF InFlight, Ended, Existing
  <2>2. held' \in {held, held \cup {r}}
    BY <1>1
  <2> QED BY <1>1, <1>2, <1>3, <2>1, <2>2, DockerFrame, ZenonT(60)
<1>5. RunOK(r)'
  BY <1>1, <1>2, <1>3, <1>4 DEF RunOK, Existing
<1> QED BY <1>4, <1>5 DEF StepOK

LEMMA ClosingTyped ==
    ASSUME NEW st \in Status \cup {"none", "error"}
    PROVE  ClosingType(st) \in Types /\ (ClosingType(st) = "ANOMALY_DETECTED" => st = "anomaly")
  BY DEF ClosingType, Types

LEMMA AnnounceEndStep ==
    ASSUME LogTyped, SandboxTypeOK, NEW r \in Runs, RunOK(r), AnnounceEnd(r)
    PROVE  StepOK(r)
<1> DEFINE t == ClosingType(status[r])
<1>1. UNCHANGED <<status, container, held, printed, captured, recorded, swallowed>>
  BY DEF AnnounceEnd
<1>2. PICK b \in {"record", "failed"} :
          /\ Goes(r, "close", b)
          /\ b = "record" => Publish(r, t)
          /\ Publish(r, t) \/ log' = log
  BY DEF AnnounceEnd, PublishThrows
<1>3. /\ PcTyped' /\ pc[r] = "close" /\ pc'[r] = b
      /\ \A s \in Runs \ {r} : pc'[s] = pc[s]
  BY <1>2, GoesMoves DEF PcTyped, SandboxTypeOK, InFlight, Ended
<1>4. t \in Types /\ (t = "ANOMALY_DETECTED" => status[r] = "anomaly")
  BY ClosingTyped DEF SandboxTypeOK
<1>5. /\ LogTyped' /\ LogGrows
      /\ \A s \in Runs \ {r} : Announced(s)' = Announced(s)
      /\ Announced(r)' \in {Announced(r), Announced(r) \cup {t}}
      /\ b = "record" => Announced(r)' = Announced(r) \cup {t}
  BY <1>2, <1>4, QuietLog, PublishAdds
<1>6. SandboxTypeOK'
  BY <1>1, <1>3 DEF SandboxTypeOK, PcTyped
<1>7. Only(r)
  BY <1>1, <1>3, <1>5 DEF Only
<1>8. RunOK(r)'
  <2>1. /\ Announced(r) = {"SANDBOX_CREATED"} /\ recorded[r] = "none" /\ status[r] \in Status
        /\ container[r] \in Existing => r \in swallowed
        /\ status[r] = "anomaly" => r \in printed
    BY <1>3 DEF RunOK
  <2>2. /\ b = "record" => Announced(r)' = {"SANDBOX_CREATED", t}
        /\ "ANOMALY_DETECTED" \in Announced(r)' => r \in printed
    BY <1>4, <1>5, <2>1
  <2>3. t = ClosingType(status[r])'
    BY <1>1
  <2> QED BY <1>1, <1>2, <1>3, <2>1, <2>2, <2>3 DEF RunOK
<1> QED BY <1>5, <1>6, <1>7, <1>8 DEF StepOK

LEMMA RecordStep ==
    ASSUME LogTyped, SandboxTypeOK, NEW r \in Runs, RunOK(r), RecordRun(r)
    PROVE  StepOK(r)
<1>1. UNCHANGED <<status, container, held, printed, captured, swallowed, log>>
  BY DEF RecordRun
<1>2. PICK b \in {"replied", "failed"} : Goes(r, "record", b)
  BY DEF RecordRun
<1>3. /\ PcTyped' /\ pc[r] = "record" /\ pc'[r] = b
      /\ \A s \in Runs \ {r} : pc'[s] = pc[s]
  BY <1>2, GoesMoves DEF PcTyped, SandboxTypeOK, Ended
<1>4. status[r] \in Status
  BY <1>3 DEF RunOK
<1>5. /\ recorded' \in [Runs -> Status \cup {"none"}]
      /\ \A s \in Runs \ {r} : recorded'[s] = recorded[s]
  BY <1>4, ExceptTyped DEF SandboxTypeOK, RecordRun
<1>6. LogTyped' /\ LogGrows /\ \A s \in Runs : Announced(s)' = Announced(s)
  BY <1>1, QuietLog
<1>7. SandboxTypeOK'
  BY <1>1, <1>3, <1>5 DEF SandboxTypeOK, PcTyped
<1>8. Only(r)
  BY <1>1, <1>3, <1>5, <1>6 DEF Only
<1>9. RunOK(r)'
  BY <1>1, <1>2, <1>3, <1>6 DEF RunOK
<1> QED BY <1>6, <1>7, <1>8, <1>9 DEF StepOK

\* The program prints, its output arrives, it exits.
LEMMA ProgramStep ==
    ASSUME LogTyped, SandboxTypeOK, NEW r \in Runs, RunOK(r), Program(r)
    PROVE  StepOK(r)
<1>1. UNCHANGED <<pc, status, held, recorded, swallowed, log>>
  BY DEF Program, Prints, OutputArrives, Exits
<1>2. LogTyped' /\ LogGrows /\ \A s \in Runs : Announced(s)' = Announced(s)
  BY <1>1, QuietLog
<1>3. /\ container' \in [Runs -> Existing \cup {"none", "removed"}]
      /\ \A s \in Runs \ {r} : container'[s] = container[s]
      /\ container'[r] = container[r] \/ (container[r] = "running" /\ container'[r] = "exited")
  <2>1. CASE Exits(r)
    BY <2>1, ExceptTyped DEF Exits, Becomes, SandboxTypeOK, Existing
  <2>2. CASE Prints(r) \/ OutputArrives(r)
    BY <2>2 DEF Prints, OutputArrives, SandboxTypeOK
  <2> QED BY <2>1, <2>2 DEF Program
<1>4. /\ captured' \subseteq printed' /\ printed' \in {printed, printed \cup {r}}
  BY DEF Program, Prints, OutputArrives, Exits, SandboxTypeOK
<1>5. SandboxTypeOK'
  BY <1>1, <1>3, <1>4 DEF SandboxTypeOK
<1>6. Only(r)
  BY <1>1, <1>2, <1>3, <1>4 DEF Only
<1>7. RunOK(r)'
  BY <1>1, <1>2, <1>3, <1>4 DEF RunOK, Existing
<1> QED BY <1>2, <1>5, <1>6, <1>7 DEF StepOK

LEMMA OneRunStep ==
    ASSUME LogTyped, SandboxTypeOK, NEW r \in Runs, RunOK(r),
           Execute(r) \/ RunSandbox(r) \/ Program(r)
    PROVE  StepOK(r)
  BY PlainStep, AnnounceStep, CreateStep, RaceStep, RemoveStep, AnnounceEndStep, RecordStep,
     ProgramStep DEF RunSandbox

\* A run that is left alone stays as it is.
LEMMA OthersKept ==
    ASSUME NEW r \in Runs, Only(r), NEW s \in Runs \ {r}, RunOK(s)
    PROVE  RunOK(s)'
  BY DEF Only, RunOK

\* A crash ends every run in flight where it stands.
LEMMA CrashStep ==
    ASSUME LogTyped, SandboxTypeOK, \A r \in Runs : RunOK(r), SandboxCrashes
    PROVE  LogTyped' /\ LogGrows /\ SandboxTypeOK' /\ \A r \in Runs : RunOK(r)'
<1>1. UNCHANGED <<status, container, held, printed, captured, recorded, swallowed, log>>
  BY DEF SandboxCrashes
<1>2. LogTyped' /\ LogGrows /\ \A s \in Runs : Announced(s)' = Announced(s)
  BY <1>1, QuietLog
<1>3. \A r \in Runs : pc'[r] = IF pc[r] \in InFlight THEN "crashed" ELSE pc[r]
  BY DEF SandboxCrashes
<1>4. pc' \in [Runs -> {"idle"} \cup InFlight \cup Ended]
  BY DEF SandboxCrashes, SandboxTypeOK, Ended
<1>5. SandboxTypeOK'
  BY <1>1, <1>4 DEF SandboxTypeOK
<1>6. ASSUME NEW r \in Runs  PROVE RunOK(r)'
  <2>1. CASE pc[r] \in InFlight
    BY <1>1, <1>2, <1>3, <2>1 DEF RunOK, InFlight
  <2>2. CASE pc[r] \notin InFlight
    BY <1>1, <1>2, <1>3, <2>2 DEF RunOK
  <2> QED BY <2>1, <2>2
<1> QED BY <1>2, <1>5, <1>6

--------------------------------------------------------------------------------
(* The consumer *)

\* A growing log leaves the consumer's positions sound.
LEMMA ControlKept ==
    ASSUME LogTyped, LogTyped', LogGrows, ControlTypeOK, ControlOK, UNCHANGED controlVars
    PROVE  ControlTypeOK' /\ ControlOK'
<1>1. UNCHANGED <<consumer, position, committed, base, shown, restarts>>
  BY DEF controlVars
<1>2. \A p \in Partitions : /\ Len(log[p]) <= Len(log'[p])
                            /\ Len(log[p]) \in Nat /\ Len(log'[p]) \in Nat
                            /\ position[p] \in Nat /\ base[p] \in Nat
                            /\ committed[p] \in Nat \cup {NoOffset}
  BY DEF LogTyped, LogGrows, ControlTypeOK
<1>3. ControlTypeOK'
  BY <1>1 DEF ControlTypeOK
<1>4. ASSUME NEW p \in Partitions
      PROVE  /\ position'[p] <= Len(log'[p]) /\ base'[p] <= Len(log'[p])
             /\ committed'[p] # NoOffset => committed'[p] <= Len(log'[p])
  BY <1>1, <1>2 DEF ControlOK, NoOffset
<1>5. ASSUME NEW m \in shown  PROVE m[2] \in DOMAIN log'[m[1]]
  <2>1. m[1] \in Partitions /\ m[2] \in DOMAIN log[m[1]]
    BY DEF ControlTypeOK, ControlOK
  <2> QED BY <2>1 DEF LogGrows
<1>6. ControlOK'
  BY <1>1, <1>4, <1>5 DEF ControlOK
<1> QED BY <1>3, <1>6

LEMMA StartStep ==
    ASSUME LogTyped, ControlTypeOK, ControlOK, StartConsumer, log' = log
    PROVE  ControlTypeOK' /\ ControlOK'
<1>1. /\ consumer' = "on" /\ UNCHANGED <<committed, shown, restarts>>
      /\ \A p \in Partitions :
             /\ position'[p] = IF committed[p] = NoOffset THEN Len(log[p]) ELSE committed[p]
             /\ base'[p] = IF committed[p] = NoOffset THEN Len(log[p]) ELSE base[p]
  BY DEF StartConsumer
<1>2. \A p \in Partitions : /\ Len(log[p]) \in Nat /\ base[p] \in Nat /\ position[p] \in Nat
                            /\ committed[p] \in Nat \cup {NoOffset}
  BY DEF LogTyped, ControlTypeOK
<1>3. position' \in [Partitions -> Nat] /\ base' \in [Partitions -> Nat]
  BY <1>2 DEF StartConsumer
<1>4. ControlTypeOK'
  BY <1>1, <1>3 DEF ControlTypeOK
<1>5. ASSUME NEW p \in Partitions
      PROVE  /\ position'[p] <= Len(log'[p]) /\ base'[p] <= Len(log'[p])
             /\ committed'[p] # NoOffset =>
                    /\ base'[p] <= committed'[p] /\ committed'[p] <= Len(log'[p])
                    /\ \A i \in base'[p] + 1 .. committed'[p] : <<p, i>> \in shown'
             /\ base'[p] <= position'[p]
             /\ \A i \in base'[p] + 1 .. position'[p] : <<p, i>> \in shown'
  <2>1. CASE committed[p] = NoOffset
    BY <1>1, <1>2, <2>1
  <2>2. CASE committed[p] # NoOffset
    BY <1>1, <1>2, <2>2 DEF ControlOK
  <2> QED BY <2>1, <2>2
<1>6. ASSUME NEW m \in shown'
      PROVE  /\ m[2] \in DOMAIN log'[m[1]]
             /\ \A i \in base'[m[1]] + 1 .. m[2] : <<m[1], i>> \in shown'
  <2>1. /\ m \in shown /\ m[1] \in Partitions /\ m[2] \in Nat
        /\ m[2] \in DOMAIN log[m[1]]
        /\ \A i \in base[m[1]] + 1 .. m[2] : <<m[1], i>> \in shown
    BY <1>1 DEF ControlTypeOK, ControlOK
  <2>2. m[2] <= Len(log[m[1]])
    BY <2>1 DEF LogTyped
  <2>3. base[m[1]] <= base'[m[1]]
    BY <1>1, <1>2, <2>1 DEF ControlOK
  <2> QED BY <1>1, <1>2, <2>1, <2>2, <2>3
<1>7. ControlOK'
  BY <1>5, <1>6 DEF ControlOK
<1> QED BY <1>4, <1>7

LEMMA MessageStep ==
    ASSUME LogTyped, ControlTypeOK, ControlOK, NEW p \in Partitions, EachMessage(p), log' = log
    PROVE  ControlTypeOK' /\ ControlOK'
<1> DEFINE k == position[p] + 1
<1>1. /\ consumer = "on" /\ UNCHANGED <<consumer, committed, base, restarts>>
      /\ position[p] < Len(log[p]) /\ shown' = shown \cup {<<p, k>>}
  BY DEF EachMessage
<1>2. \A q \in Partitions : /\ Len(log[q]) \in Nat /\ base[q] \in Nat /\ position[q] \in Nat
                            /\ committed[q] \in Nat \cup {NoOffset}
                            /\ DOMAIN log[q] = 1 .. Len(log[q])
  BY DEF LogTyped, ControlTypeOK
<1>3. /\ position' \in [Partitions -> Nat] /\ position'[p] = k
      /\ \A q \in Partitions \ {p} : position'[q] = position[q]
  BY <1>2 DEF EachMessage, ControlTypeOK
<1>4. ControlTypeOK'
  BY <1>1, <1>2, <1>3 DEF ControlTypeOK
<1>5. \A i \in base[p] + 1 .. k : <<p, i>> \in shown'
  <2>1. \A i \in base[p] + 1 .. position[p] : <<p, i>> \in shown
    BY <1>1 DEF ControlOK
  <2> QED BY <1>1, <1>2, <2>1
<1>6. ASSUME NEW q \in Partitions
      PROVE  /\ position'[q] <= Len(log'[q]) /\ base'[q] <= Len(log'[q])
             /\ committed'[q] # NoOffset =>
                    /\ base'[q] <= committed'[q] /\ committed'[q] <= Len(log'[q])
                    /\ \A i \in base'[q] + 1 .. committed'[q] : <<q, i>> \in shown'
             /\ base'[q] <= position'[q]
             /\ \A i \in base'[q] + 1 .. position'[q] : <<q, i>> \in shown'
  <2>1. CASE q = p
    BY <1>1, <1>2, <1>3, <1>5, <2>1 DEF ControlOK
  <2>2. CASE q # p
    BY <1>1, <1>2, <1>3, <2>2 DEF ControlOK
  <2> QED BY <2>1, <2>2
<1>7. ASSUME NEW m \in shown'
      PROVE  /\ m[2] \in DOMAIN log'[m[1]]
             /\ \A i \in base'[m[1]] + 1 .. m[2] : <<m[1], i>> \in shown'
  <2>1. CASE m \in shown
    BY <1>1, <2>1 DEF ControlOK
  <2>2. CASE m = <<p, k>>
    BY <1>1, <1>2, <1>5, <2>2
  <2> QED BY <1>1, <2>1, <2>2
<1>8. ControlOK'
  BY <1>6, <1>7 DEF ControlOK
<1> QED BY <1>4, <1>8

LEMMA CommitStep ==
    ASSUME LogTyped, ControlTypeOK, ControlOK, NEW p \in Partitions, AutoCommit(p), log' = log
    PROVE  ControlTypeOK' /\ ControlOK'
<1>1. consumer = "on" /\ UNCHANGED <<consumer, position, base, shown, restarts>>
  BY DEF AutoCommit
<1>2. /\ committed' \in [Partitions -> Nat \cup {NoOffset}] /\ committed'[p] = position[p]
      /\ \A q \in Partitions \ {p} : committed'[q] = committed[q]
  BY DEF AutoCommit, ControlTypeOK
<1>3. ControlTypeOK'
  BY <1>1, <1>2 DEF ControlTypeOK
<1>4. ASSUME NEW q \in Partitions, committed'[q] # NoOffset
      PROVE  /\ base'[q] <= committed'[q] /\ committed'[q] <= Len(log'[q])
             /\ \A i \in base'[q] + 1 .. committed'[q] : <<q, i>> \in shown'
  BY <1>1, <1>2, <1>4 DEF ControlOK
<1>5. ControlOK'
  BY <1>1, <1>4 DEF ControlOK
<1> QED BY <1>3, <1>5

LEMMA ControlStep ==
    ASSUME LogTyped, ControlTypeOK, ControlOK, ControlNext, log' = log
    PROVE  ControlTypeOK' /\ ControlOK'
<1>1. CASE StartConsumer
  BY <1>1, StartStep
<1>2. CASE StartConsumerThrows \/ ControlPlaneDies
  <2>1. consumer' # "on" /\ consumer' \in {"off", "dead"}
        /\ UNCHANGED <<position, committed, base, shown>>
        /\ restarts' \in 0 .. MaxRestarts
    BY <1>2, RestartBound DEF StartConsumerThrows, ControlPlaneDies, ControlTypeOK
  <2> QED BY <2>1 DEF ControlTypeOK, ControlOK
<1>3. ASSUME NEW p \in Partitions, EachMessage(p)  PROVE ControlTypeOK' /\ ControlOK'
  BY <1>3, MessageStep
<1>4. ASSUME NEW p \in Partitions, AutoCommit(p)  PROVE ControlTypeOK' /\ ControlOK'
  BY <1>4, CommitStep
<1> QED BY <1>1, <1>2, <1>3, <1>4 DEF ControlNext

--------------------------------------------------------------------------------
(* Invariance *)

LEMMA InitOK == Init => IInv
<1> SUFFICES ASSUME Init PROVE IInv
  OBVIOUS
<1> USE DEF Init, SandboxInit, ControlInit, TopicInit
<1>1. log \in [Partitions -> Seq(Event)] /\ \A p \in Partitions : log[p] = << >>
  OBVIOUS
<1>2. TypeOK
  BY <1>1, RestartBound DEF TypeOK, SandboxTypeOK, ControlTypeOK
<1>3. \A r \in Runs : Announced(r) = {}
  <2>1. \A p \in Partitions : DOMAIN log[p] = {}
    BY <1>1
  <2> QED BY <2>1 DEF Announced
<1>4. \A r \in Runs : RunOK(r)
  BY <1>3 DEF RunOK
<1>5. ControlOK
  BY <1>1 DEF ControlOK
<1> QED BY <1>2, <1>4, <1>5 DEF IInv

LEMMA NextOK == IInv /\ [Next]_vars => IInv'
<1> SUFFICES ASSUME IInv, [Next]_vars PROVE IInv'
  OBVIOUS
<1>1. /\ LogTyped /\ SandboxTypeOK /\ ControlTypeOK /\ ControlOK
      /\ \A r \in Runs : RunOK(r)
  BY DEF IInv, TypeOK, LogTyped
<1>2. CASE SandboxNext /\ UNCHANGED controlVars
  <2>1. LogTyped' /\ LogGrows /\ SandboxTypeOK' /\ \A s \in Runs : RunOK(s)'
    <3>1. ASSUME NEW r \in Runs, Execute(r) \/ RunSandbox(r) \/ Program(r)
          PROVE  LogTyped' /\ LogGrows /\ SandboxTypeOK' /\ \A s \in Runs : RunOK(s)'
      <4>1. StepOK(r)
        BY <1>1, <3>1, OneRunStep
      <4>2. \A s \in Runs \ {r} : RunOK(s)'
        BY <1>1, <4>1, OthersKept DEF StepOK
      <4> QED BY <4>1, <4>2 DEF StepOK
    <3> QED BY <1>1, <1>2, <3>1, CrashStep DEF SandboxNext
  <2>2. ControlTypeOK' /\ ControlOK'
    BY <1>1, <1>2, <2>1, ControlKept
  <2> QED BY <2>1, <2>2 DEF IInv, TypeOK, LogTyped
<1>3. CASE ControlNext /\ UNCHANGED <<log, sandboxVars>>
  <2>1. ControlTypeOK' /\ ControlOK'
    BY <1>1, <1>3, ControlStep
  <2>2. UNCHANGED <<log, pc, status, container, held, printed, captured, recorded, swallowed>>
    BY <1>3 DEF sandboxVars
  <2>3. LogTyped' /\ SandboxTypeOK' /\ \A s \in Runs : RunOK(s)'
    BY <1>1, <2>2 DEF LogTyped, SandboxTypeOK, RunOK, Announced
  <2> QED BY <2>1, <2>3 DEF IInv, TypeOK, LogTyped
<1>4. CASE UNCHANGED vars
  <2>1. /\ UNCHANGED <<log, pc, status, container, held, printed, captured, recorded, swallowed>>
        /\ UNCHANGED <<consumer, position, committed, base, shown, restarts>>
    BY <1>4 DEF vars, sandboxVars, controlVars
  <2>2. TypeOK' /\ ControlOK' /\ \A s \in Runs : RunOK(s)'
    BY <2>1 DEF IInv, TypeOK, SandboxTypeOK, ControlTypeOK, ControlOK, RunOK, Announced
  <2> QED BY <2>2 DEF IInv
<1> QED BY <1>2, <1>3, <1>4 DEF Next

\* The inductive invariant holds in every reachable state of the two services.
THEOREM LifecycleInvariance == Spec => []IInv
  BY InitOK, NextOK, PTL DEF Spec

\* Types.
THEOREM LifecycleTypes == Spec => []TypeOK
<1>1. IInv => TypeOK
  BY DEF IInv
<1> QED BY <1>1, LifecycleInvariance, PTL

\* A container outlives its run for one of three reasons only (executeInSandbox's finally).
THEOREM LeftoversHaveCauses == Spec => []LeftoverHasCause
<1>1. IInv => LeftoverHasCause
  BY DEF IInv, RunOK, LeftoverHasCause, Ended
<1> QED BY <1>1, LifecycleInvariance, PTL

\* Committed offsets cover only emitted messages; a partition is emitted without gaps.
THEOREM NothingIsSkipped == Spec => []NothingSkipped
<1>1. IInv => NothingSkipped
  BY DEF IInv, ControlOK, NothingSkipped
<1> QED BY <1>1, LifecycleInvariance, PTL

\* sandbox.anomaly is emitted only for a run whose program printed a suspicious pattern.
THEOREM AlarmsAreTrue == Spec => []AlarmIsTrue
<1>1. ASSUME IInv, NEW r \in Runs, "sandbox.anomaly" \in Emitted(r)  PROVE r \in printed
  <2>1. PICK m \in shown : /\ log[m[1]][m[2]].run = r
                           /\ EventName(log[m[1]][m[2]].type) = "sandbox.anomaly"
    BY <1>1 DEF Emitted
  <2>2. /\ m[1] \in Partitions /\ m[2] \in DOMAIN log[m[1]]
        /\ log[m[1]] \in Seq(Event)
    BY <1>1 DEF IInv, ControlOK, TypeOK, ControlTypeOK
  <2>3. log[m[1]][m[2]] \in Event
    BY <2>2
  <2>4. log[m[1]][m[2]].type = "ANOMALY_DETECTED"
    BY <2>1, <2>3 DEF Event, Types, EventName
  <2>5. log[m[1]][m[2]] = [run |-> r, type |-> "ANOMALY_DETECTED"]
    BY <2>1, <2>3, <2>4 DEF Event
  <2>6. "ANOMALY_DETECTED" \in Announced(r)
    BY <2>2, <2>5 DEF Announced, Types
  <2> QED BY <1>1, <2>6 DEF IInv, RunOK
<1>2. IInv => AlarmIsTrue
  BY <1>1 DEF AlarmIsTrue
<1> QED BY <1>2, LifecycleInvariance, PTL

--------------------------------------------------------------------------------
(* Refinement of RunContract *)

\* The contract's variables move as announced, recorded and viewed do.
LEMMA ContractStutters ==
    ASSUME UNCHANGED recorded, \A s \in Runs : Announced(s)' = Announced(s),
           \A s \in Runs : Viewed(s)' = Viewed(s)
    PROVE  UNCHANGED Contract!vars
  BY DEF Contract!vars

\* What was emitted does not change when only the log grows.
LEMMA ViewedKept ==
    ASSUME ControlTypeOK, ControlOK, LogGrows, shown' = shown, NEW s \in Runs
    PROVE  Viewed(s)' = Viewed(s)
<1>1. \A m \in shown : log'[m[1]][m[2]] = log[m[1]][m[2]]
  BY DEF ControlTypeOK, ControlOK, LogGrows
<1> QED BY <1>1 DEF Viewed

\* A step of one run opens it, closes it, records it, or shows nothing.
LEMMA RunStepRefines ==
    ASSUME IInv, NEW r \in Runs, Execute(r) \/ RunSandbox(r) \/ Program(r), UNCHANGED controlVars
    PROVE  [Contract!Next]_(Contract!vars)
<1>1. LogTyped /\ SandboxTypeOK /\ ControlTypeOK /\ ControlOK /\ RunOK(r)
  BY DEF IInv, TypeOK, LogTyped
<1>2. StepOK(r)
  BY <1>1, OneRunStep
<1>3. \A s \in Runs : Viewed(s)' = Viewed(s)
  BY <1>1, <1>2, ViewedKept DEF StepOK, controlVars
<1>4. \A s \in Runs \ {r} : Announced(s)' = Announced(s)
  BY <1>2 DEF StepOK, Only
<1>5. CASE AnnounceRun(r)
  <2>1. recorded' = recorded /\ Announced(r) = {}
    BY <1>1, <1>5 DEF AnnounceRun, Goes, RunOK
  <2>2. CASE log' = log
    BY <1>1, <1>3, <2>1, <2>2, QuietLog, ContractStutters
  <2>3. CASE Publish(r, "SANDBOX_CREATED")
    <3>1. Announced(r)' = {"SANDBOX_CREATED"}
      BY <1>1, <2>1, <2>3, PublishAdds DEF Types
    <3>2. Contract!Open(r)
      BY <1>3, <1>4, <2>1, <3>1 DEF Contract!Open
    <3> QED BY <3>2 DEF Contract!Next
  <2> QED BY <1>5, <2>2, <2>3 DEF AnnounceRun, PublishThrows
<1>6. CASE AnnounceEnd(r)
  <2> DEFINE t == ClosingType(status[r])
  <2>1. recorded' = recorded /\ Announced(r) = {"SANDBOX_CREATED"}
    BY <1>1, <1>6 DEF AnnounceEnd, Goes, RunOK
  <2>2. CASE log' = log
    BY <1>1, <1>3, <2>1, <2>2, QuietLog, ContractStutters
  <2>3. CASE Publish(r, t)
    <3>1. t \in Types /\ t \in Contract!Closing
      BY DEF ClosingType, Types, Contract!Closing
    <3>2. Announced(r)' = Announced(r) \cup {t}
      BY <1>1, <2>3, <3>1, PublishAdds
    <3>3. Contract!Close(r)
      BY <1>3, <1>4, <2>1, <3>1, <3>2 DEF Contract!Close
    <3> QED BY <3>3 DEF Contract!Next
  <2> QED BY <1>6, <2>2, <2>3 DEF AnnounceEnd, PublishThrows
<1>7. CASE RecordRun(r)
  <2>1. /\ recorded[r] = "none" /\ status[r] \in Status
        /\ ClosingType(status[r]) \in Announced(r) /\ log' = log
    BY <1>1, <1>7 DEF RecordRun, Goes, RunOK
  <2>2. \A s \in Runs : Announced(s)' = Announced(s)
    BY <1>1, <2>1, QuietLog
  <2>3. CASE recorded' = recorded
    BY <1>3, <2>2, <2>3, ContractStutters
  <2>4. CASE recorded' = [recorded EXCEPT ![r] = status[r]]
    <3>1. Contract!Says(status[r]) \in Announced(r)
      BY <2>1 DEF Contract!Says, ClosingType
    <3>2. Contract!Record(r)
      BY <1>3, <2>1, <2>2, <2>4, <3>1 DEF Contract!Record, Status
    <3> QED BY <3>2 DEF Contract!Next
  <2> QED BY <1>7, <2>3, <2>4 DEF RecordRun
<1>8. CASE ~ (AnnounceRun(r) \/ AnnounceEnd(r) \/ RecordRun(r))
  <2>1. UNCHANGED <<recorded, log>>
    BY <1>8 DEF Execute, RunSandbox, Program, Connect, EnsureImage, CreateContainer, CreateFails,
                Attach, Start, DockerThrows, WaitReturns, TimerFires, Remove, RemoveFails,
                Prints, OutputArrives, Exits
  <2> QED BY <1>1, <1>3, <2>1, QuietLog, ContractStutters
<1> QED BY <1>5, <1>6, <1>7, <1>8

\* Emitting a message shows one announced event of one run.
LEMMA MessageRefines ==
    ASSUME IInv, NEW p \in Partitions, EachMessage(p), UNCHANGED <<log, sandboxVars>>
    PROVE  Contract!Next
<1>1. LogTyped /\ log[p] \in Seq(Event) /\ position[p] \in Nat
  BY DEF IInv, TypeOK, LogTyped, ControlTypeOK
<1>2. PICK k \in DOMAIN log[p] : shown' = shown \cup {<<p, k>>}
  <2>1. position[p] < Len(log[p]) /\ shown' = shown \cup {<<p, position[p] + 1>>}
    BY DEF EachMessage
  <2>2. position[p] + 1 \in DOMAIN log[p]
    BY <1>1, <2>1
  <2> QED BY <2>1, <2>2
<1>3. PICK r \in Runs, t \in Types : log[p][k] = [run |-> r, type |-> t]
  <2>1. log[p][k] \in Event
    BY <1>1, <1>2
  <2> QED BY <2>1 DEF Event
<1>4. t \in Announced(r)
  BY <1>2, <1>3 DEF Announced
<1>5. recorded' = recorded /\ log' = log /\ \A s \in Runs : Announced(s)' = Announced(s)
  BY DEF sandboxVars, Announced
<1>6. ASSUME NEW s \in Runs
      PROVE  Viewed(s)' = IF s = r THEN Viewed(s) \cup {t} ELSE Viewed(s)
  <2> DEFINE A == {n \in shown : log[n[1]][n[2]].run = s}
  <2>1. log[<<p, k>>[1]][<<p, k>>[2]].run = r /\ log[<<p, k>>[1]][<<p, k>>[2]].type = t
    BY <1>3
  <2>2. Viewed(s)' = {log[m[1]][m[2]].type :
                         m \in {n \in shown \cup {<<p, k>>} : log[n[1]][n[2]].run = s}}
    BY <1>2, <1>5 DEF Viewed
  <2>3. CASE s = r
    <3>1. Viewed(s)' = {log[m[1]][m[2]].type : m \in A \cup {<<p, k>>}}
      BY <2>1, <2>2, <2>3
    <3>2. {log[m[1]][m[2]].type : m \in A \cup {<<p, k>>}} =
          {log[m[1]][m[2]].type : m \in A} \cup {t}
      BY <2>1
    <3> QED BY <2>3, <3>1, <3>2 DEF Viewed
  <2>4. CASE s # r
    <3>1. {n \in shown \cup {<<p, k>>} : log[n[1]][n[2]].run = s} = A
      BY <2>1, <2>4
    <3> QED BY <2>2, <2>4, <3>1 DEF Viewed
  <2> QED BY <2>3, <2>4
<1>7. [s \in Runs |-> Viewed(s)'] = [[s \in Runs |-> Viewed(s)] EXCEPT ![r] = @ \cup {t}]
  BY <1>3, <1>6
<1>8. Contract!View(r)
  <2>1. t \in [s \in Runs |-> Announced(s)][r]
    BY <1>3, <1>4
  <2>2. [s \in Runs |-> Announced(s)'] = [s \in Runs |-> Announced(s)]
    BY <1>5
  <2> QED BY <1>5, <1>7, <2>1, <2>2 DEF Contract!View
<1> QED BY <1>3, <1>8 DEF Contract!Next

LEMMA InitRefines == Init => Contract!Init
<1> SUFFICES ASSUME Init PROVE Contract!Init
  OBVIOUS
<1>1. \A q \in Partitions : DOMAIN log[q] = {}
  BY DEF Init, SandboxInit, TopicInit
<1>2. \A s \in Runs : Announced(s) = {}
  BY <1>1 DEF Announced
<1>3. \A s \in Runs : Viewed(s) = {}
  BY DEF Init, ControlInit, Viewed
<1> QED BY <1>2, <1>3 DEF Init, SandboxInit, Contract!Init

LEMMA StepRefines == IInv /\ [Next]_vars => [Contract!Next]_(Contract!vars)
<1> SUFFICES ASSUME IInv, [Next]_vars PROVE [Contract!Next]_(Contract!vars)
  OBVIOUS
<1>1. LogTyped /\ ControlTypeOK /\ ControlOK
  BY DEF IInv, TypeOK, LogTyped
<1>2. ASSUME UNCHANGED <<recorded, log, shown>>  PROVE UNCHANGED Contract!vars
  BY <1>1, <1>2, QuietLog, ViewedKept, ContractStutters
<1>3. CASE SandboxNext /\ UNCHANGED controlVars
  <2>1. CASE SandboxCrashes
    BY <1>2, <1>3, <2>1 DEF SandboxCrashes, controlVars
  <2>2. ASSUME NEW r \in Runs, Execute(r) \/ RunSandbox(r) \/ Program(r)
        PROVE  [Contract!Next]_(Contract!vars)
    BY <1>3, <2>2, RunStepRefines
  <2> QED BY <1>3, <2>1, <2>2 DEF SandboxNext
<1>4. CASE ControlNext /\ UNCHANGED <<log, sandboxVars>>
  <2>1. ASSUME NEW p \in Partitions, EachMessage(p)  PROVE Contract!Next
    BY <1>4, <2>1, MessageRefines
  <2>2. CASE ~ \E p \in Partitions : EachMessage(p)
    <3>1. shown' = shown
      BY <1>4, <2>2 DEF ControlNext, StartConsumer, StartConsumerThrows, ControlPlaneDies, AutoCommit
    <3> QED BY <1>2, <1>4, <3>1 DEF sandboxVars
  <2> QED BY <2>1, <2>2
<1>5. CASE UNCHANGED vars
  BY <1>2, <1>5 DEF vars, sandboxVars, controlVars
<1> QED BY <1>3, <1>4, <1>5 DEF Next

\* The two services, joined by the topic, refine RunContract.
THEOREM LifecycleImplements == Spec => ImplementsContract
  BY InitRefines, StepRefines, LifecycleInvariance, PTL
     DEF Spec, ImplementsContract, Contract!Spec

--------------------------------------------------------------------------------
(* What follows from the contract alone *)

\* Topic, log of runs and screen tell one story of a run: it begins with its creation and
\* has one ending, which is the ending of its result and the only one an operator sees.
OneStory ==
    \A r \in Runs :
        /\ Announced(r) # {} => "SANDBOX_CREATED" \in Announced(r)
        /\ ~ (Contract!Closing \subseteq Announced(r))
        /\ Viewed(r) \subseteq Announced(r)
        /\ recorded[r] # "none" =>
               /\ Contract!Says(recorded[r]) \in Announced(r)
               /\ Viewed(r) \cap Contract!Closing \subseteq {Contract!Says(recorded[r])}

\* The part of it that RunContract keeps from step to step, on the contract's variables.
StoryOK(announced, result, viewed) ==
    \A r \in Runs :
        /\ announced[r] # {} => "SANDBOX_CREATED" \in announced[r]
        /\ ~ (Contract!Closing \subseteq announced[r])
        /\ viewed[r] \subseteq announced[r]
        /\ result[r] # "none" => Contract!Says(result[r]) \in announced[r]

LEMMA StoryStep ==
    ASSUME NEW a, NEW u, NEW v, NEW a2, NEW u2, NEW v2,
           a \in [Runs -> SUBSET Types], u \in [Runs -> Status \cup {"none"}],
           v \in [Runs -> SUBSET Types], StoryOK(a, u, v), NEW r \in Runs,
           \/ /\ a[r] = {} /\ a2 = [a EXCEPT ![r] = {"SANDBOX_CREATED"}] /\ u2 = u /\ v2 = v
           \/ /\ a[r] = {"SANDBOX_CREATED"} /\ u2 = u /\ v2 = v
              /\ \E t \in Contract!Closing : a2 = [a EXCEPT ![r] = @ \cup {t}]
           \/ /\ a2 = a /\ v2 = v
              /\ \E s \in Status : Contract!Says(s) \in a[r] /\ u2 = [u EXCEPT ![r] = s]
           \/ /\ a2 = a /\ u2 = u
              /\ \E t \in a[r] : v2 = [v EXCEPT ![r] = @ \cup {t}]
    PROVE  StoryOK(a2, u2, v2)
<1> USE DEF StoryOK, Contract!Closing, Contract!Says
<1>1. CASE a[r] = {} /\ a2 = [a EXCEPT ![r] = {"SANDBOX_CREATED"}] /\ u2 = u /\ v2 = v
  <2>1. a2[r] = {"SANDBOX_CREATED"} /\ v[r] = {} /\ u[r] = "none"
    BY <1>1
  <2>2. \A s \in Runs \ {r} : a2[s] = a[s]
    BY <1>1
  <2> QED BY <1>1, <2>1, <2>2
<1>2. ASSUME a[r] = {"SANDBOX_CREATED"}, u2 = u, v2 = v, NEW t \in Contract!Closing,
             a2 = [a EXCEPT ![r] = @ \cup {t}]
      PROVE  StoryOK(a2, u2, v2)
  <2>1. a2[r] = {"SANDBOX_CREATED", t} /\ \A s \in Runs \ {r} : a2[s] = a[s]
    BY <1>2
  <2> QED BY <1>2, <2>1
<1>3. ASSUME a2 = a, v2 = v, NEW s \in Status, Contract!Says(s) \in a[r],
             u2 = [u EXCEPT ![r] = s]
      PROVE  StoryOK(a2, u2, v2)
  BY <1>3
<1>4. ASSUME a2 = a, u2 = u, NEW t \in a[r], v2 = [v EXCEPT ![r] = @ \cup {t}]
      PROVE  StoryOK(a2, u2, v2)
  BY <1>4
<1> QED BY <1>1, <1>2, <1>3, <1>4

\* The operator's screen, the topic and the log of runs never contradict one another, for
\* any number of runs, partitions and restarts: what the contract says of its own steps
\* holds of the two services, because they implement it.
THEOREM OneStoryTold == Spec => []OneStory
<1> DEFINE a == [r \in Runs |-> Announced(r)]
           v == [r \in Runs |-> Viewed(r)]
           Story == StoryOK(a, recorded, v)
<1>1. IInv => /\ a \in [Runs -> SUBSET Types]
              /\ recorded \in [Runs -> Status \cup {"none"}]
              /\ v \in [Runs -> SUBSET Types]
  <2> SUFFICES ASSUME IInv, NEW r \in Runs PROVE Viewed(r) \subseteq Types
    BY DEF Announced, IInv, TypeOK, SandboxTypeOK
  <2>1. \A m \in shown : log[m[1]][m[2]] \in Event
    BY DEF IInv, TypeOK, ControlTypeOK, ControlOK
  <2> QED BY <2>1 DEF Viewed, Event
<1>2. Contract!Init => Story
  BY DEF Contract!Init, StoryOK, Contract!Closing
<1>3. ASSUME IInv, Story, [Contract!Next]_(Contract!vars)  PROVE Story'
  <2>1. CASE UNCHANGED Contract!vars
    BY <1>3, <2>1 DEF Contract!vars, StoryOK
  <2>2. ASSUME NEW r \in Runs,
               Contract!Open(r) \/ Contract!Close(r) \/ Contract!Record(r) \/ Contract!View(r)
        PROVE  Story'
    <3>1. \/ /\ a[r] = {} /\ a' = [a EXCEPT ![r] = {"SANDBOX_CREATED"}]
             /\ recorded' = recorded /\ v' = v
          \/ /\ a[r] = {"SANDBOX_CREATED"} /\ recorded' = recorded /\ v' = v
             /\ \E t \in Contract!Closing : a' = [a EXCEPT ![r] = @ \cup {t}]
          \/ /\ a' = a /\ v' = v
             /\ \E s \in Status : /\ Contract!Says(s) \in a[r]
                                  /\ recorded' = [recorded EXCEPT ![r] = s]
          \/ /\ a' = a /\ recorded' = recorded
             /\ \E t \in a[r] : v' = [v EXCEPT ![r] = @ \cup {t}]
      BY <2>2 DEF Contract!Open, Contract!Close, Contract!Record, Contract!View, Status
    <3>2. /\ a \in [Runs -> SUBSET Types] /\ recorded \in [Runs -> Status \cup {"none"}]
          /\ v \in [Runs -> SUBSET Types] /\ StoryOK(a, recorded, v)
      BY <1>1, <1>3
    <3>3. StoryOK(a', recorded', v')
      <4> HIDE DEF a, v
      <4> QED BY <3>1, <3>2, StoryStep
    <3> QED BY <3>3 DEF StoryOK
  <2> QED BY <1>3, <2>1, <2>2 DEF Contract!Next
<1>4. ASSUME IInv, Story  PROVE OneStory
  <2> SUFFICES ASSUME NEW r \in Runs, recorded[r] # "none"
               PROVE  Viewed(r) \cap Contract!Closing \subseteq {Contract!Says(recorded[r])}
    BY <1>4 DEF OneStory, StoryOK
  <2> QED BY <1>4 DEF StoryOK, Contract!Closing, Contract!Says
<1> HIDE DEF Story
<1> QED BY <1>2, <1>3, <1>4, LifecycleInvariance, LifecycleImplements, PTL
        DEF ImplementsContract, Contract!Spec

--------------------------------------------------------------------------------
(* Runs end.  What the service does is a loop-free path through its awaited    *)
(* calls, so the fairness of each call and of the timer carries a run to its   *)
(* end.  That the fair actions are possible where a run waits for them         *)
(* (NobodyIsStuck) is a hypothesis: tlapm has no rule for ENABLED.             *)

\* Where a run goes from an awaited call when the service lives.
After(s) ==
    CASE s = "connect"  -> {"announce", "failed"}
      [] s = "announce" -> {"image", "failed"}
      [] s = "image"    -> {"create", "failed"}
      [] s = "create"   -> {"attach", "failed"}
      [] s = "attach"   -> {"start", "remove"}
      [] s = "start"    -> {"race", "remove"}
      [] s = "race"     -> {"remove"}
      [] s = "remove"   -> {"close", "failed"}
      [] s = "close"    -> {"record", "failed"}
      [] s = "record"   -> {"replied", "failed"}

\* Each step of runSandbox follows that path.
LEMMA RunAdvances ==
    ASSUME TypeOK, NEW r \in Runs, RunSandbox(r)
    PROVE  /\ pc[r] \in InFlight /\ pc'[r] \in After(pc[r])
           /\ \A s \in Runs \ {r} : pc'[s] = pc[s]
<1>1. PICK a \in InFlight : \E b \in After(a) : Goes(r, a, b)
  BY DEF RunSandbox, Connect, AnnounceRun, EnsureImage, CreateContainer, CreateFails, Attach,
         Start, DockerThrows, WaitReturns, TimerFires, Remove, RemoveFails, AfterRemove,
         AnnounceEnd, RecordRun, InFlight, After
<1>2. PICK b \in After(a) : Goes(r, a, b)
  BY <1>1
<1>3. b \in InFlight \cup Ended
  BY DEF InFlight, Ended, After
<1> QED BY <1>2, <1>3, GoesMoves DEF TypeOK, SandboxTypeOK, PcTyped

\* Nothing else moves a run that is in flight but a crash of the service, and nothing
\* at all one that has ended.
LEMMA RunsMove ==
    ASSUME TypeOK, NEW r \in Runs, [Next]_vars
    PROVE  /\ pc[r] \in InFlight => pc'[r] \in {pc[r], "crashed"} \cup After(pc[r])
           /\ pc[r] \in Ended => pc'[r] = pc[r]
<1>0. InFlight \cap Ended = {} /\ "idle" \notin InFlight \cup Ended
  BY DEF InFlight, Ended
<1>1. CASE UNCHANGED pc
  BY <1>1
<1>2. ASSUME NEW s \in Runs, RunSandbox(s)
      PROVE  /\ pc[r] \in InFlight => pc'[r] \in {pc[r], "crashed"} \cup After(pc[r])
             /\ pc[r] \in Ended => pc'[r] = pc[r]
  BY <1>0, <1>2, RunAdvances
<1>3. ASSUME NEW s \in Runs, Execute(s)
      PROVE  /\ pc[r] \in InFlight => pc'[r] \in {pc[r], "crashed"} \cup After(pc[r])
             /\ pc[r] \in Ended => pc'[r] = pc[r]
  <2>1. pc[s] = "idle" /\ pc' = [pc EXCEPT ![s] = "connect"]
    BY <1>3 DEF Execute, Goes
  <2> QED BY <1>0, <2>1 DEF TypeOK, SandboxTypeOK
<1>4. CASE \E s \in Runs : Program(s)
  BY <1>1, <1>4 DEF Program, Prints, OutputArrives, Exits
<1>5. CASE SandboxCrashes
  BY <1>0, <1>5 DEF SandboxCrashes
<1> QED BY <1>1, <1>2, <1>3, <1>4, <1>5 DEF Next, SandboxNext, vars, sandboxVars

Live(r) == []TypeOK /\ []NobodyIsStuck /\ [][Next]_vars /\ FairCalls(r) /\ FairTimer(r)

\* A run that is at s leaves it: by the outcome of the call, or with the service.
Leaves(r, s) == pc[r] = s ~> pc[r] \in {"crashed"} \cup After(s)

\* An awaited call ends.
LEMMA CallEnds ==
    ASSUME NEW r \in Runs, NEW s \in InFlight \ {"race"}
    PROVE  Live(r) => Leaves(r, s)
<1>0. s \notin {"crashed"} \cup After(s)
  BY DEF InFlight, After
<1>1. TypeOK /\ pc[r] = s /\ [Next]_vars => (pc[r] = s)' \/ (pc[r] \in {"crashed"} \cup After(s))'
  BY RunsMove
<1>2. TypeOK /\ pc[r] = s /\ <<Answers(r)>>_vars => (pc[r] \in {"crashed"} \cup After(s))'
  BY RunAdvances DEF Answers
<1>3. NobodyIsStuck /\ pc[r] = s => ENABLED <<Answers(r)>>_vars
  BY DEF NobodyIsStuck
<1> QED BY <1>1, <1>2, <1>3, PTL DEF Live, Leaves, FairCalls

\* A run in the race leaves it, whatever its program does.
LEMMA RaceEnds ==
    ASSUME NEW r \in Runs
    PROVE  Live(r) => Leaves(r, "race")
<1>1. TypeOK /\ pc[r] = "race" /\ [Next]_vars
        => (pc[r] = "race")' \/ (pc[r] \in {"crashed"} \cup After("race"))'
  BY RunsMove DEF InFlight
<1>2. TypeOK /\ pc[r] = "race" /\ <<TimesOut(r)>>_vars
        => (pc[r] \in {"crashed"} \cup After("race"))'
  BY RunAdvances DEF TimesOut, RunSandbox
<1>3. NobodyIsStuck /\ pc[r] = "race" => ENABLED <<TimesOut(r)>>_vars
  BY DEF NobodyIsStuck
<1> QED BY <1>1, <1>2, <1>3, PTL DEF Live, Leaves, FairTimer

\* A run that is over has left no program running, but for the two reasons RunsEnd names.
LEMMA OverIsOver ==
    ASSUME IInv, NEW r \in Runs, pc[r] \in Ended
    PROVE  container[r] # "running" \/ r \in swallowed \/ pc[r] = "crashed"
<1>1. container[r] = "running" => container[r] \in Existing /\ r \in held
  BY DEF IInv, RunOK, Existing
<1> QED BY <1>1 DEF IInv, RunOK, Ended

\* One run, from any of its calls to its end.
LEMMA OneRunEnds ==
    ASSUME NEW r \in Runs
    PROVE  Live(r) => (pc[r] \in InFlight ~> pc[r] \in Ended)
<1>1. Live(r) => (pc[r] = "record" ~> pc[r] \in Ended)
  <2>1. pc[r] \in {"crashed"} \cup After("record") => pc[r] \in Ended  BY DEF After, Ended
  <2>2. "record" \in InFlight \ {"race"}  BY DEF InFlight
  <2>3. Live(r) => Leaves(r, "record")
    BY <2>2, CallEnds
  <2> QED BY <2>1, <2>3, PTL DEF Leaves
<1>2. Live(r) => (pc[r] = "close" ~> pc[r] \in Ended)
  <2>1. pc[r] \in {"crashed"} \cup After("close") => pc[r] = "record" \/ pc[r] \in Ended
    BY DEF After, Ended
  <2>2. "close" \in InFlight \ {"race"}  BY DEF InFlight
  <2>3. Live(r) => Leaves(r, "close")
    BY <2>2, CallEnds
  <2> QED BY <1>1, <2>1, <2>3, PTL DEF Leaves
<1>3. Live(r) => (pc[r] = "remove" ~> pc[r] \in Ended)
  <2>1. pc[r] \in {"crashed"} \cup After("remove") => pc[r] = "close" \/ pc[r] \in Ended
    BY DEF After, Ended
  <2>2. "remove" \in InFlight \ {"race"}  BY DEF InFlight
  <2>3. Live(r) => Leaves(r, "remove")
    BY <2>2, CallEnds
  <2> QED BY <1>2, <2>1, <2>3, PTL DEF Leaves
<1>4. Live(r) => (pc[r] = "race" ~> pc[r] \in Ended)
  <2>1. pc[r] \in {"crashed"} \cup After("race") => pc[r] = "remove" \/ pc[r] \in Ended
    BY DEF After, Ended
  <2>3. Live(r) => Leaves(r, "race")  BY RaceEnds
  <2> QED BY <1>3, <2>1, <2>3, PTL DEF Leaves
<1>5. Live(r) => (pc[r] = "start" ~> pc[r] \in Ended)
  <2>1. pc[r] \in {"crashed"} \cup After("start")
          => pc[r] = "race" \/ pc[r] = "remove" \/ pc[r] \in Ended
    BY DEF After, Ended
  <2>2. "start" \in InFlight \ {"race"}  BY DEF InFlight
  <2>3. Live(r) => Leaves(r, "start")
    BY <2>2, CallEnds
  <2> QED BY <1>3, <1>4, <2>1, <2>3, PTL DEF Leaves
<1>6. Live(r) => (pc[r] = "attach" ~> pc[r] \in Ended)
  <2>1. pc[r] \in {"crashed"} \cup After("attach")
          => pc[r] = "start" \/ pc[r] = "remove" \/ pc[r] \in Ended
    BY DEF After, Ended
  <2>2. "attach" \in InFlight \ {"race"}  BY DEF InFlight
  <2>3. Live(r) => Leaves(r, "attach")
    BY <2>2, CallEnds
  <2> QED BY <1>3, <1>5, <2>1, <2>3, PTL DEF Leaves
<1>7. Live(r) => (pc[r] = "create" ~> pc[r] \in Ended)
  <2>1. pc[r] \in {"crashed"} \cup After("create") => pc[r] = "attach" \/ pc[r] \in Ended
    BY DEF After, Ended
  <2>2. "create" \in InFlight \ {"race"}  BY DEF InFlight
  <2>3. Live(r) => Leaves(r, "create")
    BY <2>2, CallEnds
  <2> QED BY <1>6, <2>1, <2>3, PTL DEF Leaves
<1>8. Live(r) => (pc[r] = "image" ~> pc[r] \in Ended)
  <2>1. pc[r] \in {"crashed"} \cup After("image") => pc[r] = "create" \/ pc[r] \in Ended
    BY DEF After, Ended
  <2>2. "image" \in InFlight \ {"race"}  BY DEF InFlight
  <2>3. Live(r) => Leaves(r, "image")
    BY <2>2, CallEnds
  <2> QED BY <1>7, <2>1, <2>3, PTL DEF Leaves
<1>9. Live(r) => (pc[r] = "announce" ~> pc[r] \in Ended)
  <2>1. pc[r] \in {"crashed"} \cup After("announce") => pc[r] = "image" \/ pc[r] \in Ended
    BY DEF After, Ended
  <2>2. "announce" \in InFlight \ {"race"}  BY DEF InFlight
  <2>3. Live(r) => Leaves(r, "announce")
    BY <2>2, CallEnds
  <2> QED BY <1>8, <2>1, <2>3, PTL DEF Leaves
<1>10. Live(r) => (pc[r] = "connect" ~> pc[r] \in Ended)
  <2>1. pc[r] \in {"crashed"} \cup After("connect") => pc[r] = "announce" \/ pc[r] \in Ended
    BY DEF After, Ended
  <2>2. "connect" \in InFlight \ {"race"}  BY DEF InFlight
  <2>3. Live(r) => Leaves(r, "connect")
    BY <2>2, CallEnds
  <2> QED BY <1>9, <2>1, <2>3, PTL DEF Leaves
<1>11. pc[r] \in InFlight
         => \/ pc[r] = "connect" \/ pc[r] = "announce" \/ pc[r] = "image" \/ pc[r] = "create"
            \/ pc[r] = "attach" \/ pc[r] = "start" \/ pc[r] = "race" \/ pc[r] = "remove"
            \/ pc[r] = "close" \/ pc[r] = "record"
  BY DEF InFlight
<1> QED BY <1>1, <1>2, <1>3, <1>4, <1>5, <1>6, <1>7, <1>8, <1>9, <1>10, <1>11, PTL

\* Under the fairness of the calls and of the timer every run that was started ends, and
\* with it the program it started, for any number of runs at the same time.
THEOREM RunsDoEnd == FairSpec /\ []NobodyIsStuck => RunsEnd
<1>1. ASSUME NEW r \in Runs
      PROVE  FairSpec /\ []NobodyIsStuck
               => (pc[r] \in InFlight ~>
                      /\ pc[r] \in Ended
                      /\ container[r] # "running" \/ r \in swallowed \/ pc[r] = "crashed")
  <2>1. Fairness => FairCalls(r) /\ FairTimer(r)
    BY DEF Fairness
  <2>2. IInv => TypeOK
    BY DEF IInv
  <2>3. IInv /\ pc[r] \in Ended
          => container[r] # "running" \/ r \in swallowed \/ pc[r] = "crashed"
    BY OverIsOver
  <2>4. Live(r) => (pc[r] \in InFlight ~> pc[r] \in Ended)
    BY OneRunEnds
  <2> QED BY <2>1, <2>2, <2>3, <2>4, LifecycleInvariance, PTL DEF FairSpec, Spec, Live
<1> QED BY <1>1 DEF RunsEnd

--------------------------------------------------------------------------------
(* The consumer's progress. *)

\* Every step leaves what is in the log in its place.
LEMMA LogKept ==
    ASSUME IInv, [Next]_vars
    PROVE  LogGrows
<1>1. LogTyped /\ SandboxTypeOK /\ \A r \in Runs : RunOK(r)
  BY DEF IInv, TypeOK, LogTyped
<1>2. CASE log' = log
  BY <1>1, <1>2, QuietLog
<1>3. ASSUME NEW r \in Runs, Execute(r) \/ RunSandbox(r) \/ Program(r)  PROVE LogGrows
  BY <1>1, <1>3, OneRunStep DEF StepOK
<1>4. CASE SandboxCrashes
  BY <1>1, <1>4, CrashStep
<1> QED BY <1>2, <1>3, <1>4 DEF Next, SandboxNext, vars

\* While the consumer is up its positions move past one message at a time, and it emits
\* every message it moves past.
LEMMA ConsumerAdvances ==
    ASSUME IInv, [Next]_vars, consumer = "on", consumer' = "on", NEW p \in Partitions
    PROVE  /\ shown \subseteq shown'
           /\ \/ position'[p] = position[p]
              \/ /\ position'[p] = position[p] + 1
                 /\ <<p, position[p] + 1>> \in shown'
<1>1. CASE UNCHANGED <<position, shown>>
  BY <1>1
<1>2. CASE \E q \in Partitions : EachMessage(q)
  BY <1>2 DEF EachMessage, IInv, TypeOK, ControlTypeOK
<1>3. CASE StartConsumer \/ StartConsumerThrows \/ ControlPlaneDies
  BY <1>3 DEF StartConsumer, StartConsumerThrows, ControlPlaneDies
<1>4. CASE \E q \in Partitions : AutoCommit(q)
  BY <1>1, <1>4 DEF AutoCommit
<1> QED BY <1>1, <1>2, <1>3, <1>4 DEF Next, ControlNext, vars, controlVars

\* The safety half of AlarmRings: an alarm that waits behind the consumer's position stays
\* there until it is emitted, as long as the consumer is up.
AlarmsWait ==
    [][\A r \in Runs : consumer = "on" /\ consumer' = "on" /\ Pending(r, "ANOMALY_DETECTED")
         => Pending(r, "ANOMALY_DETECTED")' \/ "sandbox.anomaly" \in Emitted(r)']_vars

\* No alarm in the topic is dropped by a consumer that stays up, whatever is published,
\* committed or executed meanwhile.
THEOREM AlarmsKept == Spec => AlarmsWait
<1> DEFINE Kept == \A r \in Runs :
               consumer = "on" /\ consumer' = "on" /\ Pending(r, "ANOMALY_DETECTED")
                 => Pending(r, "ANOMALY_DETECTED")' \/ "sandbox.anomaly" \in Emitted(r)'
<1>1. ASSUME IInv, [Next]_vars, NEW r \in Runs, consumer = "on", consumer' = "on",
             Pending(r, "ANOMALY_DETECTED")
      PROVE  Pending(r, "ANOMALY_DETECTED")' \/ "sandbox.anomaly" \in Emitted(r)'
  <2> DEFINE Alarm == [run |-> r, type |-> "ANOMALY_DETECTED"]
  <2>1. PICK p \in Partitions : \E i \in DOMAIN log[p] : i > position[p] /\ log[p][i] = Alarm
    BY <1>1 DEF Pending
  <2>2. PICK i \in DOMAIN log[p] : i > position[p] /\ log[p][i] = Alarm
    BY <2>1
  <2>3. i \in DOMAIN log'[p] /\ log'[p][i] = Alarm
    BY <1>1, <2>2, LogKept DEF LogGrows
  <2>4. /\ position[p] \in Nat /\ i \in Nat
        /\ \/ position'[p] = position[p]
           \/ position'[p] = position[p] + 1 /\ <<p, position[p] + 1>> \in shown'
    BY <1>1, <2>2, ConsumerAdvances DEF IInv, TypeOK, ControlTypeOK
  <2>5. CASE i > position'[p]
    BY <2>3, <2>5 DEF Pending
  <2>6. CASE ~(i > position'[p])
    <3>1. <<p, i>> \in shown'
      BY <2>2, <2>4, <2>6
    <3>2. "sandbox.anomaly" = EventName(log'[p][i].type) /\ log'[p][i].run = r
      BY <2>3 DEF EventName
    <3> QED BY <3>1, <3>2 DEF Emitted
  <2> QED BY <2>5, <2>6
<1>2. IInv /\ [Next]_vars => [Kept]_vars
  BY <1>1
<1> QED BY <1>2, LifecycleInvariance, PTL DEF Spec, AlarmsWait, Kept

\* The consumer stands at position n of p with another message to take.
Behind(p, n) == consumer = "on" /\ position[p] = n /\ n < Len(log[p])

\* A consumer with something to read takes the next message of every partition, whatever
\* else it reads or commits and however long the topic grows.
THEOREM NextMessageIsTaken ==
    ASSUME NEW p \in Partitions, NEW n \in Nat
    PROVE  FairSpec /\ []NobodyIsStuck
             => (Behind(p, n) ~> consumer # "on" \/ position[p] = n + 1)
<1>1. IInv /\ Behind(p, n) /\ [Next]_vars
        => Behind(p, n)' \/ (consumer # "on" \/ position[p] = n + 1)'
  <2> SUFFICES ASSUME IInv, Behind(p, n), [Next]_vars, consumer' = "on", position'[p] # n + 1
               PROVE  Behind(p, n)'
    OBVIOUS
  <2>1. position'[p] = n
    BY ConsumerAdvances DEF Behind
  <2>2. Len(log[p]) \in Nat /\ Len(log'[p]) \in Nat /\ Len(log[p]) <= Len(log'[p])
    <3>1. IInv'  BY NextOK
    <3> QED BY <3>1, LogKept DEF LogGrows, IInv, TypeOK
  <2> QED BY <2>1, <2>2 DEF Behind
<1>2. IInv /\ Behind(p, n) /\ <<Fetches(p)>>_vars => (consumer # "on" \/ position[p] = n + 1)'
  BY DEF Behind, Fetches, EachMessage, IInv, TypeOK, ControlTypeOK
<1>3. NobodyIsStuck /\ Behind(p, n) => ENABLED <<Fetches(p)>>_vars
  BY DEF NobodyIsStuck, Behind
<1>4. Fairness => FairFetching(p)
  BY DEF Fairness
<1> QED BY <1>1, <1>2, <1>3, <1>4, LifecycleInvariance, PTL DEF FairSpec, Spec, FairFetching

(* The log is finite: every event of a run is in it once at most.              *)
Distinct ==
    \A p, q \in Partitions : \A i \in DOMAIN log[p], j \in DOMAIN log[q] :
        log[p][i] = log[q][j] => p = q /\ i = j

\* A run publishes only what was not announced for it yet.
LEMMA PublishesAreNew ==
    ASSUME IInv, [Next]_vars
    PROVE  \/ log' = log
           \/ \E r \in Runs, t \in Types : t \notin Announced(r) /\ Publish(r, t)
<1>1. ASSUME NEW r \in Runs, AnnounceRun(r)
      PROVE  \/ log' = log
             \/ "SANDBOX_CREATED" \notin Announced(r) /\ Publish(r, "SANDBOX_CREATED")
  <2>1. Announced(r) = {}
    BY <1>1 DEF AnnounceRun, Goes, IInv, RunOK
  <2> QED BY <1>1, <2>1 DEF AnnounceRun, PublishThrows
<1>2. ASSUME NEW r \in Runs, AnnounceEnd(r)
      PROVE  \/ log' = log
             \/ ClosingType(status[r]) \notin Announced(r) /\ Publish(r, ClosingType(status[r]))
  <2>1. Announced(r) = {"SANDBOX_CREATED"}
    BY <1>2 DEF AnnounceEnd, Goes, IInv, RunOK
  <2>2. ClosingType(status[r]) # "SANDBOX_CREATED"
    BY DEF ClosingType
  <2> QED BY <1>2, <2>1, <2>2 DEF AnnounceEnd, PublishThrows
<1>3. ASSUME NEW r \in Runs, Execute(r) \/ RunSandbox(r) \/ Program(r),
             ~AnnounceRun(r), ~AnnounceEnd(r)
      PROVE  log' = log
  BY <1>3 DEF Execute, RunSandbox, Program, Connect, EnsureImage, CreateContainer, CreateFails,
     Attach, Start, DockerThrows, WaitReturns, TimerFires, Remove, RemoveFails, RecordRun,
     Prints, OutputArrives, Exits
<1>4. \A r \in Runs : ClosingType(status[r]) \in Types /\ "SANDBOX_CREATED" \in Types
  BY DEF ClosingType, Types
<1> QED BY <1>1, <1>2, <1>3, <1>4 DEF Next, SandboxNext, SandboxCrashes, vars

LEMMA DistinctStays ==
    ASSUME IInv, Distinct, [Next]_vars
    PROVE  Distinct'
<1>1. CASE log' = log
  BY <1>1 DEF Distinct
<1>2. ASSUME NEW r \in Runs, NEW t \in Types, t \notin Announced(r), Publish(r, t)
      PROVE  Distinct'
  <2> DEFINE e == [run |-> r, type |-> t]
  <2>1. PICK p \in Partitions : log' = [log EXCEPT ![p] = Append(@, e)]
    BY <1>2 DEF Publish
  <2>2. \A q \in Partitions : log[q] \in Seq(Event)
    BY DEF IInv, TypeOK
  <2>3. \A q \in Partitions \ {p} : log'[q] = log[q]
    BY <2>1 DEF IInv, TypeOK
  <2>4. /\ DOMAIN log'[p] = DOMAIN log[p] \cup {Len(log[p]) + 1}
        /\ Len(log[p]) + 1 \notin DOMAIN log[p]
        /\ \A i \in DOMAIN log[p] : log'[p][i] = log[p][i]
        /\ log'[p][Len(log[p]) + 1] = e
    <3>1. e \in Event
      BY DEF Event
    <3>2. log'[p] = Append(log[p], e)
      BY <2>1 DEF IInv, TypeOK
    <3> QED BY <2>2, <3>1, <3>2
  <2>5. \A q \in Partitions : \A i \in DOMAIN log[q] : log[q][i] # e
    BY <1>2 DEF Announced
  <2> HIDE DEF e
  <2> QED BY <2>3, <2>4, <2>5 DEF Distinct
<1> QED BY <1>1, <1>2, PublishesAreNew

\* No event is in the topic twice, in any partition.
THEOREM EventsAreUnique == Spec => []Distinct
<1>1. Init => Distinct
  BY DEF Init, SandboxInit, TopicInit, Distinct
<1> QED BY <1>1, DistinctStays, LifecycleInvariance, PTL DEF Spec

LEMMA LogIsShort ==
    ASSUME IInv, Distinct, IsFiniteSet(Runs), NEW p \in Partitions
    PROVE  Len(log[p]) <= 3 * Cardinality(Runs)
<1>1. log[p] \in Seq(Event) /\ Len(log[p]) \in Nat /\ DOMAIN log[p] = 1 .. Len(log[p])
  BY DEF IInv, TypeOK
<1> DEFINE place == [i \in 1 .. Len(log[p]) |-> <<log[p][i].run, log[p][i].type>>]
<1>2. \A i \in 1 .. Len(log[p]) : log[p][i] \in Event
  BY <1>1
<1>3. place \in [1 .. Len(log[p]) -> Runs \X Types]
  BY <1>2 DEF Event
<1>4. \A i, j \in 1 .. Len(log[p]) : place[i] = place[j] => i = j
  <2> SUFFICES ASSUME NEW i \in 1 .. Len(log[p]), NEW j \in 1 .. Len(log[p]), place[i] = place[j]
               PROVE  i = j
    OBVIOUS
  <2>1. log[p][i].run = log[p][j].run /\ log[p][i].type = log[p][j].type
    OBVIOUS
  <2>2. log[p][i] = log[p][j]
    BY <1>2, <2>1 DEF Event
  <2> QED BY <1>1, <2>2 DEF Distinct
<1>5. ExistsInjection(1 .. Len(log[p]), Runs \X Types)
  BY <1>3, <1>4 DEF ExistsInjection, Injection, IsInjective
<1>6. IsFiniteSet(Types) /\ Cardinality(Types) = 3
  <2> DEFINE one == {"SANDBOX_CREATED"}
             two == one \cup {"SANDBOX_DESTROYED"}
  <2>1. IsFiniteSet(one) /\ Cardinality(one) = 1 /\ "SANDBOX_DESTROYED" \notin one
    BY FS_Singleton
  <2>2. "ANOMALY_DETECTED" \notin two /\ Types = two \cup {"ANOMALY_DETECTED"}
    BY DEF Types
  <2>3. IsFiniteSet(two) /\ Cardinality(two) = 2
    <3> HIDE DEF one
    <3>1. Cardinality(two) = Cardinality(one) + 1 /\ IsFiniteSet(two)
      BY <2>1, FS_AddElement
    <3> QED BY <2>1, <3>1
  <2> HIDE DEF two
  <2>4. IsFiniteSet(Types) /\ Cardinality(Types) = Cardinality(two) + 1
    BY <2>2, <2>3, FS_AddElement
  <2> QED BY <2>3, <2>4
<1>7. /\ IsFiniteSet(Runs \X Types)
      /\ Cardinality(Runs \X Types) = Cardinality(Runs) * Cardinality(Types)
  BY <1>6, FS_Product
<1>8. Cardinality(1 .. Len(log[p])) <= Cardinality(Runs \X Types)
  BY <1>7, FS_Injection, <1>5 DEF ExistsInjection
<1>9. Cardinality(1 .. Len(log[p])) = Len(log[p])
  <2>1. 1 \in Int /\ Len(log[p]) \in Int /\ Len(log[p]) >= 0
    BY <1>1
  <2>2. Cardinality(1 .. Len(log[p])) = IF 1 > Len(log[p]) THEN 0 ELSE Len(log[p]) - 1 + 1
    BY <2>1, FS_Interval
  <2> QED BY <2>1, <2>2
<1>10. Cardinality(Runs) \in Nat
  BY FS_CardinalityType
<1> QED BY <1>6, <1>7, <1>8, <1>9, <1>10

--------------------------------------------------------------------------------
(* AlarmRings.  The consumer comes to an alarm message by message, which would *)
(* be an induction over temporal formulas; as no prover here can do one, it is *)
(* replaced by doubling the distance, up to more messages than a topic gets.   *)

\* An alarm of run r is among the next d messages the consumer will take from p.
AlarmWithin(r, p, d) ==
    /\ consumer = "on"
    /\ \E i \in DOMAIN log[p] :
           /\ position[p] < i /\ i <= position[p] + d
           /\ log[p][i] = [run |-> r, type |-> "ANOMALY_DETECTED"]

Rung(r) == consumer # "on" \/ "sandbox.anomaly" \in Emitted(r)

Rings(r, p, d) == AlarmWithin(r, p, d) ~> Rung(r)

LEMMA AlarmComes ==
    ASSUME IInv, [Next]_vars, NEW r \in Runs, NEW p \in Partitions, NEW d \in Nat,
           AlarmWithin(r, p, d + 1)
    PROVE  /\ AlarmWithin(r, p, d + 1)' \/ Rung(r)'
           /\ position'[p] # position[p] => AlarmWithin(r, p, d)' \/ Rung(r)'
<1> DEFINE alarm == [run |-> r, type |-> "ANOMALY_DETECTED"]
<1> SUFFICES ASSUME consumer' = "on"
             PROVE  /\ AlarmWithin(r, p, d + 1)' \/ Rung(r)'
                    /\ position'[p] # position[p] => AlarmWithin(r, p, d)' \/ Rung(r)'
  BY DEF Rung
<1>1. PICK i \in DOMAIN log[p] : /\ position[p] < i /\ i <= position[p] + (d + 1)
                                 /\ log[p][i] = alarm
  BY DEF AlarmWithin
<1>2. i \in DOMAIN log'[p] /\ log'[p][i] = alarm
  BY <1>1, LogKept DEF LogGrows
<1>3. position[p] \in Nat /\ i \in Nat
  BY <1>1 DEF IInv, TypeOK, ControlTypeOK
<1>4. \/ position'[p] = position[p]
      \/ position'[p] = position[p] + 1 /\ <<p, position[p] + 1>> \in shown'
  BY ConsumerAdvances DEF AlarmWithin
<1>5. CASE position'[p] = position[p]
  BY <1>1, <1>2, <1>5 DEF AlarmWithin
<1>6. CASE position'[p] = position[p] + 1 /\ i > position[p] + 1
  <2>1. position'[p] < i /\ i <= position'[p] + d /\ i <= position'[p] + (d + 1)
    BY <1>1, <1>3, <1>6
  <2> QED BY <1>2, <2>1 DEF AlarmWithin
<1>7. CASE i = position[p] + 1 /\ <<p, position[p] + 1>> \in shown'
  <2>1. EventName(log'[p][i].type) = "sandbox.anomaly" /\ log'[p][i].run = r
    BY <1>2 DEF EventName
  <2>2. "sandbox.anomaly" \in Emitted(r)'
    BY <1>7, <2>1 DEF Emitted
  <2> QED BY <2>2 DEF Rung
<1> QED BY <1>1, <1>3, <1>4, <1>5, <1>6, <1>7

\* An alarm comes one message nearer, over and over, whatever is published meanwhile.
THEOREM AlarmsComeUp ==
    ASSUME NEW r \in Runs, NEW p \in Partitions, NEW d \in Nat
    PROVE  FairSpec /\ []NobodyIsStuck => (Rings(r, p, d) => Rings(r, p, d + 1))
<1>1. IInv /\ AlarmWithin(r, p, d + 1) /\ [Next]_vars => AlarmWithin(r, p, d + 1)' \/ Rung(r)'
  BY AlarmComes
<1>2. IInv /\ AlarmWithin(r, p, d + 1) /\ <<Fetches(p)>>_vars => AlarmWithin(r, p, d)' \/ Rung(r)'
  <2> SUFFICES ASSUME IInv, AlarmWithin(r, p, d + 1), Fetches(p)
               PROVE  AlarmWithin(r, p, d)' \/ Rung(r)'
    OBVIOUS
  <2>1. [Next]_vars
    BY DEF Fetches, Next, ControlNext
  <2>2. position'[p] # position[p]
    BY DEF Fetches, EachMessage, IInv, TypeOK, ControlTypeOK
  <2> QED BY <2>1, <2>2, AlarmComes
<1>3. IInv /\ NobodyIsStuck /\ AlarmWithin(r, p, d + 1) => ENABLED <<Fetches(p)>>_vars
  <2> SUFFICES ASSUME IInv, AlarmWithin(r, p, d + 1)
               PROVE  consumer = "on" /\ position[p] < Len(log[p])
    BY DEF NobodyIsStuck
  <2>1. log[p] \in Seq(Event) /\ position[p] \in Nat
    BY DEF IInv, TypeOK, ControlTypeOK
  <2> QED BY <2>1 DEF AlarmWithin
<1>4. Fairness => FairFetching(p)
  BY DEF Fairness
<1> QED BY <1>1, <1>2, <1>3, <1>4, LifecycleInvariance, PTL DEF FairSpec, Spec, FairFetching, Rings

RingsFurther(r, p, s) == \A d \in Nat : Rings(r, p, d) => Rings(r, p, d + s)

LEMMA Twofold ==
    ASSUME NEW r, NEW p, NEW s \in Nat
    PROVE  RingsFurther(r, p, s) => RingsFurther(r, p, 2 * s)
<1> SUFFICES ASSUME RingsFurther(r, p, s), NEW d \in Nat, Rings(r, p, d)
             PROVE  Rings(r, p, d + 2 * s)
  BY DEF RingsFurther
<1>1. d + s \in Nat /\ (d + s) + s = d + 2 * s
  OBVIOUS
<1>2. Rings(r, p, d + s)
  BY DEF RingsFurther
<1>3. Rings(r, p, (d + s) + s)
  BY <1>1, <1>2 DEF RingsFurther
<1> QED BY <1>1, <1>3

LEMMA ThirtyTwofold ==
    ASSUME NEW r, NEW p, NEW s \in Nat
    PROVE  RingsFurther(r, p, s) => RingsFurther(r, p, 32 * s)
<1> SUFFICES ASSUME RingsFurther(r, p, s) PROVE RingsFurther(r, p, 32 * s)
  OBVIOUS
<1>1. /\ 2 * s \in Nat /\ 2 * (2 * s) = 4 * s /\ 4 * s \in Nat /\ 2 * (4 * s) = 8 * s
      /\ 8 * s \in Nat /\ 2 * (8 * s) = 16 * s /\ 16 * s \in Nat /\ 2 * (16 * s) = 32 * s
  OBVIOUS
<1>2. RingsFurther(r, p, 2 * s)   BY Twofold
<1>3. RingsFurther(r, p, 4 * s)   BY <1>1, <1>2, Twofold
<1>4. RingsFurther(r, p, 8 * s)   BY <1>1, <1>3, Twofold
<1>5. RingsFurther(r, p, 16 * s)  BY <1>1, <1>4, Twofold
<1> QED BY <1>1, <1>5, Twofold

\* Eight years of an execution every second are less than 2^28 runs, and a run publishes
\* three messages at most.
MostRuns == 268435456
MostMessages == 32 * (32 * (32 * (32 * (32 * (32 * 1)))))

LEMMA FarEnough ==
    ASSUME NEW r, NEW p
    PROVE  Rings(r, p, 0) /\ RingsFurther(r, p, 1) => Rings(r, p, MostMessages)
<1>1. RingsFurther(r, p, 1) => RingsFurther(r, p, 32 * 1)
  BY ThirtyTwofold
<1>2. RingsFurther(r, p, 32 * 1) => RingsFurther(r, p, 32 * (32 * 1))
  BY ThirtyTwofold
<1>3. RingsFurther(r, p, 32 * (32 * 1)) => RingsFurther(r, p, 32 * (32 * (32 * 1)))
  BY ThirtyTwofold
<1>4. RingsFurther(r, p, 32 * (32 * (32 * 1))) => RingsFurther(r, p, 32 * (32 * (32 * (32 * 1))))
  BY ThirtyTwofold
<1>5. RingsFurther(r, p, 32 * (32 * (32 * (32 * 1))))
        => RingsFurther(r, p, 32 * (32 * (32 * (32 * (32 * 1)))))
  BY ThirtyTwofold
<1>6. RingsFurther(r, p, 32 * (32 * (32 * (32 * (32 * 1))))) => RingsFurther(r, p, MostMessages)
  BY ThirtyTwofold DEF MostMessages
<1>7. 0 + MostMessages = MostMessages
  BY SMT DEF MostMessages
<1>8. RingsFurther(r, p, 1) => RingsFurther(r, p, MostMessages)
  BY <1>1, <1>2, <1>3, <1>4, <1>5, <1>6
<1> QED BY <1>7, <1>8 DEF RingsFurther

\* An alarm in the topic reaches the operator's screen while the consumer stays up: in
\* whatever order the three partitions (kafka/topics.ts) are read, and however many
\* messages of other runs stand before it.
THEOREM AlarmsDoRing ==
    ASSUME IsFiniteSet(Runs), Cardinality(Runs) <= MostRuns,
           NEW p1 \in Partitions, NEW p2 \in Partitions, NEW p3 \in Partitions,
           Partitions = {p1, p2, p3}
    PROVE  FairSpec /\ []NobodyIsStuck => AlarmRings
<1>1. ASSUME NEW r \in Runs
      PROVE  FairSpec /\ []NobodyIsStuck
               => (consumer = "on" /\ Pending(r, "ANOMALY_DETECTED")
                     ~> consumer # "on" \/ "sandbox.anomaly" \in Emitted(r))
  <2>1. ASSUME NEW p \in Partitions
        PROVE  FairSpec /\ []NobodyIsStuck => Rings(r, p, MostMessages)
    <3>1. FairSpec /\ []NobodyIsStuck => RingsFurther(r, p, 1)
      BY AlarmsComeUp DEF RingsFurther
    <3>2. IInv => ~AlarmWithin(r, p, 0)
      <4> SUFFICES ASSUME IInv, NEW i \in DOMAIN log[p] PROVE ~(position[p] < i /\ i <= position[p] + 0)
        BY DEF AlarmWithin
      <4>1. log[p] \in Seq(Event) /\ position[p] \in Nat
        BY DEF IInv, TypeOK, ControlTypeOK
      <4> QED BY <4>1
    <3>3. FairSpec => Rings(r, p, 0)
      BY <3>2, LifecycleInvariance, PTL DEF FairSpec, Rings
    <3> QED BY <3>1, <3>3, FarEnough
  <2>2. IInv /\ Distinct /\ consumer = "on" /\ Pending(r, "ANOMALY_DETECTED")
          => \/ AlarmWithin(r, p1, MostMessages) \/ AlarmWithin(r, p2, MostMessages)
             \/ AlarmWithin(r, p3, MostMessages)
    <3> SUFFICES ASSUME IInv, Distinct, consumer = "on", Pending(r, "ANOMALY_DETECTED")
                 PROVE  \E p \in Partitions : AlarmWithin(r, p, MostMessages)
      OBVIOUS
    <3>1. PICK p \in Partitions : \E i \in DOMAIN log[p] :
            i > position[p] /\ log[p][i] = [run |-> r, type |-> "ANOMALY_DETECTED"]
      BY DEF Pending
    <3>2. log[p] \in Seq(Event) /\ position[p] \in Nat /\ Len(log[p]) \in Nat
      BY DEF IInv, TypeOK, ControlTypeOK
    <3>3. Len(log[p]) <= 3 * Cardinality(Runs) /\ Cardinality(Runs) \in Nat
      BY LogIsShort, FS_CardinalityType
    <3>4. MostMessages \in Nat /\ MostRuns \in Nat /\ 3 * MostRuns <= MostMessages
      BY SMT DEF MostMessages, MostRuns
    <3>5. Len(log[p]) <= MostMessages
      BY <3>2, <3>3, <3>4
    <3> QED BY <3>1, <3>2, <3>4, <3>5 DEF AlarmWithin
  <2>3. FairSpec /\ []NobodyIsStuck
          => Rings(r, p1, MostMessages) /\ Rings(r, p2, MostMessages) /\ Rings(r, p3, MostMessages)
    BY <2>1
  <2>4. Rung(r) <=> consumer # "on" \/ "sandbox.anomaly" \in Emitted(r)
    BY DEF Rung
  <2> QED BY <2>2, <2>3, <2>4, LifecycleInvariance, EventsAreUnique, PTL DEF FairSpec, Rings
<1> QED BY <1>1 DEF AlarmRings
================================================================================
