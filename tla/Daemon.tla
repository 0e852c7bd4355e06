---------------------------------- MODULE Daemon ----------------------------------
(* agentguard/backend/policy_daemon.py: the table of agents.  The scanner thread   *)
(* finds processes in /proc and sweeps out the dead, the routes of the event loop  *)
(* register, unregister and reload, and kills run in worker threads.  Processes    *)
(* come and go, and their pids are used again.                                     *)
EXTENDS Naturals, Sequences

CONSTANTS
    Pids,
    Policies,         \* the names policy.yaml defines
    Restricted,       \* the one that unknown names fall back to
    Unlisted,         \* a name policy.yaml does not define
    NoPolicy,
    MaxSpawns,        \* bound: processes started
    MaxReloads,       \* bound: reloads
    MaxRestarts       \* bound: restarts of the daemon

ASSUME DaemonConstants ==
    /\ Restricted \in Policies /\ Unlisted \notin Policies
    /\ NoPolicy \notin Policies \cup {Unlisted}
    /\ MaxSpawns \in Nat /\ MaxReloads \in Nat /\ MaxRestarts \in Nat

Names == Policies \cup {Unlisted}
ProcStates == {"none", "running", "zombie"}

VARIABLES
    proc,             \* proc[p]: the process with pid p; agent: agents: in policy.yaml matches it
    tracked,          \* tracked_pids
    details,          \* agent_details: the policy of every entry
    defs,             \* agent_defs, the policies of the entries for one kind of agent
    conf,             \* the policy that policy.yaml gives that kind now
    scan,             \* the scanner thread
    kills,            \* kills[p]: the background task of /kill for p
    spawns, reloads, restarts,
    loaded,           \* history: conf when it was last loaded
    reborn,           \* history: pids that were given out since the last sweep began
    raced             \* history: the pid the scanner looks at was registered meanwhile

vars == <<proc, tracked, details, defs, conf, scan, kills, spawns, reloads, restarts,
          loaded, reborn, raced>>

Scanner == [pc : {"sleep", "walk", "read", "enrol", "sweep", "gone"}, todo : SUBSET Pids,
            pid : SUBSET Pids, policy : Policies \cup {NoPolicy}]

TypeOK ==
    /\ proc \in [Pids -> [state : ProcStates, agent : BOOLEAN]]
    /\ tracked \subseteq Pids /\ details \in [Pids -> Policies \cup {NoPolicy}]
    /\ defs \in Seq(Names) /\ defs # <<>> /\ conf \in Names /\ loaded \in Names
    /\ scan \in Scanner
    /\ (scan.pc \in {"read", "enrol"} => \E p \in Pids : scan.pid = {p})
    /\ (scan.pc = "enrol" => scan.policy \in Policies)
    /\ kills \in [Pids -> {"none", "queued", "signalled"}]
    /\ spawns \in Nat /\ reloads \in Nat /\ restarts \in Nat
    /\ reborn \subseteq Pids /\ raced \in BOOLEAN

Asleep == [pc |-> "sleep", todo |-> {}, pid |-> {}, policy |-> NoPolicy]

Init ==
    /\ proc = [p \in Pids |-> [state |-> "none", agent |-> FALSE]]
    /\ tracked = {} /\ details = [p \in Pids |-> NoPolicy]
    /\ conf \in Names /\ defs = <<conf>> /\ loaded = conf
    /\ scan = Asleep /\ kills = [p \in Pids |-> "none"]
    /\ spawns = 0 /\ reloads = 0 /\ restarts = 0
    /\ reborn = {} /\ raced = FALSE

table == <<tracked, details>>
config == <<defs, conf, loaded>>
counters == <<spawns, reloads, restarts>>
Exists(p) == proc[p].state # "none"

MutResolve(name) == name

\* _register_agent: the policy of that name, else `restricted`.
Resolve(name) == IF name \in Policies THEN name ELSE Restricted

\* Both tables change under one lock.
Enter(p, policy) == tracked' = tracked \cup {p} /\ details' = [details EXCEPT ![p] = policy]

Drop(p) == tracked' = tracked \ {p} /\ details' = [details EXCEPT ![p] = NoPolicy]

(* ------------------------------- processes -------------------------------- *)

Spawn(p) ==
    /\ ~Exists(p) /\ spawns < MaxSpawns
    /\ \E agent \in BOOLEAN :
          proc' = [proc EXCEPT ![p] = [state |-> "running", agent |-> agent]]
    /\ spawns' = spawns + 1 /\ reborn' = reborn \cup {p}
    /\ UNCHANGED <<table, config, scan, kills, reloads, restarts, raced>>

\* A process ends, and is in /proc until its parent has waited for it.
Exit(p) ==
    /\ \/ proc[p].state = "running" /\ proc' = [proc EXCEPT ![p].state = "zombie"]
       \/ proc[p].state = "zombie" /\ proc' = [proc EXCEPT ![p].state = "none"]
    /\ UNCHANGED <<table, config, scan, kills, counters, reborn, raced>>

(* --------------------------- the scanner thread ---------------------------- *)

StartScan ==
    /\ scan.pc = "sleep"
    /\ scan' = [scan EXCEPT !.pc = "walk", !.todo = {p \in Pids : Exists(p)}]
    /\ UNCHANGED <<proc, table, config, kills, counters, reborn, raced>>

\* Is the pid tracked, asked without the lock.
Examine(p) ==
    /\ scan.pc = "walk" /\ p \in scan.todo
    /\ IF p \in tracked
       THEN scan' = [scan EXCEPT !.todo = @ \ {p}] /\ UNCHANGED raced
       ELSE scan' = [scan EXCEPT !.pc = "read", !.todo = @ \ {p}, !.pid = {p}] /\ raced' = FALSE
    /\ UNCHANGED <<proc, table, config, kills, counters, reborn>>

\* Mutant: for an entry that is gone the file is opened again.
MutReadProc ==
    LET next(pc) == [scan EXCEPT !.pc = pc, !.pid = {}]
        match == [scan EXCEPT !.pc = "enrol", !.policy = Resolve(Head(defs))]
    IN  /\ scan.pc = "read"
        /\ \E p \in scan.pid :
              \/ proc[p].state = "running" /\ scan' = IF proc[p].agent THEN match ELSE next("walk")
              \/ proc[p].state = "zombie" /\ scan' = next("walk")
        /\ UNCHANGED <<proc, table, config, kills, counters, reborn, raced>>

\* comm and cmdline, and the first definition that matches.  An entry that is gone is
\* passed over, but a process that ends while its file is read raises
\* ProcessLookupError, which nobody catches.  A zombie has no cmdline: it matches
\* only definitions that ask for none.
ReadProc ==
    LET next(pc) == [scan EXCEPT !.pc = pc, !.pid = {}]
        match == [scan EXCEPT !.pc = "enrol", !.policy = Resolve(Head(defs))]
    IN  /\ scan.pc = "read"
        /\ \E p \in scan.pid :
              \/ proc[p].state = "running" /\ scan' = IF proc[p].agent THEN match ELSE next("walk")
              \/ proc[p].state = "zombie" /\ scan' \in {next("walk")} \cup
                                                       {m \in {match} : proc[p].agent}
              \/ ~Exists(p) /\ scan' \in {next("walk"), next("gone")}
        /\ UNCHANGED <<proc, table, config, kills, counters, reborn, raced>>

MutEnrol ==
    /\ scan.pc = "enrol"
    /\ UNCHANGED table
    /\ scan' = [scan EXCEPT !.pc = "walk", !.pid = {}, !.policy = NoPolicy]
    /\ UNCHANGED <<proc, config, kills, counters, reborn, raced>>

\* _register_agent, under the lock.
Enrol ==
    /\ scan.pc = "enrol"
    /\ \E p \in scan.pid : Enter(p, scan.policy)
    /\ scan' = [scan EXCEPT !.pc = "walk", !.pid = {}, !.policy = NoPolicy]
    /\ UNCHANGED <<proc, config, kills, counters, reborn, raced>>

MutFindDead ==
    /\ scan.pc = "walk" /\ scan.todo = {}
    /\ scan' = [scan EXCEPT !.pc = "sweep",
                            !.todo = {p \in tracked : proc[p].state # "running"}]
    /\ reborn' = {}
    /\ UNCHANGED <<proc, table, config, kills, counters, raced>>

\* _deregister_dead_agents: the dead, collected without the lock ...
FindDead ==
    /\ scan.pc = "walk" /\ scan.todo = {}
    /\ scan' = [scan EXCEPT !.pc = "sweep", !.todo = {p \in tracked : ~Exists(p)}]
    /\ reborn' = {}
    /\ UNCHANGED <<proc, table, config, kills, counters, raced>>

MutDropDead(p) ==
    /\ scan.pc = "sweep" /\ p \in scan.todo
    /\ UNCHANGED table /\ scan' = [scan EXCEPT !.todo = @ \ {p}]
    /\ UNCHANGED <<proc, config, kills, counters, reborn, raced>>

\* ... and removed one by one under it.
DropDead(p) ==
    /\ scan.pc = "sweep" /\ p \in scan.todo
    /\ Drop(p) /\ scan' = [scan EXCEPT !.todo = @ \ {p}]
    /\ UNCHANGED <<proc, config, kills, counters, reborn, raced>>

EndScan ==
    /\ scan.pc = "sweep" /\ scan.todo = {}
    /\ scan' = [scan EXCEPT !.pc = "sleep"]
    /\ UNCHANGED <<proc, table, config, kills, counters, reborn, raced>>

(* -------------------------------- the routes -------------------------------- *)

\* /register: the SDK names its pid and a policy, for which `trusted` or another
\* stands in; whether such a process exists is not asked.
Register(p) ==
    /\ \E policy \in Policies : Enter(p, policy)
    /\ raced' = (raced \/ p \in scan.pid)
    /\ UNCHANGED <<proc, config, scan, kills, counters, reborn>>

Unregister(p) ==
    /\ p \in tracked
    /\ Drop(p)
    /\ UNCHANGED <<proc, config, scan, kills, counters, reborn, raced>>

\* /policy: 404 without an entry; agent_details[pid] raises KeyError without a detail.
SetPolicy(p) ==
    /\ p \in tracked /\ details[p] # NoPolicy
    /\ \E policy \in Policies : details' = [details EXCEPT ![p] = policy]
    /\ UNCHANGED <<proc, tracked, config, scan, kills, counters, reborn, raced>>

\* Somebody edits policy.yaml.
Edit ==
    /\ reloads < MaxReloads
    /\ conf' \in Names \ {conf}
    /\ UNCHANGED <<proc, table, defs, loaded, scan, kills, counters, reborn, raced>>

\* /policies/reload: load_config appends what it finds; an unreadable file raises
\* before it reaches the agents.
Reload ==
    /\ reloads < MaxReloads
    /\ reloads' = reloads + 1
    /\ \/ defs' = Append(defs, conf) /\ loaded' = conf
       \/ UNCHANGED <<defs, loaded>>
    /\ UNCHANGED <<proc, table, conf, scan, kills, spawns, restarts, reborn, raced>>

(* ----------------------------------- kills ----------------------------------- *)

\* /kill answers at once; at most one task per pid is modelled.
RequestKill(p) ==
    /\ kills[p] = "none"
    /\ kills' = [kills EXCEPT ![p] = "queued"]
    /\ UNCHANGED <<proc, table, config, scan, counters, reborn, raced>>

\* os.kill: whoever has the pid by now; nobody and no permission are logged.
Signal(p) ==
    /\ kills[p] = "queued"
    /\ kills' = [kills EXCEPT ![p] = "signalled"]
    /\ \/ proc[p].state = "running" /\ proc' = [proc EXCEPT ![p].state = "zombie"]
       \/ UNCHANGED proc
    /\ UNCHANGED <<table, config, scan, counters, reborn, raced>>

\* The entry goes in any case.
Forget(p) ==
    /\ kills[p] = "signalled"
    /\ Drop(p) /\ kills' = [kills EXCEPT ![p] = "none"]
    /\ UNCHANGED <<proc, config, scan, counters, reborn, raced>>

\* The daemon dies and starts again: start() loads the file, and the tables are empty.
Restart ==
    /\ restarts < MaxRestarts
    /\ restarts' = restarts + 1
    /\ tracked' = {} /\ details' = [p \in Pids |-> NoPolicy]
    /\ defs' = <<conf>> /\ loaded' = conf
    /\ scan' = Asleep /\ kills' = [p \in Pids |-> "none"] /\ raced' = FALSE
    /\ UNCHANGED <<proc, conf, spawns, reloads, reborn>>

ScannerStep ==
    \/ StartScan \/ ReadProc \/ Enrol \/ FindDead \/ EndScan
    \/ \E p \in Pids : Examine(p) \/ DropDead(p)

Next ==
    \/ ScannerStep \/ Edit \/ Reload \/ Restart
    \/ \E p \in Pids : \/ Spawn(p) \/ Exit(p) \/ Register(p) \/ Unregister(p) \/ SetPolicy(p)
                       \/ RequestKill(p) \/ Signal(p) \/ Forget(p)

Spec == Init /\ [][Next]_vars

\* _scanner_loop runs as long as the daemon does.
FairScanner == WF_vars(ScannerStep)
FairSpec == Spec /\ FairScanner

(* --------------------------------- properties --------------------------------- *)

\* Whoever is in tracked_pids is in agent_details: set_agent_policy, which asks only
\* the first, never raises KeyError, and nobody is described who is not tracked.
TrackedIsDescribed == \A p \in Pids : p \in tracked <=> details[p] # NoPolicy

\* The sweep decides without the lock.  It removes the entry of a process that runs
\* only if the pid was given out again after the sweep had begun.
SweepsSpareTheLiving ==
    [][\A p \in Pids : DropDead(p) /\ Exists(p) => p \in reborn]_vars

\* The scan checks tracked_pids without the lock.  It writes over an entry, and so over
\* the policy an operator gave it, only if the entry was made after it had looked.
ScansRespectEntries ==
    [][\A p \in scan.pid \cap tracked : Enrol => raced]_vars

\* What the daemon reads without the lock never costs a live process or an operator's
\* policy its entry, but for pids given out again and registrations made meanwhile.
UnlockedReadsAreSafe == SweepsSpareTheLiving /\ ScansRespectEntries

\* The scanner thread waits for nobody: whatever became of the processes and the entries
\* it has in hand, it can take its next step, unless an exception ended it.
ScannerIsReady == scan.pc # "gone" => ENABLED <<ScannerStep>>_vars

\* An entry without a process disappears, unless the scanner thread died.
DeadAgentsLeave ==
    \A p \in Pids :
        p \in tracked /\ ~Exists(p) ~> p \notin tracked \/ Exists(p) \/ scan.pc = "gone"

\* policy.yaml:113 "The daemon scans /proc every 2 seconds and auto-registers matches",
\* unless the scanner thread died.
MatchesAreRegistered ==
    \A p \in Pids :
        proc[p] = [state |-> "running", agent |-> TRUE]
            ~> p \in tracked \/ proc[p].state # "running" \/ scan.pc = "gone"

\* policy_daemon.py:1333 "Hot-reload policy.yaml without restarting the daemon": a scan
\* gives an agent the policy that the file named when it was last loaded.
ReloadTakesEffect ==
    [][ReadProc /\ scan'.pc = "enrol" => scan'.policy = Resolve(loaded)]_vars
=============================================================================
