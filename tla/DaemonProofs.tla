------------------------------- MODULE DaemonProofs -------------------------------
(* Theorems about Daemon, for any pids, policies and bounds.                       *)
EXTENDS Daemon, FiniteSetTheorems, TLAPS

\* What a sweep that decided without the lock still knows of the entries it is about to
\* remove: their process is dead, or the pid was given out again since.
SweepKnows == scan.pc = "sweep" => \A p \in scan.todo : ~Exists(p) \/ p \in reborn

\* What a scan still knows of the pid that it did not find in the table: if it is there
\* now, somebody registered it meanwhile.
ScanKnows == scan.pc \in {"read", "enrol"} => \A p \in scan.pid : p \in tracked => raced

Inductive == TypeOK /\ TrackedIsDescribed /\ SweepKnows /\ ScanKnows

(* ------------------------------------ types ------------------------------------ *)

\* Entering a pid under a policy keeps the tables typed and in step.
LEMMA EnterTables ==
    ASSUME tracked \subseteq Pids, details \in [Pids -> Policies \cup {NoPolicy}],
           TrackedIsDescribed, NEW p \in Pids, NEW policy \in Policies, Enter(p, policy)
    PROVE  /\ tracked' \subseteq Pids /\ details' \in [Pids -> Policies \cup {NoPolicy}]
           /\ TrackedIsDescribed'
    BY DaemonConstants DEF DaemonConstants, Enter, TrackedIsDescribed

\* So does removing one.
LEMMA DropTables ==
    ASSUME tracked \subseteq Pids, details \in [Pids -> Policies \cup {NoPolicy}],
           TrackedIsDescribed, NEW p \in Pids, Drop(p)
    PROVE  /\ tracked' \subseteq Pids /\ details' \in [Pids -> Policies \cup {NoPolicy}]
           /\ TrackedIsDescribed'
    BY DEF Drop, TrackedIsDescribed

\* Whatever name a definition has, an agent gets a policy that exists.
LEMMA ResolveTyped ==
    ASSUME NEW name
    PROVE  Resolve(name) \in Policies
    BY DaemonConstants DEF DaemonConstants, Resolve

\* The constraints of TypeOK on the scanner alone.
ScanTyped ==
    /\ scan \in Scanner
    /\ (scan.pc \in {"read", "enrol"} => \E p \in Pids : scan.pid = {p})
    /\ (scan.pc = "enrol" => scan.policy \in Policies)

\* Every step of the scanner leaves it typed.
LEMMA ScannerTyped ==
    ASSUME TypeOK, ScannerStep
    PROVE  ScanTyped'
<1> USE DEF ScanTyped, Scanner
<1>0. ScanTyped  BY DEF TypeOK
<1>1. CASE StartScan  BY <1>0, <1>1 DEF StartScan
<1>2. CASE ReadProc
  <2>1. PICK p \in scan.pid :
           \/ scan' = [scan EXCEPT !.pc = "walk", !.pid = {}]
           \/ scan' = [scan EXCEPT !.pc = "gone", !.pid = {}]
           \/ scan' = [scan EXCEPT !.pc = "enrol", !.policy = Resolve(Head(defs))]
    BY <1>2 DEF ReadProc
  <2>2. scan.pc = "read" /\ \E q \in Pids : scan.pid = {q}  BY <1>0, <1>2 DEF ReadProc
  <2>3. Resolve(Head(defs)) \in Policies  BY ResolveTyped
  <2>4. CASE scan' = [scan EXCEPT !.pc = "walk", !.pid = {}]  BY <1>0, <2>4
  <2>5. CASE scan' = [scan EXCEPT !.pc = "gone", !.pid = {}]  BY <1>0, <2>5
  <2>6. CASE scan' = [scan EXCEPT !.pc = "enrol", !.policy = Resolve(Head(defs))]
    BY <1>0, <2>2, <2>3, <2>6
  <2> QED  BY <2>1, <2>4, <2>5, <2>6
<1>3. CASE Enrol  BY <1>0, <1>3 DEF Enrol
<1>4. CASE FindDead
  <2>1. {p \in tracked : ~Exists(p)} \subseteq Pids  BY DEF TypeOK
  <2> QED  BY <1>0, <1>4, <2>1 DEF FindDead
<1>5. CASE EndScan  BY <1>0, <1>5 DEF EndScan
<1>6. ASSUME NEW p \in Pids, Examine(p)  PROVE ScanTyped'
  <2>1. CASE p \in tracked
    <3>1. scan' = [scan EXCEPT !.todo = @ \ {p}] /\ scan.pc = "walk"  BY <1>6, <2>1 DEF Examine
    <3> QED  BY <1>0, <3>1
  <2>2. CASE p \notin tracked
    <3>1. scan' = [scan EXCEPT !.pc = "read", !.todo = @ \ {p}, !.pid = {p}]
      BY <1>6, <2>2 DEF Examine
    <3>2. scan'.pc = "read" /\ scan'.pid = {p} /\ scan' \in Scanner  BY <1>0, <3>1
    <3> QED  BY <3>2
  <2> QED  BY <2>1, <2>2
<1>7. ASSUME NEW p \in Pids, DropDead(p)  PROVE ScanTyped'
  BY <1>0, <1>7 DEF DropDead
<1> QED  BY <1>1, <1>2, <1>3, <1>4, <1>5, <1>6, <1>7 DEF ScannerStep

\* The scanner touches the table, its own state and the two history variables only.
LEMMA ScannerTouches ==
    ASSUME ScannerStep
    PROVE  /\ UNCHANGED <<proc, config, kills, counters>>
           /\ \/ UNCHANGED table
              \/ Enrol /\ \E p \in scan.pid : Enter(p, scan.policy)
              \/ \E p \in Pids : DropDead(p) /\ Drop(p)
           /\ reborn' \in {reborn, {}} /\ raced' \in {raced, FALSE}
<1>1. CASE StartScan  BY <1>1 DEF StartScan
<1>2. CASE ReadProc  BY <1>2 DEF ReadProc
<1>3. CASE Enrol  BY <1>3 DEF Enrol
<1>4. CASE FindDead  BY <1>4 DEF FindDead
<1>5. CASE EndScan  BY <1>5 DEF EndScan
<1>6. CASE \E p \in Pids : Examine(p)  BY <1>6 DEF Examine
<1>7. CASE \E p \in Pids : DropDead(p)  BY <1>7 DEF DropDead
<1> QED  BY <1>1, <1>2, <1>3, <1>4, <1>5, <1>6, <1>7 DEF ScannerStep

\* Type correctness and the agreement of the two tables, step by step.
LEMMA TablesStep ==
    ASSUME TypeOK, TrackedIsDescribed, [Next]_vars
    PROVE  /\ tracked' \subseteq Pids /\ details' \in [Pids -> Policies \cup {NoPolicy}]
           /\ TrackedIsDescribed'
<1> USE DEF TypeOK
<1>0. CASE UNCHANGED table  BY <1>0 DEF table, TrackedIsDescribed
<1>1. CASE ScannerStep
  <2>1. CASE \E p \in scan.pid : Enter(p, scan.policy) /\ Enrol
    <3>1. PICK p \in scan.pid : Enter(p, scan.policy)  BY <2>1
    <3>2. p \in Pids /\ scan.policy \in Policies  BY <2>1 DEF Enrol
    <3> QED  BY <3>1, <3>2, EnterTables
  <2>2. CASE \E p \in Pids : Drop(p)  BY <2>2, DropTables
  <2> QED  BY <1>0, <1>1, <2>1, <2>2, ScannerTouches
<1>2. CASE Restart  BY <1>2 DEF Restart, TrackedIsDescribed
<1>3. ASSUME NEW p \in Pids, Register(p)  PROVE
        /\ tracked' \subseteq Pids /\ details' \in [Pids -> Policies \cup {NoPolicy}]
        /\ TrackedIsDescribed'
  BY <1>3, EnterTables DEF Register
<1>4. ASSUME NEW p \in Pids, Unregister(p) \/ Forget(p)  PROVE
        /\ tracked' \subseteq Pids /\ details' \in [Pids -> Policies \cup {NoPolicy}]
        /\ TrackedIsDescribed'
  BY <1>4, DropTables DEF Unregister, Forget
<1>5. ASSUME NEW p \in Pids, SetPolicy(p)  PROVE
        /\ tracked' \subseteq Pids /\ details' \in [Pids -> Policies \cup {NoPolicy}]
        /\ TrackedIsDescribed'
  BY <1>5, DaemonConstants DEF DaemonConstants, SetPolicy, TrackedIsDescribed
<1>6. CASE Edit \/ Reload \/ UNCHANGED vars
           \/ \E p \in Pids : Spawn(p) \/ Exit(p) \/ RequestKill(p) \/ Signal(p)
  BY <1>0, <1>6 DEF Edit, Reload, vars, table, Spawn, Exit, RequestKill, Signal
<1> QED  BY <1>1, <1>2, <1>3, <1>4, <1>5, <1>6 DEF Next

\* The rest of the types.
LEMMA TypesStep ==
    ASSUME TypeOK, TrackedIsDescribed, [Next]_vars
    PROVE  TypeOK'
<1> USE DEF TypeOK
<1>0. tracked' \subseteq Pids /\ details' \in [Pids -> Policies \cup {NoPolicy}]
  BY TablesStep
<1>1. CASE ScannerStep
  <2>1. ScanTyped'  BY <1>1, ScannerTyped
  <2>2. UNCHANGED <<proc, config, kills, counters>> /\ reborn' \in {reborn, {}}
        /\ raced' \in {raced, FALSE}
    BY <1>1, ScannerTouches
  <2> QED  BY <1>0, <2>1, <2>2 DEF ScanTyped, config, counters
<1>2. CASE Edit  BY <1>2 DEF Edit, table, counters
<1>3. CASE Reload
  <2>1. Append(defs, conf) \in Seq(Names) /\ Append(defs, conf) # <<>>  OBVIOUS
  <2>2. \/ defs' = Append(defs, conf) /\ loaded' = conf
        \/ defs' = defs /\ loaded' = loaded
    BY <1>3 DEF Reload
  <2>3. defs' \in Seq(Names) /\ defs' # <<>> /\ loaded' \in Names  BY <2>1, <2>2
  <2>4. reloads' \in Nat /\ UNCHANGED <<proc, table, conf, scan, kills, spawns, restarts, reborn, raced>>
    BY <1>3 DEF Reload
  <2> QED  BY <1>0, <2>3, <2>4
<1>4. CASE Restart
  <2>1. defs' = <<conf>> /\ <<conf>> \in Seq(Names) /\ <<conf>> # <<>>  BY <1>4 DEF Restart
  <2>2. scan' \in Scanner /\ scan'.pc = "sleep"  BY <1>4 DEF Restart, Asleep, Scanner
  <2>3. loaded' \in Names /\ conf' \in Names  BY <1>4 DEF Restart
  <2>4. kills' \in [Pids -> {"none", "queued", "signalled"}] /\ raced' \in BOOLEAN
    BY <1>4 DEF Restart
  <2>5. restarts' \in Nat /\ spawns' \in Nat /\ reloads' \in Nat  BY <1>4 DEF Restart
  <2>6. proc' = proc /\ reborn' = reborn  BY <1>4 DEF Restart
  <2>7. ScanTyped'  BY <2>2 DEF ScanTyped
  <2> QED  BY <1>0, <2>1, <2>3, <2>4, <2>5, <2>6, <2>7 DEF ScanTyped
<1>5. ASSUME NEW p \in Pids, Spawn(p)  PROVE TypeOK'
  <2>1. proc' \in [Pids -> [state : ProcStates, agent : BOOLEAN]]
    BY <1>5 DEF Spawn, ProcStates
  <2> QED  BY <1>0, <1>5, <2>1 DEF Spawn, config
<1>6. ASSUME NEW p \in Pids, Exit(p)  PROVE TypeOK'
  <2>1. \E s \in ProcStates : proc' = [proc EXCEPT ![p].state = s]
    BY <1>6 DEF Exit, ProcStates
  <2>2. PICK s \in ProcStates : proc' = [proc EXCEPT ![p].state = s]  BY <2>1
  <2>3. proc' \in [Pids -> [state : ProcStates, agent : BOOLEAN]]  BY <2>2
  <2> QED  BY <1>0, <1>6, <2>3 DEF Exit, config, counters
<1>7. ASSUME NEW p \in Pids, Signal(p)  PROVE TypeOK'
  <2>1. proc' \in [Pids -> [state : ProcStates, agent : BOOLEAN]]
    BY <1>7 DEF Signal, ProcStates
  <2> QED  BY <1>0, <1>7, <2>1 DEF Signal, config, counters
<1>8. ASSUME NEW p \in Pids, Register(p) \/ Unregister(p) \/ SetPolicy(p)  PROVE TypeOK'
  BY <1>0, <1>8 DEF Register, Unregister, SetPolicy, config, counters
<1>9. ASSUME NEW p \in Pids, RequestKill(p) \/ Forget(p)  PROVE TypeOK'
  BY <1>0, <1>9 DEF RequestKill, Forget, config, counters
<1>10. CASE UNCHANGED vars  BY <1>10 DEF vars
<1> QED  BY <1>1, <1>2, <1>3, <1>4, <1>5, <1>6, <1>7, <1>8, <1>9, <1>10 DEF Next

(* ------------------------- what the scanner still knows ------------------------- *)

\* A process that runs now and did not when the sweep looked was started in between.
LEMMA SweepStep ==
    ASSUME TypeOK, SweepKnows, [Next]_vars
    PROVE  SweepKnows'
<1> USE DEF TypeOK, SweepKnows, Exists
<1>1. CASE UNCHANGED <<proc, scan, reborn>>  BY <1>1
<1>2. ASSUME NEW p \in Pids, Spawn(p)  PROVE SweepKnows'  BY <1>2 DEF Spawn
<1>3. ASSUME NEW p \in Pids, Exit(p) \/ Signal(p)  PROVE SweepKnows'
  <2>1. scan' = scan /\ reborn' = reborn
        /\ \A q \in Pids : proc'[q].state # "none" => proc[q].state # "none"
    BY <1>3 DEF Exit, Signal
  <2>2. scan.todo \subseteq Pids  BY DEF Scanner
  <2> QED  BY <2>1, <2>2
<1>4. CASE StartScan  BY <1>4 DEF StartScan, Scanner
<1>5. ASSUME NEW p \in Pids, Examine(p)  PROVE SweepKnows'
  BY <1>5 DEF Examine, Scanner
<1>6. CASE ReadProc
  <2>1. scan'.pc # "sweep"  BY <1>6 DEF ReadProc, Scanner
  <2> QED  BY <2>1
<1>7. CASE Enrol  BY <1>7 DEF Enrol, Scanner
<1>8. CASE FindDead
  <2>1. proc' = proc /\ \A p \in scan'.todo : ~Exists(p)  BY <1>8 DEF FindDead, Scanner
  <2> QED  BY <2>1
<1>9. ASSUME NEW p \in Pids, DropDead(p)  PROVE SweepKnows'
  BY <1>9 DEF DropDead, Scanner
<1>10. CASE EndScan  BY <1>10 DEF EndScan, Scanner
<1>11. CASE Restart  BY <1>11 DEF Restart, Asleep
<1>12. CASE Edit \/ Reload \/ UNCHANGED vars
            \/ \E p \in Pids : Register(p) \/ Unregister(p) \/ SetPolicy(p)
                               \/ RequestKill(p) \/ Forget(p)
  BY <1>1, <1>12 DEF Edit, Reload, vars, Register, Unregister, SetPolicy, RequestKill, Forget
<1> QED  BY <1>2, <1>3, <1>4, <1>5, <1>6, <1>7, <1>8, <1>9, <1>10, <1>11, <1>12
         DEF Next, ScannerStep

\* A pid the scan did not find enters the table only by a registration.
LEMMA ScanStep ==
    ASSUME TypeOK, ScanKnows, [Next]_vars
    PROVE  ScanKnows'
<1> USE DEF TypeOK, ScanKnows
<1>1. CASE UNCHANGED <<tracked, scan, raced>>  BY <1>1
<1>2. ASSUME NEW p \in Pids, Register(p)  PROVE ScanKnows'  BY <1>2 DEF Register, Enter
<1>3. ASSUME NEW p \in Pids, Unregister(p) \/ Forget(p)  PROVE ScanKnows'
  BY <1>3 DEF Unregister, Forget, Drop
<1>4. CASE StartScan  BY <1>4 DEF StartScan, Scanner
<1>5. ASSUME NEW p \in Pids, Examine(p)  PROVE ScanKnows'
  <2>1. CASE p \in tracked  BY <1>5, <2>1 DEF Examine, Scanner
  <2>2. CASE p \notin tracked
    <3>1. scan'.pid = {p} /\ tracked' = tracked  BY <1>5, <2>2 DEF Examine, Scanner, table
    <3> QED  BY <2>2, <3>1
  <2> QED  BY <2>1, <2>2
<1>6. CASE ReadProc
  <2>1. scan.pc = "read" /\ tracked' = tracked /\ raced' = raced  BY <1>6 DEF ReadProc, table
  <2>2. scan'.pid = scan.pid \/ scan'.pid = {}  BY <1>6 DEF ReadProc, Scanner
  <2> QED  BY <2>1, <2>2
<1>7. CASE Enrol  BY <1>7 DEF Enrol, Scanner
<1>8. CASE FindDead  BY <1>8 DEF FindDead, Scanner
<1>9. ASSUME NEW p \in Pids, DropDead(p)  PROVE ScanKnows'
  BY <1>9 DEF DropDead, Scanner
<1>10. CASE EndScan  BY <1>10 DEF EndScan, Scanner
<1>11. CASE Restart  BY <1>11 DEF Restart, Asleep
<1>12. CASE Edit \/ Reload \/ UNCHANGED vars
            \/ \E p \in Pids : Spawn(p) \/ Exit(p) \/ SetPolicy(p) \/ RequestKill(p) \/ Signal(p)
  BY <1>1, <1>12 DEF Edit, Reload, vars, table, Spawn, Exit, SetPolicy, RequestKill, Signal
<1> QED  BY <1>2, <1>3, <1>4, <1>5, <1>6, <1>7, <1>8, <1>9, <1>10, <1>11, <1>12
         DEF Next, ScannerStep

(* ----------------------------------- theorems ----------------------------------- *)

LEMMA InductiveInit ==
    ASSUME Init
    PROVE  Inductive
<1>1. <<conf>> \in Seq(Names) /\ <<conf>> # <<>>  BY DEF Init
<1>2. TypeOK
  BY <1>1, DaemonConstants DEF DaemonConstants, Init, TypeOK, Asleep, Scanner, ProcStates
<1>3. TrackedIsDescribed  BY DEF Init, TrackedIsDescribed
<1>4. SweepKnows /\ ScanKnows  BY DEF Init, Asleep, SweepKnows, ScanKnows
<1> QED  BY <1>2, <1>3, <1>4 DEF Inductive

\* The inductive invariant: types, tables in step, and what the scanner still knows.
THEOREM TableInvariance == Spec => []Inductive
<1>1. Inductive /\ [Next]_vars => Inductive'
  BY TypesStep, TablesStep, SweepStep, ScanStep DEF Inductive
<1> QED  BY <1>1, InductiveInit, PTL DEF Spec

\* Every variable keeps its type: an agent never gets a policy that does not exist,
\* whatever name its definition has.
THEOREM DaemonTypes == Spec => []TypeOK
<1>1. Inductive => TypeOK  BY DEF Inductive
<1> QED  BY <1>1, TableInvariance, PTL

\* tracked_pids and agent_details name the same pids at every release of the lock.
THEOREM TablesAgree == Spec => []TrackedIsDescribed
<1>1. Inductive => TrackedIsDescribed  BY DEF Inductive
<1> QED  BY <1>1, TableInvariance, PTL

\* A sweep removes the entry of a running process only if its pid was given out again.
THEOREM SweepsAreSafe == Spec => SweepsSpareTheLiving
<1> DEFINE Spared == \A p \in Pids : DropDead(p) /\ Exists(p) => p \in reborn
<1>1. Inductive => Spared
  BY DEF Inductive, SweepKnows, DropDead
<1>2. Inductive /\ [Next]_vars => [Spared]_vars  BY <1>1
<1> QED  BY <1>2, TableInvariance, PTL DEF Spec, SweepsSpareTheLiving

\* A scan replaces an entry, and the operator's policy in it, only in a race.
THEOREM ScansAreSafe == Spec => ScansRespectEntries
<1> DEFINE Respected == \A p \in scan.pid \cap tracked : Enrol => raced
<1>1. Inductive => Respected
  BY DEF Inductive, ScanKnows, Enrol
<1>2. Inductive /\ [Next]_vars => [Respected]_vars  BY <1>1
<1> QED  BY <1>2, TableInvariance, PTL DEF Spec, ScansRespectEntries

\* Both together: what is read without the lock costs no entry that it should not.
THEOREM UnlockedReadsHold == Spec => UnlockedReadsAreSafe
BY SweepsAreSafe, ScansAreSafe DEF UnlockedReadsAreSafe

(* ------------------------------ the scanner's progress ------------------------------ *)

\* How much the scanner has still to do in the pass it is in, or how many entries to remove.
Left == Cardinality(scan.todo)
All == Cardinality(Pids)

\* What is left counts pids, and falls with every one that is taken.
LEMMA LeftCounts ==
    ASSUME IsFiniteSet(Pids), NEW todo \in SUBSET Pids
    PROVE  /\ Cardinality(todo) \in 0 .. All /\ All \in Nat
           /\ \A p \in todo : Cardinality(todo \ {p}) = Cardinality(todo) - 1
           /\ todo # {} => Cardinality(todo) > 0
<1>1. IsFiniteSet(todo) /\ Cardinality(todo) <= Cardinality(Pids)
  BY FS_Subset
<1>2. Cardinality(todo) \in Nat /\ Cardinality(Pids) \in Nat
  BY <1>1, FS_CardinalityType
<1>3. \A p \in todo : Cardinality(todo \ {p}) = Cardinality(todo) - 1
  BY <1>1, FS_RemoveElement
<1>4. todo # {} => Cardinality(todo) # 0
  BY <1>1, FS_EmptySet
<1> QED BY <1>1, <1>2, <1>3, <1>4 DEF All

\* Only the scanner moves itself on; a restart puts it to sleep.
LEMMA ScannerMoves ==
    ASSUME [Next]_vars
    PROVE  ScannerStep \/ Restart \/ scan' = scan
BY DEF Next, Edit, Reload, Spawn, Exit, Register, Unregister, SetPolicy, RequestKill, Signal,
       Forget, vars

\* The steps of the scanner, one by one, as far as its own state goes.
Walks(p) ==
    /\ scan.pc = "walk" /\ p \in scan.todo
    /\ scan'.todo = scan.todo \ {p}
    /\ \/ scan'.pc = "walk" /\ p \in tracked
       \/ scan'.pc = "read" /\ scan'.pid = {p}

Reads ==
    /\ scan.pc = "read" /\ scan'.todo = scan.todo
    /\ \/ scan'.pc \in {"walk", "gone"}
       \/ scan'.pc = "enrol" /\ scan'.pid = scan.pid

LEMMA ScannerSteps ==
    ASSUME TypeOK, ScannerStep
    PROVE  \/ scan.pc = "sleep" /\ scan'.pc = "walk" /\ scan'.todo = {q \in Pids : Exists(q)}
           \/ \E q \in Pids : Walks(q)
           \/ Reads /\ ReadProc
           \/ scan.pc = "enrol" /\ scan'.pc = "walk" /\ scan'.todo = scan.todo /\ Enrol
           \/ /\ scan.pc = "walk" /\ scan.todo = {}
              /\ scan'.pc = "sweep" /\ scan'.todo = {q \in tracked : ~Exists(q)}
           \/ \E q \in scan.todo :
                 scan.pc = "sweep" /\ scan'.pc = "sweep" /\ scan'.todo = scan.todo \ {q} /\ Drop(q)
           \/ scan.pc = "sweep" /\ scan.todo = {} /\ scan'.pc = "sleep" /\ scan'.todo = {}
<1> USE DEF TypeOK, Scanner
<1>1. CASE StartScan  BY <1>1 DEF StartScan
<1>2. ASSUME NEW p \in Pids, Examine(p)  PROVE Walks(p)
  <2>1. CASE p \in tracked
    <3>1. scan' = [scan EXCEPT !.todo = @ \ {p}]  BY <1>2, <2>1 DEF Examine
    <3> QED  BY <1>2, <2>1, <3>1 DEF Examine, Walks
  <2>2. CASE p \notin tracked
    <3>1. scan' = [scan EXCEPT !.pc = "read", !.todo = @ \ {p}, !.pid = {p}]
      BY <1>2, <2>2 DEF Examine
    <3> QED  BY <1>2, <3>1 DEF Examine, Walks
  <2> QED  BY <2>1, <2>2
<1>3. CASE ReadProc  BY <1>3 DEF ReadProc, Reads
<1>4. CASE Enrol  BY <1>4 DEF Enrol
<1>5. CASE FindDead  BY <1>5 DEF FindDead
<1>6. CASE EndScan  BY <1>6 DEF EndScan
<1>7. ASSUME NEW p \in Pids, DropDead(p)
      PROVE  p \in scan.todo /\ scan.pc = "sweep" /\ scan'.pc = "sweep"
             /\ scan'.todo = scan.todo \ {p} /\ Drop(p)
  BY <1>7 DEF DropDead
<1> QED  BY <1>1, <1>2, <1>3, <1>4, <1>5, <1>6, <1>7 DEF ScannerStep

\* An entry without a process, and how many steps of the scanner it can still last: what
\* is left of a sweep that has found it, before that the scan in front of that sweep (a pid
\* takes three steps: look, read, enrol), before that the sweep that has passed it by.
Orphaned(p) == p \in tracked /\ ~Exists(p) /\ scan.pc # "gone"

Outlasts(p) ==
    IF scan.pc = "sweep" THEN IF p \in scan.todo THEN Left ELSE 4 * All + 5 + Left
    ELSE IF scan.pc = "sleep" THEN 4 * All + 4
    ELSE All + 1 + 3 * Left + (IF scan.pc = "walk" THEN 0 ELSE IF scan.pc = "enrol" THEN 1 ELSE 2)

LEMMA OutlastsCounts ==
    ASSUME IsFiniteSet(Pids), TypeOK, TypeOK', NEW p \in Pids
    PROVE  Outlasts(p) \in Nat /\ Outlasts(p)' \in Nat
<1>1. scan.todo \in SUBSET Pids /\ scan'.todo \in SUBSET Pids
  BY DEF TypeOK, Scanner
<1>2. Left \in Nat /\ Left' \in Nat /\ All \in Nat
  BY <1>1, LeftCounts DEF Left
<1>3. Outlasts(p) \in Nat
  BY <1>2 DEF Outlasts
<1>4. Outlasts(p)' \in Nat
  BY <1>2 DEF Outlasts, All
<1> QED BY <1>3, <1>4

LEMMA OutlastsFalls ==
    ASSUME IsFiniteSet(Pids), TypeOK, TypeOK', NEW p \in Pids,
           Orphaned(p), Orphaned(p)', ScannerStep
    PROVE  Outlasts(p)' < Outlasts(p)
<1> DEFINE n == Left
           m == Cardinality(scan'.todo)
<1>1. scan.todo \in SUBSET Pids /\ scan'.todo \in SUBSET Pids
  BY DEF TypeOK, Scanner
<1>2. n \in 0 .. All /\ m \in 0 .. All /\ All \in Nat
  BY <1>1, LeftCounts DEF Left
<1>3. \A q \in scan.todo : scan'.todo = scan.todo \ {q} => m = n - 1
  BY <1>1, LeftCounts DEF Left
<1>4. p \in scan.todo => n > 0
  BY <1>1, LeftCounts DEF Left
<1>5. Left' = m
  BY DEF Left
<1> HIDE DEF n, m
<1>6. Outlasts(p) = IF scan.pc = "sweep" THEN IF p \in scan.todo THEN n ELSE 4 * All + 5 + n
                    ELSE IF scan.pc = "sleep" THEN 4 * All + 4
                    ELSE All + 1 + 3 * n + (IF scan.pc = "walk" THEN 0 ELSE IF scan.pc = "enrol" THEN 1 ELSE 2)
  BY DEF Outlasts, n
<1>7. Outlasts(p)' = IF scan'.pc = "sweep" THEN IF p \in scan'.todo THEN m ELSE 4 * All + 5 + m
                     ELSE IF scan'.pc = "sleep" THEN 4 * All + 4
                     ELSE All + 1 + 3 * m + (IF scan'.pc = "walk" THEN 0 ELSE IF scan'.pc = "enrol" THEN 1 ELSE 2)
  BY <1>5 DEF Outlasts, All
<1>8. CASE scan.pc = "sleep" /\ scan'.pc = "walk"
  BY <1>2, <1>6, <1>7, <1>8
<1>9. CASE \E q \in Pids : Walks(q)
  BY <1>2, <1>3, <1>6, <1>7, <1>9 DEF Walks
<1>10. CASE Reads
  <2>1. scan'.pc \in {"walk", "enrol"} /\ m = n
    BY <1>10 DEF Reads, Orphaned, Left, m, n
  <2> QED BY <1>2, <1>6, <1>7, <1>10, <2>1 DEF Reads
<1>11. CASE scan.pc = "enrol" /\ scan'.pc = "walk" /\ scan'.todo = scan.todo
  <2>1. m = n
    BY <1>11 DEF Left, m, n
  <2> QED BY <1>2, <1>6, <1>7, <1>11, <2>1
<1>12. CASE scan.pc = "walk" /\ scan'.pc = "sweep" /\ scan'.todo = {q \in tracked : ~Exists(q)}
  <2>1. p \in scan'.todo
    BY <1>12 DEF Orphaned
  <2> QED BY <1>2, <1>6, <1>7, <1>12, <2>1
<1>13. ASSUME NEW q \in scan.todo, scan.pc = "sweep", scan'.pc = "sweep",
              scan'.todo = scan.todo \ {q}, Drop(q)
       PROVE  Outlasts(p)' < Outlasts(p)
  <2>1. q # p
    BY <1>13 DEF Drop, Orphaned
  <2> QED BY <1>2, <1>3, <1>6, <1>7, <1>13, <2>1
<1>14. CASE scan.pc = "sweep" /\ scan.todo = {} /\ scan'.pc = "sleep"
  BY <1>2, <1>6, <1>7, <1>14
<1> QED BY <1>8, <1>9, <1>10, <1>11, <1>12, <1>13, <1>14, ScannerSteps

(* ------------------------------- agents are found -------------------------------- *)

\* An agent that is not in the table, and how many steps of the scanner it can still wait:
\* until it is enrolled once it is looked at, before that the scan that has it on its list,
\* before that the sweep in front of that scan, before that the scan that did not see it.
Agent == [state |-> "running", agent |-> TRUE]
Unseen(p) == proc[p] = Agent /\ p \notin tracked /\ scan.pc # "gone"

Waits(p) ==
    IF scan.pc = "sweep" THEN 3 * All + 5 + Left
    ELSE IF scan.pc = "sleep" THEN 3 * All + 4
    ELSE IF scan.pc = "enrol" /\ p \in scan.pid THEN 1
    ELSE IF scan.pc = "read" /\ p \in scan.pid THEN 2
    ELSE (IF p \in scan.todo THEN 3 ELSE 4 * All + 6) + 3 * Left
            + (IF scan.pc = "walk" THEN 0 ELSE IF scan.pc = "enrol" THEN 1 ELSE 2)

LEMMA WaitsCounts ==
    ASSUME IsFiniteSet(Pids), TypeOK, TypeOK', NEW p \in Pids
    PROVE  Waits(p) \in Nat /\ Waits(p) > 0 /\ Waits(p)' \in Nat
<1>1. scan.todo \in SUBSET Pids /\ scan'.todo \in SUBSET Pids
  BY DEF TypeOK, Scanner
<1>2. Left \in Nat /\ Left' \in Nat /\ All \in Nat
  BY <1>1, LeftCounts DEF Left
<1>3. Waits(p) \in Nat /\ Waits(p) > 0
  BY <1>2 DEF Waits
<1>4. Waits(p)' \in Nat
  BY <1>2 DEF Waits, All
<1> QED BY <1>3, <1>4

\* A process that runs is the one that ran before: its pid is not given out while it does.
LEMMA RunnersStay ==
    ASSUME TypeOK, [Next]_vars, NEW p \in Pids, proc[p].state = "running"
    PROVE  proc'[p] = proc[p] \/ proc'[p].state = "zombie"
<1>1. CASE proc' = proc
  BY <1>1
<1>2. ASSUME NEW q \in Pids, Spawn(q) \/ Exit(q) \/ Signal(q)
      PROVE  proc'[p] = proc[p] \/ proc'[p].state = "zombie"
  BY <1>2 DEF Spawn, Exit, Signal, Exists, TypeOK
<1>3. CASE ScannerStep
  BY <1>1, <1>3, ScannerTouches
<1> QED BY <1>1, <1>2, <1>3
        DEF Next, Edit, Reload, Restart, Register, Unregister, SetPolicy, RequestKill, Forget, vars

LEMMA WaitsFalls ==
    ASSUME IsFiniteSet(Pids), TypeOK, TypeOK', NEW p \in Pids,
           Unseen(p), Unseen(p)', ScannerStep
    PROVE  Waits(p)' < Waits(p)
<1> DEFINE n == Left
           m == Cardinality(scan'.todo)
           at(pc) == IF pc = "walk" THEN 0 ELSE IF pc = "enrol" THEN 1 ELSE 2
<1>1. scan.todo \in SUBSET Pids /\ scan'.todo \in SUBSET Pids
  BY DEF TypeOK, Scanner
<1>2. n \in 0 .. All /\ m \in 0 .. All /\ All \in Nat
  BY <1>1, LeftCounts DEF Left
<1>3. \A q \in scan.todo : scan'.todo = scan.todo \ {q} => m = n - 1
  BY <1>1, LeftCounts DEF Left
<1>4. scan'.todo = scan.todo => m = n
  BY DEF Left
<1>5. Left' = m
  BY DEF Left
<1> HIDE DEF n, m
<1>6. Waits(p) = IF scan.pc = "sweep" THEN 3 * All + 5 + n
                 ELSE IF scan.pc = "sleep" THEN 3 * All + 4
                 ELSE IF scan.pc = "enrol" /\ p \in scan.pid THEN 1
                 ELSE IF scan.pc = "read" /\ p \in scan.pid THEN 2
                 ELSE (IF p \in scan.todo THEN 3 ELSE 4 * All + 6) + 3 * n + at(scan.pc)
  BY DEF Waits, n
<1>7. Waits(p)' = IF scan'.pc = "sweep" THEN 3 * All + 5 + m
                  ELSE IF scan'.pc = "sleep" THEN 3 * All + 4
                  ELSE IF scan'.pc = "enrol" /\ p \in scan'.pid THEN 1
                  ELSE IF scan'.pc = "read" /\ p \in scan'.pid THEN 2
                  ELSE (IF p \in scan'.todo THEN 3 ELSE 4 * All + 6) + 3 * m + at(scan'.pc)
  BY <1>5 DEF Waits, All
<1>8. CASE scan.pc = "sleep" /\ scan'.pc = "walk" /\ scan'.todo = {q \in Pids : Exists(q)}
  <2>1. p \in scan'.todo
    BY <1>8 DEF Unseen, Agent, Exists
  <2> QED BY <1>2, <1>6, <1>7, <1>8, <2>1
<1>9. ASSUME NEW q \in Pids, Walks(q)
      PROVE  Waits(p)' < Waits(p)
  <2>1. CASE q = p
    <3>1. scan'.pc = "read" /\ p \in scan'.pid /\ p \in scan.todo
      BY <1>9, <2>1 DEF Walks, Unseen
    <3> QED BY <1>2, <1>6, <1>7, <1>9, <3>1 DEF Walks
  <2>2. CASE q # p
    <3>1. /\ p \in scan.todo <=> p \in scan'.todo
          /\ m = n - 1 /\ scan.pc = "walk"
          /\ scan'.pc = "walk" \/ (scan'.pc = "read" /\ p \notin scan'.pid)
      BY <1>3, <1>9, <2>2 DEF Walks
    <3> QED BY <1>2, <1>6, <1>7, <3>1
  <2> QED BY <2>1, <2>2
<1>10. CASE Reads /\ ReadProc
  <2>1. CASE p \in scan.pid
    <3>1. scan.pid = {p} /\ scan.pc = "read"
      BY <1>10, <2>1 DEF ReadProc, TypeOK
    <3>2. scan' = [scan EXCEPT !.pc = "enrol", !.policy = Resolve(Head(defs))]
      BY <1>10, <3>1 DEF ReadProc, Unseen, Agent, Exists
    <3>3. scan'.pc = "enrol" /\ p \in scan'.pid
      BY <3>1, <3>2 DEF TypeOK, Scanner
    <3> QED BY <1>6, <1>7, <3>1, <3>3
  <2>2. CASE p \notin scan.pid
    <3>1. /\ scan.pc = "read" /\ m = n /\ (p \in scan'.todo <=> p \in scan.todo)
          /\ scan'.pc = "walk" \/ (scan'.pc = "enrol" /\ p \notin scan'.pid)
      BY <1>4, <1>10, <2>2 DEF Reads, Unseen
    <3> QED BY <1>2, <1>6, <1>7, <2>2, <3>1
  <2> QED BY <2>1, <2>2
<1>11. CASE scan.pc = "enrol" /\ scan'.pc = "walk" /\ scan'.todo = scan.todo /\ Enrol
  <2>1. p \notin scan.pid
    <3>1. p \notin tracked'
      BY DEF Unseen
    <3>2. p \in scan.pid => scan.pid = {p}
      BY <1>11 DEF TypeOK
    <3> QED BY <1>11, <3>1, <3>2 DEF Enrol, Enter
  <2> QED BY <1>2, <1>4, <1>6, <1>7, <1>11, <2>1
<1>12. CASE scan.pc = "walk" /\ scan.todo = {} /\ scan'.pc = "sweep"
  BY <1>2, <1>6, <1>7, <1>12
<1>13. CASE \E q \in scan.todo :
               scan.pc = "sweep" /\ scan'.pc = "sweep" /\ scan'.todo = scan.todo \ {q}
  BY <1>2, <1>3, <1>6, <1>7, <1>13
<1>14. CASE scan.pc = "sweep" /\ scan'.pc = "sleep"
  BY <1>2, <1>6, <1>7, <1>14
<1> QED BY <1>8, <1>9, <1>10, <1>11, <1>12, <1>13, <1>14, ScannerSteps

(* ------------------------------- the scanner gets there ------------------------------- *)

\* The two things that wait for the scanner, with i of its steps at most to wait, and what
\* becomes of them.
Within(what, p, i) ==
    IF what = "entry" THEN Orphaned(p) /\ Outlasts(p) <= i ELSE Unseen(p) /\ Waits(p) <= i

Settled(what, p) ==
    \/ scan.pc = "gone"
    \/ IF what = "entry" THEN p \notin tracked \/ Exists(p)
       ELSE p \in tracked \/ proc[p].state # "running"

\* As long as its process stays dead and nobody removes the entry, every step of the
\* scanner brings its end nearer and no other step puts it off.
LEMMA OrphansFall ==
    ASSUME IsFiniteSet(Pids), Inductive, [Next]_vars, NEW p \in Pids, NEW i \in Nat,
           Within("entry", p, i + 1)
    PROVE  /\ Within("entry", p, i + 1)' \/ Settled("entry", p)'
           /\ ScannerStep => Within("entry", p, i)' \/ Settled("entry", p)'
<1>1. TypeOK /\ TypeOK' /\ Outlasts(p) \in Nat /\ Outlasts(p)' \in Nat
  <2>1. TypeOK /\ TypeOK'
    BY TypesStep DEF Inductive
  <2> QED BY <2>1, OutlastsCounts
<1>2. Orphaned(p) /\ Outlasts(p) <= i + 1
  BY DEF Within
<1>3. CASE ~Orphaned(p)'
  BY <1>3 DEF Orphaned, Settled, Exists
<1>4. CASE Orphaned(p)'
  <2>1. CASE ScannerStep
    <3>1. Outlasts(p)' < Outlasts(p)
      BY <1>1, <1>2, <1>4, <2>1, OutlastsFalls
    <3> QED BY <1>1, <1>2, <1>4, <3>1 DEF Within
  <2>2. CASE ~ScannerStep
    <3>1. ~Restart
      BY <1>4 DEF Restart, Orphaned
    <3>2. scan' = scan
      BY <2>2, <3>1, ScannerMoves
    <3>3. Outlasts(p)' = Outlasts(p)
      BY <3>2 DEF Outlasts, Left, All
    <3> QED BY <1>2, <1>4, <2>2, <3>3 DEF Within
  <2> QED BY <2>1, <2>2
<1> QED BY <1>3, <1>4

\* As long as the agent runs, is not registered and the daemon does not start anew, every
\* step of the scanner brings its entry nearer and no other step puts it off.
LEMMA AgentsFall ==
    ASSUME IsFiniteSet(Pids), Inductive, [Next]_vars, ~Restart, NEW p \in Pids, NEW i \in Nat,
           Within("agent", p, i + 1)
    PROVE  /\ Within("agent", p, i + 1)' \/ Settled("agent", p)'
           /\ ScannerStep => Within("agent", p, i)' \/ Settled("agent", p)'
<1>1. TypeOK /\ TypeOK' /\ Waits(p) \in Nat /\ Waits(p)' \in Nat
  <2>1. TypeOK /\ TypeOK'
    BY TypesStep DEF Inductive
  <2> QED BY <2>1, WaitsCounts
<1>2. Unseen(p) /\ Waits(p) <= i + 1
  BY DEF Within
<1>3. CASE ~Unseen(p)'
  <2>1. proc'[p] = proc[p] \/ proc'[p].state = "zombie"
    BY <1>1, <1>2, RunnersStay DEF Unseen, Agent
  <2> QED BY <1>2, <1>3, <2>1 DEF Unseen, Settled
<1>4. CASE Unseen(p)'
  <2>1. CASE ScannerStep
    <3>1. Waits(p)' < Waits(p)
      BY <1>1, <1>2, <1>4, <2>1, WaitsFalls
    <3> QED BY <1>1, <1>2, <1>4, <3>1 DEF Within
  <2>2. CASE ~ScannerStep
    <3>1. scan' = scan
      BY <2>2, ScannerMoves
    <3>2. Waits(p)' = Waits(p)
      BY <3>1 DEF Waits, Left, All
    <3> QED BY <1>2, <1>4, <2>2, <3>2 DEF Within
  <2> QED BY <2>1, <2>2
<1> QED BY <1>3, <1>4

\* Nothing waits for nothing.
LEMMA NobodyIsDue ==
    ASSUME IsFiniteSet(Pids), Inductive, NEW p \in Pids, NEW what \in {"entry", "agent"}
    PROVE  ~Within(what, p, 0)
<1> SUFFICES ASSUME Within(what, p, 0) PROVE FALSE
  OBVIOUS
<1>1. scan.todo \in SUBSET Pids
  BY DEF Inductive, TypeOK, Scanner
<1>2. Left \in 0 .. All /\ All \in Nat /\ (scan.todo # {} => Left > 0)
  BY <1>1, LeftCounts DEF Left
<1>3. Outlasts(p) > 0 /\ Waits(p) > 0 /\ Outlasts(p) \in Nat /\ Waits(p) \in Nat
  BY <1>2 DEF Outlasts, Waits
<1> QED BY <1>3 DEF Within

\* What is at most i steps of the scanner away is settled in the end.
Comes(what, p, i) == Within(what, p, i) ~> Settled(what, p)

\* One step of the induction: what is settled i steps away is settled i + 1 steps away, for
\* any set of pids and whatever else happens.
THEOREM EntriesComeDown ==
    ASSUME IsFiniteSet(Pids), NEW p \in Pids, NEW i \in Nat
    PROVE  FairSpec /\ []ScannerIsReady => (Comes("entry", p, i) => Comes("entry", p, i + 1))
<1>1. Inductive /\ Within("entry", p, i + 1) /\ [Next]_vars
        => Within("entry", p, i + 1)' \/ Settled("entry", p)'
  BY OrphansFall
<1>2. Inductive /\ Within("entry", p, i + 1) /\ <<ScannerStep>>_vars
        => Within("entry", p, i)' \/ Settled("entry", p)'
  BY OrphansFall DEF Next
<1>3. ScannerIsReady /\ Within("entry", p, i + 1) => ENABLED <<ScannerStep>>_vars
  BY DEF ScannerIsReady, Within, Orphaned
<1> QED BY <1>1, <1>2, <1>3, TableInvariance, PTL DEF FairSpec, Spec, FairScanner, Comes

\* A daemon that is not started anew; a new scanner would begin with an empty list.
Undisturbed == []Inductive /\ [][Next]_vars /\ FairScanner /\ []ScannerIsReady /\ [][~Restart]_vars

\* The same of an agent that is not in the table, as long as the daemon runs.
THEOREM AgentsComeUp ==
    ASSUME IsFiniteSet(Pids), NEW p \in Pids, NEW i \in Nat
    PROVE  Undisturbed => (Comes("agent", p, i) => Comes("agent", p, i + 1))
<1>1. Inductive /\ Within("agent", p, i + 1) /\ [Next]_vars /\ [~Restart]_vars
        => Within("agent", p, i + 1)' \/ Settled("agent", p)'
  <2>1. CASE UNCHANGED vars
    BY <2>1 DEF vars, Within, Unseen, Waits, Left, All
  <2>2. CASE ~UNCHANGED vars
    BY <2>2, AgentsFall
  <2> QED BY <2>1, <2>2
<1>2. Inductive /\ Within("agent", p, i + 1) /\ <<ScannerStep>>_vars /\ [~Restart]_vars
        => Within("agent", p, i)' \/ Settled("agent", p)'
  BY AgentsFall DEF Next
<1>3. ScannerIsReady /\ Within("agent", p, i + 1) => ENABLED <<ScannerStep>>_vars
  BY DEF ScannerIsReady, Within, Unseen
<1> QED BY <1>1, <1>2, <1>3, PTL DEF Undisturbed, FairScanner, Comes

\* The induction itself is over temporal formulas, which no prover here can do; doubling
\* replaces it, up to the number of pids that a Linux kernel can give out.
Extends(what, p, s) == \A i \in Nat : Comes(what, p, i) => Comes(what, p, i + s)

LEMMA Twofold ==
    ASSUME NEW what, NEW p, NEW s \in Nat
    PROVE  Extends(what, p, s) => Extends(what, p, 2 * s)
<1> SUFFICES ASSUME Extends(what, p, s), NEW i \in Nat, Comes(what, p, i)
             PROVE  Comes(what, p, i + 2 * s)
  BY DEF Extends
<1>1. i + s \in Nat /\ (i + s) + s = i + 2 * s
  OBVIOUS
<1>2. Comes(what, p, i + s)
  BY DEF Extends
<1>3. Comes(what, p, (i + s) + s)
  BY <1>1, <1>2 DEF Extends
<1> QED BY <1>1, <1>3

LEMMA ThirtyTwofold ==
    ASSUME NEW what, NEW p, NEW s \in Nat
    PROVE  Extends(what, p, s) => Extends(what, p, 32 * s)
<1> SUFFICES ASSUME Extends(what, p, s) PROVE Extends(what, p, 32 * s)
  OBVIOUS
<1>1. /\ 2 * s \in Nat /\ 2 * (2 * s) = 4 * s /\ 4 * s \in Nat /\ 2 * (4 * s) = 8 * s
      /\ 8 * s \in Nat /\ 2 * (8 * s) = 16 * s /\ 16 * s \in Nat /\ 2 * (16 * s) = 32 * s
  OBVIOUS
<1>2. Extends(what, p, 2 * s)   BY Twofold
<1>3. Extends(what, p, 4 * s)   BY <1>1, <1>2, Twofold
<1>4. Extends(what, p, 8 * s)   BY <1>1, <1>3, Twofold
<1>5. Extends(what, p, 16 * s)  BY <1>1, <1>4, Twofold
<1> QED BY <1>1, <1>5, Twofold

\* The kernel gives out pids below PID_MAX_LIMIT, which is 2^22; a scan and two sweeps over
\* them are less than 2^25 steps.
PidLimit == 4194304
Most == 32 * (32 * (32 * (32 * (32 * 1))))

LEMMA FarEnough ==
    ASSUME NEW what, NEW p
    PROVE  Comes(what, p, 0) /\ Extends(what, p, 1) => Comes(what, p, Most)
<1>1. Extends(what, p, 1) => Extends(what, p, 32 * 1)  BY ThirtyTwofold
<1>2. Extends(what, p, 32 * 1) => Extends(what, p, 32 * (32 * 1))  BY ThirtyTwofold
<1>3. Extends(what, p, 32 * (32 * 1)) => Extends(what, p, 32 * (32 * (32 * 1)))
  BY ThirtyTwofold
<1>4. Extends(what, p, 32 * (32 * (32 * 1))) => Extends(what, p, 32 * (32 * (32 * (32 * 1))))
  BY ThirtyTwofold
<1>5. Extends(what, p, 32 * (32 * (32 * (32 * 1)))) => Extends(what, p, Most)
  BY ThirtyTwofold DEF Most
<1>6. Extends(what, p, 1) => Extends(what, p, Most)
  BY <1>1, <1>2, <1>3, <1>4, <1>5
<1>7. 0 + Most = Most
  BY SMT DEF Most
<1> QED BY <1>6, <1>7 DEF Extends

LEMMA WithinMost ==
    ASSUME IsFiniteSet(Pids), Cardinality(Pids) <= PidLimit, Inductive, NEW p \in Pids
    PROVE  /\ p \in tracked /\ ~Exists(p) => Within("entry", p, Most) \/ Settled("entry", p)
           /\ Unseen(p) => Within("agent", p, Most)
<1>1. scan.todo \in SUBSET Pids
  BY DEF Inductive, TypeOK, Scanner
<1>2. Left \in 0 .. All /\ All \in Nat /\ All <= PidLimit
  BY <1>1, LeftCounts DEF Left, All
<1>3. PidLimit \in Nat /\ Most \in Nat /\ 7 * PidLimit + 8 <= Most
  BY SMT DEF PidLimit, Most
<1>4. Outlasts(p) <= Most
  BY <1>2, <1>3, SMT DEF Outlasts
<1>5. Waits(p) <= Most
  BY <1>2, <1>3, SMT DEF Waits
<1> QED BY <1>4, <1>5 DEF Within, Settled, Orphaned

\* An entry without a process disappears or its pid is given out again, unless an exception
\* ended the scanner thread: under the scanner's fairness alone, whatever registrations,
\* kills, starts and ends of processes and restarts happen meanwhile.
THEOREM DeadAgentsDoLeave ==
    ASSUME IsFiniteSet(Pids), Cardinality(Pids) <= PidLimit
    PROVE  FairSpec /\ []ScannerIsReady => DeadAgentsLeave
<1>1. ASSUME NEW p \in Pids
      PROVE  FairSpec /\ []ScannerIsReady
               => (p \in tracked /\ ~Exists(p) ~> p \notin tracked \/ Exists(p) \/ scan.pc = "gone")
  <2>1. FairSpec /\ []ScannerIsReady => Extends("entry", p, 1)
    BY EntriesComeDown DEF Extends
  <2>2. Inductive => ~Within("entry", p, 0)
    BY NobodyIsDue
  <2>3. Comes("entry", p, 0) /\ Extends("entry", p, 1) => Comes("entry", p, Most)
    BY FarEnough
  <2>4. Inductive /\ p \in tracked /\ ~Exists(p) => Within("entry", p, Most) \/ Settled("entry", p)
    BY WithinMost
  <2>5. Settled("entry", p) <=> p \notin tracked \/ Exists(p) \/ scan.pc = "gone"
    BY DEF Settled
  <2> QED BY <2>1, <2>2, <2>3, <2>4, <2>5, TableInvariance, PTL DEF FairSpec, Comes
<1> QED BY <1>1 DEF DeadAgentsLeave

\* A process that policy.yaml matches is registered, unless it ends before or the scanner
\* thread died, whatever else happens, if the daemon is not restarted for ever (the model
\* bounds the restarts).
THEOREM MatchesAreFound ==
    ASSUME IsFiniteSet(Pids), Cardinality(Pids) <= PidLimit
    PROVE  FairSpec /\ []ScannerIsReady /\ <>[][~Restart]_vars => MatchesAreRegistered
<1>1. ASSUME NEW p \in Pids
      PROVE  FairSpec /\ []ScannerIsReady /\ <>[][~Restart]_vars
               => (proc[p] = Agent ~> p \in tracked \/ proc[p].state # "running" \/ scan.pc = "gone")
  <2>1. Undisturbed => Extends("agent", p, 1)
    BY AgentsComeUp DEF Extends
  <2>2. Inductive => ~Within("agent", p, 0)
    BY NobodyIsDue
  <2>3. Comes("agent", p, 0) /\ Extends("agent", p, 1) => Comes("agent", p, Most)
    BY FarEnough
  <2>4. Undisturbed => Comes("agent", p, Most)
    BY <2>1, <2>2, <2>3, PTL DEF Undisturbed, Comes
  <2>5. Inductive /\ Unseen(p) => Within("agent", p, Most)
    BY WithinMost
  <2>6. Inductive /\ Unseen(p) /\ [Next]_vars => Unseen(p)' \/ Settled("agent", p)'
    <3> SUFFICES ASSUME Inductive, Unseen(p), [Next]_vars PROVE Unseen(p)' \/ Settled("agent", p)'
      OBVIOUS
    <3>1. proc'[p] = proc[p] \/ proc'[p].state = "zombie"
      BY RunnersStay DEF Unseen, Agent, Inductive
    <3> QED BY <3>1 DEF Unseen, Settled
  <2>7. proc[p] = Agent => Unseen(p) \/ Settled("agent", p)
    BY DEF Unseen, Settled
  <2>8. Settled("agent", p) <=> p \in tracked \/ proc[p].state # "running" \/ scan.pc = "gone"
    BY DEF Settled
  <2> QED BY <2>4, <2>5, <2>6, <2>7, <2>8, TableInvariance, PTL
          DEF FairSpec, FairScanner, Spec, Undisturbed, Comes
<1> QED BY <1>1 DEF MatchesAreRegistered, Agent

(* ------------------------------ restarts come to an end ------------------------------ *)

\* At most i restarts are left.
Spared(i) == restarts + i >= MaxRestarts

\* With i restarts left, the daemon stays up for good in the end.
Steadies(i) == [](Spared(i) => <>[][~Restart]_vars)

LEMMA RestartsCount ==
    ASSUME [Next]_vars
    PROVE  restarts' = restarts \/ restarts' = restarts + 1
BY DEF Next, ScannerStep, StartScan, ReadProc, Enrol, FindDead, EndScan, Examine, DropDead, Edit,
       Reload, Restart, Spawn, Exit, Register, Unregister, SetPolicy, RequestKill, Signal, Forget,
       counters, vars

\* One step of the induction: with one restart more to come, either it never comes, or the
\* moment it has come one less is left.
LEMMA OneMoreRestart ==
    ASSUME NEW i \in Nat
    PROVE  []Inductive /\ [][Next]_vars => (Steadies(i) => Steadies(i + 1))
<1>1. Inductive /\ Spared(i + 1) /\ [Next]_vars => Spared(i + 1)'
  <2> SUFFICES ASSUME Inductive, Spared(i + 1), [Next]_vars PROVE Spared(i + 1)'
    OBVIOUS
  <2>1. restarts \in Nat /\ MaxRestarts \in Nat
    BY DaemonConstants DEF Inductive, TypeOK
  <2>2. restarts' = restarts \/ restarts' = restarts + 1
    BY RestartsCount
  <2> QED BY <2>1, <2>2 DEF Spared
<1>2. Inductive /\ Spared(i + 1) /\ Restart => Spared(i)'
  <2> SUFFICES ASSUME Inductive, Spared(i + 1), Restart PROVE Spared(i)'
    OBVIOUS
  <2>1. restarts \in Nat /\ MaxRestarts \in Nat /\ restarts' = restarts + 1
    BY DaemonConstants DEF Inductive, TypeOK, Restart
  <2> QED BY <2>1 DEF Spared
<1> QED BY <1>1, <1>2, PTL DEF Steadies

LEMMA NoMoreRestarts == []Inductive /\ [][Next]_vars => Steadies(0)
<1>1. Inductive /\ Spared(0) /\ [Next]_vars => Spared(0)'
  <2> SUFFICES ASSUME Inductive, Spared(0), [Next]_vars PROVE Spared(0)'
    OBVIOUS
  <2>1. restarts \in Nat /\ MaxRestarts \in Nat
    BY DaemonConstants DEF Inductive, TypeOK
  <2>2. restarts' = restarts \/ restarts' = restarts + 1
    BY RestartsCount
  <2> QED BY <2>1, <2>2 DEF Spared
<1>2. Inductive /\ Spared(0) => [~Restart]_vars
  <2> SUFFICES ASSUME Inductive, Spared(0) PROVE ~Restart
    OBVIOUS
  <2>1. restarts \in Nat /\ MaxRestarts \in Nat /\ restarts >= MaxRestarts
    BY DaemonConstants DEF Inductive, TypeOK, Spared
  <2> QED BY <2>1 DEF Restart
<1> QED BY <1>1, <1>2, PTL DEF Steadies

\* Doubling again, in place of the induction.
Bears(s) == \A i \in Nat : Steadies(i) => Steadies(i + s)

LEMMA TwiceAsMany ==
    ASSUME NEW s \in Nat
    PROVE  Bears(s) => Bears(2 * s)
<1> SUFFICES ASSUME Bears(s), NEW i \in Nat, Steadies(i)
             PROVE  Steadies(i + 2 * s)
  BY DEF Bears
<1>1. i + s \in Nat /\ (i + s) + s = i + 2 * s
  OBVIOUS
<1>2. Steadies(i + s)
  BY DEF Bears
<1>3. Steadies((i + s) + s)
  BY <1>1, <1>2 DEF Bears
<1> QED BY <1>1, <1>3

LEMMA ManyMore ==
    ASSUME NEW s \in Nat
    PROVE  Bears(s) => Bears(32 * s)
<1> SUFFICES ASSUME Bears(s) PROVE Bears(32 * s)
  OBVIOUS
<1>1. /\ 2 * s \in Nat /\ 2 * (2 * s) = 4 * s /\ 4 * s \in Nat /\ 2 * (4 * s) = 8 * s
      /\ 8 * s \in Nat /\ 2 * (8 * s) = 16 * s /\ 16 * s \in Nat /\ 2 * (16 * s) = 32 * s
  OBVIOUS
<1>2. Bears(2 * s)   BY TwiceAsMany
<1>3. Bears(4 * s)   BY <1>1, <1>2, TwiceAsMany
<1>4. Bears(8 * s)   BY <1>1, <1>3, TwiceAsMany
<1>5. Bears(16 * s)  BY <1>1, <1>4, TwiceAsMany
<1> QED BY <1>1, <1>5, TwiceAsMany

LEMMA AnyRestarts == Steadies(0) /\ Bears(1) => Steadies(Most)
<1>1. Bears(1) => Bears(32 * 1)  BY ManyMore
<1>2. Bears(32 * 1) => Bears(32 * (32 * 1))  BY ManyMore
<1>3. Bears(32 * (32 * 1)) => Bears(32 * (32 * (32 * 1)))  BY ManyMore
<1>4. Bears(32 * (32 * (32 * 1))) => Bears(32 * (32 * (32 * (32 * 1))))  BY ManyMore
<1>5. Bears(32 * (32 * (32 * (32 * 1)))) => Bears(Most)  BY ManyMore DEF Most
<1>6. Bears(1) => Bears(Most)  BY <1>1, <1>2, <1>3, <1>4, <1>5
<1>7. 0 + Most = Most
  BY SMT DEF Most
<1> QED BY <1>6, <1>7 DEF Bears

\* Up to the bound Most (a restart every second for a year) the bound on restarts is all that
\* MatchesAreFound asks of them: the daemon is up for good in the end.
THEOREM RestartsEnd ==
    ASSUME MaxRestarts <= Most
    PROVE  Spec => <>[][~Restart]_vars
<1>1. []Inductive /\ [][Next]_vars => Bears(1)
  BY OneMoreRestart DEF Bears
<1>2. []Inductive /\ [][Next]_vars => Steadies(Most)
  BY <1>1, NoMoreRestarts, AnyRestarts
<1>3. Init => Spared(Most)
  <2>1. Init => restarts = 0
    BY DEF Init
  <2>2. 0 + Most = Most
    BY SMT DEF Most
  <2> QED BY <2>1, <2>2 DEF Spared
<1> QED BY <1>2, <1>3, TableInvariance, PTL DEF Spec, Steadies

\* What policy.yaml:113 says of the scanner, under its fairness and nothing else.
THEOREM EveryMatchIsFound ==
    ASSUME IsFiniteSet(Pids), Cardinality(Pids) <= PidLimit, MaxRestarts <= Most
    PROVE  FairSpec /\ []ScannerIsReady => MatchesAreRegistered
BY MatchesAreFound, RestartsEnd, PTL DEF FairSpec
=============================================================================
