--------------------------- MODULE GuardBudgetProofs ---------------------------
(* Two more proofs about Guard: what is dropped is counted, and an agent whose *)
(* packets never meet on two CPUs stays within its budget.                     *)
EXTENDS GuardProofs

--------------------------------------------------------------------------------
(* Drops and counters *)

Counted(c) == stats[c]["BLOCKED"] + stats[c]["SANDBOXED"]
                + stats[c]["RATE_DROPS"] + stats[c]["POLICY_HITS"]

\* A verdict that a hook other than egress will act on; egress counts when it acts.
Due(c) ==
    IF /\ pc[c] \in PacketPc
       /\ job[c].pkt.hook # "egress"
       /\ job[c].verdict \in Stops(job[c].pkt.hook)
    THEN 1 ELSE 0

\* The counters are ahead of the drops by the verdicts that are still to be carried out.
CountsOK == \A c \in Cpus : dropped[c] + Due(c) <= Counted(c)

\* Counters only grow, each program moves those of its own CPU.
LEMMA CountAdds ==
    ASSUME TypeOK, NEW c \in Cpus, NEW S, Count(c, S)
    PROVE  /\ \A d \in Cpus : Counted(d)' >= Counted(d)
           /\ \A s \in S \cap Counters : Counted(c)' >= Counted(c) + 1
<1>1. \A d \in Cpus : stats'[d] = IF d = c THEN [s \in Counters |-> stats[c][s] + (IF s \in S THEN 1 ELSE 0)]
                                           ELSE stats[d]
  BY DEF Count, TypeOK
<1>2. \A d \in Cpus : \A s \in Counters : stats[d][s] \in Nat
  BY DEF TypeOK
<1>3. \A s \in Counters : stats'[c][s] = stats[c][s] + (IF s \in S THEN 1 ELSE 0)
  BY <1>1
<1>4. Counted(c)' >= Counted(c) /\ \A s \in S \cap Counters : Counted(c)' >= Counted(c) + 1
  BY <1>2, <1>3 DEF Counted, Counters
<1>5. \A d \in Cpus \ {c} : Counted(d)' >= Counted(d)
  <2> SUFFICES ASSUME NEW d \in Cpus \ {c}
               PROVE  Counted(d)' >= Counted(d)
    OBVIOUS
  <2>1. stats'[d] = stats[d]
    BY <1>1
  <2>2. QED
    BY <1>2, <2>1 DEF Counted, Counters
<1>6. QED
  BY <1>4, <1>5

LEMMA CountedTyped ==
    ASSUME TypeOK, NEW c \in Cpus
    PROVE  Counted(c) \in Nat /\ dropped[c] \in Nat /\ Due(c) \in {0, 1}
<1>1. \A s \in Counters : stats[c][s] \in Nat
  BY DEF TypeOK
<1>2. QED
  BY <1>1 DEF Counted, Counters, Due, TypeOK

LEMMA CountedTypedNext ==
    ASSUME TypeOK', NEW c \in Cpus
    PROVE  Counted(c)' \in Nat /\ dropped'[c] \in Nat /\ Due(c)' \in {0, 1}
<1>1. \A s \in Counters : stats'[c][s] \in Nat
  BY DEF TypeOK
<1>2. QED
  BY <1>1 DEF Counted, Counters, Due, TypeOK

\* A program that drops nothing and passes no new verdict, or counts the one it passes.
LEMMA DueKept ==
    ASSUME TypeOK, TypeOK', CountsOK, NEW c \in Cpus, UNCHANGED dropped,
           \A d \in Cpus \ {c} : pc'[d] = pc[d] /\ job'[d] = job[d],
           \A d \in Cpus : Counted(d)' >= Counted(d),
           Due(c)' <= Due(c) \/ Counted(c)' >= Counted(c) + 1
    PROVE  CountsOK'
<1>1. \A d \in Cpus : /\ Counted(d) \in Nat /\ dropped[d] \in Nat /\ Due(d) \in {0, 1}
                      /\ Counted(d)' \in Nat /\ Due(d)' \in {0, 1}
  BY CountedTyped, CountedTypedNext
<1>2. \A d \in Cpus \ {c} : Due(d)' = Due(d)
  BY DEF Due
<1>3. QED
  BY <1>1, <1>2 DEF CountsOK

LEMMA PacketKeepsCounts ==
    ASSUME TypeOK, TypeOK', CountsOK, NEW c \in Cpus,
           \/ CheckOverride(c) \/ CheckBlocklist(c) \/ CheckRegistry(c) \/ CheckPolicy(c)
           \/ LookUpBucket(c) \/ CreateBucket(c) \/ Charge(c)
           \/ Inspect(c) \/ LookUpFlow(c) \/ RecordFlow(c) \/ EmitVerdict(c)
    PROVE  CountsOK'
<1>1. /\ \A d \in Cpus \ {c} : pc'[d] = pc[d] /\ job'[d] = job[d]
      /\ pc[c] \in PacketPc /\ job[c] \in PacketJob
      /\ job \in [Cpus -> PacketJob \cup SyscallJob \cup {<<>>}]
  BY PacketStays DEF TypeOK
<1>2. UNCHANGED dropped
  BY DEF CheckOverride, CheckBlocklist, CheckRegistry, CheckPolicy, LookUpBucket, CreateBucket,
         Charge, Inspect, LookUpFlow, RecordFlow, EmitVerdict, history
<1>3. job[c].pkt.hook \in Hooks
  BY <1>1, PacketParts DEF ProgramsTyped, TypeOK
<1>4. /\ "ALLOW" \notin Stops(job[c].pkt.hook)
      /\ job[c].pkt.hook # "egress" => "KILL" \notin Stops(job[c].pkt.hook)
  BY <1>3 DEF Stops, Hooks
<1> DEFINE Quiet == /\ UNCHANGED stats
                    /\ \/ \E v \in {"ALLOW", "KILL"} : Judge(c, v) \/ Consumed(c, v)
                       \/ job' = job
                       \/ \E t : \/ job' = [job EXCEPT ![c].now = t]
                                 \/ job' = [job EXCEPT ![c].seen = t]
           Books(S) == Count(c, S)
<1>5. \/ Quiet
      \/ \E S \in {{"POLICY_HITS"}, {"BLOCKED", "POLICY_HITS"}, {"SANDBOXED"}, {"BLOCKED"},
                   {"RATE_DROPS"}} : Books(S)
  <2>1. CASE CheckOverride(c) \/ CheckBlocklist(c) \/ CheckRegistry(c) \/ CheckPolicy(c)
    BY <2>1 DEF CheckOverride, CheckBlocklist, CheckRegistry, CheckPolicy
  <2>2. CASE LookUpBucket(c) \/ CreateBucket(c) \/ Charge(c)
    BY <2>2 DEF LookUpBucket, CreateBucket, Charge
  <2>3. CASE Inspect(c) \/ LookUpFlow(c) \/ RecordFlow(c) \/ EmitVerdict(c)
    BY <2>3 DEF Inspect, LookUpFlow, RecordFlow, EmitVerdict
  <2>4. QED
    BY <2>1, <2>2, <2>3
<1>6. CASE Quiet
  <2>1. \A d \in Cpus : Counted(d)' >= Counted(d)
    BY <1>6, CountedTyped DEF Counted
  <2>2. Due(c)' <= Due(c)
    <3>1. CASE \E v \in {"ALLOW", "KILL"} : Judge(c, v) \/ Consumed(c, v)
      <4>1. job'[c].pkt = job[c].pkt /\ job'[c].verdict \in {"ALLOW", "KILL"}
        BY <1>1, <3>1, JudgeKeeps
      <4>2. Due(c)' = 0
        BY <1>4, <4>1 DEF Due
      <4>3. QED
        BY <4>2, CountedTyped
    <3>2. CASE \/ job' = job
               \/ \E t : \/ job' = [job EXCEPT ![c].now = t]
                         \/ job' = [job EXCEPT ![c].seen = t]
      <4>1. job'[c].pkt = job[c].pkt /\ job'[c].verdict = job[c].verdict
        BY <1>1, <3>2 DEF PacketJob
      <4>2. QED
        BY <1>1, <4>1 DEF Due
    <3>3. QED
      BY <1>6, <3>1, <3>2
  <2>3. QED
    BY <1>1, <1>2, <2>1, <2>2, DueKept
<1>7. CASE \E S \in {{"POLICY_HITS"}, {"BLOCKED", "POLICY_HITS"}, {"SANDBOXED"}, {"BLOCKED"},
                    {"RATE_DROPS"}} : Books(S)
  <2>1. PICK S \in {{"POLICY_HITS"}, {"BLOCKED", "POLICY_HITS"}, {"SANDBOXED"}, {"BLOCKED"},
                    {"RATE_DROPS"}} : Count(c, S)
    BY <1>7
  <2>2. \E s \in S \cap Counters : TRUE
    BY <2>1 DEF Counters
  <2>3. (\A d \in Cpus : Counted(d)' >= Counted(d)) /\ Counted(c)' >= Counted(c) + 1
    BY <2>1, <2>2, CountAdds
  <2>4. QED
    BY <1>1, <1>2, <2>3, DueKept
<1>8. QED
  BY <1>5, <1>6, <1>7

\* The hook acts on the verdict: egress counts what it stops, the others had it counted.
LEMMA FinishKeepsCounts ==
    ASSUME TypeOK, TypeOK', CountsOK, NEW c \in Cpus, Finish(c)
    PROVE  CountsOK'
<1>1. /\ \A d \in Cpus \ {c} : pc'[d] = pc[d] /\ job'[d] = job[d]
      /\ pc[c] \in PacketPc /\ job[c] \in PacketJob
  BY PacketStays
<1>2. job[c].pkt.hook \in Hooks
  BY <1>1, PacketParts DEF ProgramsTyped, TypeOK
<1> DEFINE stopped == job[c].verdict \in Stops(job[c].pkt.hook)
           S == (IF job[c].pkt.hook = "egress" /\ job[c].verdict \in {"BLOCK", "KILL"} THEN {"BLOCKED"} ELSE {})
                  \cup (IF job[c].pkt.hook = "egress" /\ job[c].verdict = "SANDBOX" THEN {"SANDBOXED"} ELSE {})
<1>3. Count(c, S)
  BY DEF Finish
<1>4. \A d \in Cpus : Counted(d)' >= Counted(d)
  BY <1>3, CountAdds
<1>5. /\ dropped'[c] = dropped[c] + (IF stopped THEN 1 ELSE 0)
      /\ \A d \in Cpus \ {c} : dropped'[d] = dropped[d]
  BY DEF Finish, TypeOK
<1> HIDE DEF stopped
<1>6. Due(c)' = 0
  BY DEF Finish, To, TypeOK, Due, PacketPc
<1>10. \A d \in Cpus : /\ Counted(d) \in Nat /\ dropped[d] \in Nat /\ Due(d) \in {0, 1}
                       /\ Counted(d)' \in Nat /\ Due(d)' \in {0, 1}
  BY CountedTyped, CountedTypedNext
<1>11. \A d \in Cpus \ {c} : dropped'[d] + Due(d)' <= Counted(d)'
  <2>1. \A d \in Cpus \ {c} : Due(d)' = Due(d)
    BY <1>1 DEF Due
  <2>2. QED
    BY <1>4, <1>5, <1>10, <2>1 DEF CountsOK
<1>7. CASE job[c].pkt.hook = "egress" /\ stopped
  <2>1. \E s \in S \cap Counters : TRUE
    BY <1>7 DEF stopped, Stops, Counters
  <2>2. Counted(c)' >= Counted(c) + 1
    BY <1>3, <2>1, CountAdds
  <2>3. Due(c) = 0
    BY <1>7 DEF Due
  <2>4. dropped'[c] + Due(c)' <= Counted(c)'
    BY <1>5, <1>6, <1>7, <1>10, <2>2, <2>3 DEF CountsOK
  <2>5. QED
    BY <1>11, <2>4 DEF CountsOK
<1>8. CASE ~(job[c].pkt.hook = "egress" /\ stopped)
  <2>1. Due(c) = IF stopped THEN 1 ELSE 0
    BY <1>1, <1>8 DEF Due, stopped
  <2>2. dropped'[c] + Due(c)' <= Counted(c)'
    BY <1>4, <1>5, <1>6, <1>10, <2>1 DEF CountsOK
  <2>3. QED
    BY <1>11, <2>2 DEF CountsOK
<1>9. QED
  BY <1>7, <1>8

\* A system call program only moves itself, and never among packet steps.
LEMMA SyscallMoves ==
    ASSUME TypeOK, NEW c \in Cpus,
           \/ \E a \in Agents, k \in SyscallKinds : EnterSyscall(c, a, k)
           \/ RaiseThreat(c) \/ MarkKilled(c) \/ Report(c)
    PROVE  /\ \A d \in Cpus \ {c} : pc'[d] = pc[d] /\ job'[d] = job[d]
           /\ pc'[c] \notin PacketPc
<1>1. CASE \E a \in Agents, k \in SyscallKinds : EnterSyscall(c, a, k)
  BY <1>1 DEF EnterSyscall, TypeOK, PacketPc
<1>2. CASE RaiseThreat(c)
  BY <1>2 DEF RaiseThreat, To, TypeOK, PacketPc
<1>3. CASE MarkKilled(c)
  BY <1>3 DEF MarkKilled, To, TypeOK, PacketPc
<1>4. CASE Report(c)
  BY <1>4 DEF Report, To, TypeOK, PacketPc
<1>5. QED
  BY <1>1, <1>2, <1>3, <1>4

LEMMA OthersKeepCounts ==
    ASSUME TypeOK, TypeOK', CountsOK,
           \/ \E c \in Cpus, p \in Packets : Arrive(c, p)
           \/ \E c \in Cpus, a \in Agents, k \in SyscallKinds : EnterSyscall(c, a, k)
           \/ \E c \in Cpus : RaiseThreat(c) \/ MarkKilled(c) \/ Report(c)
           \/ UserSpace \/ Tick \/ UNCHANGED vars
    PROVE  CountsOK'
<1>1. UNCHANGED <<stats, dropped>>
  BY DEF Arrive, EnterSyscall, RaiseThreat, MarkKilled, Report, UserSpace, Enable, Enrol,
         SetOverride, Ban, Consume, Tick, vars, maps, history
<1>2. \A d \in Cpus : Counted(d)' = Counted(d)
  BY <1>1 DEF Counted
<1>3. CASE \E c \in Cpus, p \in Packets : Arrive(c, p)
  <2>1. PICK c \in Cpus, p \in Packets : Arrive(c, p)
    BY <1>3
  <2>2. /\ \A d \in Cpus \ {c} : pc'[d] = pc[d] /\ job'[d] = job[d]
        /\ job'[c].pkt = p /\ job'[c].verdict = "ALLOW"
    BY <2>1 DEF Arrive, TypeOK
  <2>3. p.hook \in Hooks
    BY GuardConstants DEF PacketType
  <2>4. Due(c)' = 0
    BY <2>2, <2>3 DEF Due, Stops, Hooks
  <2>5. QED
    BY <1>1, <1>2, <2>2, <2>4, CountedTyped, DueKept
<1>4. CASE \/ \E c \in Cpus, a \in Agents, k \in SyscallKinds : EnterSyscall(c, a, k)
           \/ \E c \in Cpus : RaiseThreat(c) \/ MarkKilled(c) \/ Report(c)
  <2>1. PICK c \in Cpus : \/ \E a \in Agents, k \in SyscallKinds : EnterSyscall(c, a, k)
                          \/ RaiseThreat(c) \/ MarkKilled(c) \/ Report(c)
    BY <1>4
  <2>2. /\ \A d \in Cpus \ {c} : pc'[d] = pc[d] /\ job'[d] = job[d]
        /\ pc'[c] \notin PacketPc
    BY <2>1, SyscallMoves
  <2>3. Due(c)' = 0
    BY <2>2 DEF Due
  <2>4. QED
    BY <1>1, <1>2, <2>1, <2>2, <2>3, CountedTyped, DueKept
<1>5. CASE UserSpace \/ Tick \/ UNCHANGED vars
  <2>1. UNCHANGED <<pc, job>>
    BY <1>5 DEF UserSpace, Enable, Enrol, SetOverride, Ban, Consume, Tick, vars
  <2>2. QED
    BY <1>1, <1>2, <2>1 DEF CountsOK, Due
<1>6. QED
  BY <1>3, <1>4, <1>5

\* No packet disappears from the statistics, whichever of the hook and process_packet was to
\* count it (stat_inc, agent_guard_tc_egress, agent_guard_xdp).
THEOREM DropsCounted == Spec => []DropsAreCounted
<1>1. Init => CountsOK
  <2> SUFFICES ASSUME Init, NEW c \in Cpus
               PROVE  dropped[c] + Due(c) <= Counted(c)
    BY DEF CountsOK
  <2>1. Due(c) = 0
    BY DEF Init, Due, PacketPc
  <2>2. dropped[c] = 0 /\ Counted(c) \in Nat
    BY InitTyped, CountedTyped DEF Init
  <2>3. QED
    BY <2>1, <2>2
<1>2. TypeOK /\ CountsOK /\ [Next]_vars => CountsOK'
  BY TypesKept, Steps, PacketKeepsCounts, FinishKeepsCounts, OthersKeepCounts
<1>3. TypeOK /\ CountsOK => DropsAreCounted
  <2> SUFFICES ASSUME TypeOK, CountsOK, NEW c \in Cpus
               PROVE  dropped[c] <= Counted(c)
    BY DEF DropsAreCounted, Counted
  <2>1. QED
    BY CountedTyped DEF CountsOK
<1>4. QED
  BY <1>1, <1>2, <1>3, GuardTypes, PTL DEF Spec

--------------------------------------------------------------------------------
(* The budget of an agent whose packets never run on two CPUs at once *)

\* Only one CPU handles packets of a.
Alone(a) == a \in serial => \A c, d \in Cpus : Handles(c, a) /\ Handles(d, a) => c = d

\* What the bucket holds and what was taken from it came from the burst and the refill up
\* to the last refill.
Balanced(a) ==
    a \in serial \cap bucketed =>
        /\ born[a] <= bucket[a].at /\ bucket[a].at <= clock
        /\ bucket[a].tokens + spent[a] <= Burst + bucket[a].rate * (bucket[a].at - born[a])

\* What the program on c has read of the clock and of the bucket is in order and still true.
Fresh(c) ==
    pc[c] \in {"bucket", "create", "charge"} /\ job[c].pkt.pid \in serial =>
        LET a == job[c].pkt.pid IN
        /\ job[c].now <= clock
        /\ a \in bucketed => bucket[a].at <= job[c].now
        /\ pc[c] = "charge" => a \in bucketed /\ job[c].seen = bucket[a]

BudgetInv ==
    /\ \A a \in Agents : Alone(a) /\ Balanced(a)
    /\ \A c \in Cpus : Fresh(c)

LEMMA Remainder ==
    ASSUME NEW n \in Nat
    PROVE  n % Word \in Nat /\ n % Word <= n /\ (n < Word => n % Word = n)
BY GuardConstants

LEMMA ProductGrows ==
    ASSUME NEW r \in Nat, NEW x \in Nat, NEW y \in Nat
    PROVE  r * x \in Nat /\ r * (x + y) = r * x + r * y /\ r * x <= r * (x + y)
<1>1. r * x \in Nat /\ r * y \in Nat
  OBVIOUS
<1>2. r * (x + y) = r * x + r * y
  OBVIOUS
<1>3. QED
  BY <1>1, <1>2

\* A refill adds at most the rate times the time that has passed.
LEMMA RefillBounded ==
    ASSUME NEW b \in Bucket, NEW now \in 0 .. MaxTime, b.at <= now
    PROVE  /\ Elapsed(b, now) = now - b.at
           /\ Refilled(b, now) <= b.tokens + b.rate * (now - b.at)
<1>1. b.tokens \in 0 .. Burst /\ b.at \in 0 .. MaxTime /\ b.rate \in Nat
  BY DEF Bucket
<1> DEFINE e == now - b.at
<1>2. e \in Nat /\ e < Word /\ b.tokens \in Nat
  BY <1>1, GuardConstants
<1>3. Elapsed(b, now) = e
  BY <1>2, Remainder DEF Elapsed
<1> HIDE DEF e
<1>4. b.rate * e \in Nat /\ e * b.rate = b.rate * e
  BY <1>1, <1>2, ProductGrows
<1> DEFINE m == (e * b.rate) % Word
<1>5. m \in Nat /\ m <= b.rate * e
  BY <1>4, Remainder
<1> HIDE DEF m
<1>6. (b.tokens + m) % Word \in Nat /\ (b.tokens + m) % Word <= b.tokens + m
  BY <1>2, <1>5, Remainder
<1>7. Refilled(b, now) = IF (b.tokens + m) % Word > Burst THEN Burst ELSE (b.tokens + m) % Word
  BY <1>3 DEF Refilled, m
<1>8. Refilled(b, now) <= (b.tokens + m) % Word
  BY <1>6, <1>7, GuardConstants
<1>9. Refilled(b, now) \in Nat
  BY <1>6, <1>7, GuardConstants
<1>10. Refilled(b, now) <= b.tokens + b.rate * e
  BY <1>2, <1>4, <1>5, <1>6, <1>8, <1>9
<1>11. QED
  BY <1>3, <1>10 DEF e

\* A program that leaves buckets alone and stays with its packet, or ends.
LEMMA QuietKeepsBudget ==
    ASSUME BudgetInv, NEW c \in Cpus,
           UNCHANGED <<bucketed, bucket, spent, born, serial, clock>>,
           \A d \in Cpus \ {c} : pc'[d] = pc[d] /\ job'[d] = job[d],
           pc'[c] \in PacketPc => pc[c] \in PacketPc /\ job'[c].pkt = job[c].pkt,
           Fresh(c)'
    PROVE  BudgetInv'
<1>1. \A a \in Agents, d \in Cpus : Handles(d, a)' => Handles(d, a)
  BY DEF Handles
<1>2. \A a \in Agents : Alone(a)' /\ Balanced(a)'
  BY <1>1 DEF BudgetInv, Alone, Balanced
<1>3. \A d \in Cpus \ {c} : Fresh(d)'
  BY DEF BudgetInv, Fresh
<1>4. QED
  BY <1>2, <1>3 DEF BudgetInv

\* The steps on the way to the bucket: the clock is read, then the bucket.
LEMMA ApproachKeepsBudget ==
    ASSUME TypeOK, BudgetInv, NEW c \in Cpus, CheckPolicy(c) \/ LookUpBucket(c)
    PROVE  BudgetInv'
<1>1. /\ \A d \in Cpus \ {c} : pc'[d] = pc[d] /\ job'[d] = job[d]
      /\ pc[c] \in PacketPc /\ job[c] \in PacketJob
  BY PacketStays
<1>2. job[c].pkt.pid \in Agents
  BY <1>1, PacketParts DEF ProgramsTyped, TypeOK
<1>3. UNCHANGED <<bucketed, bucket, spent, born, serial, clock>>
  BY DEF CheckPolicy, LookUpBucket, maps, history
<1>4. job'[c].pkt = job[c].pkt
  <2>1. \/ \E v : Judge(c, v)
        \/ job' = job
        \/ \E t : job' = [job EXCEPT ![c].now = t] \/ job' = [job EXCEPT ![c].seen = t]
    BY DEF CheckPolicy, LookUpBucket
  <2>2. CASE \E v : Judge(c, v)
    BY <1>1, <2>2, JudgeKeeps
  <2>3. CASE \E t : job' = [job EXCEPT ![c].now = t] \/ job' = [job EXCEPT ![c].seen = t]
    BY <1>1, <2>3 DEF PacketJob, TypeOK
  <2>4. QED
    BY <2>1, <2>2, <2>3
<1> DEFINE a == job[c].pkt.pid
<1>5. Fresh(c)'
  <2>1. CASE CheckPolicy(c)
    <3>1. \/ pc'[c] = "emit"
          \/ pc'[c] = "bucket" /\ job'[c].now = clock
      BY <1>1, <2>1 DEF CheckPolicy, To, TypeOK, PacketJob
    <3>2. a \in serial /\ a \in bucketed => bucket[a].at <= clock
      BY <1>2 DEF BudgetInv, Balanced
    <3>3. clock <= clock
      BY DEF TypeOK
    <3>4. QED
      BY <1>3, <1>4, <3>1, <3>2, <3>3 DEF Fresh
  <2>2. CASE LookUpBucket(c)
    <3>1. /\ pc[c] = "bucket"
          /\ \/ a \in bucketed /\ pc'[c] = "charge" /\ job'[c].seen = bucket[a]
             \/ a \notin bucketed /\ pc'[c] = "create"
          /\ job'[c].now = job[c].now
      BY <1>1, <2>2 DEF LookUpBucket, At, To, TypeOK, PacketJob
    <3>2. Fresh(c)
      BY DEF BudgetInv
    <3>3. QED
      BY <1>3, <1>4, <3>1, <3>2 DEF Fresh
  <2>3. QED
    BY <2>1, <2>2
<1>6. QED
  BY <1>1, <1>3, <1>4, <1>5, QuietKeepsBudget

\* The steps that have not come to the bucket yet, and those that are done with it.
LEMMA DistantKeepsBudget ==
    ASSUME TypeOK, BudgetInv, NEW c \in Cpus,
           \/ CheckOverride(c) \/ CheckBlocklist(c) \/ CheckRegistry(c)
           \/ Inspect(c) \/ LookUpFlow(c) \/ RecordFlow(c) \/ EmitVerdict(c) \/ Finish(c)
           \/ RaiseThreat(c) \/ MarkKilled(c) \/ Report(c)
           \/ \E a \in Agents, k \in SyscallKinds : EnterSyscall(c, a, k)
    PROVE  BudgetInv'
<1>1. UNCHANGED <<bucketed, bucket, spent, born, serial, clock>>
  BY DEF CheckOverride, CheckBlocklist, CheckRegistry, Inspect, LookUpFlow, RecordFlow,
         EmitVerdict, Finish, RaiseThreat, MarkKilled, Report, EnterSyscall, maps, history
<1>2. CASE \/ CheckOverride(c) \/ CheckBlocklist(c) \/ CheckRegistry(c)
           \/ Inspect(c) \/ LookUpFlow(c) \/ RecordFlow(c) \/ EmitVerdict(c) \/ Finish(c)
  <2>1. /\ \A d \in Cpus \ {c} : pc'[d] = pc[d] /\ job'[d] = job[d]
        /\ pc[c] \in PacketPc /\ job[c] \in PacketJob
    BY <1>2, PacketStays
  <2>2. pc'[c] \notin {"bucket", "create", "charge"}
    BY <1>2 DEF CheckOverride, CheckBlocklist, CheckRegistry, Inspect, LookUpFlow, RecordFlow,
                EmitVerdict, Finish, To, TypeOK
  <2>3. job'[c].pkt = job[c].pkt
    <3>1. \/ \E v : Judge(c, v)
          \/ job' = job
          \/ \E v : job' = [job EXCEPT ![c].verdict = v, ![c].via = "override"]
      BY <1>2 DEF CheckOverride, CheckBlocklist, CheckRegistry, Inspect, LookUpFlow, RecordFlow,
                  EmitVerdict, Finish
    <3>2. CASE \E v : Judge(c, v)
      BY <2>1, <3>2, JudgeKeeps
    <3>3. CASE \E v : job' = [job EXCEPT ![c].verdict = v, ![c].via = "override"]
      BY <2>1, <3>3 DEF PacketJob, TypeOK
    <3>4. QED
      BY <3>1, <3>2, <3>3
  <2>4. Fresh(c)'
    BY <2>2 DEF Fresh
  <2>5. QED
    BY <1>1, <2>1, <2>3, <2>4, QuietKeepsBudget
<1>3. CASE \/ RaiseThreat(c) \/ MarkKilled(c) \/ Report(c)
           \/ \E a \in Agents, k \in SyscallKinds : EnterSyscall(c, a, k)
  <2>1. /\ \A d \in Cpus \ {c} : pc'[d] = pc[d] /\ job'[d] = job[d]
        /\ pc'[c] \notin PacketPc
    BY <1>3, SyscallMoves
  <2>2. Fresh(c)'
    BY <2>1 DEF Fresh, PacketPc
  <2>3. QED
    BY <1>1, <2>1, <2>2, QuietKeepsBudget
<1>4. QED
  BY <1>2, <1>3

LEMMA ArriveKeepsBudget ==
    ASSUME TypeOK, BudgetInv, NEW c \in Cpus, NEW p \in Packets, Arrive(c, p)
    PROVE  BudgetInv'
<1>1. /\ \A d \in Cpus \ {c} : pc'[d] = pc[d] /\ job'[d] = job[d]
      /\ pc'[c] \in {"override", "finish"} /\ job'[c].pkt = p
  BY DEF Arrive, TypeOK
<1>2. UNCHANGED <<bucketed, bucket, spent, born, clock>> /\ serial' \subseteq serial
  BY DEF Arrive, maps
<1>3. \A a \in Agents : Balanced(a)'
  BY <1>2 DEF BudgetInv, Balanced
<1>4. \A d \in Cpus : Fresh(d)'
  BY <1>1, <1>2 DEF BudgetInv, Fresh
<1>5. \A a \in Agents : Alone(a)'
  <2> SUFFICES ASSUME NEW a \in Agents, a \in serial', NEW d \in Cpus, NEW e \in Cpus,
                      Handles(d, a)', Handles(e, a)'
               PROVE  d = e
    BY DEF Alone
  <2>1. a = p.pid => \A x \in Cpus \ {c} : ~Handles(x, a)
    BY DEF Arrive
  <2>2. \A x \in Cpus \ {c} : Handles(x, a)' => Handles(x, a)
    BY <1>1 DEF Handles
  <2>3. Handles(c, a)' => a = p.pid
    BY <1>1 DEF Handles
  <2>4. QED
    BY <1>2, <2>1, <2>2, <2>3 DEF BudgetInv, Alone
<1>6. QED
  BY <1>3, <1>4, <1>5 DEF BudgetInv

\* A step that writes the bucket of its own agent disturbs nobody else's reading of it.
LEMMA BucketFrame ==
    ASSUME TypeOK, BudgetInv, NEW c \in Cpus, CreateBucket(c) \/ Charge(c),
           NEW a \in Agents, a = job[c].pkt.pid, Balanced(a)'
    PROVE  BudgetInv'
<1>1. /\ \A d \in Cpus \ {c} : pc'[d] = pc[d] /\ job'[d] = job[d]
      /\ pc[c] \in PacketPc /\ job[c] \in PacketJob
  BY PacketStays
<1>3. UNCHANGED <<serial, clock>> /\ pc'[c] \in {"inspect", "emit"}
  BY DEF CreateBucket, Charge, To, TypeOK
<1>4. \A b \in Agents \ {a} :
          /\ bucket'[b] = bucket[b] /\ (b \in bucketed' <=> b \in bucketed)
          /\ spent'[b] = spent[b] /\ born'[b] = born[b]
  BY DEF CreateBucket, Charge, TypeOK
<1>5. \A b \in Agents \ {a} : Balanced(b)'
  BY <1>3, <1>4 DEF BudgetInv, Balanced
<1>6. job'[c].pkt = job[c].pkt
  BY <1>1, JudgeKeeps DEF CreateBucket, Charge
<1>7. \A b \in Agents : Alone(b)'
  <2>1. \A b \in Agents, d \in Cpus : Handles(d, b)' => Handles(d, b)
    BY <1>1, <1>6 DEF Handles
  <2>2. QED
    BY <1>3, <2>1 DEF BudgetInv, Alone
<1>8. \A d \in Cpus : Fresh(d)'
  <2> SUFFICES ASSUME NEW d \in Cpus, pc'[d] \in {"bucket", "create", "charge"},
                      job'[d].pkt.pid \in serial'
               PROVE  Fresh(d)'
    BY DEF Fresh
  <2>1. d # c /\ pc[d] = pc'[d] /\ job'[d] = job[d] /\ pc[d] \in PacketPc
    BY <1>1, <1>3 DEF PacketPc
  <2>2. job[d].pkt.pid \in Agents
    BY <2>1, PacketParts DEF ProgramsTyped, TypeOK
  <2>3. job[d].pkt.pid # a
    <3>1. Handles(c, a) /\ Handles(d, job[d].pkt.pid)
      BY <1>1, <2>1 DEF Handles
    <3>2. QED
      BY <1>3, <2>1, <3>1 DEF BudgetInv, Alone
  <2>4. QED
    BY <1>3, <1>4, <2>1, <2>2, <2>3 DEF BudgetInv, Fresh
<1>9. QED
  BY <1>5, <1>7, <1>8 DEF BudgetInv

LEMMA CreateKeepsBudget ==
    ASSUME TypeOK, BudgetInv, NEW c \in Cpus, CreateBucket(c)
    PROVE  BudgetInv'
<1> DEFINE a == job[c].pkt.pid
<1>1. pc[c] = "create" /\ job[c] \in PacketJob /\ a \in Agents /\ job[c].now \in 0 .. MaxTime
  BY PacketParts DEF CreateBucket, At, PacketPc, ProgramsTyped, TypeOK
<1>2. /\ bucket'[a] = [tokens |-> Burst, at |-> job[c].now, rate |-> Policy[a].cap \div NsPerSec]
      /\ spent'[a] = 0 /\ born'[a] = job[c].now
      /\ UNCHANGED <<serial, clock>>
  BY <1>1 DEF CreateBucket, TypeOK
<1>3. Policy[a].cap \div NsPerSec \in Nat
  <2>1. Policy[a].cap \in Nat
    BY <1>1, GuardConstants DEF PolicyType
  <2>2. QED
    BY <2>1, GuardConstants
<1>4. a \in serial => job[c].now <= clock
  BY <1>1 DEF BudgetInv, Fresh
<1>5. (Policy[a].cap \div NsPerSec) * (job[c].now - job[c].now) = 0
  BY <1>1, <1>3
<1>6. \A b \in Agents : b = a => Balanced(b)'
  BY <1>1, <1>2, <1>4, <1>5, GuardConstants DEF Balanced
<1>7. QED
  BY <1>1, <1>6, BucketFrame

LEMMA ChargeKeepsBudget ==
    ASSUME TypeOK, BudgetInv, NEW c \in Cpus, Charge(c)
    PROVE  BudgetInv'
<1> DEFINE a == job[c].pkt.pid
           now == job[c].now
           tokens == Refilled(job[c].seen, now)
           cost == job[c].pkt.size * Scale
           later == Elapsed(job[c].seen, now) > 0
<1>1. /\ pc[c] = "charge" /\ job[c] \in PacketJob /\ a \in Agents
      /\ now \in 0 .. MaxTime /\ cost \in Nat /\ job[c].seen \in Bucket
  <2>1. pc[c] = "charge" /\ pc[c] \in PacketPc /\ ProgramsTyped
    BY DEF Charge, At, PacketPc, ProgramsTyped, TypeOK
  <2>2. job[c].pkt.size \in Nat /\ Scale \in Nat
    BY <2>1, PacketParts, GuardConstants
  <2>3. cost \in Nat
    BY <2>2
  <2>4. QED
    BY <2>1, <2>3, PacketParts
<1>2. CASE a \notin serial
  <2>1. \A b \in Agents : b = a => Balanced(b)'
    BY <1>2 DEF Charge, Balanced
  <2>2. QED
    BY <1>1, <2>1, BucketFrame
<1>3. CASE a \in serial
  <2> DEFINE b == bucket[a]
  <2>1. job[c].seen = b /\ b.at <= now /\ now <= clock /\ a \in bucketed
    BY <1>1, <1>3 DEF BudgetInv, Fresh
  <2>2. /\ born[a] <= b.at /\ b.at <= clock
        /\ b.tokens + spent[a] <= Burst + b.rate * (b.at - born[a])
    BY <1>1, <1>3, <2>1 DEF BudgetInv, Balanced
  <2>3. /\ b.tokens \in 0 .. Burst /\ b.at \in 0 .. MaxTime /\ b.rate \in Nat
        /\ born[a] \in 0 .. MaxTime /\ spent[a] \in Nat /\ clock \in 0 .. MaxTime
    <3>1. bucket[a] \in Bucket
      BY <1>1 DEF TypeOK
    <3>2. QED
      BY <1>1, <3>1 DEF TypeOK, Bucket
  <2>4. /\ Elapsed(job[c].seen, now) = now - b.at
        /\ tokens <= b.tokens + b.rate * (now - b.at)
        /\ tokens \in 0 .. Burst
    BY <1>1, <2>1, RefillBounded, RefilledTyped
  <2>5. later <=> now > b.at
    BY <1>1, <2>3, <2>4
  <2> DEFINE at == IF later THEN now ELSE b.at
  <2>6. at = now
    BY <1>1, <2>1, <2>3, <2>5
  <2>7. /\ UNCHANGED <<born, serial, clock, bucketed>>
        /\ bucket'[a].at = at /\ bucket'[a].rate = b.rate
        /\ \/ bucket'[a].tokens = tokens /\ spent'[a] = spent[a]
           \/ bucket'[a].tokens = b.tokens /\ ~later /\ spent'[a] = spent[a]
           \/ bucket'[a].tokens = tokens - cost /\ spent'[a] = spent[a] + cost
    <3>1. UNCHANGED <<born, serial, clock, bucketed>>
      BY DEF Charge
    <3>2. \/ later /\ bucket' = [bucket EXCEPT ![a].tokens = tokens, ![a].at = now] /\ spent' = spent
          \/ ~later /\ bucket' = bucket /\ spent' = spent
          \/ /\ bucket' = [bucket EXCEPT ![a].tokens = tokens - cost,
                                        ![a].at = IF later THEN now ELSE @]
             /\ spent' = [spent EXCEPT ![a] = @ + cost]
      BY DEF Charge
    <3> HIDE DEF tokens, cost, later
    <3>3. bucket[a] \in [tokens : 0 .. Burst, at : 0 .. MaxTime, rate : Nat] /\ a \in DOMAIN bucket
                /\ a \in DOMAIN spent
      BY <1>1 DEF TypeOK, Bucket
    <3>4. CASE later /\ bucket' = [bucket EXCEPT ![a].tokens = tokens, ![a].at = now] /\ spent' = spent
      BY <3>1, <3>3, <3>4
    <3>5. CASE ~later /\ bucket' = bucket /\ spent' = spent
      BY <3>1, <3>5
    <3>6. CASE /\ bucket' = [bucket EXCEPT ![a].tokens = tokens - cost,
                                          ![a].at = IF later THEN now ELSE @]
               /\ spent' = [spent EXCEPT ![a] = @ + cost]
      BY <3>1, <3>3, <3>6
    <3>7. QED
      BY <3>2, <3>4, <3>5, <3>6
  <2> HIDE DEF b, tokens, cost, later, at
  <2>8. \/ bucket'[a].tokens + spent'[a] = b.tokens + spent[a] /\ now = b.at
        \/ bucket'[a].tokens + spent'[a] = tokens + spent[a]
    <3>1. tokens \in Int /\ cost \in Int /\ spent[a] \in Int /\ b.tokens \in Int
      BY <1>1, <2>3, <2>4
    <3>2. CASE bucket'[a].tokens = tokens /\ spent'[a] = spent[a]
      BY <3>2
    <3>3. CASE bucket'[a].tokens = b.tokens /\ ~later /\ spent'[a] = spent[a]
      <4>1. now = b.at
        BY <1>1, <2>1, <2>3, <2>5, <3>3
      <4>2. QED
        BY <3>3, <4>1
    <3>4. CASE bucket'[a].tokens = tokens - cost /\ spent'[a] = spent[a] + cost
      BY <3>1, <3>4
    <3>5. QED
      BY <2>7, <3>2, <3>3, <3>4
  <2>9. b.rate * (now - born[a]) = b.rate * (b.at - born[a]) + b.rate * (now - b.at)
    <3>1. b.at - born[a] \in Nat /\ now - b.at \in Nat
      BY <1>1, <2>1, <2>2, <2>3
    <3>2. now - born[a] = (b.at - born[a]) + (now - b.at)
      BY <1>1, <2>3
    <3>3. QED
      BY <2>3, <3>1, <3>2, ProductGrows
  <2>10. b.rate * (b.at - born[a]) \in Nat /\ b.rate * (now - b.at) \in Nat
    <3>1. b.at - born[a] \in Nat /\ now - b.at \in Nat
      BY <1>1, <2>1, <2>2, <2>3
    <3>2. QED
      BY <2>3, <3>1, ProductGrows
  <2>11. bucket'[a].tokens + spent'[a] <= Burst + b.rate * (now - born[a])
    BY <2>2, <2>3, <2>4, <2>8, <2>9, <2>10, GuardConstants
  <2>12. born[a] <= now
    BY <1>1, <2>1, <2>2, <2>3
  <2>13. \A x \in Agents : x = a => Balanced(x)'
    BY <2>1, <2>6, <2>7, <2>11, <2>12 DEF Balanced
  <2>14. QED
    BY <1>1, <2>13, BucketFrame
<1>4. QED
  BY <1>2, <1>3

LEMMA OutsideKeepsBudget ==
    ASSUME TypeOK, TypeOK', BudgetInv, UserSpace \/ Tick \/ UNCHANGED vars
    PROVE  BudgetInv'
<1>1. UNCHANGED <<pc, job, bucketed, bucket, spent, born, serial>>
  BY DEF UserSpace, Enable, Enrol, SetOverride, Ban, Consume, Tick, vars, maps, history
<1>2. clock <= clock' /\ clock \in Nat /\ clock' \in Nat
  BY DEF UserSpace, Enable, Enrol, SetOverride, Ban, Consume, Tick, vars, maps, history, TypeOK
<1>3. \A a \in Agents : Alone(a)' /\ Balanced(a)'
  <2> SUFFICES ASSUME NEW a \in Agents
               PROVE  Alone(a)' /\ Balanced(a)'
    OBVIOUS
  <2>1. Alone(a)'
    BY <1>1 DEF BudgetInv, Alone, Handles
  <2>2. bucket[a].at \in Nat
    <3>1. bucket[a] \in Bucket
      BY DEF TypeOK
    <3>2. QED
      BY <3>1 DEF Bucket
  <2>3. QED
    BY <1>1, <1>2, <2>1, <2>2 DEF BudgetInv, Balanced
<1>4. \A c \in Cpus : Fresh(c)'
  <2> SUFFICES ASSUME NEW c \in Cpus, pc[c] \in {"bucket", "create", "charge"}
               PROVE  Fresh(c)'
    BY <1>1 DEF Fresh
  <2>1. job[c].now \in Nat
    BY PacketParts DEF PacketPc, ProgramsTyped, TypeOK
  <2>2. QED
    BY <1>1, <1>2, <2>1 DEF BudgetInv, Fresh
<1>5. QED
  BY <1>3, <1>4 DEF BudgetInv

\* An agent whose packets never meet on two CPUs is not charged more than the burst and the
\* refill since its bucket was made, for any packet sizes, rates and times within the word
\* (token_bucket_consume).
THEOREM SerialAgentsKeepBudgets == Spec => []SerialAgentKeepsBudget
<1>1. Init => BudgetInv
  <2> SUFFICES ASSUME Init
               PROVE  BudgetInv
    OBVIOUS
  <2>1. \A c \in Cpus : pc[c] \notin PacketPc \cup {"bucket", "create", "charge"}
    BY DEF Init, PacketPc
  <2>2. QED
    BY <2>1 DEF Init, BudgetInv, Alone, Balanced, Fresh, Handles
<1>2. TypeOK /\ BudgetInv /\ [Next]_vars => BudgetInv'
  BY TypesKept, Steps, ApproachKeepsBudget, DistantKeepsBudget, ArriveKeepsBudget,
     CreateKeepsBudget, ChargeKeepsBudget, OutsideKeepsBudget
<1>3. TypeOK /\ BudgetInv => SerialAgentKeepsBudget
  <2> SUFFICES ASSUME TypeOK, BudgetInv, NEW a \in serial \cap bucketed
               PROVE  spent[a] <= Burst + bucket[a].rate * (clock - born[a])
    BY DEF SerialAgentKeepsBudget
  <2> DEFINE b == bucket[a]
  <2>1. a \in Agents /\ b \in Bucket /\ spent[a] \in Nat /\ born[a] \in Nat /\ clock \in Nat
    BY DEF TypeOK
  <2>2. b.tokens \in Nat /\ b.at \in Nat /\ b.rate \in Nat
    BY <2>1, GuardConstants DEF Bucket
  <2>3. /\ born[a] <= b.at /\ b.at <= clock
        /\ b.tokens + spent[a] <= Burst + b.rate * (b.at - born[a])
    BY <2>1 DEF BudgetInv, Balanced
  <2> HIDE DEF b
  <2>4. b.at - born[a] \in Nat /\ clock - b.at \in Nat
    BY <2>1, <2>2, <2>3
  <2>5. clock - born[a] = (b.at - born[a]) + (clock - b.at)
    BY <2>1, <2>2
  <2>6. /\ b.rate * (b.at - born[a]) \in Nat
        /\ b.rate * (b.at - born[a]) <= b.rate * ((b.at - born[a]) + (clock - b.at))
    BY <2>2, <2>4, ProductGrows
  <2>7. b.rate * ((b.at - born[a]) + (clock - b.at)) \in Nat
    BY <2>2, <2>4, ProductGrows
  <2>8. spent[a] <= Burst + b.rate * (clock - born[a])
    BY <2>1, <2>2, <2>3, <2>5, <2>6, <2>7, GuardConstants
  <2>9. QED
    BY <2>8 DEF b
<1>4. QED
  BY <1>1, <1>2, <1>3, GuardTypes, PTL DEF Spec

================================================================================
