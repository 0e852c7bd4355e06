------------------------------ MODULE GuardProofs ------------------------------
(* Proofs about Guard, for any set of CPUs, agents, hosts, policies, packets   *)
(* and any sizes.  Types come first; then one invariant per property.          *)
EXTENDS Guard, TLAPS

\* The steps of the programs, flattened.
LEMMA Steps ==
    ASSUME Next
    PROVE  \/ \E c \in Cpus, p \in Packets : Arrive(c, p)
           \/ \E c \in Cpus : \/ CheckOverride(c) \/ CheckBlocklist(c) \/ CheckRegistry(c)
                              \/ CheckPolicy(c) \/ LookUpBucket(c) \/ CreateBucket(c)
                              \/ Charge(c) \/ Inspect(c) \/ LookUpFlow(c) \/ RecordFlow(c)
                              \/ EmitVerdict(c) \/ Finish(c) \/ RaiseThreat(c)
                              \/ MarkKilled(c) \/ Report(c)
           \/ \E c \in Cpus, a \in Agents, k \in SyscallKinds : EnterSyscall(c, a, k)
           \/ UserSpace \/ Tick
BY DEF Next, ProcessPacket, Syscall

--------------------------------------------------------------------------------
(* Types *)

\* Where a program stands and its local variables.
ProgramsTyped ==
    /\ pc \in [Cpus -> Settled \cup PacketPc \cup SyscallPc]
    /\ job \in [Cpus -> PacketJob \cup SyscallJob \cup {<<>>}]
    /\ \A c \in Cpus :
           /\ pc[c] \in PacketPc \cup {"passed", "dropped"} => job[c] \in PacketJob
           /\ pc[c] \in SyscallPc => job[c] \in SyscallJob

LEMMA RefilledTyped ==
    ASSUME NEW b \in Bucket, NEW now \in 0 .. MaxTime
    PROVE  Refilled(b, now) \in 0 .. Burst
<1> DEFINE x == b.tokens + ((Elapsed(b, now) * b.rate) % Word)
<1>1. Word \in Nat /\ Word > 0 /\ Burst \in Nat
  BY GuardConstants
<1>2. \A n \in Int : n % Word \in Nat
  BY <1>1
<1>3. b.tokens \in Nat /\ b.at \in Int /\ b.rate \in Int /\ now \in Int
  BY DEF Bucket
<1>4. Elapsed(b, now) \in Int
  BY <1>2, <1>3 DEF Elapsed
<1>5. Elapsed(b, now) * b.rate \in Int
  BY <1>3, <1>4
<1>6. (Elapsed(b, now) * b.rate) % Word \in Nat
  BY <1>2, <1>5
<1>7. x \in Int
  BY <1>3, <1>6
<1>8. x % Word \in Nat
  BY <1>2, <1>7
<1>9. QED
  BY <1>1, <1>8 DEF Refilled

LEMMA CountTyped ==
    ASSUME stats \in [Cpus -> [Counters -> Nat]], NEW c \in Cpus, NEW S, Count(c, S)
    PROVE  stats' \in [Cpus -> [Counters -> Nat]]
BY DEF Count

LEMMA EmitTyped ==
    ASSUME queued \in [{"agents", "syscalls"} -> 0 .. RingSize], NEW b \in {"agents", "syscalls"},
           Emit(b)
    PROVE  queued' \in [{"agents", "syscalls"} -> 0 .. RingSize]
BY GuardConstants DEF Emit, Emitted

\* The local variables of program c are written as a whole.
Writes(c, J) == \E j \in J : job' = [job EXCEPT ![c] = j]

\* A packet program that moves on leaves all programs typed.
LEMMA PacketMoves ==
    ASSUME ProgramsTyped, NEW c \in Cpus, job[c] \in PacketJob,
           \E l \in PacketPc \cup {"passed", "dropped"} : To(c, l),
           job' = job \/ Writes(c, PacketJob)
    PROVE  ProgramsTyped'
<1>1. PICK l \in PacketPc \cup {"passed", "dropped"} : pc' = [pc EXCEPT ![c] = l]
  BY DEF To
<1>2. PICK j \in PacketJob : job' = [job EXCEPT ![c] = j]
  BY DEF ProgramsTyped, Writes
<1>3. /\ pc'[c] = l /\ job'[c] = j
      /\ \A d \in Cpus \ {c} : pc'[d] = pc[d] /\ job'[d] = job[d]
  BY <1>1, <1>2 DEF ProgramsTyped
<1>4. l \notin SyscallPc
  BY DEF SyscallPc, PacketPc
<1>5. pc' \in [Cpus -> Settled \cup PacketPc \cup SyscallPc]
  BY <1>1 DEF ProgramsTyped, Settled
<1>6. job' \in [Cpus -> PacketJob \cup SyscallJob \cup {<<>>}]
  BY <1>2 DEF ProgramsTyped
<1>7. QED
  BY <1>3, <1>4, <1>5, <1>6 DEF ProgramsTyped

\* The local variables of a packet program stay typed when one of them is set.
LEMMA FieldSet ==
    ASSUME NEW j \in PacketJob
    PROVE  /\ \A v \in Verdicts : [j EXCEPT !.verdict = v] \in PacketJob
           /\ \A v \in Verdicts : [j EXCEPT !.verdict = v, !.via = "override"] \in PacketJob
           /\ \A v \in Verdicts : [j EXCEPT !.verdict = v, !.now = 0, !.seen = Unset] \in PacketJob
           /\ \A t \in 0 .. MaxTime : [j EXCEPT !.now = t] \in PacketJob
           /\ \A b \in Bucket : [j EXCEPT !.seen = b] \in PacketJob
<1>1. Unset \in Bucket /\ 0 \in 0 .. MaxTime
  BY GuardConstants DEF Unset, Bucket
<1>2. QED
  BY <1>1 DEF PacketJob

LEMMA JudgeWrites ==
    ASSUME NEW c \in Cpus, job[c] \in PacketJob, NEW v \in Verdicts
    PROVE  /\ Judge(c, v) => Writes(c, PacketJob)
           /\ Consumed(c, v) => Writes(c, PacketJob)
<1>1. ASSUME Judge(c, v)
      PROVE  Writes(c, PacketJob)
  <2> DEFINE j == [job[c] EXCEPT !.verdict = v]
  <2>1. j \in PacketJob
    BY FieldSet
  <2>2. job' = [job EXCEPT ![c] = j]
    BY <1>1 DEF Judge
  <2>3. QED
    BY <2>1, <2>2 DEF Writes
<1>2. ASSUME Consumed(c, v)
      PROVE  Writes(c, PacketJob)
  <2> DEFINE j == [job[c] EXCEPT !.verdict = v, !.now = 0, !.seen = Unset]
  <2>1. j \in PacketJob
    BY FieldSet
  <2>2. job' = [job EXCEPT ![c] = j]
    BY <1>2 DEF Consumed
  <2>3. QED
    BY <2>1, <2>2 DEF Writes
<1>3. QED
  BY <1>1, <1>2

MapsTyped ==
    /\ enabled \in BOOLEAN
    /\ override \in [Agents -> Verdicts \cup {"none"}]
    /\ blocked \subseteq Hosts /\ enrolled \subseteq Agents /\ serial \subseteq Agents
    /\ flags \in [Agents -> SUBSET {"SANDBOXED", "KILLED"}]
    /\ threat \in [Agents -> 0 .. Critical]
    /\ bucketed \subseteq Agents /\ bucket \in [Agents -> Bucket]
    /\ flows \in [Agents \X Hosts -> Nat]
    /\ queued \in [{"agents", "syscalls"} -> 0 .. RingSize]
    /\ stats \in [Cpus -> [Counters -> Nat]] /\ dropped \in [Cpus -> Nat]
    /\ clock \in 0 .. MaxTime /\ work \in 0 .. MaxWork /\ changes \in 0 .. MaxChanges
    /\ offence \in [Agents -> Nat] /\ spent \in [Agents -> Nat] /\ born \in [Agents -> 0 .. MaxTime]

\* What is known of a packet program.
LEMMA PacketParts ==
    ASSUME ProgramsTyped, NEW c \in Cpus, pc[c] \in PacketPc
    PROVE  /\ job[c] \in PacketJob
           /\ job[c].pkt.pid \in Agents /\ job[c].pkt.host \in Hosts
           /\ job[c].pkt.hook \in Hooks /\ job[c].pkt.size \in Nat
           /\ job[c].now \in 0 .. MaxTime /\ job[c].seen \in Bucket
<1>1. job[c] \in PacketJob
  BY DEF ProgramsTyped
<1>2. job[c].pkt \in PacketType
  BY <1>1, GuardConstants DEF PacketJob
<1>3. QED
  BY <1>1, <1>2 DEF PacketJob, PacketType

LEMMA DecisionsTyped ==
    ASSUME MapsTyped, ProgramsTyped, NEW c \in Cpus,
           \/ CheckOverride(c) \/ CheckBlocklist(c) \/ CheckRegistry(c) \/ CheckPolicy(c)
           \/ LookUpBucket(c)
    PROVE  MapsTyped' /\ ProgramsTyped'
<1>1. pc[c] \in PacketPc
  BY DEF CheckOverride, CheckBlocklist, CheckRegistry, CheckPolicy, LookUpBucket, At, PacketPc
<1>2. job[c] \in PacketJob /\ job[c].pkt.pid \in Agents
  BY <1>1, PacketParts
<1>3. {"BLOCK", "KILL", "SANDBOX"} \subseteq Verdicts
  BY DEF Verdicts
<1>4. CASE CheckOverride(c)
  <2>1. override[job[c].pkt.pid] # "none" => override[job[c].pkt.pid] \in Verdicts
    BY <1>2 DEF MapsTyped
  <2> DEFINE v == override[job[c].pkt.pid]
             j == [job[c] EXCEPT !.verdict = v, !.via = "override"]
  <2>2. job' = job \/ Writes(c, PacketJob)
    <3>1. CASE v = "none"
      BY <1>4, <3>1 DEF CheckOverride
    <3>2. CASE v # "none"
      <4>1. j \in PacketJob
        BY <1>2, <2>1, <3>2, FieldSet
      <4>2. job' = [job EXCEPT ![c] = j]
        BY <1>4, <3>2 DEF CheckOverride
      <4>3. QED
        BY <4>1, <4>2 DEF Writes
    <3>3. QED
      BY <3>1, <3>2
  <2>3. \E l \in PacketPc \cup {"passed", "dropped"} : To(c, l)
    BY <1>4 DEF CheckOverride, PacketPc
  <2>4. ProgramsTyped'
    BY <1>2, <2>2, <2>3, PacketMoves
  <2>5. MapsTyped'
    BY <1>4, CountTyped DEF CheckOverride, MapsTyped, maps, history
  <2>6. QED
    BY <2>4, <2>5
<1>5. CASE CheckBlocklist(c)
  <2>2. job' = job \/ Writes(c, PacketJob)
    BY <1>2, <1>3, <1>5, JudgeWrites DEF CheckBlocklist
  <2>3. \E l \in PacketPc \cup {"passed", "dropped"} : To(c, l)
    BY <1>5 DEF CheckBlocklist, PacketPc
  <2>4. ProgramsTyped'
    BY <1>2, <2>2, <2>3, PacketMoves
  <2>5. MapsTyped'
    BY <1>5, CountTyped DEF CheckBlocklist, MapsTyped, maps, history
  <2>6. QED
    BY <2>4, <2>5
<1>6. CASE CheckRegistry(c)
  <2>2. job' = job \/ Writes(c, PacketJob)
    BY <1>2, <1>3, <1>6, JudgeWrites DEF CheckRegistry
  <2>3. \E l \in PacketPc \cup {"passed", "dropped"} : To(c, l)
    BY <1>6 DEF CheckRegistry, PacketPc
  <2>4. ProgramsTyped'
    BY <1>2, <2>2, <2>3, PacketMoves
  <2>5. MapsTyped'
    BY <1>6, CountTyped DEF CheckRegistry, MapsTyped, maps, history
  <2>6. QED
    BY <2>4, <2>5
<1>7. CASE CheckPolicy(c)
  <2>1. clock \in 0 .. MaxTime
    BY DEF MapsTyped
  <2>2. job' = job \/ Writes(c, PacketJob)
    BY <1>2, <1>3, <1>7, <2>1, FieldSet, JudgeWrites DEF CheckPolicy, Writes
  <2>3. \E l \in PacketPc \cup {"passed", "dropped"} : To(c, l)
    BY <1>7 DEF CheckPolicy, PacketPc
  <2>4. ProgramsTyped'
    BY <1>2, <2>2, <2>3, PacketMoves
  <2>5. MapsTyped'
    BY <1>7, CountTyped DEF CheckPolicy, MapsTyped, maps, history
  <2>6. QED
    BY <2>4, <2>5
<1>8. CASE LookUpBucket(c)
  <2>1. bucket[job[c].pkt.pid] \in Bucket
    BY <1>2 DEF MapsTyped
  <2>2. job' = job \/ Writes(c, PacketJob)
    BY <1>2, <1>3, <1>8, <2>1, FieldSet, JudgeWrites DEF LookUpBucket, Writes
  <2>3. \E l \in PacketPc \cup {"passed", "dropped"} : To(c, l)
    BY <1>8 DEF LookUpBucket, PacketPc
  <2>4. ProgramsTyped'
    BY <1>2, <2>2, <2>3, PacketMoves
  <2>5. MapsTyped'
    BY <1>8, CountTyped DEF LookUpBucket, MapsTyped, maps, history
  <2>6. QED
    BY <2>4, <2>5
<1>9. QED
  BY <1>4, <1>5, <1>6, <1>7, <1>8
LEMMA BucketTyped ==
    ASSUME MapsTyped, ProgramsTyped, NEW c \in Cpus, CreateBucket(c) \/ Charge(c)
    PROVE  MapsTyped' /\ ProgramsTyped'
<1>1. pc[c] \in PacketPc
  BY DEF CreateBucket, Charge, At, PacketPc
<1>2. /\ job[c] \in PacketJob /\ job[c].pkt.pid \in Agents /\ job[c].pkt.size \in Nat
      /\ job[c].now \in 0 .. MaxTime /\ job[c].seen \in Bucket
  BY <1>1, PacketParts
<1>3. {"BLOCK", "ALLOW"} \subseteq Verdicts
  BY DEF Verdicts
<1> DEFINE a == job[c].pkt.pid
           now == job[c].now
<1>4. CASE CreateBucket(c)
  <2>1. ProgramsTyped'
    <3>1. Writes(c, PacketJob)
      BY <1>2, <1>3, <1>4, JudgeWrites DEF CreateBucket
    <3>2. QED
      BY <1>2, <1>4, <3>1, PacketMoves DEF CreateBucket, PacketPc
  <2>2. Policy[a].cap \in Nat
    BY <1>2, GuardConstants DEF PolicyType
  <2>3. Policy[a].cap \div NsPerSec \in Nat
    BY <2>2, GuardConstants
  <2>4. [tokens |-> Burst, at |-> now, rate |-> Policy[a].cap \div NsPerSec] \in Bucket
    BY <1>2, <2>3, GuardConstants DEF Bucket
  <2>5. bucket' \in [Agents -> Bucket]
    BY <1>2, <1>4, <2>4 DEF CreateBucket, MapsTyped
  <2>6. MapsTyped'
    BY <1>2, <1>4, <2>5 DEF CreateBucket, MapsTyped
  <2>7. QED
    BY <2>1, <2>6
<1>5. CASE Charge(c)
  <2>1. ProgramsTyped'
    <3>1. Writes(c, PacketJob)
      BY <1>2, <1>3, <1>5, JudgeWrites DEF Charge
    <3>2. QED
      BY <1>2, <1>5, <3>1, PacketMoves DEF Charge, PacketPc
  <2> DEFINE tokens == Refilled(job[c].seen, now)
             cost == job[c].pkt.size * Scale
  <2>2. tokens \in 0 .. Burst
    BY <1>2, RefilledTyped
  <2>3. cost \in Nat
    BY <1>2, GuardConstants
  <2>4. bucket[a] \in Bucket
    BY <1>2 DEF MapsTyped
  <2>5. \A t \in 0 .. Burst, n \in 0 .. MaxTime :
            [bucket[a] EXCEPT !.tokens = t, !.at = n] \in Bucket
    BY <2>4 DEF Bucket
  <2>6. tokens >= cost => tokens - cost \in 0 .. Burst
    BY <2>2, <2>3, GuardConstants
  <2>7. \/ bucket' = bucket
        \/ \E t \in 0 .. Burst, n \in 0 .. MaxTime :
               bucket' = [bucket EXCEPT ![a] = [bucket[a] EXCEPT !.tokens = t, !.at = n]]
    <3> DEFINE at == IF Elapsed(job[c].seen, now) > 0 THEN now ELSE bucket[a].at
    <3>1. at \in 0 .. MaxTime
      BY <1>2, <2>4 DEF Bucket
    <3>2. [bucket EXCEPT ![a].tokens = tokens, ![a].at = now]
              = [bucket EXCEPT ![a] = [bucket[a] EXCEPT !.tokens = tokens, !.at = now]]
      BY <1>2 DEF MapsTyped
    <3>3. [bucket EXCEPT ![a].tokens = tokens - cost,
                         ![a].at = IF Elapsed(job[c].seen, now) > 0 THEN now ELSE @]
              = [bucket EXCEPT ![a] = [bucket[a] EXCEPT !.tokens = tokens - cost, !.at = at]]
      BY <1>2 DEF MapsTyped
    <3>4. \/ bucket' = bucket
          \/ bucket' = [bucket EXCEPT ![a].tokens = tokens, ![a].at = now]
          \/ /\ tokens >= cost
             /\ bucket' = [bucket EXCEPT ![a].tokens = tokens - cost,
                              ![a].at = IF Elapsed(job[c].seen, now) > 0 THEN now ELSE @]
      BY <1>5 DEF Charge
    <3>5. \/ bucket' = bucket
          \/ bucket' = [bucket EXCEPT ![a] = [bucket[a] EXCEPT !.tokens = tokens, !.at = now]]
          \/ /\ tokens >= cost
             /\ bucket' = [bucket EXCEPT ![a] =
                               [bucket[a] EXCEPT !.tokens = tokens - cost, !.at = at]]
      BY <3>2, <3>3, <3>4
    <3> HIDE DEF at, tokens, cost
    <3>6. QED
      BY <1>2, <2>2, <2>6, <3>1, <3>5
  <2>8. bucket' \in [Agents -> Bucket]
    <3>1. CASE bucket' = bucket
      BY <3>1 DEF MapsTyped
    <3>2. CASE \E t \in 0 .. Burst, n \in 0 .. MaxTime :
                  bucket' = [bucket EXCEPT ![a] = [bucket[a] EXCEPT !.tokens = t, !.at = n]]
      <4>1. PICK t \in 0 .. Burst, n \in 0 .. MaxTime :
                bucket' = [bucket EXCEPT ![a] = [bucket[a] EXCEPT !.tokens = t, !.at = n]]
        BY <3>2
      <4>2. QED
        BY <1>2, <2>5, <4>1 DEF MapsTyped
    <3>3. QED
      BY <2>7, <3>1, <3>2
  <2>9. spent' \in [Agents -> Nat]
    <3>1. spent' = spent \/ spent' = [spent EXCEPT ![a] = @ + cost]
      BY <1>5 DEF Charge
    <3>2. QED
      BY <1>2, <2>3, <3>1 DEF MapsTyped
  <2>10. stats' \in [Cpus -> [Counters -> Nat]]
    BY <1>5, CountTyped DEF Charge, MapsTyped
  <2>11. MapsTyped'
    BY <1>5, <2>8, <2>9, <2>10 DEF Charge, MapsTyped
  <2>12. QED
    BY <2>1, <2>11
<1>6. QED
  BY <1>4, <1>5

LEMMA EndingsTyped ==
    ASSUME MapsTyped, ProgramsTyped, NEW c \in Cpus,
           Inspect(c) \/ LookUpFlow(c) \/ RecordFlow(c) \/ EmitVerdict(c) \/ Finish(c)
    PROVE  MapsTyped' /\ ProgramsTyped'
<1>1. pc[c] \in PacketPc
  BY DEF Inspect, LookUpFlow, RecordFlow, EmitVerdict, Finish, At, PacketPc
<1>2. /\ job[c] \in PacketJob /\ Flow(c) \in Agents \X Hosts
  BY <1>1, PacketParts DEF Flow
<1>3. {"BLOCK", "ALLOW"} \subseteq Verdicts
  BY DEF Verdicts
<1>4. job' = job \/ Writes(c, PacketJob)
  BY <1>2, <1>3, JudgeWrites DEF Inspect, LookUpFlow, RecordFlow, EmitVerdict, Finish
<1>5. \E l \in PacketPc \cup {"passed", "dropped"} : To(c, l)
  BY DEF Inspect, LookUpFlow, RecordFlow, EmitVerdict, Finish, PacketPc
<1>6. ProgramsTyped'
  BY <1>2, <1>4, <1>5, PacketMoves
<1>7. CASE Inspect(c)
  <2>1. queued' \in [{"agents", "syscalls"} -> 0 .. RingSize]
    BY <1>7, EmitTyped DEF Inspect, MapsTyped
  <2>2. stats' \in [Cpus -> [Counters -> Nat]]
    BY <1>7, CountTyped DEF Inspect, MapsTyped
  <2>3. QED
    BY <1>6, <1>7, <2>1, <2>2 DEF Inspect, MapsTyped, history
<1>8. CASE LookUpFlow(c)
  BY <1>6, <1>8 DEF LookUpFlow, MapsTyped, maps, history
<1>9. CASE RecordFlow(c)
  BY <1>2, <1>6, <1>9 DEF RecordFlow, MapsTyped
<1>10. CASE EmitVerdict(c)
  <2>1. queued' \in [{"agents", "syscalls"} -> 0 .. RingSize]
    BY <1>10, EmitTyped DEF EmitVerdict, MapsTyped
  <2>2. QED
    BY <1>6, <1>10, <2>1 DEF EmitVerdict, MapsTyped, history
<1>11. CASE Finish(c)
  <2>1. stats' \in [Cpus -> [Counters -> Nat]]
    BY <1>11, CountTyped DEF Finish, MapsTyped
  <2>2. dropped' \in [Cpus -> Nat]
    BY <1>11 DEF Finish, MapsTyped
  <2>3. QED
    BY <1>6, <1>11, <2>1, <2>2 DEF Finish, MapsTyped, maps
<1>12. QED
  BY <1>7, <1>8, <1>9, <1>10, <1>11
\* A program that starts, or runs a system call's steps, writes its own entry of pc and job.
LEMMA ProgramSet ==
    ASSUME ProgramsTyped, NEW c \in Cpus, NEW l \in Settled \cup PacketPc \cup SyscallPc,
           NEW j \in PacketJob \cup SyscallJob \cup {<<>>},
           pc' = [pc EXCEPT ![c] = l], job' = [job EXCEPT ![c] = j],
           l \in PacketPc \cup {"passed", "dropped"} => j \in PacketJob,
           l \in SyscallPc => j \in SyscallJob
    PROVE  ProgramsTyped'
<1>1. /\ pc'[c] = l /\ job'[c] = j
      /\ \A d \in Cpus \ {c} : pc'[d] = pc[d] /\ job'[d] = job[d]
  BY DEF ProgramsTyped
<1>2. /\ pc' \in [Cpus -> Settled \cup PacketPc \cup SyscallPc]
      /\ job' \in [Cpus -> PacketJob \cup SyscallJob \cup {<<>>}]
  BY DEF ProgramsTyped
<1>3. QED
  BY <1>1, <1>2 DEF ProgramsTyped

LEMMA ArriveTyped ==
    ASSUME MapsTyped, ProgramsTyped, NEW c \in Cpus, NEW p \in Packets, Arrive(c, p)
    PROVE  MapsTyped' /\ ProgramsTyped'
<1> DEFINE l == IF enabled /\ p.ip THEN "override" ELSE "finish"
           stood == [known |-> p.pid \in enrolled, marks |-> flags[p.pid],
                     banned |-> p.host \in blocked]
           j == [pkt |-> p, verdict |-> "ALLOW",
                 via |-> IF enabled /\ p.ip THEN "rules" ELSE "off",
                 now |-> 0, seen |-> Unset, stood |-> stood]
<1>1. l \in PacketPc /\ "ALLOW" \in Verdicts
  BY DEF PacketPc, Verdicts
<1>2. Unset \in Bucket /\ 0 \in 0 .. MaxTime
  BY GuardConstants DEF Unset, Bucket
<1>3. stood \in [known : BOOLEAN, marks : SUBSET {"SANDBOXED", "KILLED"}, banned : BOOLEAN]
  <2>1. p.pid \in Agents
    BY GuardConstants DEF PacketType
  <2>2. flags[p.pid] \in SUBSET {"SANDBOXED", "KILLED"}
    BY <2>1 DEF MapsTyped
  <2>3. QED
    BY <2>2
<1>4. j \in PacketJob
  BY <1>1, <1>2, <1>3 DEF PacketJob
<1>5. l \notin SyscallPc
  BY DEF SyscallPc
<1>6. pc' = [pc EXCEPT ![c] = l] /\ job' = [job EXCEPT ![c] = j]
  BY DEF Arrive
<1>7. ProgramsTyped'
  BY <1>1, <1>4, <1>5, <1>6, ProgramSet
<1>8. work' \in 0 .. MaxWork
  BY GuardConstants DEF Arrive, MapsTyped
<1>9. MapsTyped'
  BY <1>8 DEF Arrive, MapsTyped, maps
<1>10. QED
  BY <1>7, <1>9

LEMMA DeltaTyped == \A k \in DOMAIN Delta : Delta[k] \in 1 .. 4
BY DEF Delta

LEMMA EnterTyped ==
    ASSUME MapsTyped, ProgramsTyped, NEW c \in Cpus, NEW a \in Agents, NEW k \in SyscallKinds,
           EnterSyscall(c, a, k)
    PROVE  MapsTyped' /\ ProgramsTyped'
<1> DEFINE forbidden == k = "signal" \/ k \in Policy[a].forbids
           l == IF forbidden THEN "raise" ELSE "report"
           j == [pid |-> a, kind |-> k, threat |-> threat[a]]
<1>1. k \in DOMAIN Delta
  BY GuardConstants
<1>2. l \in SyscallPc
  BY DEF SyscallPc
<1>3. l \notin PacketPc \cup {"passed", "dropped"}
  BY DEF PacketPc
<1>4. j \in SyscallJob
  BY <1>1 DEF SyscallJob, MapsTyped
<1>5. pc' = [pc EXCEPT ![c] = l] /\ job' = [job EXCEPT ![c] = j]
  BY DEF EnterSyscall
<1>6. ProgramsTyped'
  BY <1>2, <1>3, <1>4, <1>5, ProgramSet
<1>7. work' \in 0 .. MaxWork
  BY GuardConstants DEF EnterSyscall, MapsTyped
<1>8. offence' \in [Agents -> Nat]
  <2>1. Delta[k] \in Nat
    BY <1>1, DeltaTyped
  <2>2. offence' = offence \/ offence' = [offence EXCEPT ![a] = @ + Delta[k]]
    BY DEF EnterSyscall
  <2>3. QED
    BY <2>1, <2>2 DEF MapsTyped
<1>9. MapsTyped'
  BY <1>7, <1>8 DEF EnterSyscall, MapsTyped, maps
<1>10. QED
  BY <1>6, <1>9

LEMMA SyscallTyped ==
    ASSUME MapsTyped, ProgramsTyped, NEW c \in Cpus,
           RaiseThreat(c) \/ MarkKilled(c) \/ Report(c)
    PROVE  MapsTyped' /\ ProgramsTyped'
<1>1. pc[c] \in SyscallPc
  BY DEF RaiseThreat, MarkKilled, Report, At, SyscallPc
<1>2. job[c] \in SyscallJob
  BY <1>1 DEF ProgramsTyped
<1>3. job[c].pid \in Agents /\ job[c].threat \in 0 .. Critical /\ job[c].kind \in DOMAIN Delta
  BY <1>2 DEF SyscallJob
<1>4. CASE RaiseThreat(c)
  <2>1. NewThreat(c) \in 0 .. Critical
    BY <1>3, DeltaTyped DEF NewThreat, Critical
  <2>2. PICK l \in {"mark", "report"} : pc' = [pc EXCEPT ![c] = l]
    BY <1>4 DEF RaiseThreat, To
  <2>3. l \in SyscallPc /\ l \notin PacketPc \cup {"passed", "dropped"}
    BY DEF SyscallPc, PacketPc
  <2>4. job' = [job EXCEPT ![c] = job[c]]
    BY <1>4 DEF RaiseThreat, ProgramsTyped
  <2>5. ProgramsTyped'
    BY <1>2, <2>2, <2>3, <2>4, ProgramSet
  <2>6. QED
    BY <1>3, <1>4, <2>1, <2>5 DEF RaiseThreat, MapsTyped, history
<1>5. CASE MarkKilled(c)
  <2>1. "report" \in SyscallPc /\ "report" \notin PacketPc \cup {"passed", "dropped"}
    BY DEF SyscallPc, PacketPc
  <2>2. pc' = [pc EXCEPT ![c] = "report"] /\ job' = [job EXCEPT ![c] = job[c]]
    BY <1>5 DEF MarkKilled, To, ProgramsTyped
  <2>3. ProgramsTyped'
    BY <1>2, <2>1, <2>2, ProgramSet
  <2>4. QED
    BY <1>3, <1>5, <2>3 DEF MarkKilled, MapsTyped, history
<1>6. CASE Report(c)
  <2>1. "idle" \in Settled /\ "idle" \notin PacketPc \cup SyscallPc
    BY DEF Settled, SyscallPc, PacketPc
  <2>2. pc' = [pc EXCEPT ![c] = "idle"] /\ job' = [job EXCEPT ![c] = <<>>]
    BY <1>6 DEF Report, To
  <2>3. ProgramsTyped'
    BY <2>1, <2>2, ProgramSet
  <2>4. queued' \in [{"agents", "syscalls"} -> 0 .. RingSize]
    BY <1>6, EmitTyped DEF Report, MapsTyped
  <2>5. QED
    BY <1>6, <2>3, <2>4 DEF Report, MapsTyped, history
<1>7. QED
  BY <1>4, <1>5, <1>6

LEMMA OutsideTyped ==
    ASSUME MapsTyped, ProgramsTyped, UserSpace \/ Tick
    PROVE  MapsTyped' /\ ProgramsTyped'
<1>1. ProgramsTyped'
  BY DEF UserSpace, Enable, Enrol, SetOverride, Ban, Consume, Tick, ProgramsTyped
<1>2. CASE Tick
  BY <1>1, <1>2, GuardConstants DEF Tick, MapsTyped, maps, history
<1>3. ASSUME NEW b \in {"agents", "syscalls"}, Consume(b)
      PROVE  MapsTyped'
  BY <1>3, GuardConstants DEF Consume, MapsTyped, history
<1>4. ASSUME changes < MaxChanges, changes' = changes + 1
      PROVE  changes' \in 0 .. MaxChanges
  BY <1>4, GuardConstants DEF MapsTyped
<1>5. ASSUME changes' \in 0 .. MaxChanges, NEW on \in BOOLEAN, Enable(on)
      PROVE  MapsTyped'
  BY <1>5 DEF Enable, MapsTyped, history
<1>6. ASSUME changes' \in 0 .. MaxChanges, NEW a \in Agents, NEW F \in SUBSET {"SANDBOXED"},
             Enrol(a, F)
      PROVE  MapsTyped'
  BY <1>6 DEF Enrol, MapsTyped, history
<1>7. ASSUME changes' \in 0 .. MaxChanges, NEW a \in Agents, NEW v \in Overrides \cup {"none"},
             SetOverride(a, v)
      PROVE  MapsTyped'
  BY <1>7, GuardConstants DEF SetOverride, MapsTyped, history
<1>8. ASSUME changes' \in 0 .. MaxChanges, NEW h \in Hosts, Ban(h)
      PROVE  MapsTyped'
  BY <1>8 DEF Ban, MapsTyped, history
<1>9. QED
  BY <1>1, <1>2, <1>3, <1>4, <1>5, <1>6, <1>7, <1>8 DEF UserSpace

LEMMA TypesKept ==
    ASSUME TypeOK, [Next]_vars
    PROVE  TypeOK'
<1>1. MapsTyped /\ ProgramsTyped
  BY DEF TypeOK, MapsTyped, ProgramsTyped
<1>2. MapsTyped' /\ ProgramsTyped'
  <2>1. CASE Next
    BY <1>1, <2>1, Steps, ArriveTyped, DecisionsTyped, BucketTyped, EndingsTyped, EnterTyped,
       SyscallTyped, OutsideTyped
  <2>2. CASE UNCHANGED vars
    BY <1>1, <2>2 DEF vars, maps, history, MapsTyped, ProgramsTyped
  <2>3. QED
    BY <2>1, <2>2
<1>3. QED
  BY <1>2 DEF TypeOK, MapsTyped, ProgramsTyped

LEMMA InitTyped == Init => TypeOK
<1> SUFFICES ASSUME Init
             PROVE  TypeOK
  OBVIOUS
<1>1. Unset \in Bucket
  BY GuardConstants DEF Unset, Bucket
<1>2. /\ \A c \in Cpus : pc[c] \notin PacketPc \cup {"passed", "dropped"} \cup SyscallPc
      /\ pc \in [Cpus -> Settled]
  BY DEF Init, PacketPc, SyscallPc, Settled
<1>3. ProgramsTyped
  BY <1>2 DEF Init, ProgramsTyped
<1>4. /\ stats \in [Cpus -> [Counters -> Nat]] /\ dropped \in [Cpus -> Nat]
      /\ flows \in [Agents \X Hosts -> Nat]
      /\ queued \in [{"agents", "syscalls"} -> 0 .. RingSize]
  BY GuardConstants DEF Init
<1>5. /\ flags \in [Agents -> SUBSET {"SANDBOXED", "KILLED"}]
      /\ threat \in [Agents -> 0 .. Critical]
      /\ bucketed \subseteq Agents /\ bucket \in [Agents -> Bucket]
      /\ offence \in [Agents -> Nat] /\ spent \in [Agents -> Nat]
      /\ born \in [Agents -> 0 .. MaxTime]
  BY <1>1, GuardConstants DEF Init, Critical
<1>6. clock \in 0 .. MaxTime /\ work \in 0 .. MaxWork /\ changes \in 0 .. MaxChanges
  BY GuardConstants DEF Init
<1>7. /\ enabled \in BOOLEAN /\ override \in [Agents -> Verdicts \cup {"none"}]
      /\ blocked \subseteq Hosts /\ enrolled \subseteq Agents /\ serial \subseteq Agents
  BY DEF Init
<1>8. QED
  BY <1>3, <1>4, <1>5, <1>6, <1>7 DEF TypeOK, ProgramsTyped

\* Every variable has its type in every reachable state.
THEOREM GuardTypes == Spec => []TypeOK
BY InitTyped, TypesKept, PTL DEF Spec

--------------------------------------------------------------------------------
(* Standing orders: a marked agent, a blocked host, a forbidden packet *)

\* What the maps said of a packet when it arrived still holds, and the packet has not got
\* past the check that looks at it.
OrdersOK(c) ==
    Handled(c) =>
        LET j == job[c]
            stopped == pc[c] \in {"emit", "finish"} /\ j.verdict \in {"BLOCK", "KILL", "SANDBOX"}
        IN
        /\ j.stood.marks \subseteq flags[j.pkt.pid]
        /\ j.stood.marks # {} => j.stood.known
        /\ j.stood.known => j.pkt.pid \in enrolled
        /\ j.stood.banned => j.pkt.host \in blocked
        /\ j.via = "rules" /\ j.stood.known /\ j.pkt.hook = "egress" =>
               /\ j.stood.marks # {} =>
                      pc[c] \in {"override", "blocklist", "registry", "dropped"} \/ stopped
               /\ PolicyForbids(j.pkt) =>
                      pc[c] \in {"override", "blocklist", "registry", "policy", "dropped"} \/ stopped
        /\ j.via = "rules" /\ j.stood.banned =>
               \/ pc[c] \in {"override", "blocklist", "dropped"}
               \/ pc[c] \in {"emit", "finish"} /\ j.verdict = "BLOCK"

\* Who decides about a packet, and for whom the rules can have decided against it.
RulingOK(c) ==
    Handled(c) =>
        LET j == job[c] IN
        /\ j.via = "off" => pc[c] \in {"finish", "passed"} /\ j.verdict = "ALLOW"
        /\ j.via = "override" => pc[c] \in {"emit", "finish", "passed", "dropped"}
        /\ pc[c] \in PacketPc \ {"emit", "finish"} => j.verdict = "ALLOW"
        /\ pc[c] \in {"policy", "bucket", "create", "charge", "inspect"} => j.pkt.pid \in enrolled
        /\ pc[c] \in {"emit", "finish"} /\ j.via = "rules" /\ j.verdict # "ALLOW" =>
               j.pkt.host \in blocked \/ j.pkt.pid \in enrolled

MarksOK == \A a \in Agents : flags[a] # {} => a \in enrolled

\* What a system call has read adds up with its agent's record.
CallOK(c) ==
    /\ pc[c] \in SyscallPc => job[c].pid \in enrolled
    /\ pc[c] = "raise" => job[c].threat + Delta[job[c].kind] <= offence[job[c].pid]
    /\ pc[c] = "mark" => Critical <= offence[job[c].pid]

OrdersInv ==
    /\ TypeOK /\ MarksOK /\ ThreatIsEarned
    /\ \A c \in Cpus : OrdersOK(c) /\ RulingOK(c) /\ CallOK(c)

\* Enrolments, bans, marks and offences stay.
Stays ==
    /\ enrolled \subseteq enrolled' /\ blocked \subseteq blocked'
    /\ \A a \in Agents : a \in enrolled => flags[a] \subseteq flags'[a]
    /\ \A a \in Agents : offence[a] <= offence'[a]

LEMMA OthersKept ==
    ASSUME TypeOK, TypeOK', Stays, NEW d \in Cpus, pc'[d] = pc[d], job'[d] = job[d],
           OrdersOK(d), RulingOK(d), CallOK(d)
    PROVE  OrdersOK(d)' /\ RulingOK(d)' /\ CallOK(d)'
<1>1. OrdersOK(d)' /\ RulingOK(d)'
  <2>1. CASE Handled(d)
    <3>1. job[d].pkt \in PacketType
      BY <2>1, GuardConstants DEF TypeOK, PacketJob, Handled
    <3>2. job[d].pkt.pid \in Agents
      BY <3>1 DEF PacketType
    <3>3. job[d].stood.marks \subseteq flags'[job[d].pkt.pid]
      BY <2>1, <3>2 DEF OrdersOK, Stays
    <3>4. /\ job[d].stood.known => job[d].pkt.pid \in enrolled'
          /\ job[d].stood.banned => job[d].pkt.host \in blocked'
      BY <2>1 DEF OrdersOK, Stays
    <3>5. OrdersOK(d)'
      BY <2>1, <3>3, <3>4 DEF OrdersOK, PolicyForbids, PortAllowed
    <3>6. RulingOK(d)'
      BY <2>1 DEF RulingOK, Stays
    <3>7. QED
      BY <3>5, <3>6
  <2>2. CASE ~Handled(d)
    BY <2>2 DEF OrdersOK, RulingOK, Handled
  <2>3. QED
    BY <2>1, <2>2
<1>2. CallOK(d)'
  <2>1. CASE pc[d] \in SyscallPc
    <3>1. /\ job[d].pid \in Agents /\ job[d].threat \in Nat /\ job[d].kind \in DOMAIN Delta
          /\ Delta[job[d].kind] \in Nat
      <4>1. job[d] \in SyscallJob
        BY <2>1 DEF TypeOK
      <4>2. /\ job[d].pid \in Agents /\ job[d].threat \in 0 .. 4
            /\ job[d].kind \in DOMAIN Delta
        BY <4>1 DEF SyscallJob, Critical
      <4>3. Delta[job[d].kind] \in 1 .. 4
        BY <4>2, DeltaTyped
      <4>4. QED
        BY <4>2, <4>3
    <3>2. /\ offence[job[d].pid] \in Nat /\ offence'[job[d].pid] \in Nat
          /\ offence[job[d].pid] <= offence'[job[d].pid]
      BY <3>1 DEF TypeOK, Stays
    <3>3. QED
      BY <2>1, <3>1, <3>2 DEF CallOK, Stays, Critical
  <2>2. CASE pc[d] \notin SyscallPc
    BY <2>2 DEF CallOK, SyscallPc
  <2>3. QED
    BY <2>1, <2>2
<1>3. QED
  BY <1>1, <1>2

\* What a decision leaves of the local variables.
LEMMA JudgeKeeps ==
    ASSUME TypeOK, NEW c \in Cpus, job[c] \in PacketJob, NEW v, Judge(c, v) \/ Consumed(c, v)
    PROVE  /\ job'[c].pkt = job[c].pkt /\ job'[c].stood = job[c].stood
           /\ job'[c].via = job[c].via /\ job'[c].verdict = v
BY DEF TypeOK, PacketJob, Judge, Consumed

\* The steps of a packet program change nothing that orders or calls speak of.
LEMMA PacketStays ==
    ASSUME TypeOK, NEW c \in Cpus,
           \/ CheckOverride(c) \/ CheckBlocklist(c) \/ CheckRegistry(c) \/ CheckPolicy(c)
           \/ LookUpBucket(c) \/ CreateBucket(c) \/ Charge(c)
           \/ Inspect(c) \/ LookUpFlow(c) \/ RecordFlow(c) \/ EmitVerdict(c) \/ Finish(c)
    PROVE  /\ UNCHANGED <<enrolled, blocked, flags, threat, offence>>
           /\ \A d \in Cpus \ {c} : pc'[d] = pc[d] /\ job'[d] = job[d]
           /\ pc[c] \in PacketPc /\ job[c] \in PacketJob
           /\ \E l \in PacketPc \cup {"passed", "dropped"} : To(c, l)
<1>1. UNCHANGED <<enrolled, blocked, flags, threat, offence>>
  BY DEF CheckOverride, CheckBlocklist, CheckRegistry, CheckPolicy, LookUpBucket, CreateBucket,
         Charge, Inspect, LookUpFlow, RecordFlow, EmitVerdict, Finish, maps, history
<1>2. pc[c] \in PacketPc
  BY DEF CheckOverride, CheckBlocklist, CheckRegistry, CheckPolicy, LookUpBucket, CreateBucket,
         Charge, Inspect, LookUpFlow, RecordFlow, EmitVerdict, Finish, At, PacketPc
<1>3. \E l \in PacketPc \cup {"passed", "dropped"} : To(c, l)
  BY DEF CheckOverride, CheckBlocklist, CheckRegistry, CheckPolicy, LookUpBucket, CreateBucket,
         Charge, Inspect, LookUpFlow, RecordFlow, EmitVerdict, Finish, PacketPc
<1>4. \A d \in Cpus \ {c} : pc'[d] = pc[d]
  BY <1>3 DEF To, TypeOK
<1>5. \A d \in Cpus \ {c} : job'[d] = job[d]
  BY DEF CheckOverride, CheckBlocklist, CheckRegistry, CheckPolicy, LookUpBucket, CreateBucket,
         Charge, Inspect, LookUpFlow, RecordFlow, EmitVerdict, Finish, Judge, Consumed, TypeOK
<1>6. QED
  BY <1>1, <1>2, <1>3, <1>4, <1>5 DEF TypeOK

\* What holds of a packet program beside the check it is at.
Remembers(c) ==
    LET j == job[c] IN
    /\ j.stood.marks \subseteq flags[j.pkt.pid]
    /\ j.stood.marks # {} => j.stood.known
    /\ j.stood.known => j.pkt.pid \in enrolled
    /\ j.stood.banned => j.pkt.host \in blocked

\* A step of a packet program keeps its own packet in order.
LEMMA PacketInOrder ==
    ASSUME TypeOK, MarksOK, NEW c \in Cpus, OrdersOK(c), RulingOK(c),
           \/ CheckOverride(c) \/ CheckBlocklist(c) \/ CheckRegistry(c) \/ CheckPolicy(c)
           \/ LookUpBucket(c) \/ CreateBucket(c) \/ Charge(c)
           \/ Inspect(c) \/ LookUpFlow(c) \/ RecordFlow(c) \/ EmitVerdict(c) \/ Finish(c)
    PROVE  OrdersOK(c)' /\ RulingOK(c)'
<1>1. /\ UNCHANGED <<enrolled, blocked, flags>>
      /\ pc[c] \in PacketPc /\ job[c] \in PacketJob
      /\ pc \in [Cpus -> Settled \cup PacketPc \cup SyscallPc]
      /\ job \in [Cpus -> PacketJob \cup SyscallJob \cup {<<>>}]
  BY PacketStays DEF TypeOK
<1>2. Remembers(c) /\ Handled(c)
  BY <1>1 DEF OrdersOK, Handled, Remembers
<1>3. CASE CheckOverride(c)
  <2>1. /\ job'[c].pkt = job[c].pkt /\ job'[c].stood = job[c].stood /\ pc[c] = "override"
        /\ \/ pc'[c] = "blocklist" /\ job' = job
           \/ pc'[c] = "emit" /\ job'[c].via = "override"
    BY <1>1, <1>3 DEF CheckOverride, To, At, PacketJob
  <2>2. OrdersOK(c)'
    BY <1>1, <1>2, <2>1 DEF OrdersOK, Remembers
  <2>3. RulingOK(c)'
    BY <1>1, <1>2, <2>1 DEF RulingOK, PacketPc
  <2>4. QED
    BY <2>2, <2>3
<1>4. CASE CheckBlocklist(c)
  <2>1. /\ job'[c].pkt = job[c].pkt /\ job'[c].stood = job[c].stood /\ job'[c].via = job[c].via
        /\ pc[c] = "blocklist"
        /\ \/ pc'[c] = "registry" /\ job[c].pkt.host \notin blocked /\ job' = job
           \/ pc'[c] = "emit" /\ job'[c].verdict = "BLOCK" /\ job[c].pkt.host \in blocked
    BY <1>1, <1>4, JudgeKeeps DEF CheckBlocklist, To, At
  <2>2. OrdersOK(c)'
    BY <1>1, <1>2, <2>1 DEF OrdersOK, Remembers
  <2>3. RulingOK(c)'
    BY <1>1, <1>2, <2>1 DEF RulingOK, PacketPc
  <2>4. QED
    BY <2>2, <2>3
<1>5. CASE CheckRegistry(c)
  <2>1. /\ job'[c].pkt = job[c].pkt /\ job'[c].stood = job[c].stood /\ job'[c].via = job[c].via
        /\ pc[c] = "registry"
        /\ \/ /\ pc'[c] = "emit" /\ job'[c].verdict \in {"KILL", "SANDBOX"}
              /\ job[c].pkt.pid \in enrolled
           \/ pc'[c] = "flow" /\ job[c].pkt.pid \notin enrolled /\ job' = job
           \/ /\ pc'[c] = "policy" /\ job[c].pkt.pid \in enrolled /\ job' = job
              /\ flags[job[c].pkt.pid] = {}
    BY <1>1, <1>5, JudgeKeeps DEF CheckRegistry, To, At
  <2>2. job[c].via = "rules" => ~job[c].stood.banned
    BY <1>2, <2>1 DEF OrdersOK
  <2>3. OrdersOK(c)'
    BY <1>1, <1>2, <2>1, <2>2 DEF OrdersOK, Remembers
  <2>4. RulingOK(c)'
    BY <1>1, <1>2, <2>1 DEF RulingOK, PacketPc
  <2>5. QED
    BY <2>3, <2>4
<1>6. CASE CheckPolicy(c)
  <2>1. /\ job'[c].pkt = job[c].pkt /\ job'[c].stood = job[c].stood /\ job'[c].via = job[c].via
        /\ pc[c] = "policy"
        /\ \/ pc'[c] = "emit" /\ job'[c].verdict = "BLOCK"
           \/ /\ pc'[c] = "bucket" /\ ~PolicyForbids(job[c].pkt)
              /\ job'[c].verdict = job[c].verdict
    <3>1. CASE Judge(c, "BLOCK") /\ To(c, "emit")
      BY <1>1, <1>6, <3>1, JudgeKeeps DEF CheckPolicy, To, At
    <3>2. CASE /\ ~PolicyForbids(job[c].pkt) /\ To(c, "bucket")
               /\ job' = [job EXCEPT ![c].now = clock]
      BY <1>1, <1>6, <3>2 DEF CheckPolicy, To, At, PacketJob
    <3>3. QED
      BY <1>6, <3>1, <3>2 DEF CheckPolicy
  <2>2. job[c].via = "rules" =>
            /\ ~job[c].stood.banned
            /\ job[c].stood.known /\ job[c].pkt.hook = "egress" => job[c].stood.marks = {}
    BY <1>2, <2>1 DEF OrdersOK
  <2>3. OrdersOK(c)'
    BY <1>1, <1>2, <2>1, <2>2 DEF OrdersOK, Remembers
  <2>4. RulingOK(c)'
    BY <1>1, <1>2, <2>1 DEF RulingOK, PacketPc
  <2>5. QED
    BY <2>3, <2>4
<1>7. CASE \/ LookUpBucket(c) \/ CreateBucket(c) \/ Charge(c)
           \/ Inspect(c) \/ LookUpFlow(c) \/ RecordFlow(c)
  <2>1. pc[c] \in {"bucket", "create", "charge", "inspect", "flow", "insert", "update"}
    BY <1>7 DEF LookUpBucket, CreateBucket, Charge, Inspect, LookUpFlow, RecordFlow, At
  <2>2. job[c].via = "rules" =>
            /\ ~job[c].stood.banned
            /\ job[c].stood.known /\ job[c].pkt.hook = "egress" =>
                   job[c].stood.marks = {} /\ ~PolicyForbids(job[c].pkt)
    BY <1>2, <2>1 DEF OrdersOK
  <2>3. /\ job'[c].pkt = job[c].pkt /\ job'[c].stood = job[c].stood /\ job'[c].via = job[c].via
        /\ \/ job'[c].verdict = "BLOCK" /\ pc'[c] \in {"emit", "finish"}
              /\ pc[c] \in {"charge", "inspect"}
           \/ /\ job'[c].verdict = "ALLOW"
              /\ pc'[c] \in {"create", "charge", "inspect"} => pc[c] \in {"bucket", "create", "charge"}
              /\ pc'[c] \in {"create", "charge", "inspect", "flow", "insert", "update", "finish"}
    <3>1. job[c].verdict = "ALLOW"
      BY <1>2, <2>1 DEF RulingOK, PacketPc
    <3>2. CASE LookUpBucket(c)
      BY <1>1, <3>1, <3>2 DEF LookUpBucket, At, To, PacketJob
    <3>3. CASE CreateBucket(c)
      BY <1>1, <3>3, JudgeKeeps DEF CreateBucket, At, To
    <3>4. CASE Charge(c)
      BY <1>1, <3>4, JudgeKeeps DEF Charge, At, To
    <3>5. CASE Inspect(c)
      BY <1>1, <3>1, <3>5, JudgeKeeps DEF Inspect, At, To
    <3>6. CASE LookUpFlow(c) \/ RecordFlow(c)
      BY <1>1, <3>1, <3>6 DEF LookUpFlow, RecordFlow, At, To
    <3>7. QED
      BY <1>7, <3>2, <3>3, <3>4, <3>5, <3>6
  <2>4. OrdersOK(c)'
    BY <1>1, <1>2, <2>2, <2>3 DEF OrdersOK, Remembers
  <2>5. RulingOK(c)'
    BY <1>1, <1>2, <2>1, <2>3 DEF RulingOK, PacketPc
  <2>6. QED
    BY <2>4, <2>5
<1>8. CASE EmitVerdict(c)
  <2>1. pc[c] = "emit" /\ pc'[c] = "finish" /\ job' = job
    BY <1>1, <1>8 DEF EmitVerdict, At, To
  <2>2. QED
    BY <1>1, <1>2, <2>1 DEF OrdersOK, RulingOK, Remembers, PacketPc
<1>9. CASE Finish(c)
  <2>1. /\ job' = job /\ pc[c] = "finish"
        /\ pc'[c] = IF job[c].verdict \in Stops(job[c].pkt.hook) THEN "dropped" ELSE "passed"
    BY <1>1, <1>9 DEF Finish, At, To
  <2>2. job[c].pkt.hook \in Hooks
    BY <1>1, PacketParts DEF ProgramsTyped, TypeOK
  <2>3. /\ "BLOCK" \in Stops(job[c].pkt.hook) /\ "ALLOW" \notin Stops(job[c].pkt.hook)
        /\ {"BLOCK", "KILL", "SANDBOX"} \subseteq Stops("egress")
    BY <2>2 DEF Stops, Hooks
  <2>4. OrdersOK(c)'
    BY <1>1, <1>2, <2>1, <2>3 DEF OrdersOK, Remembers
  <2>5. RulingOK(c)'
    BY <1>1, <1>2, <2>1, <2>3 DEF RulingOK, PacketPc
  <2>6. QED
    BY <2>4, <2>5
<1>10. QED
  BY <1>3, <1>4, <1>5, <1>6, <1>7, <1>8, <1>9

LEMMA PacketKeepsOrders ==
    ASSUME OrdersInv, TypeOK', NEW c \in Cpus,
           \/ CheckOverride(c) \/ CheckBlocklist(c) \/ CheckRegistry(c) \/ CheckPolicy(c)
           \/ LookUpBucket(c) \/ CreateBucket(c) \/ Charge(c)
           \/ Inspect(c) \/ LookUpFlow(c) \/ RecordFlow(c) \/ EmitVerdict(c) \/ Finish(c)
    PROVE  OrdersInv'
<1>1. TypeOK /\ MarksOK /\ ThreatIsEarned /\ OrdersOK(c) /\ RulingOK(c)
  BY DEF OrdersInv
<1>2. /\ UNCHANGED <<enrolled, blocked, flags, threat, offence>>
      /\ \A d \in Cpus \ {c} : pc'[d] = pc[d] /\ job'[d] = job[d]
      /\ \E l \in PacketPc \cup {"passed", "dropped"} : To(c, l)
  BY <1>1, PacketStays
<1>3. OrdersOK(c)' /\ RulingOK(c)'
  BY <1>1, PacketInOrder
<1>4. pc'[c] \notin SyscallPc
  BY <1>1, <1>2 DEF To, TypeOK, PacketPc, SyscallPc
<1>5. CallOK(c)'
  BY <1>4 DEF CallOK, SyscallPc
<1>6. Stays
  BY <1>1, <1>2 DEF Stays, TypeOK
<1>7. \A d \in Cpus \ {c} : OrdersOK(d)' /\ RulingOK(d)' /\ CallOK(d)'
  BY <1>1, <1>2, <1>6, OthersKept DEF OrdersInv
<1>8. MarksOK' /\ ThreatIsEarned'
  BY <1>1, <1>2 DEF MarksOK, ThreatIsEarned
<1>9. QED
  BY <1>3, <1>5, <1>7, <1>8 DEF OrdersInv

LEMMA ArriveKeepsOrders ==
    ASSUME OrdersInv, TypeOK', NEW c \in Cpus, NEW p \in Packets, Arrive(c, p)
    PROVE  OrdersInv'
<1>1. TypeOK /\ MarksOK /\ ThreatIsEarned
  BY DEF OrdersInv
<1>2. p.pid \in Agents
  BY GuardConstants DEF PacketType
<1>3. /\ UNCHANGED <<enrolled, blocked, flags, threat, offence>>
      /\ \A d \in Cpus \ {c} : pc'[d] = pc[d] /\ job'[d] = job[d]
  BY <1>1 DEF Arrive, maps, TypeOK
<1>4. /\ pc'[c] = IF enabled /\ p.ip THEN "override" ELSE "finish"
      /\ job'[c].pkt = p
      /\ job'[c].via = IF enabled /\ p.ip THEN "rules" ELSE "off"
      /\ job'[c].verdict = "ALLOW"
      /\ job'[c].stood.known <=> p.pid \in enrolled
      /\ job'[c].stood.marks = flags[p.pid]
      /\ job'[c].stood.banned <=> p.host \in blocked
  BY <1>1 DEF Arrive, TypeOK
<1>5. OrdersOK(c)' /\ RulingOK(c)'
  BY <1>1, <1>2, <1>3, <1>4 DEF OrdersOK, RulingOK, MarksOK
<1>6. CallOK(c)'
  BY <1>4 DEF CallOK, SyscallPc
<1>7. Stays
  BY <1>1, <1>3 DEF Stays, TypeOK
<1>8. \A d \in Cpus \ {c} : OrdersOK(d)' /\ RulingOK(d)' /\ CallOK(d)'
  BY <1>1, <1>3, <1>7, OthersKept DEF OrdersInv
<1>9. MarksOK' /\ ThreatIsEarned'
  BY <1>1, <1>3 DEF MarksOK, ThreatIsEarned
<1>10. QED
  BY <1>5, <1>6, <1>8, <1>9 DEF OrdersInv

LEMMA EnterKeepsOrders ==
    ASSUME OrdersInv, TypeOK', NEW c \in Cpus, NEW a \in Agents, NEW k \in SyscallKinds,
           EnterSyscall(c, a, k)
    PROVE  OrdersInv'
<1>1. TypeOK /\ MarksOK /\ ThreatIsEarned
  BY DEF OrdersInv
<1>2. k \in DOMAIN Delta /\ Delta[k] \in Nat
  <2>1. k \in DOMAIN Delta
    BY GuardConstants
  <2>2. QED
    BY <2>1, DeltaTyped
<1>3. /\ UNCHANGED <<enrolled, blocked, flags, threat>> /\ a \in enrolled
      /\ \A d \in Cpus \ {c} : pc'[d] = pc[d] /\ job'[d] = job[d]
  BY <1>1 DEF EnterSyscall, maps, TypeOK
<1>4. /\ \/ pc'[c] = "raise" /\ offence'[a] = offence[a] + Delta[k]
         \/ pc'[c] = "report" /\ offence'[a] = offence[a]
      /\ \A b \in Agents \ {a} : offence'[b] = offence[b]
      /\ job'[c] = [pid |-> a, kind |-> k, threat |-> threat[a]]
  BY <1>1 DEF EnterSyscall, TypeOK
<1>5. /\ \A b \in Agents : offence[b] \in Nat /\ offence[b] <= offence'[b]
      /\ \A b \in Agents : threat[b] \in Nat /\ offence'[b] \in Nat
  <2>1. threat \in [Agents -> 0 .. 4] /\ offence \in [Agents -> Nat]
    BY <1>1 DEF TypeOK, Critical
  <2>2. \A b \in Agents : threat[b] \in Nat /\ offence[b] \in Nat
    BY <2>1
  <2>3. offence'[a] = offence[a] + Delta[k] \/ offence'[a] = offence[a]
    BY <1>4
  <2>4. \A b \in Agents \ {a} : offence'[b] = offence[b]
    BY <1>4
  <2>5. offence'[a] \in Nat /\ offence[a] <= offence'[a]
    <3> DEFINE d == Delta[k]
    <3>1. d \in Nat
      BY <1>2
    <3>2. offence'[a] = offence[a] + d \/ offence'[a] = offence[a]
      BY <2>3
    <3> HIDE DEF d
    <3>3. QED
      BY <3>1, <3>2, <2>2
  <2>6. \A b \in Agents \ {a} : offence'[b] \in Nat /\ offence[b] <= offence'[b]
    BY <2>2, <2>4
  <2>7. QED
    BY <2>2, <2>5, <2>6
<1>6. CallOK(c)'
  BY <1>1, <1>2, <1>3, <1>4, <1>5 DEF CallOK, SyscallPc, ThreatIsEarned
<1>7. OrdersOK(c)' /\ RulingOK(c)'
  BY <1>4 DEF OrdersOK, RulingOK, Handled, PacketPc
<1>8. Stays
  BY <1>1, <1>3, <1>5 DEF Stays
<1>9. \A d \in Cpus \ {c} : OrdersOK(d)' /\ RulingOK(d)' /\ CallOK(d)'
  BY <1>1, <1>3, <1>8, OthersKept DEF OrdersInv
<1>10. MarksOK' /\ ThreatIsEarned'
  <2>1. ThreatIsEarned'
    BY <1>1, <1>3, <1>5 DEF ThreatIsEarned, Critical
  <2>2. QED
    BY <1>1, <1>3, <2>1 DEF MarksOK
<1>11. QED
  BY <1>6, <1>7, <1>9, <1>10 DEF OrdersInv

LEMMA SyscallKeepsOrders ==
    ASSUME OrdersInv, TypeOK', NEW c \in Cpus, RaiseThreat(c) \/ MarkKilled(c) \/ Report(c)
    PROVE  OrdersInv'
<1>1. TypeOK /\ MarksOK /\ ThreatIsEarned /\ CallOK(c)
  BY DEF OrdersInv
<1>2. pc[c] \in SyscallPc
  BY DEF RaiseThreat, MarkKilled, Report, At, SyscallPc
<1>3. job[c] \in SyscallJob
  BY <1>1, <1>2 DEF TypeOK
<1>4. /\ job[c].pid \in Agents /\ job[c].threat \in 0 .. 4 /\ job[c].kind \in DOMAIN Delta
      /\ job[c].pid \in enrolled
  BY <1>1, <1>2, <1>3 DEF SyscallJob, Critical, CallOK
<1>5. Delta[job[c].kind] \in 1 .. 4
  BY <1>4, DeltaTyped
<1>6. /\ UNCHANGED <<enrolled, blocked, offence>>
      /\ \A d \in Cpus \ {c} : pc'[d] = pc[d] /\ job'[d] = job[d]
  BY <1>1 DEF RaiseThreat, MarkKilled, Report, To, history, TypeOK
<1>7. \A a \in Agents : flags[a] \subseteq flags'[a]
  <2>1. flags \in [Agents -> SUBSET {"SANDBOXED", "KILLED"}]
    BY <1>1 DEF TypeOK
  <2>2. CASE RaiseThreat(c) \/ Report(c)
    BY <2>2 DEF RaiseThreat, Report
  <2>3. CASE MarkKilled(c)
    <3>1. flags' = [flags EXCEPT ![job[c].pid] = flags[job[c].pid] \cup {"KILLED"}]
      BY <2>3 DEF MarkKilled
    <3>2. QED
      BY <2>1, <3>1
  <2>4. QED
    BY <2>2, <2>3
<1>8. \A a \in Agents : offence[a] \in Nat /\ threat[a] \in Nat
  <2>1. threat \in [Agents -> 0 .. 4] /\ offence \in [Agents -> Nat]
    BY <1>1 DEF TypeOK, Critical
  <2>2. QED
    BY <2>1
<1>9. Stays
  BY <1>6, <1>7, <1>8 DEF Stays
<1>10. \A d \in Cpus \ {c} : OrdersOK(d)' /\ RulingOK(d)' /\ CallOK(d)'
  BY <1>1, <1>6, <1>9, OthersKept DEF OrdersInv
<1>11. pc'[c] \notin PacketPc \cup {"passed", "dropped"}
  BY <1>1 DEF RaiseThreat, MarkKilled, Report, To, TypeOK, PacketPc
<1>12. OrdersOK(c)' /\ RulingOK(c)'
  BY <1>11 DEF OrdersOK, RulingOK, Handled
<1>13. CASE RaiseThreat(c)
  <2>1. /\ NewThreat(c) \in 0 .. 4 /\ NewThreat(c) <= job[c].threat + Delta[job[c].kind]
    BY <1>4, <1>5 DEF NewThreat, Critical
  <2>2. /\ pc[c] = "raise" /\ job' = job /\ flags' = flags
        /\ threat' = [threat EXCEPT ![job[c].pid] = NewThreat(c)]
        /\ pc'[c] = IF NewThreat(c) >= Critical THEN "mark" ELSE "report"
    BY <1>1, <1>13 DEF RaiseThreat, At, To, TypeOK
  <2>3. NewThreat(c) <= offence[job[c].pid]
    BY <1>1, <1>4, <1>5, <1>8, <2>1, <2>2 DEF CallOK
  <2>4. CallOK(c)'
    BY <1>4, <1>6, <1>8, <2>1, <2>2, <2>3 DEF CallOK, SyscallPc, Critical
  <2>5. ThreatIsEarned'
    BY <1>1, <1>4, <1>6, <1>8, <2>2, <2>3 DEF ThreatIsEarned, TypeOK
  <2>6. QED
    BY <1>1, <1>6, <1>10, <1>12, <2>2, <2>4, <2>5 DEF OrdersInv, MarksOK
<1>14. CASE MarkKilled(c)
  <2>1. /\ pc[c] = "mark" /\ pc'[c] = "report" /\ job' = job /\ threat' = threat
        /\ flags' = [flags EXCEPT ![job[c].pid] = @ \cup {"KILLED"}]
    BY <1>1, <1>14 DEF MarkKilled, At, To, TypeOK
  <2>2. CallOK(c)'
    BY <1>4, <1>6, <2>1 DEF CallOK
  <2>3. ThreatIsEarned' /\ MarksOK'
    BY <1>1, <1>4, <1>6, <2>1 DEF ThreatIsEarned, MarksOK, CallOK, TypeOK
  <2>4. QED
    BY <1>10, <1>12, <2>2, <2>3 DEF OrdersInv
<1>15. CASE Report(c)
  <2>1. pc'[c] = "idle" /\ UNCHANGED <<flags, threat>>
    BY <1>1, <1>15 DEF Report, To, TypeOK
  <2>2. CallOK(c)'
    BY <2>1 DEF CallOK, SyscallPc
  <2>3. QED
    BY <1>1, <1>6, <1>10, <1>12, <2>1, <2>2 DEF OrdersInv, MarksOK, ThreatIsEarned
<1>16. QED
  BY <1>13, <1>14, <1>15

LEMMA OutsideKeepsOrders ==
    ASSUME OrdersInv, TypeOK', UserSpace \/ Tick \/ UNCHANGED vars
    PROVE  OrdersInv'
<1>1. TypeOK /\ MarksOK /\ ThreatIsEarned
  BY DEF OrdersInv
<1>2. UNCHANGED <<pc, job, threat, offence>>
  BY DEF UserSpace, Enable, Enrol, SetOverride, Ban, Consume, Tick, maps, history, vars
<1>3. \/ UNCHANGED <<enrolled, flags, blocked>>
      \/ UNCHANGED <<enrolled, flags>> /\ \E h \in Hosts : Ban(h)
      \/ blocked' = blocked /\ \E a \in Agents, F \in SUBSET {"SANDBOXED"} : Enrol(a, F)
  BY DEF UserSpace, Enable, Enrol, SetOverride, Ban, Consume, Tick, maps, vars
<1>4. Stays /\ MarksOK' /\ ThreatIsEarned'
  <2>1. \A a \in Agents : offence[a] <= offence'[a]
    BY <1>1, <1>2 DEF TypeOK
  <2>2. CASE UNCHANGED <<enrolled, flags, blocked>>
    BY <1>1, <1>2, <2>1, <2>2 DEF Stays, MarksOK, ThreatIsEarned
  <2>3. CASE UNCHANGED <<enrolled, flags>> /\ \E h \in Hosts : Ban(h)
    BY <1>1, <1>2, <2>1, <2>3 DEF Stays, MarksOK, ThreatIsEarned, Ban
  <2>4. CASE blocked' = blocked /\ \E a \in Agents, F \in SUBSET {"SANDBOXED"} : Enrol(a, F)
    <3>1. PICK a \in Agents, F \in SUBSET {"SANDBOXED"} : Enrol(a, F)
      BY <2>4
    <3>2. /\ a \notin enrolled /\ enrolled' = enrolled \cup {a}
          /\ "KILLED" \notin flags'[a]
          /\ \A b \in Agents \ {a} : flags'[b] = flags[b]
      BY <1>1, <3>1 DEF Enrol, TypeOK
    <3>3. QED
      BY <1>1, <1>2, <2>1, <2>4, <3>2 DEF Stays, MarksOK, ThreatIsEarned
  <2>5. QED
    BY <1>3, <2>2, <2>3, <2>4
<1>5. \A d \in Cpus : OrdersOK(d)' /\ RulingOK(d)' /\ CallOK(d)'
  BY <1>1, <1>2, <1>4, OthersKept DEF OrdersInv
<1>6. QED
  BY <1>4, <1>5 DEF OrdersInv

\* The invariant behind the theorems that follow.
THEOREM OrdersInvariance == Spec => []OrdersInv
<1>1. Init => OrdersInv
  <2> SUFFICES ASSUME Init
               PROVE  OrdersInv
    OBVIOUS
  <2>1. \A c \in Cpus : pc[c] \notin PacketPc \cup {"passed", "dropped"} \cup SyscallPc
    BY DEF Init, PacketPc, SyscallPc
  <2>2. \A c \in Cpus : OrdersOK(c) /\ RulingOK(c) /\ CallOK(c)
    BY <2>1 DEF OrdersOK, RulingOK, Handled, CallOK, SyscallPc
  <2>3. MarksOK /\ ThreatIsEarned
    BY DEF Init, MarksOK, ThreatIsEarned
  <2>4. QED
    BY <2>2, <2>3, InitTyped DEF OrdersInv
<1>2. OrdersInv /\ [Next]_vars => OrdersInv'
  <2> SUFFICES ASSUME OrdersInv, [Next]_vars
               PROVE  OrdersInv'
    OBVIOUS
  <2>1. TypeOK'
    BY TypesKept DEF OrdersInv
  <2>2. QED
    BY <2>1, Steps, PacketKeepsOrders, ArriveKeepsOrders, EnterKeepsOrders, SyscallKeepsOrders,
       OutsideKeepsOrders
<1>3. QED
  BY <1>1, <1>2, PTL DEF Spec

\* A system call that makes an agent critical silences its egress for every later packet that
\* the rules decide on (process_packet, AGENT_FLAG_KILLED; agent_guard_tc_egress).
THEOREM KilledAgentsAreSilent == Spec => []KilledIsSilent
<1>1. OrdersInv => KilledIsSilent
  BY DEF OrdersInv, OrdersOK, Handled, KilledIsSilent
<1>2. QED
  BY <1>1, OrdersInvariance, PTL

\* A blocked host is out of reach at all three hooks (process_packet, is_blocked_ip).
THEOREM BlockedHostsUnreachable == Spec => []BlockedHostUnreachable
<1>1. OrdersInv => BlockedHostUnreachable
  BY DEF OrdersInv, OrdersOK, Handled, BlockedHostUnreachable
<1>2. QED
  BY <1>1, OrdersInvariance, PTL

\* What stands when a packet arrives is final for it (the checks of process_packet).
THEOREM OrdersStand == Spec => []StandingOrdersHold
BY KilledAgentsAreSilent, BlockedHostsUnreachable, PTL DEF StandingOrdersHold

\* However system calls of one agent interleave, its level and its mark are earned
\* (agent_guard_syscall).
THEOREM ThreatsAreEarned == Spec => []ThreatIsEarned
<1>1. OrdersInv => ThreatIsEarned
  BY DEF OrdersInv
<1>2. QED
  BY <1>1, OrdersInvariance, PTL
--------------------------------------------------------------------------------
(* The kernel program implements AdmissionContract *)

LEMMA JourneyAt ==
    ASSUME NEW c \in Cpus
    PROVE  /\ Handled(c) => Journey[c] = Admitted(c) /\ Journey[c] # <<>>
           /\ ~Handled(c) => Journey[c] = <<>>
BY DEF Journey, Admitted

\* The next journey of the CPU that moved is the only new one.
LEMMA OneJourney ==
    ASSUME NEW c \in Cpus, \A d \in Cpus \ {c} : pc'[d] = pc[d] /\ job'[d] = job[d]
    PROVE  /\ Handled(c)' => Journey' = [Journey EXCEPT ![c] = Admitted(c)']
           /\ ~Handled(c)' => Journey' = [Journey EXCEPT ![c] = <<>>]
<1>1. \A d \in Cpus \ {c} : Handled(d)' = Handled(d) /\ Admitted(d)' = Admitted(d)
  BY DEF Handled, Admitted, Fate, Ruling, Barred, PolicyForbids, PortAllowed
<1>2. QED
  BY <1>1 DEF Journey

LEMMA JourneysStay ==
    ASSUME UNCHANGED <<pc, job>>
    PROVE  Journey' = Journey
<1>1. \A d \in Cpus : Handled(d)' = Handled(d) /\ Admitted(d)' = Admitted(d)
  BY DEF Handled, Admitted, Fate, Ruling, Barred, PolicyForbids, PortAllowed
<1>2. QED
  BY <1>1 DEF Journey

LEMMA BarredStays ==
    ASSUME NEW c \in Cpus, job'[c].pkt = job[c].pkt, job'[c].stood = job[c].stood
    PROVE  Barred(job[c])' = Barred(job[c])
BY DEF Barred, PolicyForbids, PortAllowed

\* A CPU without an open packet is free.
LEMMA FreeCpu ==
    ASSUME NEW c \in Cpus, pc[c] \in Settled
    PROVE  Admission!Free(c)
<1>1. pc[c] \notin PacketPc /\ pc[c] # "open"
  BY DEF Settled, PacketPc
<1>2. Handled(c) => Admitted(c).fate # "open"
  BY <1>1 DEF Admitted, Fate
<1>3. QED
  BY <1>2, JourneyAt DEF Admission!Free, Admission!Nothing

\* A packet that arrives is barred by what stands at that moment.
LEMMA ArriveAdmits ==
    ASSUME OrdersInv, NEW c \in Cpus, NEW p \in Packets, Arrive(c, p)
    PROVE  Admission!Arrive(c, p)
<1>1. pc[c] \in Settled /\ UNCHANGED <<enabled, override, blocked, enrolled, flags, offence>>
  BY DEF Arrive, maps
<1>2. pc \in [Cpus -> Settled \cup PacketPc \cup SyscallPc] /\ DOMAIN job = Cpus
  BY DEF OrdersInv, TypeOK
<1>3. /\ \A d \in Cpus \ {c} : pc'[d] = pc[d] /\ job'[d] = job[d]
      /\ pc'[c] = IF enabled /\ p.ip THEN "override" ELSE "finish"
      /\ job'[c].pkt = p
      /\ job'[c].via = IF enabled /\ p.ip THEN "rules" ELSE "off"
      /\ job'[c].stood.known <=> p.pid \in enrolled
      /\ job'[c].stood.marks = flags[p.pid]
      /\ job'[c].stood.banned <=> p.host \in blocked
  BY <1>2 DEF Arrive
<1>4. Handled(c)' /\ pc'[c] \in PacketPc
  BY <1>3 DEF Handled, PacketPc
<1>5. Admitted(c)' = [pkt |-> p, barred |-> Admission!Barred(p),
                      ruling |-> IF enabled /\ p.ip THEN "rules" ELSE "off", fate |-> "open"]
  <2> DEFINE then == Barred(job[c])'
             now == Admission!Barred(p)
  <2>1. PolicyForbids(job[c].pkt)' <=> PolicyForbids(p)
    BY <1>3 DEF PolicyForbids, PortAllowed
  <2>2. then <=> \/ job'[c].stood.banned
                \/ /\ job'[c].pkt.hook = "egress" /\ job'[c].stood.known
                   /\ job'[c].stood.marks # {} \/ PolicyForbids(job[c].pkt)'
    BY DEF Barred
  <2>3. now <=> \/ p.host \in blocked
               \/ /\ p.hook = "egress" /\ p.pid \in enrolled
                  /\ flags[p.pid] # {} \/ p \in {q \in Packets : PolicyForbids(q)}
    BY DEF Admission!Barred
  <2>4. then <=> now
    BY <1>3, <2>1, <2>2, <2>3
  <2>5. then \in BOOLEAN
    BY DEF Barred
  <2>6. now \in BOOLEAN
    BY DEF Admission!Barred
  <2>7. then = now
    BY <2>4, <2>5, <2>6
  <2>8. Ruling(job[c])' = IF enabled /\ p.ip THEN "rules" ELSE "off"
    BY <1>3 DEF Ruling
  <2>9. Fate(c)' = "open"
    BY <1>4 DEF Fate
  <2>10. QED
    BY <1>3, <2>7, <2>8, <2>9 DEF Admitted
<1>6. Journey' = [Journey EXCEPT ![c] = Admitted(c)']
  BY <1>3, <1>4, OneJourney
<1>7. QED
  BY <1>1, <1>5, <1>6, FreeCpu DEF Admission!Arrive

\* Steps that only lead a packet on, or find the rules' verdict, are not seen.
LEMMA JudgingIsUnseen ==
    ASSUME OrdersInv, NEW c \in Cpus,
           \/ CheckBlocklist(c) \/ CheckRegistry(c) \/ CheckPolicy(c)
           \/ LookUpBucket(c) \/ CreateBucket(c) \/ Charge(c)
           \/ Inspect(c) \/ LookUpFlow(c) \/ RecordFlow(c) \/ EmitVerdict(c)
    PROVE  UNCHANGED Admission!vars
<1>1. TypeOK /\ RulingOK(c)
  BY DEF OrdersInv
<1>2. /\ UNCHANGED <<enrolled, blocked, flags, offence>>
      /\ \A d \in Cpus \ {c} : pc'[d] = pc[d] /\ job'[d] = job[d]
      /\ pc[c] \in PacketPc /\ job[c] \in PacketJob
  BY <1>1, PacketStays
<1>3. UNCHANGED <<enabled, override>>
  BY DEF CheckBlocklist, CheckRegistry, CheckPolicy, LookUpBucket, CreateBucket, Charge, Inspect,
         LookUpFlow, RecordFlow, EmitVerdict, maps
<1>4. pc'[c] \in PacketPc
  BY <1>1 DEF CheckBlocklist, CheckRegistry, CheckPolicy, LookUpBucket, CreateBucket, Charge,
         Inspect, LookUpFlow, RecordFlow, EmitVerdict, To, TypeOK, PacketPc
<1>5. /\ job'[c].pkt = job[c].pkt /\ job'[c].stood = job[c].stood /\ job'[c].via = job[c].via
      /\ job[c].via = "override" => job'[c].verdict = job[c].verdict
  <2>1. CASE EmitVerdict(c)
    BY <2>1 DEF EmitVerdict
  <2>2. CASE \/ CheckBlocklist(c) \/ CheckRegistry(c) \/ CheckPolicy(c)
             \/ LookUpBucket(c) \/ CreateBucket(c) \/ Charge(c)
             \/ Inspect(c) \/ LookUpFlow(c) \/ RecordFlow(c)
    <3>1. pc[c] \notin {"emit", "finish", "passed", "dropped"}
      BY <2>2 DEF CheckBlocklist, CheckRegistry, CheckPolicy, LookUpBucket, CreateBucket, Charge,
             Inspect, LookUpFlow, RecordFlow, At
    <3>2. job[c].via # "override"
      BY <1>1, <1>2, <3>1 DEF RulingOK, Handled
    <3>3. \/ \E v : Judge(c, v) \/ Consumed(c, v)
          \/ job' = job
          \/ \E t : job' = [job EXCEPT ![c].now = t] \/ job' = [job EXCEPT ![c].seen = t]
      BY <2>2 DEF CheckBlocklist, CheckRegistry, CheckPolicy, LookUpBucket, CreateBucket, Charge,
             Inspect, LookUpFlow, RecordFlow
    <3>4. CASE \E v : Judge(c, v) \/ Consumed(c, v)
      BY <1>1, <1>2, <3>2, <3>4, JudgeKeeps
    <3>5. CASE \E t : job' = [job EXCEPT ![c].now = t] \/ job' = [job EXCEPT ![c].seen = t]
      BY <1>1, <1>2, <3>2, <3>5 DEF PacketJob, TypeOK
    <3>6. QED
      BY <3>2, <3>3, <3>4, <3>5
  <2>3. QED
    BY <2>1, <2>2
<1>6. Handled(c) /\ Handled(c)'
  BY <1>2, <1>4 DEF Handled
<1>7. Admitted(c)' = Admitted(c)
  <2>1. Barred(job[c])' = Barred(job[c])
    BY <1>5, BarredStays
  <2>2. Ruling(job[c])' = Ruling(job[c]) /\ Fate(c)' = Fate(c)
    BY <1>2, <1>4, <1>5 DEF Ruling, Fate
  <2>3. QED
    BY <1>5, <2>1, <2>2 DEF Admitted
<1>8. Journey' = [Journey EXCEPT ![c] = Admitted(c)]
  BY <1>2, <1>6, <1>7, OneJourney
<1>9. Journey' = Journey
  BY <1>6, <1>8, JourneyAt DEF Journey
<1>10. QED
  BY <1>2, <1>3, <1>9 DEF Admission!vars

\* An operator's order takes the packet out of the rules' hands.
LEMMA OverrideAdmits ==
    ASSUME OrdersInv, NEW c \in Cpus, CheckOverride(c)
    PROVE  Admission!Overrule(c) \/ UNCHANGED Admission!vars
<1>1. TypeOK /\ RulingOK(c)
  BY DEF OrdersInv
<1>2. /\ UNCHANGED <<enrolled, blocked, flags, offence>>
      /\ \A d \in Cpus \ {c} : pc'[d] = pc[d] /\ job'[d] = job[d]
      /\ pc[c] \in PacketPc /\ job[c] \in PacketJob
  BY <1>1, PacketStays
<1>3. UNCHANGED <<enabled, override>> /\ pc[c] = "override"
  BY DEF CheckOverride, maps, At
<1>4. job[c].via = "rules" /\ Handled(c)
  BY <1>1, <1>2, <1>3 DEF RulingOK, Handled, PacketJob
<1>5. pc'[c] \in PacketPc /\ Handled(c)'
  BY <1>1 DEF CheckOverride, To, TypeOK, PacketPc, Handled
<1> DEFINE v == override[job[c].pkt.pid]
<1>6. Journey[c] = Admitted(c) /\ Journey[c] # <<>> /\ DOMAIN Journey = Cpus
  BY <1>4, JourneyAt DEF Journey
<1>7. Journey' = [Journey EXCEPT ![c] = Admitted(c)']
  BY <1>2, <1>5, OneJourney
<1>8. CASE v = "none"
  <2>1. job' = job
    BY <1>8 DEF CheckOverride
  <2>2. Admitted(c)' = Admitted(c)
    BY <1>2, <1>5, <2>1 DEF Admitted, Fate, Ruling, Barred, PolicyForbids, PortAllowed
  <2>3. Journey' = Journey
    BY <1>6, <1>7, <2>2 DEF Journey
  <2>4. QED
    BY <1>2, <1>3, <2>3 DEF Admission!vars
<1>9. CASE v # "none"
  <2>1. /\ job'[c].pkt = job[c].pkt /\ job'[c].stood = job[c].stood
        /\ job'[c].via = "override" /\ job'[c].verdict = v
    BY <1>1, <1>2, <1>9 DEF CheckOverride, TypeOK, PacketJob
  <2>2. /\ Admitted(c).fate = "open" /\ Admitted(c).ruling = "rules"
        /\ Admitted(c).pkt = job[c].pkt
    BY <1>2, <1>4 DEF Admitted, Fate, Ruling
  <2>3. Admitted(c)' = [Admitted(c) EXCEPT !.ruling = v]
    <3>1. Barred(job[c])' = Barred(job[c])
      BY <2>1, BarredStays
    <3>2. Ruling(job[c])' = v /\ Fate(c)' = Fate(c)
      BY <1>2, <1>5, <2>1 DEF Ruling, Fate
    <3>3. QED
      BY <2>1, <3>1, <3>2 DEF Admitted
  <2>4. Journey' = [Journey EXCEPT ![c].ruling = override[Journey[c].pkt.pid]]
    BY <1>6, <1>7, <2>2, <2>3
  <2>5. QED
    BY <1>2, <1>3, <1>6, <1>9, <2>2, <2>4
       DEF Admission!Overrule, Admission!Open, Admission!Nothing
<1>10. QED
  BY <1>8, <1>9

\* The hook carries out what was decided: what is barred does not pass, what is stopped was
\* ordered, banned, or sent by an agent.
LEMMA FinishAdmits ==
    ASSUME OrdersInv, NEW c \in Cpus, Finish(c)
    PROVE  Admission!Settle(c)
<1>1. TypeOK /\ OrdersOK(c) /\ RulingOK(c)
  BY DEF OrdersInv
<1>2. /\ UNCHANGED <<enrolled, blocked, flags, offence>>
      /\ \A d \in Cpus \ {c} : pc'[d] = pc[d] /\ job'[d] = job[d]
      /\ pc[c] \in PacketPc /\ job[c] \in PacketJob
  BY <1>1, PacketStays
<1>3. UNCHANGED <<enabled, override, job>> /\ pc[c] = "finish"
  BY DEF Finish, maps, At
<1> DEFINE j == job[c]
           q == Journey[c]
           stopped == j.verdict \in Stops(j.pkt.hook)
<1>4. pc'[c] = IF stopped THEN "dropped" ELSE "passed"
  BY <1>1 DEF Finish, To, TypeOK
<1>5. Handled(c) /\ Handled(c)'
  BY <1>2, <1>4 DEF Handled
<1>6. q = Admitted(c) /\ q # <<>> /\ DOMAIN Journey = Cpus
  BY <1>5, JourneyAt DEF Journey
<1>7. /\ q.pkt = j.pkt /\ q.barred = Barred(j) /\ q.ruling = Ruling(j) /\ q.fate = "open"
  BY <1>2, <1>6 DEF Admitted, Fate
<1>8. Journey' = [Journey EXCEPT ![c].fate = IF stopped THEN "dropped" ELSE "passed"]
  <2>1. Journey' = [Journey EXCEPT ![c] = Admitted(c)']
    BY <1>2, <1>5, OneJourney
  <2>2. pc'[c] \notin PacketPc
    BY <1>4 DEF PacketPc
  <2>3. Fate(c)' = IF stopped THEN "dropped" ELSE "passed"
    BY <1>4, <2>2 DEF Fate
  <2>4. Barred(job[c])' = Barred(job[c]) /\ Ruling(job[c])' = Ruling(job[c])
    BY <1>3, BarredStays DEF Ruling
  <2>5. Admitted(c)' = [Admitted(c) EXCEPT !.fate = IF stopped THEN "dropped" ELSE "passed"]
    BY <1>3, <2>3, <2>4 DEF Admitted
  <2>6. QED
    BY <1>6, <2>1, <2>5
<1>9. /\ j.verdict \in Verdicts /\ j.via \in {"rules", "off", "override"}
      /\ j.pkt.hook \in Hooks
      /\ j.verdict # "off" /\ j.verdict # "rules"
  BY <1>1, <1>2, PacketParts DEF ProgramsTyped, TypeOK, PacketJob, Verdicts
<1>10. [hook \in Hooks |-> Stops(hook)][q.pkt.hook] = Stops(j.pkt.hook)
  BY <1>7, <1>9
<1>11. /\ "ALLOW" \notin Stops(j.pkt.hook) /\ "BLOCK" \in Stops(j.pkt.hook)
       /\ {"BLOCK", "KILL", "SANDBOX"} \subseteq Stops("egress")
  BY <1>9 DEF Stops, Hooks
<1>12. CASE j.via = "off"
  <2>1. q.ruling = "off" /\ j.verdict = "ALLOW"
    BY <1>1, <1>5, <1>7, <1>12 DEF Ruling, RulingOK
  <2>2. ~stopped /\ Admission!MayPass(q)
    BY <1>11, <2>1 DEF Admission!MayPass
  <2>3. QED
    BY <1>2, <1>3, <1>6, <1>7, <1>8, <2>2
       DEF Admission!Settle, Admission!Open, Admission!Nothing
<1>13. CASE j.via = "override"
  <2>1. q.ruling = j.verdict
    BY <1>7, <1>13 DEF Ruling
  <2>2. stopped => Admission!MayDrop(q)
    BY <1>9, <1>10, <2>1 DEF Admission!MayDrop
  <2>3. ~stopped => Admission!MayPass(q)
    BY <1>9, <1>10, <2>1 DEF Admission!MayPass
  <2>4. QED
    BY <1>2, <1>3, <1>6, <1>7, <1>8, <2>2, <2>3
       DEF Admission!Settle, Admission!Open, Admission!Nothing
<1>14. CASE j.via = "rules"
  <2>1. q.ruling = "rules"
    BY <1>7, <1>14 DEF Ruling
  <2>2. stopped => Admission!MayDrop(q)
    <3>1. ASSUME stopped
          PROVE  j.pkt.host \in blocked \/ j.pkt.pid \in enrolled
      <4>1. j.verdict # "ALLOW"
        BY <1>11, <3>1
      <4>2. QED
        BY <1>1, <1>3, <1>5, <1>14, <4>1 DEF RulingOK
    <3>2. QED
      BY <1>7, <2>1, <3>1 DEF Admission!MayDrop
  <2>3. ~stopped => Admission!MayPass(q)
    <3>1. ASSUME Barred(j)
          PROVE  stopped
      <4>1. CASE j.stood.banned
        BY <1>1, <1>3, <1>5, <1>11, <1>14, <4>1 DEF OrdersOK
      <4>2. CASE /\ j.pkt.hook = "egress" /\ j.stood.known
                 /\ j.stood.marks # {} \/ PolicyForbids(j.pkt)
        BY <1>1, <1>3, <1>5, <1>11, <1>14, <4>2 DEF OrdersOK
      <4>3. QED
        BY <3>1, <4>1, <4>2 DEF Barred
    <3>2. QED
      BY <1>7, <2>1, <3>1 DEF Admission!MayPass
  <2>4. QED
    BY <1>2, <1>3, <1>6, <1>7, <1>8, <2>2, <2>3
       DEF Admission!Settle, Admission!Open, Admission!Nothing
<1>15. QED
  BY <1>9, <1>12, <1>13, <1>14

LEMMA EnterAdmits ==
    ASSUME OrdersInv, NEW c \in Cpus, NEW a \in Agents, NEW k \in SyscallKinds,
           EnterSyscall(c, a, k)
    PROVE  \E n \in 0 .. Critical : Admission!Call(c, a, n)
<1>1. Delta[k] \in 1 .. 4
  BY DeltaTyped, GuardConstants
<1>2. offence \in [Agents -> Nat] /\ DOMAIN pc = Cpus /\ DOMAIN job = Cpus
  BY DEF OrdersInv, TypeOK
<1>3. /\ pc[c] \in Settled /\ a \in enrolled
      /\ UNCHANGED <<enabled, override, blocked, enrolled, flags>>
  BY DEF EnterSyscall, maps
<1>4. \E n \in 0 .. Critical : offence' = [offence EXCEPT ![a] = @ + n]
  <2>1. CASE offence' = [offence EXCEPT ![a] = @ + Delta[k]]
    <3> DEFINE d == Delta[k]
    <3>1. d \in 0 .. Critical
      BY <1>1 DEF Critical
    <3>2. offence' = [offence EXCEPT ![a] = @ + d]
      BY <2>1
    <3> HIDE DEF d
    <3>3. QED
      BY <3>1, <3>2
  <2>2. CASE offence' = offence
    <3>1. offence' = [offence EXCEPT ![a] = @ + 0]
      BY <1>2, <2>2
    <3>2. QED
      BY <3>1 DEF Critical
  <2>3. QED
    BY <2>1, <2>2 DEF EnterSyscall
<1>5. /\ \A d \in Cpus \ {c} : pc'[d] = pc[d] /\ job'[d] = job[d]
      /\ pc'[c] \in {"raise", "report"}
  BY <1>2 DEF EnterSyscall
<1>6. ~Handled(c)'
  BY <1>5 DEF Handled, PacketPc
<1>7. Journey' = [Journey EXCEPT ![c] = <<>>]
  BY <1>5, <1>6, OneJourney
<1>8. QED
  BY <1>3, <1>4, <1>7, FreeCpu DEF Admission!Call, Admission!Nothing

LEMMA SyscallAdmits ==
    ASSUME OrdersInv, NEW c \in Cpus, RaiseThreat(c) \/ MarkKilled(c) \/ Report(c)
    PROVE  \/ \E a \in Agents : Admission!MarkKilled(a)
           \/ UNCHANGED Admission!vars
<1>1. TypeOK /\ CallOK(c)
  BY DEF OrdersInv
<1>2. pc[c] \in SyscallPc
  BY DEF RaiseThreat, MarkKilled, Report, At, SyscallPc
<1>3. job[c].pid \in Agents /\ job[c].pid \in enrolled
  BY <1>1, <1>2 DEF TypeOK, SyscallJob, CallOK
<1>4. /\ UNCHANGED <<enabled, override, blocked, enrolled, offence>>
      /\ \A d \in Cpus \ {c} : pc'[d] = pc[d] /\ job'[d] = job[d]
      /\ pc'[c] \in {"mark", "report", "idle"}
  BY <1>1 DEF RaiseThreat, MarkKilled, Report, To, history, TypeOK
<1>5. ~Handled(c) /\ ~Handled(c)'
  BY <1>2, <1>4 DEF Handled, PacketPc, SyscallPc
<1>6. Journey' = Journey
  BY <1>4, <1>5, JourneyAt, OneJourney DEF Journey
<1>7. CASE MarkKilled(c)
  <2>1. Critical <= offence[job[c].pid]
    BY <1>1, <1>7 DEF MarkKilled, At, CallOK
  <2>2. offence[job[c].pid] \in Nat
    BY <1>1, <1>3 DEF TypeOK
  <2>3. flags' = [flags EXCEPT ![job[c].pid] = @ \cup {"KILLED"}]
    BY <1>7 DEF MarkKilled
  <2>4. Admission!MarkKilled(job[c].pid)
    BY <1>3, <1>4, <1>6, <2>1, <2>2, <2>3 DEF Admission!MarkKilled, Critical
  <2>5. QED
    BY <1>3, <2>4
<1>8. CASE RaiseThreat(c) \/ Report(c)
  <2>1. flags' = flags
    BY <1>8 DEF RaiseThreat, Report
  <2>2. QED
    BY <1>4, <1>6, <2>1 DEF Admission!vars
<1>9. QED
  BY <1>7, <1>8

LEMMA OutsideAdmits ==
    ASSUME TypeOK, UserSpace \/ Tick
    PROVE  \/ Admission!Switch
           \/ \E a \in Agents, v \in Verdicts \cup {"none"} : Admission!Order(a, v)
           \/ \E h \in Hosts : Admission!Ban(h)
           \/ \E a \in Agents, M \in SUBSET {"SANDBOXED"} : Admission!Enrol(a, M)
           \/ UNCHANGED Admission!vars
<1>1. UNCHANGED <<pc, job, offence>>
  BY DEF UserSpace, Enable, Enrol, SetOverride, Ban, Consume, Tick, history
<1>2. Journey' = Journey
  BY <1>1, JourneysStay
<1>3. CASE Tick \/ \E b \in {"agents", "syscalls"} : Consume(b)
  BY <1>1, <1>2, <1>3 DEF Tick, Consume, maps, Admission!vars
<1>4. CASE \E on \in BOOLEAN : Enable(on)
  <2>1. enabled' = ~enabled
    BY <1>4 DEF Enable, TypeOK
  <2>2. QED
    BY <1>1, <1>2, <1>4, <2>1 DEF Enable, Admission!Switch
<1>5. CASE \E a \in Agents, F \in SUBSET {"SANDBOXED"} : Enrol(a, F)
  BY <1>1, <1>2, <1>5 DEF Enrol, Admission!Enrol
<1>6. CASE \E a \in Agents, v \in Overrides \cup {"none"} : SetOverride(a, v)
  BY <1>1, <1>2, <1>6, GuardConstants DEF SetOverride, Admission!Order
<1>7. CASE \E h \in Hosts : Ban(h)
  BY <1>1, <1>2, <1>7 DEF Ban, Admission!Ban
<1>8. QED
  BY <1>3, <1>4, <1>5, <1>6, <1>7 DEF UserSpace

\* Every step is a step of the contract or changes nothing that it speaks of.
LEMMA AdmissionStep ==
    ASSUME OrdersInv, [Next]_vars
    PROVE  [Admission!Next]_(Admission!vars)
<1>1. TypeOK
  BY DEF OrdersInv
<1>2. ASSUME NEW c \in Cpus, NEW p \in Packets, Arrive(c, p)
      PROVE  Admission!Next
  BY <1>2, ArriveAdmits DEF Admission!Next
<1>3. ASSUME NEW c \in Cpus,
             \/ CheckBlocklist(c) \/ CheckRegistry(c) \/ CheckPolicy(c)
             \/ LookUpBucket(c) \/ CreateBucket(c) \/ Charge(c)
             \/ Inspect(c) \/ LookUpFlow(c) \/ RecordFlow(c) \/ EmitVerdict(c)
      PROVE  UNCHANGED Admission!vars
  BY <1>3, JudgingIsUnseen
<1>4. ASSUME NEW c \in Cpus, CheckOverride(c) \/ Finish(c)
      PROVE  Admission!Next \/ UNCHANGED Admission!vars
  BY <1>4, OverrideAdmits, FinishAdmits DEF Admission!Next
<1>5. ASSUME NEW c \in Cpus, NEW a \in Agents, NEW k \in SyscallKinds, EnterSyscall(c, a, k)
      PROVE  Admission!Next
  BY <1>5, EnterAdmits DEF Admission!Next
<1>6. ASSUME NEW c \in Cpus, RaiseThreat(c) \/ MarkKilled(c) \/ Report(c)
      PROVE  Admission!Next \/ UNCHANGED Admission!vars
  BY <1>6, SyscallAdmits DEF Admission!Next
<1>7. CASE UserSpace \/ Tick
  BY <1>1, <1>7, OutsideAdmits DEF Admission!Next
<1>8. CASE UNCHANGED vars
  <2>1. Journey' = Journey
    BY <1>8, JourneysStay DEF vars
  <2>2. QED
    BY <1>8, <2>1 DEF vars, maps, history, Admission!vars
<1>9. CASE Next
  BY <1>2, <1>3, <1>4, <1>5, <1>6, <1>7, <1>9, Steps
<1>10. QED
  BY <1>8, <1>9

LEMMA AdmissionBegins == Init => Admission!Init
<1> SUFFICES ASSUME Init
             PROVE  Admission!Init
  OBVIOUS
<1>1. \A c \in Cpus : ~Handled(c)
  BY DEF Init, Handled, PacketPc
<1>2. Journey = [c \in Cpus |-> <<>>]
  BY <1>1 DEF Journey
<1>3. QED
  BY <1>2 DEF Init, Admission!Init, Admission!Nothing

\* Programs on all CPUs and user space together keep to AdmissionContract (process_packet,
\* the three hooks, agent_guard_syscall and the pinned maps).
THEOREM KernelKeepsAdmission == Spec => ImplementsAdmission
<1>1. Spec => Admission!Spec
  BY AdmissionBegins, AdmissionStep, OrdersInvariance, PTL DEF Spec, Admission!Spec
<1>2. QED
  BY <1>1 DEF ImplementsAdmission
================================================================================
