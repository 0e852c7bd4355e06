--------------------------------- MODULE Guard ---------------------------------
(* agentguard/kernel/agent_guard.bpf.c: the eBPF programs that judge packets   *)
(* and system calls.  A program runs on one CPU without blocking; programs on  *)
(* different CPUs share the maps and interleave at every map access.  pc names *)
(* the map access a CPU is about to make.  The maps' other writer is user      *)
(* space, through the pinned maps.                                             *)
EXTENDS Integers

CONSTANTS
    Cpus,
    Agents,          \* pids, enrolled or not
    Hosts,
    Private,         \* the hosts with RFC 1918 addresses
    Ports, NoPort,   \* destination ports of TCP; NoPort: a packet without TCP header
    Policy,          \* Policy[a]: the policy_store entry of agent a
    Packets,         \* the packets that can arrive
    SyscallKinds,    \* the kinds of monitored system calls an agent may make
    Overrides,       \* the verdicts an operator may force
    Burst,           \* TOKEN_BUCKET_MAX * 1000
    Scale,           \* tokens per byte: 1000
    NsPerSec,        \* 1000000000
    Word,            \* 2^64
    RingSize,        \* records a ring buffer holds
    MaxWork,         \* bound: program runs
    MaxChanges,      \* bound: changes of the maps by user space
    MaxTime          \* bound: the clock

Verdicts == {"ALLOW", "BLOCK", "SANDBOX", "KILL", "AUDIT"}
Hooks == {"xdp", "egress", "ingress"}
\* The counters of global_stats that a dropped packet can be in.
Counters == {"BLOCKED", "POLICY_HITS", "RATE_DROPS", "SANDBOXED"}
Critical == 4

\* threat_delta of a forbidden call; "signal" is kill(2) of another process.
Delta == [exec |-> 3, fork |-> 2, ptrace |-> 4, raw |-> 3, bind |-> 1, signal |-> 3]

\* struct agent_policy, without what no program reads; no ports: all are allowed.
PolicyType == [ports : SUBSET Ports, external : BOOLEAN, cap : Nat, inspect : BOOLEAN,
               block : BOOLEAN, forbids : SUBSET DOMAIN Delta]

\* A packet as the parser sees it.  ip: it is complete IPv4; http: it has a TCP payload
\* and one of the inspected ports; dirty: its payload scores above zero.
PacketType == [hook : Hooks, pid : Agents, host : Hosts, port : Ports \cup {NoPort},
               ip : BOOLEAN, http : BOOLEAN, dirty : BOOLEAN, size : Nat]

ASSUME GuardConstants ==
    /\ Private \subseteq Hosts
    /\ Policy \in [Agents -> PolicyType]
    /\ Packets \subseteq PacketType
    /\ SyscallKinds \subseteq DOMAIN Delta
    /\ Overrides \subseteq Verdicts
    /\ Burst \in Nat /\ Scale \in Nat /\ NsPerSec \in Nat \ {0}
    /\ RingSize \in Nat /\ MaxWork \in Nat /\ MaxChanges \in Nat
    /\ MaxTime \in Nat /\ Word \in Nat /\ Burst < Word /\ MaxTime < Word

VARIABLES
    enabled,     \* guard_config[CFG_ENABLED] is not zero
    override,    \* verdict_overrides, "none" without an entry
    blocked,     \* the keys of blocked_ips
    enrolled,    \* the keys of agent_registry
    flags,       \* flags[a] of its identity
    threat,      \* threat_level[a] of its identity
    bucketed,    \* the keys of token_buckets
    bucket,      \* bucket[a]: its value
    flows,       \* flows[<<a, h>>]: packets in the flow table's entry
    queued,      \* queued[b]: records in ring buffer b that user space has not consumed
    stats,       \* stats[c]: global_stats, a per-CPU array
    clock,       \* bpf_ktime_get_ns
    pc, job,     \* job[c]: local variables of the program that runs on c
    work,        \* program runs so far
    changes,     \* changes of the maps by user space so far
    offence,     \* history: sum of the threat deltas of a's forbidden calls
    serial,      \* history: agents whose packets were never handled by two CPUs at once
    spent, born, \* history: tokens charged to a since its bucket was made, and when
    dropped      \* dropped[c]: history: packets dropped on c

maps == <<enabled, override, blocked, enrolled, flags, threat, bucketed, bucket, flows, queued>>
history == <<offence, serial, spent, born, dropped>>
vars == <<maps, stats, clock, pc, job, work, changes, history>>

\* max_tokens is Burst in every bucket; at is last_refill_ns.
Bucket == [tokens : 0 .. Burst, at : 0 .. MaxTime, rate : Nat]
Unset == [tokens |-> 0, at |-> 0, rate |-> 0]

Settled == {"idle", "passed", "dropped"}
PacketPc == {"override", "blocklist", "registry", "policy", "bucket", "create", "charge",
             "inspect", "flow", "insert", "update", "emit", "finish"}
SyscallPc == {"raise", "mark", "report"}

\* via: "off" when no rule was looked at, "override" when an operator decided.
\* stood: history: what the maps said of the packet when it arrived.
PacketJob == [pkt : Packets, verdict : Verdicts, via : {"rules", "off", "override"},
              now : 0 .. MaxTime, seen : Bucket,
              stood : [known : BOOLEAN, marks : SUBSET {"SANDBOXED", "KILLED"}, banned : BOOLEAN]]
SyscallJob == [pid : Agents, kind : DOMAIN Delta, threat : 0 .. Critical]

\* Every variable has its type, a running program the local variables of its kind.
TypeOK ==
    /\ enabled \in BOOLEAN
    /\ override \in [Agents -> Verdicts \cup {"none"}]
    /\ blocked \subseteq Hosts /\ enrolled \subseteq Agents /\ serial \subseteq Agents
    /\ flags \in [Agents -> SUBSET {"SANDBOXED", "KILLED"}]
    /\ threat \in [Agents -> 0 .. Critical]
    /\ bucketed \subseteq Agents /\ bucket \in [Agents -> Bucket]
    /\ flows \in [Agents \X Hosts -> Nat]
    /\ queued \in [{"agents", "syscalls"} -> 0 .. RingSize]
    /\ stats \in [Cpus -> [Counters -> Nat]] /\ dropped \in [Cpus -> Nat]
    /\ clock \in 0 .. MaxTime /\ work \in 0 .. MaxWork /\ changes \in 0 .. MaxChanges
    /\ offence \in [Agents -> Nat] /\ spent \in [Agents -> Nat] /\ born \in [Agents -> 0 .. MaxTime]
    /\ pc \in [Cpus -> Settled \cup PacketPc \cup SyscallPc]
    /\ job \in [Cpus -> PacketJob \cup SyscallJob \cup {<<>>}]
    /\ \A c \in Cpus :
           /\ pc[c] \in PacketPc \cup {"passed", "dropped"} => job[c] \in PacketJob
           /\ pc[c] \in SyscallPc => job[c] \in SyscallJob

\* The maps as the loader leaves them.  guard_config is an array: its entries exist and
\* are zero, so that cfg_get(CFG_ENABLED, 1) is 0 until user space writes it.
Init ==
    /\ enabled = FALSE
    /\ override = [a \in Agents |-> "none"]
    /\ blocked = {} /\ enrolled = {} /\ serial = Agents
    /\ flags = [a \in Agents |-> {}]
    /\ threat = [a \in Agents |-> 0]
    /\ bucketed = {} /\ bucket = [a \in Agents |-> Unset]
    /\ flows = [k \in Agents \X Hosts |-> 0]
    /\ queued = [b \in {"agents", "syscalls"} |-> 0]
    /\ stats = [c \in Cpus |-> [s \in Counters |-> 0]]
    /\ dropped = [c \in Cpus |-> 0]
    /\ clock = 0 /\ work = 0 /\ changes = 0
    /\ offence = [a \in Agents |-> 0] /\ spent = [a \in Agents |-> 0] /\ born = spent
    /\ pc = [c \in Cpus |-> "idle"]
    /\ job = [c \in Cpus |-> <<>>]

--------------------------------------------------------------------------------
(* Steps of a program *)

At(c, label) == pc[c] = label
To(c, label) == pc' = [pc EXCEPT ![c] = label]
Count(c, S) == stats' = [stats EXCEPT ![c] = [s \in Counters |-> stats[c][s] + (IF s \in S THEN 1 ELSE 0)]]
Judge(c, v) == job' = [job EXCEPT ![c].verdict = v]
\* token_bucket_consume returns: its local variables are gone.
Consumed(c, v) == job' = [job EXCEPT ![c].verdict = v, ![c].now = 0, ![c].seen = Unset]
Handles(c, a) == pc[c] \in PacketPc /\ job[c].pkt.pid = a

\* bpf_ringbuf_reserve and submit: nothing is written when the ring is full.
Emitted(b) == IF queued[b] < RingSize THEN queued[b] + 1 ELSE queued[b]
Emit(b) == queued' = [queued EXCEPT ![b] = Emitted(b)]

--------------------------------------------------------------------------------
(* process_packet *)

\* A packet reaches a hook: CFG_ENABLED is read, the headers are parsed.
Arrive(c, p) ==
    /\ pc[c] \in Settled /\ work < MaxWork
    /\ pc' = [pc EXCEPT ![c] = IF enabled /\ p.ip THEN "override" ELSE "finish"]
    /\ job' = [job EXCEPT ![c] =
           [pkt |-> p, verdict |-> "ALLOW", via |-> IF enabled /\ p.ip THEN "rules" ELSE "off",
            now |-> 0, seen |-> Unset,
            stood |-> [known |-> p.pid \in enrolled, marks |-> flags[p.pid],
                       banned |-> p.host \in blocked]]]
    /\ serial' = IF \E d \in Cpus \ {c} : Handles(d, p.pid) THEN serial \ {p.pid} ELSE serial
    /\ work' = work + 1
    /\ UNCHANGED <<maps, stats, clock, changes, offence, spent, born, dropped>>

CheckOverride(c) ==
    LET v == override[job[c].pkt.pid] IN
    /\ At(c, "override")
    /\ \/ v = "none" /\ To(c, "blocklist") /\ UNCHANGED <<job, stats>>
       \/ /\ v # "none" /\ To(c, "emit")
          /\ job' = [job EXCEPT ![c].verdict = v, ![c].via = "override"]
          /\ Count(c, {"POLICY_HITS"})
    /\ UNCHANGED <<maps, clock, work, changes, history>>

CheckBlocklist(c) ==
    LET banned == job[c].pkt.host \in blocked IN
    /\ At(c, "blocklist")
    /\ \/ ~banned /\ To(c, "registry") /\ UNCHANGED <<job, stats>>
       \/ banned /\ To(c, "emit") /\ Judge(c, "BLOCK") /\ Count(c, {"BLOCKED", "POLICY_HITS"})
    /\ UNCHANGED <<maps, clock, work, changes, history>>

\* Mutant: the packets of a killed agent are only audited.
MutCheckRegistry(c) ==
    LET a == job[c].pkt.pid IN
    /\ At(c, "registry")
    /\ \/ a \notin enrolled /\ To(c, "flow") /\ UNCHANGED <<job, stats>>
       \/ a \in enrolled /\ flags[a] = {} /\ To(c, "policy") /\ UNCHANGED <<job, stats>>
       \/ /\ a \in enrolled /\ "SANDBOXED" \in flags[a]
          /\ To(c, "emit") /\ Judge(c, "SANDBOX") /\ Count(c, {"SANDBOXED"})
       \/ /\ a \in enrolled /\ flags[a] = {"KILLED"}
          /\ To(c, "emit") /\ Judge(c, "AUDIT") /\ UNCHANGED stats
    /\ UNCHANGED <<maps, clock, work, changes, history>>

\* get_agent and the flags of the identity; unknown pids go straight to the flow table.
CheckRegistry(c) ==
    LET a == job[c].pkt.pid IN
    /\ At(c, "registry")
    /\ \/ a \notin enrolled /\ To(c, "flow") /\ UNCHANGED <<job, stats>>
       \/ a \in enrolled /\ flags[a] = {} /\ To(c, "policy") /\ UNCHANGED <<job, stats>>
       \/ /\ a \in enrolled /\ "KILLED" \in flags[a]
          /\ To(c, "emit") /\ Judge(c, "KILL") /\ UNCHANGED stats
       \/ /\ a \in enrolled /\ flags[a] = {"SANDBOXED"}
          /\ To(c, "emit") /\ Judge(c, "SANDBOX") /\ Count(c, {"SANDBOXED"})
    /\ UNCHANGED <<maps, clock, work, changes, history>>

PortAllowed(pol, port) == pol.ports = {} \/ port \in pol.ports \cup {NoPort}

\* Port whitelist and external network, for egress.
PolicyForbids(p) ==
    LET pol == Policy[p.pid] IN
    /\ p.hook = "egress"
    /\ \/ ~PortAllowed(pol, p.port)
       \/ ~pol.external /\ p.host \notin Private

\* Mutant: the port whitelist is consulted only for hosts outside the private networks.
MutCheckPolicy(c) ==
    LET p == job[c].pkt
        refused == PolicyForbids(p) /\ p.host \notin Private
    IN
    /\ At(c, "policy")
    /\ \/ refused /\ To(c, "emit") /\ Judge(c, "BLOCK") /\ Count(c, {"BLOCKED"})
       \/ /\ ~refused /\ To(c, "bucket")
          /\ job' = [job EXCEPT ![c].now = clock] /\ UNCHANGED stats
    /\ UNCHANGED <<maps, clock, work, changes, history>>

\* What the policy does not forbid goes on to the bucket, for which the clock is read.
CheckPolicy(c) ==
    LET refused == PolicyForbids(job[c].pkt) IN
    /\ At(c, "policy")
    /\ \/ refused /\ To(c, "emit") /\ Judge(c, "BLOCK") /\ Count(c, {"BLOCKED"})
       \/ /\ ~refused /\ To(c, "bucket")
          /\ job' = [job EXCEPT ![c].now = clock] /\ UNCHANGED stats
    /\ UNCHANGED <<maps, clock, work, changes, history>>

--------------------------------------------------------------------------------
(* token_bucket_consume *)

Elapsed(b, now) == (now - b.at) % Word
Refilled(b, now) ==
    LET t == (b.tokens + ((Elapsed(b, now) * b.rate) % Word)) % Word
    IN  IF t > Burst THEN Burst ELSE t

LookUpBucket(c) ==
    LET a == job[c].pkt.pid IN
    /\ At(c, "bucket")
    /\ \/ a \in bucketed /\ To(c, "charge") /\ job' = [job EXCEPT ![c].seen = bucket[a]]
       \/ a \notin bucketed /\ To(c, "create") /\ UNCHANGED job
    /\ UNCHANGED <<maps, stats, clock, work, changes, history>>

\* A new bucket is full, keeps the rate of today's policy, and the packet is not charged.
CreateBucket(c) ==
    LET a == job[c].pkt.pid IN
    /\ At(c, "create") /\ To(c, "inspect")
    /\ bucketed' = bucketed \cup {a}
    /\ bucket' = [bucket EXCEPT ![a] = [tokens |-> Burst, at |-> job[c].now,
                                        rate |-> Policy[a].cap \div NsPerSec]]
    /\ Consumed(c, "ALLOW")
    /\ spent' = [spent EXCEPT ![a] = 0] /\ born' = [born EXCEPT ![a] = job[c].now]
    /\ UNCHANGED <<enabled, override, blocked, enrolled, flags, threat, flows, queued,
                   stats, clock, work, changes, offence, serial, dropped>>

\* Mutant: only an empty bucket refuses.
MutCharge(c) ==
    LET a == job[c].pkt.pid
        now == job[c].now
        later == Elapsed(job[c].seen, now) > 0
        tokens == Refilled(job[c].seen, now)
        cost == job[c].pkt.size * Scale
    IN
    /\ At(c, "charge")
    /\ \/ /\ tokens = 0 /\ To(c, "emit")
          /\ bucket' = IF later THEN [bucket EXCEPT ![a].tokens = tokens, ![a].at = now] ELSE bucket
          /\ Consumed(c, "BLOCK") /\ Count(c, {"RATE_DROPS"}) /\ UNCHANGED spent
       \/ /\ tokens > 0 /\ To(c, "inspect")
          /\ bucket' = [bucket EXCEPT ![a].tokens = IF tokens < cost THEN 0 ELSE tokens - cost,
                                    ![a].at = IF later THEN now ELSE @]
          /\ spent' = [spent EXCEPT ![a] = @ + cost]
          /\ Consumed(c, "ALLOW") /\ UNCHANGED stats
    /\ UNCHANGED <<enabled, override, blocked, enrolled, flags, threat, bucketed, flows, queued,
                   clock, work, changes, offence, serial, born, dropped>>

\* Refill and consume, computed from the values loaded before: neither is atomic.  Without
\* elapsed time there is no refill to store.
Charge(c) ==
    LET a == job[c].pkt.pid
        now == job[c].now
        later == Elapsed(job[c].seen, now) > 0
        tokens == Refilled(job[c].seen, now)
        cost == job[c].pkt.size * Scale
    IN
    /\ At(c, "charge")
    /\ \/ /\ tokens < cost /\ To(c, "emit")
          /\ bucket' = IF later THEN [bucket EXCEPT ![a].tokens = tokens, ![a].at = now] ELSE bucket
          /\ Consumed(c, "BLOCK") /\ Count(c, {"RATE_DROPS"}) /\ UNCHANGED spent
       \/ /\ tokens >= cost /\ To(c, "inspect")
          /\ bucket' = [bucket EXCEPT ![a].tokens = tokens - cost, ![a].at = IF later THEN now ELSE @]
          /\ spent' = [spent EXCEPT ![a] = @ + cost]
          /\ Consumed(c, "ALLOW") /\ UNCHANGED stats
    /\ UNCHANGED <<enabled, override, blocked, enrolled, flags, threat, bucketed, flows, queued,
                   clock, work, changes, offence, serial, born, dropped>>

--------------------------------------------------------------------------------
(* process_packet: payload, flow table, event *)

\* The payload is looked at only when the ring buffer has room for the event.
Inspect(c) ==
    LET p == job[c].pkt
        pol == Policy[p.pid]
        seen == pol.inspect /\ p.http /\ queued["agents"] < RingSize
        refused == seen /\ p.dirty /\ pol.block
    IN
    /\ At(c, "inspect")
    /\ \/ /\ refused /\ To(c, "finish")
          /\ Judge(c, "BLOCK") /\ Count(c, {"BLOCKED"})
       \/ ~refused /\ To(c, "flow") /\ UNCHANGED <<job, stats>>
    /\ IF seen THEN Emit("agents") ELSE UNCHANGED queued
    /\ UNCHANGED <<enabled, override, blocked, enrolled, flags, threat, bucketed, bucket, flows,
                   clock, work, changes, history>>

Flow(c) == <<job[c].pkt.pid, job[c].pkt.host>>

LookUpFlow(c) ==
    /\ At(c, "flow") /\ To(c, IF flows[Flow(c)] = 0 THEN "insert" ELSE "update")
    /\ UNCHANGED <<maps, stats, clock, job, work, changes, history>>

\* An entry that was absent is written as a whole (BPF_ANY), a found one is incremented.
RecordFlow(c) ==
    /\ \/ At(c, "insert") /\ To(c, "finish") /\ flows' = [flows EXCEPT ![Flow(c)] = 1]
       \/ At(c, "update") /\ To(c, "finish") /\ flows' = [flows EXCEPT ![Flow(c)] = @ + 1]
    /\ UNCHANGED <<enabled, override, blocked, enrolled, flags, threat, bucketed, bucket, queued,
                   stats, clock, job, work, changes, offence, serial, spent, born, dropped>>

\* emit_and_return
EmitVerdict(c) ==
    /\ At(c, "emit") /\ To(c, "finish")
    /\ Emit("agents")
    /\ UNCHANGED <<enabled, override, blocked, enrolled, flags, threat, bucketed, bucket, flows,
                   stats, clock, job, work, changes, history>>

\* What each hook does with a verdict.
Stops(hook) ==
    CASE hook = "xdp"     -> {"BLOCK", "SANDBOX"}
      [] hook = "egress"  -> {"BLOCK", "KILL", "SANDBOX"}
      [] hook = "ingress" -> {"BLOCK"}

\* Mutant: the egress hook leaves counting to process_packet.
MutFinish(c) ==
    LET v == job[c].verdict
        stopped == v \in Stops(job[c].pkt.hook)
    IN
    /\ At(c, "finish") /\ To(c, IF stopped THEN "dropped" ELSE "passed")
    /\ dropped' = [dropped EXCEPT ![c] = @ + IF stopped THEN 1 ELSE 0]
    /\ UNCHANGED <<maps, stats, clock, job, work, changes, offence, serial, spent, born>>

\* agent_guard_xdp, agent_guard_tc_egress, agent_guard_tc_ingress after process_packet.
Finish(c) ==
    LET v == job[c].verdict
        stopped == v \in Stops(job[c].pkt.hook)
        egress == job[c].pkt.hook = "egress"
    IN
    /\ At(c, "finish") /\ To(c, IF stopped THEN "dropped" ELSE "passed")
    /\ Count(c, (IF egress /\ v \in {"BLOCK", "KILL"} THEN {"BLOCKED"} ELSE {}) \cup
                (IF egress /\ v = "SANDBOX" THEN {"SANDBOXED"} ELSE {}))
    /\ dropped' = [dropped EXCEPT ![c] = @ + IF stopped THEN 1 ELSE 0]
    /\ UNCHANGED <<maps, clock, job, work, changes, offence, serial, spent, born>>

ProcessPacket(c) ==
    \/ CheckOverride(c) \/ CheckBlocklist(c) \/ CheckRegistry(c) \/ CheckPolicy(c)
    \/ LookUpBucket(c) \/ CreateBucket(c) \/ Charge(c)
    \/ Inspect(c) \/ LookUpFlow(c) \/ RecordFlow(c) \/ EmitVerdict(c) \/ Finish(c)

--------------------------------------------------------------------------------
(* agent_guard_syscall *)

\* The identity is found, the call is one of those in the switch; threat_level is read.
EnterSyscall(c, a, k) ==
    LET forbidden == k = "signal" \/ k \in Policy[a].forbids IN
    /\ pc[c] \in Settled /\ work < MaxWork
    /\ a \in enrolled
    /\ pc' = [pc EXCEPT ![c] = IF forbidden THEN "raise" ELSE "report"]
    /\ job' = [job EXCEPT ![c] = [pid |-> a, kind |-> k, threat |-> threat[a]]]
    /\ offence' = IF forbidden THEN [offence EXCEPT ![a] = @ + Delta[k]] ELSE offence
    /\ work' = work + 1
    /\ UNCHANGED <<maps, stats, clock, changes, serial, spent, born, dropped>>

\* Mutant: the level is not clamped.
MutNewThreat(c) == job[c].threat + Delta[job[c].kind]

NewThreat(c) ==
    LET t == job[c].threat + Delta[job[c].kind] IN IF t > Critical THEN Critical ELSE t

\* Mutant: a second forbidden call is critical whatever it is.
MutRaiseThreat(c) ==
    LET t == IF job[c].threat = 0 THEN Delta[job[c].kind] ELSE Critical IN
    /\ At(c, "raise") /\ To(c, IF t >= Critical THEN "mark" ELSE "report")
    /\ threat' = [threat EXCEPT ![job[c].pid] = t]
    /\ UNCHANGED <<enabled, override, blocked, enrolled, flags, bucketed, bucket, flows, queued,
                   stats, clock, job, work, changes, history>>

\* A plain store of the value computed from the load above.
RaiseThreat(c) ==
    /\ At(c, "raise") /\ To(c, IF NewThreat(c) >= Critical THEN "mark" ELSE "report")
    /\ threat' = [threat EXCEPT ![job[c].pid] = NewThreat(c)]
    /\ UNCHANGED <<enabled, override, blocked, enrolled, flags, bucketed, bucket, flows, queued,
                   stats, clock, job, work, changes, history>>

MarkKilled(c) ==
    /\ At(c, "mark") /\ To(c, "report")
    /\ flags' = [flags EXCEPT ![job[c].pid] = @ \cup {"KILLED"}]
    /\ UNCHANGED <<enabled, override, blocked, enrolled, threat, bucketed, bucket, flows, queued,
                   stats, clock, job, work, changes, history>>

\* Forbidden or not, the call is reported if the ring has room.
Report(c) ==
    /\ At(c, "report") /\ To(c, "idle")
    /\ Emit("syscalls")
    /\ job' = [job EXCEPT ![c] = <<>>]
    /\ UNCHANGED <<enabled, override, blocked, enrolled, flags, threat, bucketed, bucket, flows,
                   stats, clock, work, changes, history>>

Syscall(c) == RaiseThreat(c) \/ MarkKilled(c) \/ Report(c)

--------------------------------------------------------------------------------
(* User space, through the pinned maps *)

Enable(on) ==
    /\ enabled' = on /\ on # enabled
    /\ UNCHANGED <<override, blocked, enrolled, flags, threat, bucketed, bucket, flows, queued,
                   stats, clock, pc, job, work, history>>

\* agent_registry.update for a process seen for the first time.
Enrol(a, F) ==
    /\ a \notin enrolled
    /\ enrolled' = enrolled \cup {a}
    /\ flags' = [flags EXCEPT ![a] = F]
    /\ UNCHANGED <<enabled, override, blocked, threat, bucketed, bucket, flows, queued,
                   stats, clock, pc, job, work, history>>

\* verdict_overrides.update and delete.
SetOverride(a, v) ==
    /\ override' = [override EXCEPT ![a] = v] /\ override[a] # v
    /\ UNCHANGED <<enabled, blocked, enrolled, flags, threat, bucketed, bucket, flows, queued,
                   stats, clock, pc, job, work, history>>

\* blocked_ips.update
Ban(h) ==
    /\ h \notin blocked /\ blocked' = blocked \cup {h}
    /\ UNCHANGED <<enabled, override, enrolled, flags, threat, bucketed, bucket, flows, queued,
                   stats, clock, pc, job, work, history>>

\* ring_buffer.poll
Consume(b) ==
    /\ queued[b] > 0 /\ queued' = [queued EXCEPT ![b] = @ - 1]
    /\ UNCHANGED <<enabled, override, blocked, enrolled, flags, threat, bucketed, bucket, flows,
                   stats, clock, pc, job, work, changes, history>>

Tick ==
    /\ clock < MaxTime /\ clock' = clock + 1
    /\ UNCHANGED <<maps, stats, pc, job, work, changes, history>>

UserSpace ==
    \/ /\ changes < MaxChanges /\ changes' = changes + 1
       /\ \/ \E on \in BOOLEAN : Enable(on)
          \/ \E a \in Agents, F \in SUBSET {"SANDBOXED"} : Enrol(a, F)
          \/ \E a \in Agents, v \in Overrides \cup {"none"} : SetOverride(a, v)
          \/ \E h \in Hosts : Ban(h)
    \/ \E b \in {"agents", "syscalls"} : Consume(b)

Next ==
    \/ \E c \in Cpus, p \in Packets : Arrive(c, p)
    \/ \E c \in Cpus : ProcessPacket(c)
    \/ \E c \in Cpus, a \in Agents, k \in SyscallKinds : EnterSyscall(c, a, k)
    \/ \E c \in Cpus : Syscall(c)
    \/ UserSpace
    \/ Tick

Spec == Init /\ [][Next]_vars

--------------------------------------------------------------------------------
(* Properties *)

\* A system call that makes an agent critical silences it: no packet that it sends from then
\* on leaves by the egress hook, whatever the other CPUs are doing, unless an operator forced
\* a verdict or the guard is off.
KilledIsSilent ==
    \A c \in Cpus :
        /\ pc[c] = "passed"
        /\ job[c].pkt.hook = "egress"
        /\ "KILLED" \in job[c].stood.marks
        => job[c].via # "rules"

\* A host on the blocklist is out of reach in both directions and at every hook for each
\* packet that arrives after it was listed, with the same two exceptions.
BlockedHostUnreachable ==
    \A c \in Cpus :
        pc[c] = "passed" /\ job[c].stood.banned => job[c].via # "rules"

\* A mark or a ban that stands when a packet arrives is final for that packet, on whichever
\* CPU and between whichever of its checks the other programs and user space come in.
StandingOrdersHold == KilledIsSilent /\ BlockedHostUnreachable

\* The threat level is never above what the agent's forbidden calls add up to, and nobody is
\* marked for killing for less than the critical level.  Lost updates only lower the level.
ThreatIsEarned ==
    \A a \in Agents :
        /\ threat[a] <= offence[a]
        /\ "KILLED" \in flags[a] => offence[a] >= Critical

\* An agent whose packets are never handled by two CPUs at once is never charged more than
\* the burst plus the refill since its bucket was made.  (The packet that makes it is free.)
SerialAgentKeepsBudget ==
    \A a \in serial \cap bucketed :
        spent[a] <= Burst + bucket[a].rate * (clock - born[a])

\* Every packet a CPU dropped is in at least one of its counters.
DropsAreCounted ==
    \A c \in Cpus :
        dropped[c] <= stats[c]["BLOCKED"] + stats[c]["SANDBOXED"]
                        + stats[c]["RATE_DROPS"] + stats[c]["POLICY_HITS"]

\* policy.yaml: "DROP packet if injection score > 0".
InjectionNeverPasses ==
    \A c \in Cpus :
        LET p == job[c].pkt IN
        /\ pc[c] = "passed" /\ job[c].via = "rules"
        /\ job[c].stood.known /\ Policy[p.pid].inspect /\ Policy[p.pid].block
        => ~(p.http /\ p.dirty)

\* The packet on CPU c as AdmissionContract sees it: what barred it when it arrived, who
\* decides about it (an operator's order is the verdict), and what became of it.
Handled(c) == pc[c] \in PacketPc \cup {"passed", "dropped"}

Ruling(j) == IF j.via = "override" THEN j.verdict ELSE j.via

Barred(j) ==
    \/ j.stood.banned
    \/ /\ j.pkt.hook = "egress" /\ j.stood.known
       /\ j.stood.marks # {} \/ PolicyForbids(j.pkt)

Fate(c) == IF pc[c] \in PacketPc THEN "open" ELSE pc[c]

Admitted(c) == [pkt |-> job[c].pkt, barred |-> Barred(job[c]), ruling |-> Ruling(job[c]), fate |-> Fate(c)]

Journey == [c \in Cpus |-> IF Handled(c) THEN Admitted(c) ELSE <<>>]

Admission == INSTANCE AdmissionContract WITH
    on <- enabled, orders <- override, banned <- blocked, known <- enrolled, marks <- flags,
    Forbidden <- {p \in Packets : PolicyForbids(p)},
    Halting <- [hook \in Hooks |-> Stops(hook)],
    packet <- Journey

\* However the programs of all CPUs and user space interleave over the maps, they keep to
\* AdmissionContract: a packet that was barred when it arrived does not pass, one of a
\* process that nobody enrolled is not stopped without a ban, an order is obeyed as given,
\* and marks are earned.
ImplementsAdmission == Admission!Spec
================================================================================
