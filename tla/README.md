# The Third Reich: specifications and proofs

TLA+ specifications of the services in this repository, TLC configurations that
check them on small instances, and TLAPS proofs of the results that hold for
every instance. Sources are named relative to `src/`.

    tlc -workers 2 -config KeyVaultSafety.cfg MCKeyVault     # a run
    tlapm KeyVaultProofs.tla      # the proofs; likewise every other *Proofs.tla

`PROJECT.json` lists the runs, the source lines every definition stands for,
the hazards, the findings and, for each property, a mutated definition that
breaks it.

## 1. Inventory

| Component | State it keeps | Operations | What is hard |
|---|---|---|---|
| **keyVaultService** (`backend/services/keyVaultService`) | Postgres rows `HollowKey`, `KeyShard`, `KeyEvent`; Redis shard values (24 h), location cache (5 min), status cache (5 min), list cache (60 s); Kafka topics | `registerKey`, `findById`, `listKeys`, `revokeKey`, `callApi` (`executeInEnclave`) | three stores without a common transaction, read-through caches raced by invalidation, failures between awaits |
| Shamir's scheme (`crypto/shamir.ts`) | none | `split`, `reconstruct`, `verifyShard` | modular arithmetic, sizes |
| **controlPlaneService** | Kafka consumer group offsets, socket.io clients | `startConsumer`, three topic handlers, `io.emit` | order across partitions, redelivery, errors that drop a message |
| **sandBoxService** | Docker containers, `sandbox_logs`, topic `sandbox.lifecycle` | `runSandbox`, `executeInSandbox`, `ensureImage` | timeout racing the container's exit, cleanup that can fail, event/log/result in three steps |
| userService | `User` rows | register, login | unique e-mail under concurrency (the index decides) |
| gateway | none | HTTP forwarding | nothing stateful; its auth middleware is not mounted |
| client_SDK | none | `request` with retries | every failure is retried, also a timeout behind which the call was executed |
| **agentguard kernel program** (`kernel/agent_guard.bpf.c`) | BPF maps: policies, token buckets, blocked hosts, pids; ring buffers | XDP, TC egress/ingress, syscall tracepoint | concurrent map updates, refill arithmetic, fail-open verdicts |
| **policy daemon** (`backend/policy_daemon.py`) | `tracked_pids`, `agent_details`, `agent_defs`, policies, event log, statistics | scanner thread with its sweep, register, unregister, set policy, kill, reload | tables read without the lock, pids that are used again, a thread that can die, a reload that only appends |
| rate limiter, tool-chain analyzer | windows, strikes and calls per agent | `record_allow`; `record_and_analyze` | nothing ever records a strike |
| audit log | JSON Lines file, entry count | append, clear | one lock |
| WebSocket manager | connected clients | connect, disconnect, broadcast | a client that leaves during a broadcast |
| routes_verify, file_inspector | none | classification | regular expressions, remote model |
| **network sniffer, ag_proxy** | policies, blocklist, event store, sessions | plain request, CONNECT relay, TLS interception, reload, ban | checks that read the engine several times, two lookups of one name, writes that throw in a handler of errors, relays that end past their event, findings pushed behind a verdict, bodies that are forwarded behind the scan |
| **Exploitation_Lab** | `patterns.json`, version store, list of versions in memory | patch loop, verify, deploy, trim, `--rollback` | one rules file for trial and production, a second process on the same files, a death between files |
| SDKs, observability, demo | none | thin clients, printing | |
| Console | React state | pages, toast reducer | optimistic updates |
| REV1V3K8S | scan result, backups | scan, remediate, compare | failed patches counted as fixed |

Components interact over HTTP (gateway → services, SDK → gateway → vault), gRPC
(vault → intent firewall, verifier), Kafka (vault, sandbox → control plane) and
WebSockets (control plane, daemon → Console). Postgres and Redis belong to one
service each.

What makes each component correct:

* **keyVaultService**: a revoked key's secret is gone and never used again, an
  ACTIVE key keeps its shards, a half-finished registration is never visible,
  caches may be late in one direction only, usage records follow what happened.
* **controlPlaneService**: what is broadcast was published; what is published is
  broadcast in the end unless its handler throws.
* **sandBoxService**: every started run ends; its container is gone when it has;
  its log row and its closing event agree with its result.
* **kernel program**: a bucket never grants more than its burst plus refill; a
  killed agent sends nothing more; what is dropped is counted.
* **policy daemon**: the two tables describe the same agents; a sweep removes the
  dead and spares the living; a scan leaves an operator's decision alone; what runs
  is found, what is dead is forgotten.
* **proxy**: nothing is contacted that no rule allowed, and no body forwarded that was
  scanned and refused; what a handler says in the event log happened; sessions end with
  their connections.
* **Exploitation_Lab**: a version is what its metadata say and is never written
  again; nothing unverified becomes a version; `current` names what is live.
* **REV1V3K8S**: what the report calls fixed was fixed.

## 2. Plan

Most important behaviour first; one component per step, each with its module,
its MC module, runs, mutants and proofs.

| Modules | Component | Section |
|---|---|---|
| `KeyContract`, `KeyVault`, `MCKeyVault`, `KeyVaultProofs`, `KeyRecordsProofs` | keyVaultService, and what it promises | 3 |
| `EventTopic`, `Sandbox`, `ControlPlane`, `Lifecycle`, `RunContract`, `MCLifecycle`, `LifecycleProofs` | sandBoxService and controlPlaneService joined by their topic | 4 |
| `AdmissionContract`, `Guard`, `MCGuard`, `GuardProofs`, `GuardBudgetProofs` | the kernel program, and what it promises | 5 |
| `VersionHistory`, `VersionStore`, `Lab`, `MCLab`, `LabProofs` | Exploitation_Lab and its rollback command, and what it promises | 6 |
| `Daemon`, `MCDaemon`, `DaemonProofs` | the policy daemon's table of agents | 7 |
| `TrafficContract`, `Proxy`, `MCProxy`, `ProxyProofs` | ag_proxy and the sniffer's sessions, and what they promise | 8 |

Every safety invariant, action property and refinement of the passing runs is proved,
with one kind of exception: the three invariants `NothingIsStuck`, `NobodyIsStuck` and
`ScannerIsReady` speak of `ENABLED`, for which the prover has no rule, and stay with TLC.
They say that where somebody waits for a fair step, that step is possible.

The liveness properties are proved from them: each theorem reads
`FairSpec /\ []NothingIsStuck => ...`. What TLC contributes is a fact about single states
that it checks in every state of the instances; the argument over time is machine-checked
for every value of the constants. The prover has no induction over temporal formulas, so
"one step nearer, again and again" cannot be concluded for an unbounded number of steps.
It is replaced by doubling: if what is at distance `d` arrives implies that what is at
`d + s` does, for every `d`, then the same holds of `d + 2s`. Five doublings are a lemma,
`ThirtyTwofold`, and a handful of uses of it reach the largest number the system can meet
(pids of a Linux kernel, requests of a process, messages of a topic). These numbers appear
as hypotheses of the theorems, named where they are used.

What would come next: the other two topics of the control plane, the lab's collector and
scorer, and the remediator of REV1V3K8S.

## 3. keyVaultService

### Modules

* `KeyContract` is what the service promises about a key, with no caches,
  stores or messages: a key is issued once, revoked for good, its secret can be
  lost but never regained, only a key that still has its secret can be lent to
  a request, and a revocation is confirmed only when the secret is gone.
* `KeyVault` is the service. Every HTTP request is a process in a slot of
  `Requests`; `req[r].pc` names the awaited call it is about to make, so
  concurrent requests interleave exactly where the TypeScript code awaits.
* `MCKeyVault` adds the symmetry set. `KeyVaultProofs` and `KeyRecordsProofs` hold
  the proofs.

| Variables | Code |
|---|---|
| `row`, `owner`, `shardRows`, `timesUsed`, `callEvents`, `blockEvents` | committed Postgres state (`prisma/schema.prisma`) |
| `keyCache`, `listCache`, `shardVals`, `locCache` | Redis: `hollowkey:<id>`, `hollowkeys:agent:<user>`, `vault:<i>:<id>:<i>`, `shardlocations:<id>` |
| `announced`, `alerts` | messages on the hollow-key and attack topics |
| `lapsed` | keys whose `expiresAt` has passed |
| `req` | handlers in progress and their local variables |
| `calls`, `executed`, `blind`, `confirmed` | history: calls that arrived, upstream requests sent, revocations whose location lookup threw, revocations that succeeded |

Actions are grouped by function: `RegisterStep` (`registerKey`, `distribute`,
`warmLocationCache`, `publishKeyRegistration`), `FindStep` (`findById`),
`LocationStep` (`getLocations`, shared by `fetchShards` and `deleteShards`),
`RevokeStep` (`revokeKey`, `deleteShards`), `CallStep` (`callApi`), `ListStep`
(`listKeys`). `Fail` ends any handler at any await: an exception of Redis,
Postgres, Kafka, gRPC or axios, or a crash of the process. An open transaction is
rolled back by it, what Redis and Kafka got stays. `Expiry` holds the TTLs and
the clock.

Abstractions: values of shards, intents, bodies and replies are left out (the
only thing `callApi` needs of a shard is that it is there); a key id is fresh
because uuids are; a round of GETs on the one Redis connection is one step, as
is a round of SETs or DELs with every partial outcome when it fails. `getUserKeys`
reads Postgres and changes nothing.

### Runs

| Run | Checks | Instance |
|---|---|---|
| `vault_safety` (`KeyVaultSafety.cfg`) | types, that nobody waits in vain (`NothingIsStuck`), what a confirmed revocation guarantees, orphans, usage records and announcements (`LedgerNeverAhead`), refinement of `KeyContract` | 1 key, 2 slots, 2 shards with threshold 1, 2 calls; register, get, revoke, call |
| `vault_liveness` (`KeyVaultLiveness.cfg`) | `CachesAreTrue` (the status cache and the lists); `StaleStatusDies`, `RevokedKeyDies` under `FairSpec` | 1 key, 1 shard, 2 slots, no calls; register, revoke, list |
| `vault_threshold` (`KeyVaultThreshold.cfg`) | finding: "any 3 of 5" | 5 shards, threshold 3, 1 slot |
| `vault_expiry` (`KeyVaultExpiry.cfg`) | finding: an expired key is served from the cache | 1 slot |

Bounds. The state of one key is independent of the others (only `req` and the
lists range over several), so one key and two slots give every race of two
requests about a key; the slots are reused, so longer sequences (register, call,
revoke while another call refills a cache) occur too. Two shards with threshold
1 separate "some shard is gone" from "the selected shard is gone". `MaxCalls`
caps the history counters, `Offered` splits the operations among runs (`findById` and
`listKeys` never run side by side in TLC; the proofs cover all operations together).
`CHECK_DEADLOCK FALSE` is used in the two counterexample runs only, where the
requests of the bound can run out; in the passing runs no state is stuck.

Fairness (`Fairness`, used by the liveness run only). Redis, Postgres, Kafka and
axios calls return or throw after their client's own time limit, so a request
that was started takes its next step: weak fairness of `Serve(r)`. SETEX entries
expire: weak fairness of the status cache's and the shards' expiry. Nothing is
assumed of the intent firewall (`checkIntent` has no deadline), of clients, or
of failures.

What the liveness run shows: a `findById` that read the row before a revocation
may cache ACTIVE after it, any number of requests may read that entry, but none
can extend it, so the window closes for good.

### Findings

* `fetchShards` takes the first three locations and gives up when one of the
  values is missing, although README.md:64 says any 3 of 5 reconstruct the key.
* `callApi` compares `expiresAt` with a `Date`; on a cache hit it is a string and
  the comparison is with NaN, so an expired key passes until the cache entry dies.

### Proofs

`KeyVaultProofs` proves, for every set of keys, users and requests and every
`Threshold <= Total`, that `Spec` implies `TypeOK`, `ConfirmedRevocationPurges`,
`CachedRefusalIsTrue`, `OrphanShardsUnreachable`, `NoSecretAfterConfirmedRevocation`,
`ActiveKeyKeepsItsShards`, and `ImplementsContract`, the refinement of
`KeyContract`. `KeyRecordsProofs` adds `CachedListIsTrue` (with the status cache:
`CachesAreTrue`), `LedgerNeverAhead` and the two liveness properties.
The assumptions are those on the constants (`ShardCounts`, `CallBound`,
`Placeholders`, and `RequestSlots`: there are finitely many slots, without which the
ledger's argument could not count).

The inductive invariant `IInv` adds to the types three facts. `KeyOK(k)`: shard
rows and cached locations are all of the shards or none; the status cache never
invents a key; a key without shard rows has no values unless a lookup was
swallowed. `RequestOK(r)`: what a handler has read is still true in the direction
that matters (it holds all locations; a key it was told is DEACTIVATED is; a
revocation past `mark` sees a DEACTIVATED row). `IdsDiffer`: two registrations
never share an id. None of the properties is inductive alone: a purged key stays
purged only because no handler that is still running can write a value, which is
`RequestOK` of the registration steps. The proof has one lemma per operation and
one step per action; `QuietStep` and `OthersOK` carry the frame.

The refinement proof maps `CommitKey` to `Issue`, `MarkRevoked` to `Revoke`,
value deletion and expiry to `Lose`, `FetchShards` to `Lend`, `Execute` and
`Fail` in the enclave to `GiveBack`, `DeleteLocations` to `Confirm`, and every
other step to a stutter.

`KeyRecordsProofs` works on top of it. The lists: every cached list, and every list
a `listKeys` in progress has read, names committed keys of its own user; rows are
never deleted, so this survives whatever races with a refill. The ledger: the calls
that were made are at least those counted plus those still on their way to be
counted (`Pending`, a finite set of requests; `PendingShrinks` and `PendingGrows`
are the lemmas about its cardinality).

Liveness, from `FairSpec` and `[]NothingIsStuck`. `RevokedKeysDie`: no step writes a value
of a revoked key (`ValuesOnlyGo`), so the first value, which every selection contains,
expires for good. `StaleStatusEnds` has three stages. A request that read ACTIVE before the
commit writes it once or fails, and never carries it again (`StaleWritersEnd`); all requests
of a process have done so in the end (`AllDrain`, by doubling, up to 2^20 slots); after that
the entry in the cache expires and none comes back (`QuietKeysForget`).

`NothingIsStuck` itself stays with TLC. It is checked in the instance with register, get,
revoke and call; the steps of `listKeys` are guarded by `pc` alone.

## 4. sandBoxService and controlPlaneService

### Modules

* `RunContract` is what the two services promise about a run: it is opened once
  and closed at most once after that, a result is recorded only for a closed run
  and agrees with its closing event, and the console sees only what was announced.
* `EventTopic` is the topic `sandbox.lifecycle`: append-only partitions, and a
  publish whose partition nothing determines, since every message has a fresh key.
* `Sandbox` is `runSandbox` with `executeInSandbox` inside. `pc[r]` names the
  awaited call a run is about to make: `connect`, `announce` (SANDBOX_CREATED),
  `image`, `create`, `attach`, `start`, `race`, `remove`, `close` (the closing
  event), `record`.
* `ControlPlane` is the Kafka consumer: `position` in memory, `committed` at the
  broker, `shown` for what `io.emit` got.
* `Lifecycle` joins the two by the topic: each step belongs to one service and
  leaves the other's variables alone. `MCLifecycle` is its instance for TLC,
  `LifecycleProofs` holds the proofs.

| Variables | Code |
|---|---|
| `log` | the topic's partitions at the broker |
| `pc`, `status`, `held` | the stack of `runSandbox`: where it awaits, `result.status`, whether `container` is null |
| `container`, `printed` | Docker's container and what its program wrote |
| `captured` | whether that output has reached the strings `stdout`/`stderr` |
| `recorded` | the `sandbox_logs` row |
| `consumer`, `position`, `committed` | the kafkajs consumer and its offsets |
| `swallowed`, `base`, `shown`, `restarts` | history: removals that threw, where the group last started without an offset, emitted messages, deaths |

Every Docker, Kafka and Postgres call has a step in which it throws, after its
effect as well as before it, since an answer can be lost. `WaitReturns`,
`TimerFires` and the program's own `Prints`, `OutputArrives` and `Exits` race.
`SandboxCrashes` and `ControlPlaneDies` drop what is in memory.

Abstractions: output is one bit (it matches `SUSPICIOUS_PATTERNS` or not), exit
codes are zero or not, which image is pulled does not matter; kafkajs joining the
group and resolving its offsets is one step; sockets are not modelled, an event
is emitted to whoever is connected.

### Runs

| Run | Checks | Instance |
|---|---|---|
| `lifecycle` (`Lifecycle.cfg`) | types, `LeftoverHasCause`, `NothingSkipped`, `AlarmIsTrue`, `NobodyIsStuck`, refinement of `RunContract`, and under fairness `RunsEnd`, `AlarmRings` | 1 run, 2 partitions, 2 restarts of the control plane |

Bounds. Runs share nothing but the topic, and a run publishes two messages, which
may fall into one partition (order, gaps, commit between them) or two (overtaking).
Two restarts give a restart with and without a committed offset, and one after
redelivery. Two runs make several million states without a new interaction; the
safety properties are proved for any number of runs. The instance stops when every
request has ended, hence `CHECK_DEADLOCK FALSE`.

Fairness. Every awaited call but `wait()` answers or throws: weak fairness of
`RunSandbox(r)` outside the race. `setTimeout` fires: weak fairness of
`TimerFires(r)`. kafkajs keeps fetching: weak fairness of `EachMessage(p)`. Nothing
is assumed of `wait()` and the program in the container, which may run for ever,
nor of requests, commits, deaths and restarts. dockerode sets no deadline of its own, so
a Docker daemon that never answers is outside what these properties claim.

What the run shows: the timer is what ends a run, and `RunsEnd` asks for both the
result and a container that no longer runs, unless its removal was swallowed or the
service died (a timer that is cleared by output breaks it); every way out of
`executeInSandbox` but three removes the container: the one removal that is tried
fails, the answer of `createContainer` is lost, or the service dies; a restart of the control plane repeats events and loses none behind the
first commit. Not guaranteed, and visible in the model: a run that throws after
SANDBOX_CREATED is never closed; a suspicious output that arrives after `wait()`
answered, or before a timeout, raises no alarm; the console may see the end of a
run before its beginning; what is published before the group's first commit is
lost if the control plane dies then.

### Proofs

`LifecycleProofs` proves, for every set of runs, every nonempty set of partitions
and every bound on restarts, that `Spec` implies `TypeOK`, `LeftoverHasCause`,
`NothingSkipped`, `AlarmIsTrue` and `ImplementsContract`. The inductive invariant
has two parts. `RunOK(r)` ties `pc[r]` to the events announced so far, to the
container and to the result: without it nothing says that a run about to publish
its closing event has published exactly the opening one. `ControlOK` says that
positions and offsets lie inside the log, that everything from `base` to the
position of a live consumer and to the committed offset was emitted, and that
emitted messages exist in the log. `PublishAdds` is the lemma about the log (a
publish adds one event, for one run, and moves nothing); `DockerFrame` is the frame
of the steps that touch the container; `OthersKept` and `ControlKept` carry the
rest.

Two results follow beyond what the run checks. `OneStoryTold`: topic, log of runs and
screen never contradict one another, which is a consequence of `RunContract` alone, carried
over by the refinement. `EventsAreUnique`: no event is in the topic twice, since a run
publishes a type only when it has not announced it.

Liveness, from `FairSpec` and `[]NobodyIsStuck`. `RunsDoEnd`: one step of the proof per
value of `pc`, each leading to a later one (`RunAdvances`, `CallEnds`), with the timer where
the program need not end (`RaceEnds`); any number of runs. `AlarmsDoRing`: an alarm behind
the consumer's position stays there until it is emitted (`AlarmsKept`), and every fetch
brings it one message nearer (`AlarmsComeUp`); doubling reaches 2^30 messages, and a topic
of 2^28 runs has fewer, because three messages a run are the most (`LogIsShort`). The
theorem is for the three partitions that kafka/topics.ts asks for.

## 5. agentguard kernel program

### Modules

`AdmissionContract` is what the program promises about packets, without maps, buckets, rings
or an order of checks. A packet is judged by what stood when it arrived: what was barred then
(a banned host; at egress, a marked sender or one whose policy forbids the packet) passes only
on an operator's order or because the guard takes no part in it. A packet of a process that
nobody enrolled is stopped only by an order or a ban, one that the guard takes no part in by
nothing. An order is carried out as given, and nobody is marked who has not earned it.

`Guard` is `agent_guard.bpf.c`: the packet program behind its three hooks (XDP, tc
egress, tc ingress) and the system call tracepoint. A BPF program does not block,
but programs run on all CPUs at once over the same maps, so a step is one map
access and `pc[c]` names the access that CPU `c` is about to make: for a packet
`override`, `blocklist`, `registry`, `policy`, `bucket`, `create` or `charge`
(`token_bucket_consume`), `inspect`, `flow`, `insert` or `update`, `emit`
(`emit_and_return`), `finish` (the hook acts on the verdict); for a system call
`raise`, `mark`, `report`. `MCGuard` gives one agent's policy and the packets;
`GuardProofs` and `GuardBudgetProofs` hold the proofs.

| Variables | Code |
|---|---|
| `enabled`, `override`, `blocked` | `guard_config`, `verdict_overrides`, `blocked_ips` |
| `enrolled`, `flags`, `threat` | `agent_registry` and two fields of its identities |
| `bucketed`, `bucket`, `flows` | `token_buckets`, `flow_table` |
| `queued` | occupancy of the two ring buffers |
| `stats` | `global_stats`, per CPU |
| `job` | the local variables of the program on each CPU |
| `offence`, `serial`, `spent`, `born`, `dropped` | history: threat earned, agents never handled by two CPUs at once, tokens charged since the bucket was made and when that was, packets dropped |

User space (`Enable`, `Enrol`, `SetOverride`, `Ban`, `Consume`) is external: the
daemon's map writes are present in `policy_daemon.py` as comments only, so the
actions are the updates that those comments and the pinned maps allow. As the
repository stands nothing sets `CFG_ENABLED`, and since the entry of an array map
always exists, the default of `cfg_get(CFG_ENABLED, 1)` is never used: until
something writes the map every packet passes. `Init` starts there.

Abstractions: a packet is a record of what the program branches on (hook, pid,
peer, port, whether it parses, carries an inspected payload, scores above zero,
size). A bucket update is one load (`LookUpBucket`) and one store (`Charge`), as
with the bucket's fields kept in registers; a build that stores the refill before
it stores the charge has more interleavings between CPUs, none for an agent
handled by one CPU. Not modelled: eviction from the LRU maps, byte and request
counters of identities and flows, the drop counter of a bucket, the counters that
no dropped packet is in, `agent_guard_connect` (which only counts), and a policy
that changes while packets flow.

### Runs

| Run | Checks | Instance |
|---|---|---|
| `guard` (`Guard.cfg`) | types, `StandingOrdersHold` (`KilledIsSilent` and `BlockedHostUnreachable`), `ThreatIsEarned`, `SerialAgentKeepsBudget`, `DropsAreCounted`, refinement of `AdmissionContract` | 2 CPUs, 1 agent, 1 host, 4 packets, 2 kinds of call, burst of one token, 1 tick |
| `guard_injection` (`GuardInjection.cfg`) | finding: a dirty payload passes | 2 CPUs, no time |

Bounds. Agents share nothing but the blocklist, so one agent on two CPUs gives
every race. `MaxWork` (3 program runs) is what the longest violation needs: a
packet that makes the bucket, one that is charged and one that must be refused.
`MaxChanges` (2) is "switch on" and one more change of the maps; the finding
needs three. A burst of one token and one tick reach refill, refusal and, with
`Word` = 16, the wrap-around of `elapsed` when another CPU has stored a later
time. CPUs are symmetric. `CHECK_DEADLOCK FALSE`: program runs and changes are
capped, so the instance can stop where the system would not.

What the run shows, and what it shows not to hold: `SerialAgentKeepsBudget` is
restricted to agents whose packets never run on two CPUs at once, because
otherwise both can spend the same tokens. `ThreatIsEarned` holds in one direction,
since increments can be lost.
`KilledIsSilent` is about egress, since the ingress hooks let a killed agent's
traffic pass, and an operator's ALLOW overrides both the mark and the blocklist. The contract
bars marked senders at egress for the same reason. What a payload or an empty bucket stops is
not in it as a bar: those are reasons the rules may have against an agent, and the finding
shows that the first is not dependable.

### Finding

* The payload is scored only after a record for the event was reserved in the
  ring buffer. With the ring full the packet passes unscored, although
  policy.yaml:40 says "DROP packet if injection score > 0".

### Proofs

`GuardProofs` proves, for every set of CPUs, agents, hosts, every policy and set
of packets and all bounds allowed by `GuardConstants`, that `Spec` implies
`TypeOK`, `StandingOrdersHold`, `ThreatIsEarned` and `ImplementsAdmission`, and
`GuardBudgetProofs` proves `SerialAgentKeepsBudget` and `DropsAreCounted`.

Type correctness comes first, in two halves, `MapsTyped` and `ProgramsTyped`; it
contains the arithmetic of the bucket (`RefilledTyped`: whatever the wrap-around,
the refilled bucket is within the burst). `OrdersInv` then says four things.
`OrdersOK(c)`: a packet whose agent was marked when it arrived is before the
registry check or carries a verdict that egress stops; the same for a banned host
and the blocklist check, and for a forbidden packet and the policy check.
`RulingOK(c)`: who decides about the packet, and that a verdict of the rules other than
ALLOW is about a banned host or an agent. `MarksOK`: a mark sits on an enrolled agent,
without which the registry check would let a marked packet through as unknown. `CallOK(c)`: what
a system call has read and is about to store is covered by the agent's offences.
Programs on other CPUs keep their part because marks, bans, enrolments and offences
only grow (`Stays`, `OthersKept`).

`KernelKeepsAdmission` is the refinement. It maps the arrival of a packet to `Arrive` with
what the maps said at that moment (`job.stood`), an override that is found to `Overrule`, the
hook's return to `Settle`, the store of the mark to `MarkKilled`, the start of a system call
to `Call`, and each write of user space to the operator's step; all checks, bucket, flow table
and ring buffers are stutters (`JudgingIsUnseen`). At `Settle` the invariant pays: `OrdersOK`
makes the fate follow from what barred the packet long before, `RulingOK` gives the cause that
the contract asks of every drop.

`BudgetInv` is the argument for the bucket. `Balanced(a)`: tokens left plus tokens
spent are at most the burst plus the rate times the time from the making of the
bucket to its last refill; `Alone(a)`: a serial agent has one program at most;
`Fresh(c)`: what that program has read of the clock and of the bucket is still
true, and the clock it read is not before the last refill, so that the unsigned
difference is the real one (`RefillBounded`). The rates are not multiplied out by
the prover but by `ProductGrows`. `CountsOK`, for the drops, keeps the counters ahead
by the verdicts that a hook other than egress has still to carry out.

## 6. Exploitation_Lab

### Modules

`VersionHistory` is what the store promises to whoever reads or restores a version: it is
published with its rules, under a number no other one has, for a patch that was seen to stop
its exploit; what it stands for stays while it is published, its rules can be lost but not
altered, and the version in use keeps both.

`VersionStore` is what is on disk: `patterns.json` and, for each tag, a directory with a
copy of it and `metadata.json`, plus the link `current`; files are truncated, written,
copied and removed one step at a time. `Lab` is the process that runs the cycle
(`run_cycle`, `_handle_gap`: generate a patch, apply it, fire the exploit again, judge,
snapshot, trim, mark and link) and, beside it, the process `exploitation_lab.py
--rollback`. `lab.pc` and `cli.pc` name the file operation each is about to make. Either
can die anywhere; a lab that restarts reads its list of versions from the metadata.

| Variables | Code |
|---|---|
| `file` | `settings.patterns_file` |
| `pats`, `meta`, `born` | `versions/v<t>/patterns.json`, `metadata.json`, its `created_at` |
| `link` | the symlink `current` |
| `listed`, `current` | `_versions` of the version manager and the one with `is_current` |
| `lab`, `cli` | position and local variables of the two processes |
| `stray`, `overlap` | history: a patch was written that no version names; a rollback ran while a gap was handled |

Abstractions: an attack that slipped through is its root cause; a pattern is its score;
the answer of the language model, of the proxy to a re-fired attack and of the
false-positive check are nondeterministic. A reader that meets a torn file gets the empty
list, as `_load_patterns` does.

### Run

`lab` (`Lab.cfg`): `TypeOK`, `SnapshotHoldsPatch`, `LinkIsTrue`, the action property
`SnapshotsFrozen` and the refinement of `VersionHistory`, with one pattern, 3 tags of which 2
are kept, 4 snapshots, one rollback and one death. Four snapshots are one more than the
tags, so trimming and the reuse of numbers happen; one rollback and one death give each a
chance at every step. Two root causes reach the two routes (automatic deployment and a
pull request) and a fix that changes scores; the others differ in what they add, and the
proofs cover all of them. The bounds stop the instance where the lab would go on, hence
`CHECK_DEADLOCK FALSE`.

What it shows, and what it shows not to hold: a patch is live from the moment it is tried,
whatever becomes of it, and `stray` marks that; a rollback and a gap at the same time can
leave anything in the file, and `overlap` marks that. With the default thresholds only
`adjust_score` with low severity reaches automatic deployment, the route for critical
severities is never taken, and no code outside the lab reads `patterns.json`
(`settings.patterns_file` is `/app/proxy/patterns.json`, the compose file mounts
`/app/ag_proxy/patterns.json`).

### Proofs

`LabProofs` proves all five for any patterns, scores, tags, causes, thresholds and bounds
within `StoreConstants` and `LabConstants` (`MaxKept > 1`: with 1, trimming removes the
version that is about to be marked). `Typed` says what each step knows (a step that
copies has a tag, one that judges has a patch). `Kept` gives verification and the list
(`VersionsWereVerified`, `CurrentIsKept`). The refinement maps a version's publication to
the writing of its metadata, retirement to the trim that removes them, the loss of its
rules to a trim that has removed the copy only, use to the moment the list marks the
version or a restart reads it; deaths, trials in `patterns.json`, the link and the rollback
command are stutters.
`SnapshotHoldsPatch` and `LinkIsTrue` rest on `Traced`, what the lab knows of the file between writing and
snapshot: as long as no rollback ran, the file holds the patch it has just written.

## 7. Policy daemon

`Daemon` is the table of agents in `policy_daemon.py`: `tracked_pids` and `agent_details`
change together under the lock, while the scanner thread (`scan_processes`, then the sweep)
reads `/proc` and `tracked_pids` without it. `scan.pc` is `sleep`, `walk`, `read`
(`comm` and `cmdline`), `enrol`, `sweep`, or `gone` when an exception ended the thread.
The routes `register`, `unregister`, `set_policy` and `reload` are steps of the event loop;
a kill is a task that signals first and forgets afterwards. Processes start, exit, stay
zombies and are reaped, and their pids are given out again.

| Variables | Code |
|---|---|
| `tracked`, `details` | `tracked_pids`, `agent_details` |
| `defs`, `conf` | `agent_defs`, what `policy.yaml` says now |
| `scan`, `kills` | the scanner thread, the background tasks of `/kill` |
| `proc` | the operating system's processes |
| `loaded`, `reborn`, `raced` | history: `conf` at the last load, pids given out since the sweep began, a registration while the scanner was looking at the pid |

| Run | Checks | Instance |
|---|---|---|
| `daemon` (`Daemon.cfg`) | types, `ScannerIsReady`, `UnlockedReadsAreSafe` (`SweepsSpareTheLiving` and `ScansRespectEntries`), and under fairness `DeadAgentsLeave`, `MatchesAreRegistered` | 1 pid given out 3 times, 1 reload, 1 restart |
| `daemon_reload` (`DaemonReload.cfg`) | finding: "hot-reload" | 1 pid, 1 reload |

Bounds. Pids interact only through the order in which the scan visits them, so one pid that
is used three times has every race about an entry (found, swept, reborn); the proofs hold
for any set of pids. One reload and one restart change the definition under a running scan.
Fairness is `WF_vars(ScannerStep)`: `_scanner_loop` runs as long as the daemon does.
Nothing is assumed of processes, operators and kills. Both liveness properties except a
scanner thread that died: `read` of a process that has just been reaped can raise
`ProcessLookupError`, which nothing catches, and from then on nobody is enrolled or swept
although the API still answers.

Finding. `load_config` appends the definitions of the file to `agent_defs`, which nothing
clears, and the first match wins: after a reload an agent is still enrolled under the policy
that was loaded first, although policy_daemon.py:1333 says "Hot-reload policy.yaml without
restarting the daemon".

`DaemonProofs` proves types, that the two tables name the same pids (`TablesAgree`),
`SweepsSpareTheLiving` and `ScansRespectEntries`. The inductive invariant adds two facts about the thread without the
lock: a pid on the sweep's list was dead when the sweep began or has been given out since
(`SweepKnows`), and the pid the scan is looking at was not tracked when it looked, unless
`raced` (`ScanKnows`).

The two liveness properties are proved from `FairSpec` and `[]ScannerIsReady`, for any set of
at most 2^22 pids, the kernel's limit. The measure is the number of steps the scanner is away
from the entry (`Outlasts`: the rest of this scan, its sweep, at worst another round) or from
the process (`Waits`); every step of the scanner lowers it and no other step raises it
(`OrphansFall`, `AgentsFall`), which gives `EntriesComeDown` and `AgentsComeUp`, and doubling
the rest. A restart begins with a new scanner and an empty table, so `MatchesAreFound` assumes
that restarts end (`<>[][~Restart]_vars`); `DeadAgentsDoLeave` does not. `RestartsEnd` proves that
hypothesis from `Spec` for `MaxRestarts` up to 2^25, a restart every second for a year: either the
next restart never comes, or one less is left after it (`OneMoreRestart`), and doubling again
stands for the induction. `EveryMatchIsFound` puts the two together, so that `MatchesAreRegistered`
needs the scanner's fairness, `[]ScannerIsReady` and bounds on the constants alone.

Not modelled of the daemon: the handlers of ring-buffer events, which nothing calls in this
build, the updates of BPF maps, which are comments, the event log, statistics and demo routes.

## 8. Proxy

`TrafficContract` is what the proxy promises those who watch the traffic: whoever is
contacted or gets bytes does so within a session that the sniffer keeps at least as long as
the traffic lasts. Events come when the traffic has ended, in one or two batches (`stopped`,
`closed`): any number of findings of the sniffer, and one verdict of the handler at most. What
is said to be blocked got no bytes, what is said to be allowed, or found, had been announced.
Behind the verdict nothing more is sent; findings can still follow.

`Proxy` is `ag_proxy`: every connection has a handler thread, `pc[r]` names the call it is
about to make. `evaluate` reads the engine in three steps (resolve the name, blocklist,
policy); `connect` opens a sniffer session; then a plain request is forwarded, answered and
logged, a CONNECT tunnel dialled, confirmed and relayed, or the tunnel handed to
`TLSInterceptor.intercept`, which asks for the policy again, opens its own session, wraps,
connects, scans what it has read, forwards it and relays the rest, and leaves through
`finally`. Between any two calls the engine can be reloaded (`Reload`),
an address banned (`BlockIp`), a name can move and the client can hang up; upstream calls
fail, and writes to the client fail when it has hung up.

| Variables | Code |
|---|---|
| `policies`, `default`, `blocked` | `PolicyEngine.policies`, `default_policy`, `blocked_ips` |
| `dns` | what `gethostbyname` answers |
| `pc`, `job` | the handler threads: local variables, sessions in the sniffer's `_sessions` |
| `job.events` | what the request pushed to the `EventStore`: the handler's verdict and the sniffer's findings |
| `job.sent`, `job.inbound`, `job.passed` | bytes of the request went upstream, a relay carried bytes back, how the interceptor let the body pass |
| `job.gone`, `job.ruled`, `job.banned` | history: the client hung up; the policies that stood since the request arrived; the addresses banned all that time |

A policy file is what `load()` makes of it: it empties the policies first, so a file that
breaks leaves the entries before the error, and with none at all every `.get` falls back to
a permissive default (`Lenient`). `evaluate` never returns SANDBOX; the TLS path ignores
`inspect_http` and never recognises uploads.

The sniffer's `analyse` returns any of the lists in `Findings`. A finding is an event of its
own in the same store, "block" when its score is 60 or more and "alert" below, also for a
request that was forwarded. `_log_event` pushes them in front of the handler's event
(`LogEvent`, for plain requests and plain tunnels); the `finally` of `intercept` pushes them
behind it (`Finally`), after the session has been ended, for the second time when the request
was refused (`BlockTls`). The ends of a session in `DialFails`, `Wrap`, `DialTlsFails` and in
`BlockTls` itself drop what `on_disconnect` returns.

`intercept` waits for a body only if there is a Content-Length (`call.length`). Without one
the scan sees what came with the headers: perhaps the whole body, perhaps none of it
(`ForwardTls`), and the relay loop then forwards the rest as it is (`RelayTls`,
`passed = "unscanned"`). A plain request without a Content-Length is forwarded without its
body, so there is nothing to refuse.

Left out: scores and thresholds of bodies (a body is clean, dirty or a file, and arrives
before the scan or behind it), later requests on an intercepted tunnel, the bound of the
event list, the certificate cache, how the sniffer comes to its findings.

| Run | Checks | Instance |
|---|---|---|
| `proxy` (`Proxy.cfg`) | types, `RulesHold`, `LogIsTrue`, `SessionsHaveCause`, refinement of `TrafficContract` | 1 request slot, 11 calls (two of them without a Content-Length), 2 addresses (one private), 4 files (two of them break), no finding or two (one "block", one "alert"), 3 changes of the engine, 2 of the name |
| `proxy_silent` (`ProxySilent.cfg`) | finding: an HTTPS relay that ends normally is never logged | 1 request slot, nothing changes |

Bounds. Handler threads share nothing but the engine, which they only read, so one slot
against the operators has every interleaving that a request can notice; the proofs hold for
any number. Three changes are one between each two of the three reads that decide about an
intercepted request. Each slot serves one request and the changes are capped, so the
instance stops: `CHECK_DEADLOCK FALSE`.

What `RulesHold` does and does not promise: the checks are not one atomic decision, so the
property asks that some policy that stood while the request was handled allows it, and that
an address that was banned all the time is reached only when the name resolved to another one
at the check (the proxy connects by name, a second lookup). A body that passes the interceptor
is held to the rules only if it went through the scan: what follows the headers of a request
without a Content-Length goes upstream unscanned, and the property excepts it by name.

What `LogIsTrue` does and does not promise: it is about what the handler says, not about what
the sniffer adds. There is one verdict of the handler at most; "block" means that nothing went
upstream; only an intercepted request has both a "block" of the handler and findings. A "block"
of the sniffer is an opinion about a session that has ended: it stops nothing, and a reader of
the store who counts events by their verdict counts it among the blocked requests, as
`EventStore.push` does.

Finding. The relay loop leaves `intercept` by `return` when either side closes, past the
event that tls_interceptor.py:410 announces as "Log successful completion of the relay". The
run asks for any event that is not a finding once bytes went both ways, and TLC finds none.

`ProxyProofs` proves the four invariants for any threads, policies, files, addresses, findings
and bounds. The invariant `JobOK`, one per request, has a conjunct per question: `Kept` (the
history covers what the engine holds now), `OnPath` (which branch of the handler this is),
`Judged` (what has been checked so far, and how the body passed), `Logged` (no event before the
traffic has ended, one verdict, and it agrees with what was sent) and
`Holding` (which sessions are open). A step of a thread is proved against its own `JobOK`
(one lemma per step; `OneMoves` and `OnlyMoves` carry the other threads); a step of an
operator changes only the engine and the history, which `Kept` follows (`WitnessKeeps`).
`ProxyImplements` is the refinement: each thread's step is a step of its request in
`TrafficContract` or changes nothing that the watchers see, and steps of operators, names
and clients are stutters; it needs one more invariant, `AllWired`, about the sessions that
are open at each call. Both rest on lemmas about the log: one word on an empty log
(`OneWord`), findings behind any log, which change nothing of what the handler says (`Joined`,
`Reported`), and a word behind findings (`LastWord`); `VerdictPushed`, `LogPushed` and
`FindingsPushed` say that the contract allows each of them.

## 9. Not modelled

* Shamir's scheme: arithmetic over the prime 2^521 - 1 that neither TLC nor the provers
  reach at its real size. Known limits in the code: `split` throws for keys longer than 65
  bytes although the schema accepts 500 characters.
* userService (one INSERT decided by a unique index), gateway (stateless forwarding; its auth
  middleware is not mounted).
* client_SDK: `request` repeats a call up to three times after any failure, also after a
  timeout. It keeps no state; the service's side is `KeyVault`, where calls arrive any number
  of times within `MaxCalls`, and `LedgerNeverAhead` counts each of them.
* Control plane: the two other topics, whose handlers only choose an event name.
* sandBoxService: the Kafka producer that each run connects and nothing disconnects.
* Kernel program: what section 5 lists; also, `max_bytes_per_sec / 1000000000` is 0 for every
  cap below 1 GB/s, so the shipped policies' buckets never refill (the model keeps the
  division and the instance scales the second).
* Rate limiter: `check_and_record` and `record_block` have no caller, so `record_allow` never
  finds a strike. Tool-chain analyzer: a list per pid under one lock. Audit log: appends
  under one lock. WebSocket manager: sets on one event loop, broadcast over a copy.
* Text classification, normalisation and scanning (no protocol), SDK wrappers, demo scripts,
  observability, the Console (rendering), and REV1V3K8S, a script that patches a cluster
  through kubectl and keeps no state of its own.
* Most of the repository's lines are generated (two copies of the Prisma client and its
  WebAssembly compiler), vendored interface components or page layout. They have no
  behaviour to specify, and the share of all lines that the definitions stand for is
  small for that reason.
