------------------------------ MODULE KeyVault ------------------------------
(***************************************************************************)
(* keyVaultService: hollow keys over Postgres, Redis and Kafka.            *)
(*                                                                         *)
(* Every HTTP request is a process.  It performs one awaited external call *)
(* per step, so that the steps of concurrent requests interleave exactly   *)
(* where the TypeScript code awaits.  pc names the call a request is about *)
(* to make; Done is the end of the handler, whatever it answers.           *)
(***************************************************************************)
EXTENDS Naturals, FiniteSets

CONSTANTS
  Keys,       \* hollow-key ids (uuids) that registrations can be given
  Users,      \* userId values
  Requests,   \* slots for HTTP requests being served at the same time
  Total,      \* shards per key: split()'s total
  Threshold,  \* shards that reconstruct: split()'s and fetchShards()'s threshold
  MaxCalls,   \* bound: callApi requests that arrive in a behaviour
  Offered,    \* bound: the operations clients use in this instance
  NoKey, NoUser

ASSUME ShardCounts == Total \in Nat /\ Threshold \in 1..Total
ASSUME CallBound == MaxCalls \in Nat
ASSUME OfferedOps == Offered \subseteq {"register", "revoke", "call", "get", "list"}
ASSUME RequestSlots == IsFiniteSet(Requests)
ASSUME Placeholders == NoKey \notin Keys /\ NoUser \notin Users

VARIABLES
  \* Postgres, as committed
  row,         \* row[k]: HollowKey.status, "none" when there is no row
  owner,       \* owner[k]: HollowKey.userId, fixed when the id is minted
  shardRows,   \* shardRows[k]: shardIndex of the KeyShard rows
  timesUsed, callEvents, blockEvents,  \* HollowKey.timesUsed, KeyEvent rows by type
  \* Redis
  keyCache,    \* hollowkey:<id>: status of the cached row, "none" on a miss
  listCache,   \* hollowkeys:agent:<user>: {} on a miss, else {the cached list}
  shardVals,   \* vault:<i>:<id>:<i>: the shards whose value is stored
  locCache,    \* shardlocations:<id>: the cached shard indices, {} on a miss
  \* Kafka
  announced,   \* keys with a KEY_ISSUED message in hollow-key events
  alerts,      \* alerts[k]: BLOCKED messages in attack-detected
  \* the clock
  lapsed,      \* keys whose expiresAt has passed
  \* the service's memory
  req,
  \* history: what the outside world saw
  calls,       \* callApi requests so far
  executed,    \* executed[k]: upstream requests sent with k's real API key
  blind,       \* keys of a revocation whose location lookup threw and was ignored
  confirmed    \* keys of a revocation that succeeded with no such lookup before it

postgres == <<row, owner, shardRows, timesUsed, callEvents, blockEvents>>
redis == <<keyCache, listCache, shardVals, locCache>>
kafka == <<announced, alerts>>
history == <<calls, executed, blind, confirmed>>
vars == <<postgres, redis, kafka, lapsed, req, history>>

Shards == 1..Total
Status == {"ACTIVE", "DEACTIVATED"}   \* EXPIRED is declared, no code writes it
Ops == {"register", "revoke", "call", "get", "list"}

FindPCs == {"cacheGet", "dbFind", "cacheSet", "check"}
LocPCs == {"locGet", "locRows", "locSet"}
RegisterPCs == {"distribute", "warm", "announce", "commit", "cacheNew", "dropList"}
RevokePCs == {"mark", "delVals", "delRows", "delLoc"}
CallPCs == {"intent", "alert", "logBlock", "fetch", "enclave", "meter", "logCall"}
ListPCs == {"listGet", "listRows", "listSet"}
PCs == FindPCs \cup LocPCs \cup RegisterPCs \cup RevokePCs \cup CallPCs \cup ListPCs

Listing == SUBSET (Keys \X Status)

Request == [pc: PCs \cup {"idle"}, op: Ops \cup {"none"},
            key: Keys \cup {NoKey}, user: Users \cup {NoUser},
            seen: Status \cup {"none"}, fresh: BOOLEAN,
            locs: SUBSET Shards, list: Listing]

Idle == [pc |-> "idle", op |-> "none", key |-> NoKey, user |-> NoUser,
         seen |-> "none", fresh |-> FALSE, locs |-> {}, list |-> {}]

Init ==
  /\ row = [k \in Keys |-> "none"]
  /\ owner = [k \in Keys |-> NoUser]
  /\ shardRows = [k \in Keys |-> {}]
  /\ timesUsed = [k \in Keys |-> 0]
  /\ callEvents = [k \in Keys |-> 0]
  /\ blockEvents = [k \in Keys |-> 0]
  /\ keyCache = [k \in Keys |-> "none"]
  /\ listCache = [u \in Users |-> {}]
  /\ shardVals = [k \in Keys |-> {}]
  /\ locCache = [k \in Keys |-> {}]
  /\ announced = {}
  /\ alerts = [k \in Keys |-> 0]
  /\ lapsed = {}
  /\ req = [r \in Requests |-> Idle]
  /\ calls = 0
  /\ executed = [k \in Keys |-> 0]
  /\ blind = {}
  /\ confirmed = {}

At(r, pc) == req[r].pc = pc
Key(r) == req[r].key
Go(r, pc) == req' = [req EXCEPT ![r].pc = pc]
Done(r) == req' = [req EXCEPT ![r] = Idle]
\* ... with the key findById returned ("none" for null, or once it is not used again)
GoSeeing(r, pc, status, fromRow) ==
  req' = [req EXCEPT ![r].pc = pc, ![r].seen = status, ![r].fresh = fromRow]
\* ... with the locations getLocations returned ({} once they are not used again)
GoLocated(r, pc, locs) == req' = [req EXCEPT ![r].pc = pc, ![r].locs = locs]

\* locations.slice(0, threshold) of the rows in shardIndex order.
Selected(locs) == {s \in locs : Cardinality({t \in locs : t < s}) < Threshold}

(***************************************************************************)
(* Arrivals.                                                               *)
(***************************************************************************)

Start(r, op, pc, k, u) ==
  /\ At(r, "idle") /\ op \in Offered
  /\ req' = [req EXCEPT ![r] = [Idle EXCEPT !.pc = pc, !.op = op, !.key = k, !.user = u]]

\* split() succeeded and tx.hollowKey.create minted a fresh uuid inside the
\* still invisible transaction.
StartRegister(r, k, u) ==
  /\ owner[k] = NoUser
  /\ Start(r, "register", "distribute", k, u)
  /\ owner' = [owner EXCEPT ![k] = u]
  /\ UNCHANGED <<row, shardRows, timesUsed, callEvents, blockEvents>>
  /\ UNCHANGED <<redis, kafka, lapsed, history>>

StartRevoke(r, k, u) ==
  /\ Start(r, "revoke", "cacheGet", k, u)
  /\ UNCHANGED <<postgres, redis, kafka, lapsed, history>>

StartGet(r, k) ==
  /\ Start(r, "get", "cacheGet", k, NoUser)
  /\ UNCHANGED <<postgres, redis, kafka, lapsed, history>>

StartCall(r, k) ==
  /\ calls < MaxCalls
  /\ Start(r, "call", "cacheGet", k, NoUser)
  /\ calls' = calls + 1
  /\ UNCHANGED <<postgres, redis, kafka, lapsed, executed, blind, confirmed>>

StartList(r, u) ==
  /\ Start(r, "list", "listGet", NoKey, u)
  /\ UNCHANGED <<postgres, redis, kafka, lapsed, history>>

(***************************************************************************)
(* registerKey: one Postgres transaction wraps Redis writes and a Kafka    *)
(* publish that a rollback does not undo.                                  *)
(***************************************************************************)

\* Mutant: shard indices that start at 0.
MutDistribute(r) ==
  /\ At(r, "distribute")
  /\ shardVals' = [shardVals EXCEPT ![Key(r)] = 0..Total - 1]
  /\ Go(r, "warm")
  /\ UNCHANGED <<postgres, keyCache, listCache, locCache, kafka, lapsed, history>>

\* distribute: Promise.all over the shards.
Distribute(r) ==
  /\ At(r, "distribute")
  /\ shardVals' = [shardVals EXCEPT ![Key(r)] = Shards]
  /\ Go(r, "warm")
  /\ UNCHANGED <<postgres, keyCache, listCache, locCache, kafka, lapsed, history>>

\* One of the parallel writes throws: the transaction is rolled back, the
\* Redis writes that were made stay.
DistributeFails(r) ==
  /\ At(r, "distribute")
  /\ \E written \in SUBSET Shards : shardVals' = [shardVals EXCEPT ![Key(r)] = written]
  /\ Done(r)
  /\ UNCHANGED <<postgres, keyCache, listCache, locCache, kafka, lapsed, history>>

\* Mutant: the key row, which the code reads here too, is cached before the commit.
MutWarmLocations(r) ==
  /\ At(r, "warm")
  /\ locCache' = [locCache EXCEPT ![Key(r)] = Shards]
  /\ keyCache' = [keyCache EXCEPT ![Key(r)] = "ACTIVE"]
  /\ Go(r, "announce")
  /\ UNCHANGED <<postgres, listCache, shardVals, kafka, lapsed, history>>

\* warmLocationCache reads its own transaction's rows and caches them.
WarmLocations(r) ==
  /\ At(r, "warm")
  /\ locCache' = [locCache EXCEPT ![Key(r)] = Shards]
  /\ Go(r, "announce")
  /\ UNCHANGED <<postgres, keyCache, listCache, shardVals, kafka, lapsed, history>>

\* publishKeyRegistration; producer.disconnect() can still throw after the publish.
AnnounceKey(r) ==
  /\ At(r, "announce")
  /\ announced' = announced \cup {Key(r)}
  /\ Go(r, "commit") \/ Done(r)
  /\ UNCHANGED <<postgres, redis, alerts, lapsed, history>>

CommitKey(r) ==
  /\ At(r, "commit")
  /\ row' = [row EXCEPT ![Key(r)] = "ACTIVE"]
  /\ shardRows' = [shardRows EXCEPT ![Key(r)] = Shards]
  /\ Go(r, "cacheNew")
  /\ UNCHANGED <<owner, timesUsed, callEvents, blockEvents, redis, kafka, lapsed, history>>

CacheNewKey(r) ==
  /\ At(r, "cacheNew")
  /\ keyCache' = [keyCache EXCEPT ![Key(r)] = "ACTIVE"]
  /\ Go(r, "dropList")
  /\ UNCHANGED <<postgres, listCache, shardVals, locCache, kafka, lapsed, history>>

DropList(r) ==
  /\ At(r, "dropList")
  /\ listCache' = [listCache EXCEPT ![req[r].user] = {}]
  /\ Done(r)
  /\ UNCHANGED <<postgres, keyCache, shardVals, locCache, kafka, lapsed, history>>

(***************************************************************************)
(* findById: read-through cache, shared by revoke, callApi and get.        *)
(***************************************************************************)

FindHit(r) ==
  /\ At(r, "cacheGet")
  /\ keyCache[Key(r)] # "none"
  /\ GoSeeing(r, "check", keyCache[Key(r)], FALSE)
  /\ UNCHANGED <<postgres, redis, kafka, lapsed, history>>

FindMiss(r) ==
  /\ At(r, "cacheGet")
  /\ keyCache[Key(r)] = "none"
  /\ Go(r, "dbFind")
  /\ UNCHANGED <<postgres, redis, kafka, lapsed, history>>

FindRow(r) ==
  /\ At(r, "dbFind")
  /\ GoSeeing(r, IF row[Key(r)] = "none" THEN "check" ELSE "cacheSet", row[Key(r)], TRUE)
  /\ UNCHANGED <<postgres, redis, kafka, lapsed, history>>

FillKeyCache(r) ==
  /\ At(r, "cacheSet")
  /\ keyCache' = [keyCache EXCEPT ![Key(r)] = req[r].seen]
  /\ Go(r, "check")
  /\ UNCHANGED <<postgres, listCache, shardVals, locCache, kafka, lapsed, history>>

GetReply(r) ==
  /\ At(r, "check") /\ req[r].op = "get"
  /\ Done(r)
  /\ UNCHANGED <<postgres, redis, kafka, lapsed, history>>

(***************************************************************************)
(* getLocations: read-through cache of the shard rows, shared by revoke's  *)
(* deleteShards and callApi's fetchShards.                                 *)
(***************************************************************************)

\* Mutant: deleteShards forgets the values in Redis.
MutLocated(r) == IF req[r].op = "revoke" THEN "delRows" ELSE "fetch"

\* Where the caller goes on with the locations it got.
Located(r) == IF req[r].op = "revoke" THEN "delVals" ELSE "fetch"

LocationsHit(r) ==
  /\ At(r, "locGet")
  /\ locCache[Key(r)] # {}
  /\ GoLocated(r, Located(r), locCache[Key(r)])
  /\ UNCHANGED <<postgres, redis, kafka, lapsed, history>>

LocationsMiss(r) ==
  /\ At(r, "locGet")
  /\ locCache[Key(r)] = {}
  /\ Go(r, "locRows")
  /\ UNCHANGED <<postgres, redis, kafka, lapsed, history>>

LocationsRows(r) ==
  /\ At(r, "locRows")
  /\ shardRows[Key(r)] # {}
  /\ GoLocated(r, "locSet", shardRows[Key(r)])
  /\ UNCHANGED <<postgres, redis, kafka, lapsed, history>>

\* SHARDS_NOT_FOUND: callApi answers 404, deleteShards goes on with [].
LocationsNone(r) ==
  /\ At(r, "locRows")
  /\ shardRows[Key(r)] = {}
  /\ IF req[r].op = "revoke" THEN Go(r, "delRows") ELSE Done(r)
  /\ UNCHANGED <<postgres, redis, kafka, lapsed, history>>

FillLocations(r) ==
  /\ At(r, "locSet")
  /\ locCache' = [locCache EXCEPT ![Key(r)] = req[r].locs]
  /\ Go(r, Located(r))
  /\ UNCHANGED <<postgres, keyCache, listCache, shardVals, kafka, lapsed, history>>

\* deleteShards: getLocations(...).catch(() => []) hides a Redis or Postgres error.
LocationsLost(r) ==
  /\ req[r].pc \in LocPCs /\ req[r].op = "revoke"
  /\ GoLocated(r, "delRows", {})
  /\ blind' = blind \cup {Key(r)}
  /\ UNCHANGED <<postgres, redis, kafka, lapsed, calls, executed, confirmed>>

(***************************************************************************)
(* revokeKey and deleteShards.                                             *)
(***************************************************************************)

MayRevoke(r) ==
  /\ req[r].seen # "none"
  /\ owner[Key(r)] = req[r].user
  /\ req[r].seen # "DEACTIVATED"
  /\ Key(r) \notin lapsed

\* Mutant: the shards are deleted and the row is left for last.
MutRevokeCheck(r) ==
  /\ At(r, "check") /\ req[r].op = "revoke"
  /\ IF MayRevoke(r) THEN GoSeeing(r, "locGet", "none", FALSE) ELSE Done(r)
  /\ UNCHANGED <<postgres, redis, kafka, lapsed, history>>

\* Mutant: a refused revocation is never answered.
MutUnanswered(r) ==
  /\ At(r, "check") /\ req[r].op = "revoke" /\ MayRevoke(r)
  /\ GoSeeing(r, "mark", "none", FALSE)
  /\ UNCHANGED <<postgres, redis, kafka, lapsed, history>>

RevokeCheck(r) ==
  /\ At(r, "check") /\ req[r].op = "revoke"
  /\ IF MayRevoke(r) THEN GoSeeing(r, "mark", "none", FALSE) ELSE Done(r)
  /\ UNCHANGED <<postgres, redis, kafka, lapsed, history>>

MarkRevoked(r) ==
  /\ At(r, "mark")
  /\ row' = [row EXCEPT ![Key(r)] = "DEACTIVATED"]
  /\ Go(r, "locGet")
  /\ UNCHANGED <<owner, shardRows, timesUsed, callEvents, blockEvents>>
  /\ UNCHANGED <<redis, kafka, lapsed, history>>

\* Mutant: only the shards that reconstruct are deleted.
MutDeleteValues(r) ==
  /\ At(r, "delVals")
  /\ shardVals' = [shardVals EXCEPT ![Key(r)] = @ \ Selected(req[r].locs)]
  /\ GoLocated(r, "delRows", {})
  /\ UNCHANGED <<postgres, keyCache, listCache, locCache, kafka, lapsed, history>>

DeleteValues(r) ==
  /\ At(r, "delVals")
  /\ shardVals' = [shardVals EXCEPT ![Key(r)] = @ \ req[r].locs]
  /\ GoLocated(r, "delRows", {})
  /\ UNCHANGED <<postgres, keyCache, listCache, locCache, kafka, lapsed, history>>

DeleteValuesFails(r) ==
  /\ At(r, "delVals")
  /\ \E gone \in SUBSET req[r].locs : shardVals' = [shardVals EXCEPT ![Key(r)] = @ \ gone]
  /\ Done(r)
  /\ UNCHANGED <<postgres, keyCache, listCache, locCache, kafka, lapsed, history>>

DeleteRows(r) ==
  /\ At(r, "delRows")
  /\ shardRows' = [shardRows EXCEPT ![Key(r)] = {}]
  /\ Go(r, "delLoc")
  /\ UNCHANGED <<row, owner, timesUsed, callEvents, blockEvents>>
  /\ UNCHANGED <<redis, kafka, lapsed, history>>

\* The last step of a revocation that answers "revoked successfully".
DeleteLocations(r) ==
  /\ At(r, "delLoc")
  /\ locCache' = [locCache EXCEPT ![Key(r)] = {}]
  /\ confirmed' = IF Key(r) \in blind THEN confirmed ELSE confirmed \cup {Key(r)}
  /\ Done(r)
  /\ UNCHANGED <<postgres, keyCache, listCache, shardVals, kafka, lapsed>>
  /\ UNCHANGED <<calls, executed, blind>>

(***************************************************************************)
(* callApi: KeyController.executeInEnclave.                                *)
(***************************************************************************)

\* On a cache hit expiresAt is JSON text: `text < new Date()` compares NaN, so
\* only a row read from Postgres by this request can be found expired.
SeenExpired(r) == req[r].fresh /\ Key(r) \in lapsed

MayCall(r) == req[r].seen = "ACTIVE" /\ ~SeenExpired(r)

CallCheck(r) ==
  /\ At(r, "check") /\ req[r].op = "call"
  /\ IF MayCall(r) THEN GoSeeing(r, "intent", "none", FALSE) ELSE Done(r)
  /\ UNCHANGED <<postgres, redis, kafka, lapsed, history>>

\* checkIntent: the firewall's gRPC verdict.
IntentVerdict(r) ==
  /\ At(r, "intent")
  /\ Go(r, "locGet") \/ Go(r, "alert")
  /\ UNCHANGED <<postgres, redis, kafka, lapsed, history>>

PublishAlert(r) ==
  /\ At(r, "alert")
  /\ alerts' = [alerts EXCEPT ![Key(r)] = @ + 1]
  /\ Go(r, "logBlock") \/ Done(r)
  /\ UNCHANGED <<postgres, redis, announced, lapsed, history>>

LogBlocked(r) ==
  /\ At(r, "logBlock")
  /\ blockEvents' = [blockEvents EXCEPT ![Key(r)] = @ + 1]
  /\ Done(r)
  /\ UNCHANGED <<row, owner, shardRows, timesUsed, callEvents>>
  /\ UNCHANGED <<redis, kafka, lapsed, history>>

\* fetchShards: the values of one round of GETs on one Redis connection.
FetchShards(r) ==
  /\ At(r, "fetch")
  /\ IF /\ Cardinality(req[r].locs) >= Threshold
        /\ Selected(req[r].locs) \subseteq shardVals[Key(r)]
     THEN GoLocated(r, "enclave", {}) ELSE Done(r)
  /\ UNCHANGED <<postgres, redis, kafka, lapsed, history>>

\* Mutant: a request that was never sent is metered.
MutExecute(r) ==
  /\ At(r, "enclave")
  /\ executed' \in {executed, [executed EXCEPT ![Key(r)] = @ + 1]}
  /\ Go(r, "meter")
  /\ UNCHANGED <<postgres, redis, kafka, lapsed, calls, blind, confirmed>>

\* executeInEnclave reconstructs the key and sends the request; axios can throw
\* (a timeout) although the provider served it.
Execute(r) ==
  /\ At(r, "enclave")
  /\ executed' = [executed EXCEPT ![Key(r)] = @ + 1]
  /\ Go(r, "meter") \/ Done(r)
  /\ UNCHANGED <<postgres, redis, kafka, lapsed, calls, blind, confirmed>>

MeterCall(r) ==
  /\ At(r, "meter")
  /\ timesUsed' = [timesUsed EXCEPT ![Key(r)] = @ + 1]
  /\ Go(r, "logCall")
  /\ UNCHANGED <<row, owner, shardRows, callEvents, blockEvents>>
  /\ UNCHANGED <<redis, kafka, lapsed, history>>

LogCall(r) ==
  /\ At(r, "logCall")
  /\ callEvents' = [callEvents EXCEPT ![Key(r)] = @ + 1]
  /\ Done(r)
  /\ UNCHANGED <<row, owner, shardRows, timesUsed, blockEvents>>
  /\ UNCHANGED <<redis, kafka, lapsed, history>>

(***************************************************************************)
(* listKeys.                                                               *)
(***************************************************************************)

ListHit(r) ==
  /\ At(r, "listGet")
  /\ listCache[req[r].user] # {}
  /\ Done(r)
  /\ UNCHANGED <<postgres, redis, kafka, lapsed, history>>

ListMiss(r) ==
  /\ At(r, "listGet")
  /\ listCache[req[r].user] = {}
  /\ Go(r, "listRows")
  /\ UNCHANGED <<postgres, redis, kafka, lapsed, history>>

\* Mutant: the query also reads rows that are not committed.
MutRowsOf(u) == {<<k, IF row[k] = "none" THEN "ACTIVE" ELSE row[k]>> :
                   k \in {k \in Keys : owner[k] = u}}

\* findMany({ where: { userId } }) as a set of (id, status).
RowsOf(u) == {<<k, row[k]>> : k \in {k \in Keys : row[k] # "none" /\ owner[k] = u}}

ListRows(r) ==
  /\ At(r, "listRows")
  /\ req' = [req EXCEPT ![r].pc = "listSet", ![r].list = RowsOf(req[r].user)]
  /\ UNCHANGED <<postgres, redis, kafka, lapsed, history>>

FillListCache(r) ==
  /\ At(r, "listSet")
  /\ listCache' = [listCache EXCEPT ![req[r].user] = {req[r].list}]
  /\ Done(r)
  /\ UNCHANGED <<postgres, keyCache, shardVals, locCache, kafka, lapsed, history>>

(***************************************************************************)
(* A throwing external call ends the handler with an error reply; a crash  *)
(* of the process ends it with none.  What was written stays written, and  *)
(* an open transaction is rolled back.                                     *)
(***************************************************************************)

Fail(r) ==
  /\ req[r].pc \in PCs \ {"check"}
  /\ Done(r)
  /\ UNCHANGED <<postgres, redis, kafka, lapsed, history>>

(***************************************************************************)
(* Redis TTLs and the clock.                                               *)
(***************************************************************************)

\* Mutants: SET without a TTL.
MutKeyCacheExpires(k) == FALSE /\ UNCHANGED vars
MutShardExpires(k, s) == FALSE /\ UNCHANGED vars

KeyCacheExpires(k) ==
  /\ keyCache[k] # "none"
  /\ keyCache' = [keyCache EXCEPT ![k] = "none"]
  /\ UNCHANGED <<postgres, listCache, shardVals, locCache, kafka, lapsed, req, history>>

LocCacheExpires(k) ==
  /\ locCache[k] # {}
  /\ locCache' = [locCache EXCEPT ![k] = {}]
  /\ UNCHANGED <<postgres, keyCache, listCache, shardVals, kafka, lapsed, req, history>>

ListCacheExpires(u) ==
  /\ listCache[u] # {}
  /\ listCache' = [listCache EXCEPT ![u] = {}]
  /\ UNCHANGED <<postgres, keyCache, shardVals, locCache, kafka, lapsed, req, history>>

ShardExpires(k, s) ==
  /\ s \in shardVals[k]
  /\ shardVals' = [shardVals EXCEPT ![k] = @ \ {s}]
  /\ UNCHANGED <<postgres, keyCache, listCache, locCache, kafka, lapsed, req, history>>

\* expiresAt passes.
KeyLapses(k) ==
  /\ row[k] # "none" /\ k \notin lapsed
  /\ lapsed' = lapsed \cup {k}
  /\ UNCHANGED <<postgres, redis, kafka, req, history>>

(***************************************************************************)
(* The specification.                                                      *)
(***************************************************************************)

Arrive(r) ==
  \/ \E k \in Keys, u \in Users : StartRegister(r, k, u) \/ StartRevoke(r, k, u)
  \/ \E k \in Keys : StartGet(r, k) \/ StartCall(r, k)
  \/ \E u \in Users : StartList(r, u)

RegisterStep(r) ==
  \/ Distribute(r) \/ DistributeFails(r) \/ WarmLocations(r) \/ AnnounceKey(r)
  \/ CommitKey(r) \/ CacheNewKey(r) \/ DropList(r)

FindStep(r) == FindHit(r) \/ FindMiss(r) \/ FindRow(r) \/ FillKeyCache(r) \/ GetReply(r)

LocationStep(r) ==
  \/ LocationsHit(r) \/ LocationsMiss(r) \/ LocationsRows(r) \/ LocationsNone(r)
  \/ FillLocations(r) \/ LocationsLost(r)

RevokeStep(r) ==
  \/ RevokeCheck(r) \/ MarkRevoked(r) \/ DeleteValues(r) \/ DeleteValuesFails(r)
  \/ DeleteRows(r) \/ DeleteLocations(r)

CallStep(r) ==
  \/ CallCheck(r) \/ PublishAlert(r) \/ LogBlocked(r) \/ FetchShards(r)
  \/ Execute(r) \/ MeterCall(r) \/ LogCall(r)

ListStep(r) == ListHit(r) \/ ListMiss(r) \/ ListRows(r) \/ FillListCache(r)

\* The steps of r that the service or a store with a time limit takes.
Serve(r) ==
  \/ RegisterStep(r) \/ FindStep(r) \/ LocationStep(r) \/ RevokeStep(r)
  \/ CallStep(r) \/ ListStep(r)

Expiry ==
  \/ \E k \in Keys : KeyCacheExpires(k) \/ LocCacheExpires(k) \/ KeyLapses(k)
  \/ \E k \in Keys, s \in Shards : ShardExpires(k, s)
  \/ \E u \in Users : ListCacheExpires(u)

Next ==
  \/ \E r \in Requests : Arrive(r) \/ Serve(r) \/ IntentVerdict(r) \/ Fail(r)
  \/ Expiry

Spec == Init /\ [][Next]_vars

(***************************************************************************)
(* Fairness.  Redis, Postgres, Kafka and axios calls return or throw after *)
(* their client's time limit, so a started request goes on.  Nothing is    *)
(* assumed of the firewall's gRPC verdict (the call has no deadline) nor   *)
(* of arrivals and crashes.  Entries set with SETEX do expire.             *)
(***************************************************************************)
FairServing(r) == WF_vars(Serve(r))
FairKeyTTL(k) == WF_vars(KeyCacheExpires(k))
FairShardTTL(k, s) == WF_vars(ShardExpires(k, s))

Fairness ==
  /\ \A r \in Requests : FairServing(r)
  /\ \A k \in Keys : FairKeyTTL(k)
  /\ \A k \in Keys, s \in Shards : FairShardTTL(k, s)

FairSpec == Spec /\ Fairness
-----------------------------------------------------------------------------
(***************************************************************************)
(* Properties.                                                             *)
(***************************************************************************)

\* Every variable has its type.
TypeOK ==
  /\ row \in [Keys -> Status \cup {"none"}]
  /\ owner \in [Keys -> Users \cup {NoUser}]
  /\ shardRows \in [Keys -> SUBSET Shards]
  /\ timesUsed \in [Keys -> Nat]
  /\ callEvents \in [Keys -> Nat]
  /\ blockEvents \in [Keys -> Nat]
  /\ keyCache \in [Keys -> Status \cup {"none"}]
  /\ listCache \in [Users -> SUBSET Listing]
  /\ shardVals \in [Keys -> SUBSET Shards]
  /\ locCache \in [Keys -> SUBSET Shards]
  /\ announced \in SUBSET Keys
  /\ alerts \in [Keys -> Nat]
  /\ lapsed \in SUBSET Keys
  /\ req \in [Requests -> Request]
  /\ calls \in Nat
  /\ executed \in [Keys -> Nat]
  /\ blind \in SUBSET Keys
  /\ confirmed \in SUBSET Keys

\* deleteShards: once a revocation has answered "revoked successfully", Redis
\* holds no shard value of the key, although the service's status cache may say
\* ACTIVE for minutes and other requests may be refilling the location cache.
\* (confirmed leaves out the revocations whose location lookup threw and was
\* replaced by []: those do leave every value behind.)
ConfirmedRevocationPurges == \A k \in confirmed : shardVals[k] = {}

\* Hence callApi never obtains the shards of such a key again, whatever the
\* caches say: only calls that had fetched before the purge still finish.
NoSecretAfterConfirmedRevocation ==
  [][\A r \in Requests : At(r, "fetch") /\ At(r, "enclave")' => Key(r) \notin confirmed]_vars

\* Nothing but a TTL takes shards from a key whose row says ACTIVE: revokeKey
\* marks the row before deleteShards, so no failure between the two leaves an
\* ACTIVE key that can no longer be reconstructed.
ActiveKeyKeepsItsShards ==
  [][\A k \in Keys : row[k] = "ACTIVE" /\ req' # req
       => shardVals[k] \subseteq shardVals'[k] /\ shardRows'[k] = Shards]_vars

\* Cached statuses err in one direction only: a key the cache calls DEACTIVATED
\* is, and the cache names no key whose transaction was rolled back.
CachedRefusalIsTrue ==
  \A k \in Keys : keyCache[k] # "none" =>
    row[k] # "none" /\ (keyCache[k] = "DEACTIVATED" => row[k] = "DEACTIVATED")

\* The shards and locations that a rolled-back registration leaves in Redis are
\* never handed to the enclave.
OrphanShardsUnreachable ==
  \A r \in Requests : req[r].pc \in {"fetch", "enclave", "meter", "logCall"} =>
    row[Key(r)] # "none"

\* The records never run ahead of what happened.  A key that callers can see was
\* announced on hollow-key events: the publish precedes the commit (the converse
\* fails, a rollback unsends nothing).  And counting the requests between two
\* records, timesUsed is behind upstream calls, CALL events behind timesUsed,
\* INTENT_BLOCKED events behind published alerts.
LedgerNeverAhead ==
  LET pending(k, pc) == Cardinality({r \in Requests : At(r, pc) /\ Key(r) = k})
  IN \A k \in Keys :
       /\ row[k] # "none" => k \in announced
       /\ timesUsed[k] + pending(k, "meter") <= executed[k]
       /\ callEvents[k] + pending(k, "logCall") <= timesUsed[k]
       /\ blockEvents[k] + pending(k, "logBlock") <= alerts[k]

\* A cached list of a user names committed keys of that user only, and calls
\* none revoked that is not, although no revocation invalidates it.
CachedListIsTrue ==
  \A u \in Users : \A list \in listCache[u] : \A e \in list :
    /\ row[e[1]] # "none" /\ owner[e[1]] = u
    /\ e[2] = "DEACTIVATED" => row[e[1]] = "DEACTIVATED"

\* The caches of keys and of lists can be stale, but never call a key revoked that is
\* not, nor show one that does not exist.
CachesAreTrue == CachedRefusalIsTrue /\ CachedListIsTrue

\* README:64 "any 3 of 5 reconstruct the key": while enough values are stored,
\* fetchShards finds the ones it selects.
AnyThresholdServes ==
  \A r \in Requests :
    At(r, "fetch") /\ Cardinality(shardVals[Key(r)]) >= Threshold
      => Selected(req[r].locs) \subseteq shardVals[Key(r)]

\* key.controller.ts:155 "HollowKey has expired": callApi lets no key pass
\* whose expiresAt is over when it checks.
ExpiredKeyRefused ==
  [][\A r \in Requests : At(r, "check") /\ At(r, "intent")' => Key(r) \notin lapsed]_vars

\* No handler and no TTL waits for a step that cannot come: whatever the other requests
\* and the stores have done, a request that is not at the firewall's verdict can go on,
\* and what is stored with a TTL can expire.
NothingIsStuck ==
  /\ \A r \in Requests : req[r].pc \in PCs \ {"intent"} => ENABLED <<Serve(r)>>_vars
  /\ \A k \in Keys : keyCache[k] # "none" => ENABLED <<KeyCacheExpires(k)>>_vars
  /\ \A k \in Keys : \A s \in shardVals[k] : ENABLED <<ShardExpires(k, s)>>_vars

\* The window in which a revoked key still looks ACTIVE closes for good.
StaleStatusDies ==
  \A k \in Keys : row[k] = "DEACTIVATED" ~> [](keyCache[k] # "ACTIVE")

\* A revoked key's secret is gone in the end even if its revocation failed
\* halfway, when no later revocation may be let through to finish the job.
RevokedKeyDies ==
  \A k \in Keys : row[k] = "DEACTIVATED" ~> [](~(Selected(Shards) \subseteq shardVals[k]))

(***************************************************************************)
(* The vault implements the contract: a key's secret is what fetchShards   *)
(* would select, and a request holds it while it is in the enclave.        *)
(***************************************************************************)
Reconstructable == {k \in Keys : row[k] # "none" /\ Selected(Shards) \subseteq shardVals[k]}
Lent == {<<r, Key(r)>> : r \in {r \in Requests : At(r, "enclave")}}

Contract == INSTANCE KeyContract WITH
  life <- row,
  secret <- Reconstructable,
  lent <- Lent,
  final <- confirmed

\* Every step of the vault is a step of KeyContract or changes nothing in it.
ImplementsContract == Contract!Spec
=============================================================================
