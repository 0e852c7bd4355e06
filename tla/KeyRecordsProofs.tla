-------------------------- MODULE KeyRecordsProofs --------------------------
(***************************************************************************)
(* Proofs about what KeyVault's records say: the cached lists of keys and  *)
(* the usage counters, for every set of keys, users and requests; and      *)
(* about what is left of a key's status and values after its revocation.   *)
(***************************************************************************)
EXTENDS KeyVaultProofs

USE RequestSlots

\* A step of one request, or its end.
StepOf(r) == Arrive(r) \/ Serve(r) \/ IntentVerdict(r) \/ Fail(r)

\* Whatever moves a request is the step of one.
LEMMA Movers ==
  ASSUME [Next]_vars
  PROVE  \/ \E r \in Requests : StepOf(r)
         \/ Expiry \/ UNCHANGED vars
BY DEF Next, StepOf

(***************************************************************************)
(* Lists.                                                                  *)
(***************************************************************************)

\* What a list says of a key is, or has been, so.
EntryTrue(e, u) ==
  /\ row[e[1]] # "none" /\ owner[e[1]] = u
  /\ e[2] = "DEACTIVATED" => row[e[1]] = "DEACTIVATED"

\* The lists that requests carry are as true as the cached ones.
ListInv ==
  /\ CachedListIsTrue
  /\ \A r \in Requests : req[r].pc = "listSet" =>
       \A e \in req[r].list : EntryTrue(e, req[r].user)

\* A row never disappears, changes its owner or becomes active again.
LEMMA RowsAdvance ==
  ASSUME IInv, [Next]_vars, NEW k \in Keys, row[k] # "none"
  PROVE  /\ row'[k] # "none" /\ owner'[k] = owner[k]
         /\ row[k] = "DEACTIVATED" => row'[k] = "DEACTIVATED"
<1>0. owner[k] # NoUser /\ row \in [Keys -> Status \cup {"none"}]
      /\ owner \in [Keys -> Users \cup {NoUser}]
  BY DEF IInv, KeyOK, TypeOK
<1>1. ASSUME NEW r \in Requests, Arrive(r)
      PROVE  row' = row /\ owner'[k] = owner[k]
  BY <1>0, <1>1 DEF Arrive, StartRegister, StartRevoke, StartGet, StartCall, StartList, postgres
<1>2. ASSUME NEW r \in Requests, RegisterStep(r)
      PROVE  row'[k] = row[k] /\ owner' = owner
  <2>1. req[r].pc = "commit" => row[Key(r)] = "none"
    BY DEF IInv, RequestOK, PreCommit
  <2> QED
    BY <1>0, <1>2, <2>1 DEF RegisterStep, Distribute, DistributeFails, WarmLocations, AnnounceKey,
      CommitKey, CacheNewKey, DropList, At, postgres
<1>3. ASSUME NEW r \in Requests, FindStep(r) \/ LocationStep(r) \/ ListStep(r) \/ IntentVerdict(r)
                                 \/ Fail(r)
      PROVE  row' = row /\ owner' = owner
  BY <1>3 DEF FindStep, FindHit, FindMiss, FindRow, FillKeyCache, GetReply, LocationStep,
    LocationsHit, LocationsMiss, LocationsRows, LocationsNone, FillLocations, LocationsLost,
    ListStep, ListHit, ListMiss, ListRows, FillListCache, IntentVerdict, Fail, postgres
<1>4. ASSUME NEW r \in Requests, RevokeStep(r)
      PROVE  row'[k] \in {row[k], "DEACTIVATED"} /\ owner' = owner
  BY <1>0, <1>4 DEF RevokeStep, RevokeCheck, MarkRevoked, DeleteValues, DeleteValuesFails,
    DeleteRows, DeleteLocations, postgres
<1>5. ASSUME NEW r \in Requests, CallStep(r)
      PROVE  row' = row /\ owner' = owner
  BY <1>5 DEF CallStep, CallCheck, PublishAlert, LogBlocked, FetchShards, Execute, MeterCall,
    LogCall, postgres
<1>6. CASE Expiry
  BY <1>6 DEF Expiry, KeyCacheExpires, LocCacheExpires, KeyLapses, ShardExpires, ListCacheExpires,
    postgres
<1>7. CASE UNCHANGED vars
  BY <1>7 DEF vars, postgres
<1> QED
  BY <1>1, <1>2, <1>3, <1>4, <1>5, <1>6, <1>7, Movers DEF StepOf, Serve

\* What was true of a listed key stays true.
LEMMA EntriesStay ==
  ASSUME IInv, [Next]_vars, NEW e \in Keys \X Status, NEW u, EntryTrue(e, u)
  PROVE  EntryTrue(e, u)'
<1>1. e[1] \in Keys
  OBVIOUS
<1> QED
  BY <1>1, RowsAdvance DEF EntryTrue

\* A request gets to listSet only with the rows it has just read.
LEMMA ListEntry ==
  ASSUME IInv, NEW r \in Requests, StepOf(r), ~ListRows(r)
  PROVE  req'[r].pc # "listSet"
<1>1. req \in [Requests -> Request] /\ req[r] \in Request
  BY DEF IInv, TypeOK
<1>2. CASE Arrive(r)
  <2>1. PICK op \in Ops, p \in {"distribute", "cacheGet", "listGet"}, k \in Keys \cup {NoKey},
             u \in Users \cup {NoUser} : Start(r, op, p, k, u)
    BY <1>2 DEF Arrive, StartRegister, StartRevoke, StartGet, StartCall, StartList, Ops
  <2>2. p \in PCs
    BY DEF PCs, FindPCs, RegisterPCs, ListPCs
  <2>3. req'[r].pc = p
    BY <1>1, <2>1, <2>2, StartMoves
  <2> QED
    BY <2>3
<1> USE DEF Go, Done, GoSeeing, GoLocated, Idle, Request
<1>3. CASE RegisterStep(r)
  BY <1>1, <1>3 DEF RegisterStep, Distribute, DistributeFails, WarmLocations, AnnounceKey,
    CommitKey, CacheNewKey, DropList
<1>4. CASE FindStep(r)
  BY <1>1, <1>4 DEF FindStep, FindHit, FindMiss, FindRow, FillKeyCache, GetReply
<1>5. CASE LocationStep(r)
  BY <1>1, <1>5 DEF LocationStep, LocationsHit, LocationsMiss, LocationsRows, LocationsNone,
    FillLocations, LocationsLost, Located
<1>6. CASE RevokeStep(r)
  BY <1>1, <1>6 DEF RevokeStep, RevokeCheck, MarkRevoked, DeleteValues, DeleteValuesFails,
    DeleteRows, DeleteLocations
<1>7. CASE CallStep(r) \/ IntentVerdict(r) \/ Fail(r)
  BY <1>1, <1>7 DEF CallStep, CallCheck, PublishAlert, LogBlocked, FetchShards, Execute, MeterCall,
    LogCall, IntentVerdict, Fail
<1>8. CASE ListStep(r) /\ ~ListRows(r)
  BY <1>1, <1>8 DEF ListStep, ListHit, ListMiss, FillListCache
<1> QED
  BY <1>2, <1>3, <1>4, <1>5, <1>6, <1>7, <1>8 DEF Serve, StepOf

\* A cached list was there, or is the one a request carried.
LEMMA ListOrigin ==
  ASSUME IInv, [Next]_vars, NEW u \in Users, NEW list \in listCache'[u]
  PROVE  \/ list \in listCache[u]
         \/ \E r \in Requests : req[r].pc = "listSet" /\ req[r].user = u /\ list = req[r].list
<1>0. listCache \in [Users -> SUBSET Listing]
  BY DEF IInv, TypeOK
<1>1. ASSUME NEW r \in Requests, Arrive(r) \/ FindStep(r) \/ LocationStep(r) \/ IntentVerdict(r)
                                 \/ Fail(r)
      PROVE  listCache' = listCache
  BY <1>1 DEF Arrive, StartRegister, StartRevoke, StartGet, StartCall, StartList, FindStep, FindHit,
    FindMiss, FindRow, FillKeyCache, GetReply, LocationStep, LocationsHit, LocationsMiss,
    LocationsRows, LocationsNone, FillLocations, LocationsLost, IntentVerdict, Fail, redis
<1>2. ASSUME NEW r \in Requests, RegisterStep(r)
      PROVE  listCache'[u] \in {listCache[u], {}}
  BY <1>0, <1>2 DEF RegisterStep, Distribute, DistributeFails, WarmLocations, AnnounceKey,
      CommitKey, CacheNewKey, DropList, redis
<1>3. ASSUME NEW r \in Requests, RevokeStep(r) \/ CallStep(r)
      PROVE  listCache' = listCache
  BY <1>3 DEF RevokeStep, RevokeCheck, MarkRevoked, DeleteValues, DeleteValuesFails,
    DeleteRows, DeleteLocations, CallStep, CallCheck, PublishAlert, LogBlocked, FetchShards,
    Execute, MeterCall, LogCall, redis
<1>4. ASSUME NEW r \in Requests, ListStep(r)
      PROVE  \/ listCache'[u] = listCache[u]
             \/ req[r].pc = "listSet" /\ req[r].user = u /\ listCache'[u] = {req[r].list}
  BY <1>0, <1>4 DEF ListStep, ListHit, ListMiss, ListRows, FillListCache, At, redis
<1>5. CASE Expiry
  BY <1>0, <1>5 DEF Expiry, KeyCacheExpires, LocCacheExpires, KeyLapses, ShardExpires,
    ListCacheExpires, redis
<1>6. CASE UNCHANGED vars
  BY <1>6 DEF vars, redis
<1> QED
  BY <1>1, <1>2, <1>3, <1>4, <1>5, <1>6, Movers DEF StepOf, Serve

\* The lists stay true.
LEMMA ListsStep ==
  ASSUME IInv, ListInv, [Next]_vars
  PROVE  ListInv'
<1>0. /\ listCache \in [Users -> SUBSET Listing]
      /\ req \in [Requests -> Request]
      /\ \A r \in Requests : req[r].list \in Listing
  BY DEF IInv, TypeOK, Request
<1>1. ASSUME NEW u \in Users, NEW list \in listCache'[u], NEW e \in list
      PROVE  EntryTrue(e, u)'
  <2>1. EntryTrue(e, u)
    BY <1>1, ListOrigin DEF ListInv, CachedListIsTrue, EntryTrue
  <2>2. e \in Keys \X Status
    BY <1>0, <1>1, ListOrigin DEF Listing
  <2> QED
    BY <2>1, <2>2, EntriesStay
<1>2. ASSUME NEW r \in Requests, req'[r].pc = "listSet", NEW e \in req'[r].list,
             NEW u, u = req'[r].user
      PROVE  EntryTrue(e, u)'
  <2>1. CASE req'[r] = req[r]
    <3>1. e \in Keys \X Status /\ EntryTrue(e, u)
      BY <1>0, <1>2, <2>1 DEF Listing, ListInv
    <3> QED
      BY <3>1, EntriesStay
  <2>2. CASE req'[r] # req[r]
    <3>1. PICK s \in Requests : StepOf(s)
      BY <2>2, Movers DEF Expiry, KeyCacheExpires, LocCacheExpires, KeyLapses, ShardExpires,
        ListCacheExpires, vars
    <3>2. s = r
      BY <2>2, <3>1, OneMoves DEF StepOf
    <3>3. ListRows(r)
      BY <1>2, <3>1, <3>2, ListEntry
    <3>4. u = req[r].user /\ req'[r].list = RowsOf(req[r].user)
      BY <1>0, <1>2, <3>3 DEF ListRows, Request
    <3>5. e \in Keys \X Status /\ EntryTrue(e, u)
      BY <1>2, <3>4 DEF RowsOf, EntryTrue, IInv, TypeOK
    <3> QED
      BY <3>5, EntriesStay
  <2> QED
    BY <2>1, <2>2
<1>3. CachedListIsTrue'
  BY <1>1 DEF CachedListIsTrue, EntryTrue
<1>4. ASSUME NEW r \in Requests, req'[r].pc = "listSet", NEW e \in req'[r].list
      PROVE  EntryTrue(e, req[r].user)'
  BY <1>2, <1>4 DEF EntryTrue
<1> QED
  BY <1>3, <1>4 DEF ListInv

\* A cached list names only its user's committed keys and calls none revoked that is not.
THEOREM ListsAreTrue == Spec => []CachedListIsTrue
<1>1. Init => ListInv
  BY DEF Init, Idle, ListInv, CachedListIsTrue
<1>2. IInv /\ ListInv /\ [Next]_vars => ListInv'
  BY ListsStep
<1>3. ListInv => CachedListIsTrue
  BY DEF ListInv
<1> QED
  BY <1>1, <1>2, <1>3, Invariance, PTL DEF Spec

(***************************************************************************)
(* Counters.                                                               *)
(***************************************************************************)

counters == <<executed, timesUsed, callEvents, alerts, blockEvents>>

\* The requests between two records of key k.
Pending(k, pc) == {r \in Requests : At(r, pc) /\ Key(r) = k}

\* The steps that count something.
Counting(r) == Execute(r) \/ MeterCall(r) \/ LogCall(r) \/ PublishAlert(r) \/ LogBlocked(r)

\* No other step changes a counter or brings a request between two records.
LEMMA RecordEntry ==
  ASSUME IInv, NEW r \in Requests, StepOf(r), ~Counting(r)
  PROVE  req'[r].pc \notin {"meter", "logCall", "logBlock"} /\ UNCHANGED counters
<1>1. req \in [Requests -> Request] /\ req[r] \in Request
  BY DEF IInv, TypeOK
<1>2. CASE Arrive(r)
  <2>1. PICK op \in Ops, p \in {"distribute", "cacheGet", "listGet"}, k \in Keys \cup {NoKey},
             u \in Users \cup {NoUser} : Start(r, op, p, k, u)
    BY <1>2 DEF Arrive, StartRegister, StartRevoke, StartGet, StartCall, StartList, Ops
  <2>2. p \in PCs
    BY DEF PCs, FindPCs, RegisterPCs, ListPCs
  <2>3. req'[r].pc = p
    BY <1>1, <2>1, <2>2, StartMoves
  <2>4. UNCHANGED counters
    BY <1>2 DEF Arrive, StartRegister, StartRevoke, StartGet, StartCall, StartList, counters,
      postgres, kafka, history
  <2> QED
    BY <2>3, <2>4
<1> USE DEF Go, Done, GoSeeing, GoLocated, Idle, Request, counters, postgres, kafka, history
<1>3. CASE RegisterStep(r)
  BY <1>1, <1>3 DEF RegisterStep, Distribute, DistributeFails, WarmLocations, AnnounceKey,
    CommitKey, CacheNewKey, DropList
<1>4. CASE FindStep(r)
  BY <1>1, <1>4 DEF FindStep, FindHit, FindMiss, FindRow, FillKeyCache, GetReply
<1>5. CASE LocationStep(r)
  BY <1>1, <1>5 DEF LocationStep, LocationsHit, LocationsMiss, LocationsRows, LocationsNone,
    FillLocations, LocationsLost, Located
<1>6. CASE RevokeStep(r)
  BY <1>1, <1>6 DEF RevokeStep, RevokeCheck, MarkRevoked, DeleteValues, DeleteValuesFails,
    DeleteRows, DeleteLocations
<1>7. CASE CallStep(r) \/ IntentVerdict(r) \/ Fail(r)
  BY <1>1, <1>7 DEF CallStep, CallCheck, FetchShards, IntentVerdict, Fail, Counting
<1>8. CASE ListStep(r)
  BY <1>1, <1>8 DEF ListStep, ListHit, ListMiss, ListRows, FillListCache
<1> QED
  BY <1>2, <1>3, <1>4, <1>5, <1>6, <1>7, <1>8 DEF Serve, StepOf

\* A step of r that ends in no such place leaves fewer pending, or as many.
LEMMA PendingShrinks ==
  ASSUME IInv, NEW r \in Requests, \A s \in Requests : s # r => req'[s] = req[s],
         NEW pc, req'[r].pc # pc, NEW k
  PROVE  /\ Cardinality(Pending(k, pc)) \in Nat /\ Cardinality(Pending(k, pc)') \in Nat
         /\ Cardinality(Pending(k, pc)') <= Cardinality(Pending(k, pc))
         /\ At(r, pc) /\ Key(r) = k =>
              Cardinality(Pending(k, pc)') + 1 <= Cardinality(Pending(k, pc))
<1>1. IsFiniteSet(Pending(k, pc))
  BY FS_Subset DEF Pending
<1>2. Pending(k, pc)' = Pending(k, pc) \ {r}
  BY DEF Pending, At, Key
<1>3. At(r, pc) /\ Key(r) = k => r \in Pending(k, pc)
  BY DEF Pending
<1>4. IsFiniteSet(Pending(k, pc) \ {r})
  BY <1>1, FS_RemoveElement
<1>5. Cardinality(Pending(k, pc)) \in Nat /\ Cardinality(Pending(k, pc) \ {r}) \in Nat
  BY <1>1, <1>4, FS_CardinalityType
<1>6. Cardinality(Pending(k, pc) \ {r})
        = IF r \in Pending(k, pc) THEN Cardinality(Pending(k, pc)) - 1
                                  ELSE Cardinality(Pending(k, pc))
  BY <1>1, FS_RemoveElement
<1>7. Cardinality(Pending(k, pc)') = Cardinality(Pending(k, pc) \ {r})
  BY <1>2
<1> HIDE DEF Pending
<1> QED
  BY <1>3, <1>5, <1>6, <1>7

\* A step that brings r there leaves one more pending, at most and only for r's key.
LEMMA PendingGrows ==
  ASSUME IInv, NEW r \in Requests, \A s \in Requests : s # r => req'[s] = req[s],
         NEW pc, req[r].pc # pc, NEW k
  PROVE  /\ Cardinality(Pending(k, pc)) \in Nat /\ Cardinality(Pending(k, pc)') \in Nat
         /\ Cardinality(Pending(k, pc)') <= Cardinality(Pending(k, pc)) + 1
         /\ req'[r].key # k => Cardinality(Pending(k, pc)') = Cardinality(Pending(k, pc))
<1>1. IsFiniteSet(Pending(k, pc)) /\ r \notin Pending(k, pc)
  BY FS_Subset DEF Pending, At
<1>2. \/ Pending(k, pc)' = Pending(k, pc)
      \/ req'[r].key = k /\ Pending(k, pc)' = Pending(k, pc) \cup {r}
  BY DEF Pending, At, Key
<1>3. IsFiniteSet(Pending(k, pc) \cup {r})
  BY <1>1, FS_AddElement
<1>4. Cardinality(Pending(k, pc)) \in Nat /\ Cardinality(Pending(k, pc) \cup {r}) \in Nat
  BY <1>1, <1>3, FS_CardinalityType
<1>5. Cardinality(Pending(k, pc) \cup {r}) = Cardinality(Pending(k, pc)) + 1
  BY <1>1, FS_AddElement
<1>6. \/ Cardinality(Pending(k, pc)') = Cardinality(Pending(k, pc))
      \/ /\ req'[r].key = k
         /\ Cardinality(Pending(k, pc)') = Cardinality(Pending(k, pc) \cup {r})
  BY <1>2
<1> QED
  BY <1>4, <1>5, <1>6

\* The counters of LedgerNeverAhead, for one key.
Ledger(k) ==
  /\ timesUsed[k] + Cardinality(Pending(k, "meter")) <= executed[k]
  /\ callEvents[k] + Cardinality(Pending(k, "logCall")) <= timesUsed[k]
  /\ blockEvents[k] + Cardinality(Pending(k, "logBlock")) <= alerts[k]

CounterTypes ==
  /\ executed \in [Keys -> Nat] /\ timesUsed \in [Keys -> Nat] /\ callEvents \in [Keys -> Nat]
  /\ alerts \in [Keys -> Nat] /\ blockEvents \in [Keys -> Nat]

\* No counter overtakes the one before it.
LEMMA LedgerStep ==
  ASSUME IInv, [Next]_vars, NEW k \in Keys, Ledger(k)
  PROVE  Ledger(k)'
<1>0. CounterTypes
  BY DEF IInv, TypeOK, CounterTypes
<1>a. req \in [Requests -> Request] /\ \A r \in Requests : req[r] \in Request
  BY DEF IInv, TypeOK
<1>1. ASSUME NEW r \in Requests, StepOf(r), ~Counting(r)
      PROVE  Ledger(k)'
  <2>1. \A s \in Requests : s # r => req'[s] = req[s]
    BY <1>1, OneMoves DEF StepOf
  <2>2. req'[r].pc \notin {"meter", "logCall", "logBlock"} /\ UNCHANGED counters
    BY <1>1, RecordEntry
  <2>3. \A pc \in {"meter", "logCall", "logBlock"} :
          /\ Cardinality(Pending(k, pc)) \in Nat /\ Cardinality(Pending(k, pc)') \in Nat
          /\ Cardinality(Pending(k, pc)') <= Cardinality(Pending(k, pc))
    BY <2>1, <2>2, PendingShrinks
  <2> QED
    BY <1>0, <2>2, <2>3 DEF Ledger, CounterTypes, counters
<1>2. ASSUME NEW r \in Requests, Execute(r)
      PROVE  Ledger(k)'
  <2>1. \A s \in Requests : s # r => req'[s] = req[s]
    BY <1>2, OneMoves DEF StepOf, Serve, CallStep
  <2>2. /\ req[r].pc = "enclave" /\ req'[r].pc \in {"meter", "idle"}
        /\ req'[r].key \in {req[r].key, NoKey}
    BY <1>2, <1>a DEF Execute, At, Go, Done, Idle, Request
  <2>3. /\ executed' = [executed EXCEPT ![Key(r)] = @ + 1]
        /\ UNCHANGED <<timesUsed, callEvents, alerts, blockEvents>>
    BY <1>2 DEF Execute, postgres, kafka
  <2>4. /\ Cardinality(Pending(k, "meter")) \in Nat /\ Cardinality(Pending(k, "meter")') \in Nat
        /\ Cardinality(Pending(k, "meter")') <= Cardinality(Pending(k, "meter")) + 1
        /\ Key(r) # k => Cardinality(Pending(k, "meter")') = Cardinality(Pending(k, "meter"))
    <3>1. /\ Cardinality(Pending(k, "meter")) \in Nat /\ Cardinality(Pending(k, "meter")') \in Nat
          /\ Cardinality(Pending(k, "meter")') <= Cardinality(Pending(k, "meter")) + 1
          /\ req'[r].key # k => Cardinality(Pending(k, "meter")') = Cardinality(Pending(k, "meter"))
      BY <2>1, <2>2, PendingGrows
    <3>2. k # NoKey
      BY Placeholders
    <3> QED
      BY <2>2, <3>1, <3>2 DEF Key
  <2>5. \A pc \in {"logCall", "logBlock"} :
          /\ Cardinality(Pending(k, pc)) \in Nat /\ Cardinality(Pending(k, pc)') \in Nat
          /\ Cardinality(Pending(k, pc)') <= Cardinality(Pending(k, pc))
    BY <2>1, <2>2, PendingShrinks
  <2>6. executed'[k] = IF Key(r) = k THEN executed[k] + 1 ELSE executed[k]
    BY <1>0, <2>3 DEF CounterTypes
  <2> QED
    BY <1>0, <2>3, <2>4, <2>5, <2>6 DEF Ledger, CounterTypes
<1>3. ASSUME NEW r \in Requests, MeterCall(r)
      PROVE  Ledger(k)'
  <2>1. \A s \in Requests : s # r => req'[s] = req[s]
    BY <1>3, OneMoves DEF StepOf, Serve, CallStep
  <2>2. req[r].pc = "meter" /\ req'[r].pc = "logCall" /\ req'[r].key = req[r].key
    BY <1>3, <1>a DEF MeterCall, At, Go, Request
  <2>3. /\ timesUsed' = [timesUsed EXCEPT ![Key(r)] = @ + 1]
        /\ UNCHANGED <<executed, callEvents, alerts, blockEvents>>
    BY <1>3 DEF MeterCall, kafka, history
  <2>4. /\ Cardinality(Pending(k, "meter")) \in Nat /\ Cardinality(Pending(k, "meter")') \in Nat
        /\ Cardinality(Pending(k, "meter")') <= Cardinality(Pending(k, "meter"))
        /\ Key(r) = k => Cardinality(Pending(k, "meter")') + 1 <= Cardinality(Pending(k, "meter"))
    BY <2>1, <2>2, PendingShrinks DEF At
  <2>5. /\ Cardinality(Pending(k, "logCall")) \in Nat /\ Cardinality(Pending(k, "logCall")') \in Nat
        /\ Cardinality(Pending(k, "logCall")') <= Cardinality(Pending(k, "logCall")) + 1
        /\ Key(r) # k => Cardinality(Pending(k, "logCall")') = Cardinality(Pending(k, "logCall"))
    BY <2>1, <2>2, PendingGrows DEF Key
  <2>6. /\ Cardinality(Pending(k, "logBlock")) \in Nat /\ Cardinality(Pending(k, "logBlock")') \in Nat
        /\ Cardinality(Pending(k, "logBlock")') <= Cardinality(Pending(k, "logBlock"))
    BY <2>1, <2>2, PendingShrinks
  <2>7. timesUsed'[k] = IF Key(r) = k THEN timesUsed[k] + 1 ELSE timesUsed[k]
    BY <1>0, <2>3 DEF CounterTypes
  <2> QED
    BY <1>0, <2>3, <2>4, <2>5, <2>6, <2>7 DEF Ledger, CounterTypes
<1>4. ASSUME NEW r \in Requests, LogCall(r)
      PROVE  Ledger(k)'
  <2>1. \A s \in Requests : s # r => req'[s] = req[s]
    BY <1>4, OneMoves DEF StepOf, Serve, CallStep
  <2>2. req[r].pc = "logCall" /\ req'[r].pc = "idle"
    BY <1>4, <1>a DEF LogCall, At, Done, Idle
  <2>3. /\ callEvents' = [callEvents EXCEPT ![Key(r)] = @ + 1]
        /\ UNCHANGED <<executed, timesUsed, alerts, blockEvents>>
    BY <1>4 DEF LogCall, kafka, history
  <2>4. \A pc \in {"meter", "logCall", "logBlock"} :
          /\ Cardinality(Pending(k, pc)) \in Nat /\ Cardinality(Pending(k, pc)') \in Nat
          /\ Cardinality(Pending(k, pc)') <= Cardinality(Pending(k, pc))
          /\ At(r, pc) /\ Key(r) = k =>
               Cardinality(Pending(k, pc)') + 1 <= Cardinality(Pending(k, pc))
    BY <2>1, <2>2, PendingShrinks
  <2>5. callEvents'[k] = IF Key(r) = k THEN callEvents[k] + 1 ELSE callEvents[k]
    BY <1>0, <2>3 DEF CounterTypes
  <2> QED
    BY <1>0, <2>2, <2>3, <2>4, <2>5 DEF Ledger, CounterTypes, At
<1>5. ASSUME NEW r \in Requests, PublishAlert(r)
      PROVE  Ledger(k)'
  <2>1. \A s \in Requests : s # r => req'[s] = req[s]
    BY <1>5, OneMoves DEF StepOf, Serve, CallStep
  <2>2. /\ req[r].pc = "alert" /\ req'[r].pc \in {"logBlock", "idle"}
        /\ req'[r].key \in {req[r].key, NoKey}
    BY <1>5, <1>a DEF PublishAlert, At, Go, Done, Idle, Request
  <2>3. /\ alerts' = [alerts EXCEPT ![Key(r)] = @ + 1]
        /\ UNCHANGED <<executed, timesUsed, callEvents, blockEvents>>
    BY <1>5 DEF PublishAlert, postgres, history
  <2>4. /\ Cardinality(Pending(k, "logBlock")) \in Nat /\ Cardinality(Pending(k, "logBlock")') \in Nat
        /\ Cardinality(Pending(k, "logBlock")') <= Cardinality(Pending(k, "logBlock")) + 1
        /\ Key(r) # k => Cardinality(Pending(k, "logBlock")') = Cardinality(Pending(k, "logBlock"))
    <3>1. /\ Cardinality(Pending(k, "logBlock")) \in Nat /\ Cardinality(Pending(k, "logBlock")') \in Nat
          /\ Cardinality(Pending(k, "logBlock")') <= Cardinality(Pending(k, "logBlock")) + 1
          /\ req'[r].key # k => Cardinality(Pending(k, "logBlock")') = Cardinality(Pending(k, "logBlock"))
      BY <2>1, <2>2, PendingGrows
    <3>2. k # NoKey
      BY Placeholders
    <3> QED
      BY <2>2, <3>1, <3>2 DEF Key
  <2>5. \A pc \in {"meter", "logCall"} :
          /\ Cardinality(Pending(k, pc)) \in Nat /\ Cardinality(Pending(k, pc)') \in Nat
          /\ Cardinality(Pending(k, pc)') <= Cardinality(Pending(k, pc))
    BY <2>1, <2>2, PendingShrinks
  <2>6. alerts'[k] = IF Key(r) = k THEN alerts[k] + 1 ELSE alerts[k]
    BY <1>0, <2>3 DEF CounterTypes
  <2> QED
    BY <1>0, <2>3, <2>4, <2>5, <2>6 DEF Ledger, CounterTypes
<1>6. ASSUME NEW r \in Requests, LogBlocked(r)
      PROVE  Ledger(k)'
  <2>1. \A s \in Requests : s # r => req'[s] = req[s]
    BY <1>6, OneMoves DEF StepOf, Serve, CallStep
  <2>2. req[r].pc = "logBlock" /\ req'[r].pc = "idle"
    BY <1>6, <1>a DEF LogBlocked, At, Done, Idle
  <2>3. /\ blockEvents' = [blockEvents EXCEPT ![Key(r)] = @ + 1]
        /\ UNCHANGED <<executed, timesUsed, alerts, callEvents>>
    BY <1>6 DEF LogBlocked, kafka, history
  <2>4. \A pc \in {"meter", "logCall", "logBlock"} :
          /\ Cardinality(Pending(k, pc)) \in Nat /\ Cardinality(Pending(k, pc)') \in Nat
          /\ Cardinality(Pending(k, pc)') <= Cardinality(Pending(k, pc))
          /\ At(r, pc) /\ Key(r) = k =>
               Cardinality(Pending(k, pc)') + 1 <= Cardinality(Pending(k, pc))
    BY <2>1, <2>2, PendingShrinks
  <2>5. blockEvents'[k] = IF Key(r) = k THEN blockEvents[k] + 1 ELSE blockEvents[k]
    BY <1>0, <2>3 DEF CounterTypes
  <2> QED
    BY <1>0, <2>2, <2>3, <2>4, <2>5 DEF Ledger, CounterTypes, At
<1>7. CASE Expiry \/ UNCHANGED vars
  <2>1. UNCHANGED <<req, counters>>
    BY <1>7 DEF Expiry, KeyCacheExpires, LocCacheExpires, KeyLapses, ShardExpires, ListCacheExpires,
      vars, counters, postgres, kafka, history
  <2> QED
    BY <2>1 DEF Ledger, Pending, At, Key, counters
<1> QED
  BY <1>1, <1>2, <1>3, <1>4, <1>5, <1>6, <1>7, Movers DEF Counting

\* The usage records never run ahead of what happened.
THEOREM LedgerHolds == Spec => []LedgerNeverAhead
<1>1. IInv /\ (\A k \in Keys : Ledger(k)) => LedgerNeverAhead
  BY DEF LedgerNeverAhead, Ledger, Pending, IInv, KeyOK
<1>2. Init => \A k \in Keys : Ledger(k)
  <2> SUFFICES ASSUME Init, NEW k \in Keys PROVE Ledger(k)
    OBVIOUS
  <2>1. \A pc \in {"meter", "logCall", "logBlock"} : Pending(k, pc) = {}
    BY DEF Init, Pending, At, Idle
  <2> QED
    <3>1. \A pc \in {"meter", "logCall", "logBlock"} : Cardinality(Pending(k, pc)) = 0
      BY <2>1, FS_EmptySet
    <3>2. /\ timesUsed[k] = 0 /\ callEvents[k] = 0 /\ blockEvents[k] = 0
          /\ executed[k] = 0 /\ alerts[k] = 0
      BY DEF Init
    <3> QED
      BY <3>1, <3>2 DEF Ledger
<1>3. IInv /\ (\A k \in Keys : Ledger(k)) /\ [Next]_vars => (\A k \in Keys : Ledger(k))'
  BY LedgerStep
<1> QED
  BY <1>1, <1>2, <1>3, Invariance, PTL DEF Spec

\* No cache says more against a key, or for one, than Postgres does.
THEOREM CachesHold == Spec => []CachesAreTrue
BY RefusalIsTrue, ListsAreTrue, PTL DEF CachesAreTrue

(***************************************************************************)
(* After a revocation.  That a fair step is possible where a request or an *)
(* entry waits for it (NothingIsStuck) is a hypothesis: tlapm has no rule  *)
(* for ENABLED.                                                            *)
(***************************************************************************)

\* No step writes a value of a revoked key.
LEMMA ValuesOnlyGo ==
  ASSUME IInv, [Next]_vars, NEW k \in Keys, row[k] = "DEACTIVATED"
  PROVE  shardVals'[k] \subseteq shardVals[k]
<1>0. shardVals \in [Keys -> SUBSET Shards]
  BY DEF IInv, TypeOK
<1>1. ASSUME NEW r \in Requests, RegisterStep(r)
      PROVE  shardVals'[k] \subseteq shardVals[k]
  <2>1. req[r].pc = "distribute" => row[Key(r)] = "none"
    BY DEF IInv, RequestOK, PreCommit
  <2> QED
    BY <1>0, <1>1, <2>1 DEF RegisterStep, Distribute, DistributeFails, WarmLocations, AnnounceKey,
      CommitKey, CacheNewKey, DropList, At, redis
<1>2. ASSUME NEW r \in Requests, RevokeStep(r)
      PROVE  shardVals'[k] \subseteq shardVals[k]
  BY <1>0, <1>2 DEF RevokeStep, RevokeCheck, MarkRevoked, DeleteValues, DeleteValuesFails,
    DeleteRows, DeleteLocations, redis
<1>3. ASSUME NEW r \in Requests, Arrive(r) \/ FindStep(r) \/ LocationStep(r) \/ ListStep(r)
                                 \/ CallStep(r) \/ IntentVerdict(r) \/ Fail(r)
      PROVE  shardVals' = shardVals
  BY <1>3 DEF Arrive, StartRegister, StartRevoke, StartGet, StartCall, StartList, FindStep, FindHit,
    FindMiss, FindRow, FillKeyCache, GetReply, LocationStep, LocationsHit, LocationsMiss,
    LocationsRows, LocationsNone, FillLocations, LocationsLost, ListStep, ListHit, ListMiss,
    ListRows, FillListCache, CallStep, CallCheck, PublishAlert, LogBlocked, FetchShards, Execute,
    MeterCall, LogCall, IntentVerdict, Fail, redis
<1>4. CASE Expiry \/ UNCHANGED vars
  BY <1>0, <1>4 DEF Expiry, KeyCacheExpires, LocCacheExpires, KeyLapses, ShardExpires,
    ListCacheExpires, vars, redis
<1> QED
  BY <1>1, <1>2, <1>3, <1>4, Movers DEF StepOf, Serve

\* Request r is about to cache that k is active.
Carries(r, k) ==
  /\ Key(r) = k
  /\ At(r, "cacheNew") \/ (At(r, "cacheSet") /\ req[r].seen = "ACTIVE")

\* A request that moves while k is revoked does not carry the old status afterwards: the
\* read that gave it is over, and no transaction commits k again.
LEMMA MovedCarriesNothing ==
  ASSUME IInv, NEW r \in Requests, StepOf(r), NEW k \in Keys, row[k] = "DEACTIVATED"
  PROVE  ~Carries(r, k)'
<1>1. req \in [Requests -> Request] /\ req[r] \in Request
  BY DEF IInv, TypeOK
<1>2. req[r].pc = "commit" => row[Key(r)] = "none"
  BY DEF IInv, RequestOK, PreCommit
<1>3. CASE Arrive(r)
  <2>1. PICK op \in Ops, p \in {"distribute", "cacheGet", "listGet"}, j \in Keys \cup {NoKey},
             u \in Users \cup {NoUser} : Start(r, op, p, j, u)
    BY <1>3 DEF Arrive, StartRegister, StartRevoke, StartGet, StartCall, StartList, Ops
  <2>2. p \in PCs
    BY DEF PCs, FindPCs, RegisterPCs, ListPCs
  <2>3. req'[r].pc = p
    BY <1>1, <2>1, <2>2, StartMoves
  <2> QED
    BY <2>3 DEF Carries, At
<1> USE DEF Go, Done, GoSeeing, GoLocated, Idle, Request, Carries, At, Key
<1>4. CASE RegisterStep(r)
  BY <1>1, <1>2, <1>4 DEF RegisterStep, Distribute, DistributeFails, WarmLocations, AnnounceKey,
    CommitKey, CacheNewKey, DropList
<1>5. CASE FindStep(r)
  BY <1>1, <1>5 DEF FindStep, FindHit, FindMiss, FindRow, FillKeyCache, GetReply
<1>6. CASE LocationStep(r)
  BY <1>1, <1>6 DEF LocationStep, LocationsHit, LocationsMiss, LocationsRows, LocationsNone,
    FillLocations, LocationsLost, Located
<1>7. CASE RevokeStep(r)
  BY <1>1, <1>7 DEF RevokeStep, RevokeCheck, MarkRevoked, DeleteValues, DeleteValuesFails,
    DeleteRows, DeleteLocations
<1>8. CASE CallStep(r) \/ IntentVerdict(r) \/ Fail(r)
  BY <1>1, <1>8 DEF CallStep, CallCheck, PublishAlert, LogBlocked, FetchShards, Execute, MeterCall,
    LogCall, IntentVerdict, Fail
<1>9. CASE ListStep(r)
  BY <1>1, <1>9 DEF ListStep, ListHit, ListMiss, ListRows, FillListCache
<1> QED
  BY <1>3, <1>4, <1>5, <1>6, <1>7, <1>8, <1>9 DEF Serve, StepOf

\* Nobody begins to carry the old status of a revoked key.
LEMMA NoNewCarrier ==
  ASSUME IInv, [Next]_vars, NEW r \in Requests, NEW k \in Keys, row[k] = "DEACTIVATED",
         ~Carries(r, k)
  PROVE  ~Carries(r, k)'
<1>1. CASE req'[r] = req[r]
  BY <1>1 DEF Carries, At, Key
<1>2. CASE req'[r] # req[r]
  <2>1. PICK s \in Requests : StepOf(s)
    BY <1>2, Movers DEF Expiry, KeyCacheExpires, LocCacheExpires, KeyLapses, ShardExpires,
      ListCacheExpires, vars
  <2>2. s = r
    BY <1>2, <2>1, OneMoves DEF StepOf
  <2> QED
    BY <2>1, <2>2, MovedCarriesNothing
<1> QED
  BY <1>1, <1>2

\* The status cache of a revoked key turns active only through a request that carries it.
LEMMA StatusOrigin ==
  ASSUME IInv, [Next]_vars, NEW k \in Keys, row[k] = "DEACTIVATED", keyCache'[k] = "ACTIVE"
  PROVE  keyCache[k] = "ACTIVE" \/ \E r \in Requests : Carries(r, k)
<1>0. keyCache \in [Keys -> Status \cup {"none"}]
  BY DEF IInv, TypeOK
<1>1. ASSUME NEW r \in Requests, RegisterStep(r)
      PROVE  keyCache'[k] = keyCache[k] \/ Carries(r, k)
  <2>1. CASE CacheNewKey(r)
    <3>1. req[r].pc = "cacheNew" /\ keyCache' = [keyCache EXCEPT ![req[r].key] = "ACTIVE"]
      BY <2>1 DEF CacheNewKey, At, Key
    <3>2. req[r].key # k => keyCache'[k] = keyCache[k]
      BY <1>0, <3>1
    <3>3. req[r].key = k => Carries(r, k)
      BY <3>1 DEF Carries, At, Key
    <3> QED
      BY <3>2, <3>3
  <2>2. CASE ~CacheNewKey(r)
    BY <1>1, <2>2 DEF RegisterStep, Distribute, DistributeFails, WarmLocations, AnnounceKey,
      CommitKey, DropList, redis
  <2> QED
    BY <2>1, <2>2
<1>2. ASSUME NEW r \in Requests, FindStep(r)
      PROVE  keyCache'[k] = keyCache[k] \/ Carries(r, k)
  BY <1>0, <1>2 DEF FindStep, FindHit, FindMiss, FindRow, FillKeyCache, GetReply, Carries, At, Key, redis
<1>3. ASSUME NEW r \in Requests, Arrive(r) \/ LocationStep(r) \/ RevokeStep(r) \/ ListStep(r)
                                 \/ CallStep(r) \/ IntentVerdict(r) \/ Fail(r)
      PROVE  keyCache' = keyCache
  BY <1>3 DEF Arrive, StartRegister, StartRevoke, StartGet, StartCall, StartList, LocationStep,
    LocationsHit, LocationsMiss, LocationsRows, LocationsNone, FillLocations, LocationsLost,
    RevokeStep, RevokeCheck, MarkRevoked, DeleteValues, DeleteValuesFails, DeleteRows,
    DeleteLocations, ListStep, ListHit, ListMiss, ListRows, FillListCache, CallStep, CallCheck,
    PublishAlert, LogBlocked, FetchShards, Execute, MeterCall, LogCall, IntentVerdict, Fail, redis
<1>4. CASE Expiry \/ UNCHANGED vars
  BY <1>0, <1>4 DEF Expiry, KeyCacheExpires, LocCacheExpires, KeyLapses, ShardExpires,
    ListCacheExpires, vars, redis
<1> QED
  BY <1>1, <1>2, <1>3, <1>4, Movers DEF StepOf, Serve

\* A value of a revoked key is not in Redis for ever: it expires if nobody deletes it.
ValueDies(k, s) == row[k] = "DEACTIVATED" ~> [](s \notin shardVals[k])

LEMMA ValuesExpire ==
  ASSUME NEW k \in Keys, NEW s \in Shards
  PROVE  FairSpec /\ []NothingIsStuck => ValueDies(k, s)
<1> DEFINE Revoked == row[k] = "DEACTIVATED"
           Stored == s \in shardVals[k]
<1>1. IInv /\ Revoked /\ [Next]_vars => Revoked' /\ (Stored' => Stored)
  BY RowsAdvance, ValuesOnlyGo
<1>2. IInv /\ <<ShardExpires(k, s)>>_vars => ~Stored'
  BY DEF ShardExpires, IInv, TypeOK
<1>3. NothingIsStuck /\ Stored => ENABLED <<ShardExpires(k, s)>>_vars
  BY DEF NothingIsStuck
<1>4. Fairness => FairShardTTL(k, s)
  BY DEF Fairness
<1>5. ~Stored => s \notin shardVals[k]
  OBVIOUS
<1> HIDE DEF Revoked, Stored
<1>6. FairSpec /\ []NothingIsStuck => (Revoked ~> [](s \notin shardVals[k]))
  BY <1>1, <1>2, <1>3, <1>4, <1>5, Invariance, PTL DEF FairSpec, Spec, FairShardTTL
<1> QED
  BY <1>6 DEF ValueDies, Revoked

\* A revoked key's secret dies, even if its revocation failed halfway, for any number of
\* keys, requests and shards: nothing writes a value of it, and the first value, which
\* every reconstruction needs, expires.
THEOREM RevokedKeysDie == FairSpec /\ []NothingIsStuck => RevokedKeyDies
<1>1. ASSUME NEW k \in Keys
      PROVE  FairSpec /\ []NothingIsStuck
               => (row[k] = "DEACTIVATED" ~> [](~(Selected(Shards) \subseteq shardVals[k])))
  <2>1. 1 \in Shards
    BY ShardCounts DEF Shards
  <2>2. FairSpec /\ []NothingIsStuck => ValueDies(k, 1)
    BY <2>1, ValuesExpire
  <2>3. 1 \notin shardVals[k] => ~(Selected(Shards) \subseteq shardVals[k])
    BY FirstSelected
  <2> QED
    BY <2>2, <2>3, PTL DEF ValueDies
<1> QED
  BY <1>1 DEF RevokedKeyDies

\* Every request that carries the old status of a revoked key writes it or fails, and
\* none carries it again.
Drains(r, k) == row[k] = "DEACTIVATED" ~> [](row[k] = "DEACTIVATED" /\ ~Carries(r, k))

THEOREM StaleWritersEnd ==
  ASSUME NEW r \in Requests, NEW k \in Keys
  PROVE  FairSpec /\ []NothingIsStuck => Drains(r, k)
<1> DEFINE Revoked == row[k] = "DEACTIVATED"
<1>1. IInv /\ Revoked /\ [Next]_vars => Revoked'
  BY RowsAdvance
<1>2. IInv /\ Revoked /\ ~Carries(r, k) /\ [Next]_vars => ~Carries(r, k)'
  BY NoNewCarrier
<1>3. IInv /\ Revoked /\ <<Serve(r)>>_vars => ~Carries(r, k)'
  BY MovedCarriesNothing DEF StepOf
<1>4. NothingIsStuck /\ Carries(r, k) => ENABLED <<Serve(r)>>_vars
  BY DEF NothingIsStuck, Carries, PCs, FindPCs, RegisterPCs, At
<1>5. Fairness => FairServing(r)
  BY DEF Fairness
<1> HIDE DEF Revoked
<1>6. FairSpec /\ []NothingIsStuck => (Revoked ~> [](Revoked /\ ~Carries(r, k)))
  BY <1>1, <1>2, <1>3, <1>4, <1>5, Invariance, PTL DEF FairSpec, Spec, FairServing
<1> QED
  BY <1>6 DEF Drains, Revoked

\* No request carries the old status of the revoked key k.
Quiet(k) == row[k] = "DEACTIVATED" /\ \A r \in Requests : ~Carries(r, k)
Forgets(k) == Quiet(k) ~> [](keyCache[k] # "ACTIVE")

\* Once the last stale writer is gone, the entry it left expires and none comes back.
THEOREM QuietKeysForget ==
  ASSUME NEW k \in Keys
  PROVE  FairSpec /\ []NothingIsStuck => Forgets(k)
<1> DEFINE Active == keyCache[k] = "ACTIVE"
<1>1. IInv /\ Quiet(k) /\ [Next]_vars => Quiet(k)'
  BY RowsAdvance, NoNewCarrier DEF Quiet
<1>2. IInv /\ Quiet(k) /\ ~Active /\ [Next]_vars => ~Active'
  BY StatusOrigin DEF Quiet
<1>3. IInv /\ <<KeyCacheExpires(k)>>_vars => ~Active'
  BY DEF KeyCacheExpires, IInv, TypeOK
<1>4. NothingIsStuck /\ Active => ENABLED <<KeyCacheExpires(k)>>_vars
  BY DEF NothingIsStuck
<1>5. Fairness => FairKeyTTL(k)
  BY DEF Fairness
<1>6. ~Active => keyCache[k] # "ACTIVE"
  OBVIOUS
<1> HIDE DEF Active
<1> QED
  BY <1>1, <1>2, <1>3, <1>4, <1>5, <1>6, Invariance, PTL DEF FairSpec, Spec, FairKeyTTL, Forgets

(***************************************************************************)
(* That all requests drain follows from each doing so.  For any finite     *)
(* number of them that is an induction over temporal formulas, which no    *)
(* prover here can do; doubling the stretch of requests replaces it, up to *)
(* a number of requests no process can hold.                               *)
(***************************************************************************)

\* The requests f[i + 1] to f[i + s] carry nothing of the revoked key k.
Clean(f, k, i, s) ==
  /\ row[k] = "DEACTIVATED"
  /\ \A j \in (i + 1) .. (i + s) : j \in DOMAIN f => ~Carries(f[j], k)

StretchDrains(f, k, i, s) == row[k] = "DEACTIVATED" ~> []Clean(f, k, i, s)
StretchesDrain(f, k, s) == \A i \in Nat : StretchDrains(f, k, i, s)

LEMMA Single ==
  ASSUME NEW n \in Nat, NEW f \in [1 .. n -> Requests], NEW k \in Keys
  PROVE  FairSpec /\ []NothingIsStuck => StretchesDrain(f, k, 1)
<1>1. ASSUME NEW i \in Nat
      PROVE  FairSpec /\ []NothingIsStuck => StretchDrains(f, k, i, 1)
  <2>1. CASE i + 1 \in 1 .. n
    <3>1. FairSpec /\ []NothingIsStuck => Drains(f[i + 1], k)
      BY <2>1, StaleWritersEnd
    <3>2. row[k] = "DEACTIVATED" /\ ~Carries(f[i + 1], k) => Clean(f, k, i, 1)
      BY DEF Clean
    <3> QED
      BY <3>1, <3>2, PTL DEF Drains, StretchDrains
  <2>2. CASE i + 1 \notin 1 .. n
    <3>1. IInv /\ row[k] = "DEACTIVATED" /\ [Next]_vars => (row[k] = "DEACTIVATED")'
      BY RowsAdvance
    <3>2. row[k] = "DEACTIVATED" => Clean(f, k, i, 1)
      BY <2>2 DEF Clean
    <3> QED
      BY <3>1, <3>2, Invariance, PTL DEF FairSpec, Spec, StretchDrains
  <2> QED
    BY <2>1, <2>2
<1> QED
  BY <1>1 DEF StretchesDrain

LEMMA Joined ==
  ASSUME NEW f, NEW k, NEW i \in Nat, NEW s \in Nat
  PROVE  StretchDrains(f, k, i, s) /\ StretchDrains(f, k, i + s, s)
           => StretchDrains(f, k, i, 2 * s)
<1>1. Clean(f, k, i, s) /\ Clean(f, k, i + s, s) => Clean(f, k, i, 2 * s)
  <2> SUFFICES ASSUME Clean(f, k, i, s), Clean(f, k, i + s, s),
                      NEW j \in (i + 1) .. (i + 2 * s), j \in DOMAIN f
               PROVE  ~Carries(f[j], k)
    BY DEF Clean
  <2>1. j \in (i + 1) .. (i + s) \/ j \in ((i + s) + 1) .. ((i + s) + s)
    OBVIOUS
  <2> QED
    BY <2>1 DEF Clean
<1> QED
  BY <1>1, PTL DEF StretchDrains

LEMMA Twofold ==
  ASSUME NEW f, NEW k, NEW s \in Nat
  PROVE  StretchesDrain(f, k, s) => StretchesDrain(f, k, 2 * s)
<1> SUFFICES ASSUME StretchesDrain(f, k, s), NEW i \in Nat
             PROVE  StretchDrains(f, k, i, 2 * s)
  BY DEF StretchesDrain
<1>1. StretchDrains(f, k, i, s) /\ StretchDrains(f, k, i + s, s)
  BY DEF StretchesDrain
<1> QED
  BY <1>1, Joined

LEMMA ThirtyTwofold ==
  ASSUME NEW f, NEW k, NEW s \in Nat
  PROVE  StretchesDrain(f, k, s) => StretchesDrain(f, k, 32 * s)
<1> SUFFICES ASSUME StretchesDrain(f, k, s) PROVE StretchesDrain(f, k, 32 * s)
  OBVIOUS
<1>1. /\ 2 * s \in Nat /\ 2 * (2 * s) = 4 * s /\ 4 * s \in Nat /\ 2 * (4 * s) = 8 * s
      /\ 8 * s \in Nat /\ 2 * (8 * s) = 16 * s /\ 16 * s \in Nat /\ 2 * (16 * s) = 32 * s
  OBVIOUS
<1>2. StretchesDrain(f, k, 2 * s)
  BY Twofold
<1>3. StretchesDrain(f, k, 4 * s)
  BY <1>1, <1>2, Twofold
<1>4. StretchesDrain(f, k, 8 * s)
  BY <1>1, <1>3, Twofold
<1>5. StretchesDrain(f, k, 16 * s)
  BY <1>1, <1>4, Twofold
<1> QED
  BY <1>1, <1>5, Twofold

\* 2^20 requests: more than one Node.js process holds at a time.
MostRequests == 32 * (32 * (32 * (32 * 1)))

LEMMA AllDrain ==
  ASSUME NEW f, NEW k
  PROVE  StretchesDrain(f, k, 1) => StretchesDrain(f, k, MostRequests)
<1>1. StretchesDrain(f, k, 1) => StretchesDrain(f, k, 32 * 1)
  BY ThirtyTwofold
<1>2. StretchesDrain(f, k, 32 * 1) => StretchesDrain(f, k, 32 * (32 * 1))
  BY ThirtyTwofold
<1>3. StretchesDrain(f, k, 32 * (32 * 1)) => StretchesDrain(f, k, 32 * (32 * (32 * 1)))
  BY ThirtyTwofold
<1>4. StretchesDrain(f, k, 32 * (32 * (32 * 1))) => StretchesDrain(f, k, MostRequests)
  BY ThirtyTwofold DEF MostRequests
<1> QED
  BY <1>1, <1>2, <1>3, <1>4

\* Together: a key that was revoked looks active for a while only, whatever requests are
\* served, up to 2^20 at a time.
THEOREM StaleStatusEnds ==
  ASSUME Cardinality(Requests) <= MostRequests
  PROVE  FairSpec /\ []NothingIsStuck => StaleStatusDies
<1>1. ASSUME NEW k \in Keys
      PROVE  FairSpec /\ []NothingIsStuck => (row[k] = "DEACTIVATED" ~> [](keyCache[k] # "ACTIVE"))
  <2>1. PICK n \in Nat : n = Cardinality(Requests)
    BY FS_CardinalityType
  <2>2. PICK f \in [1 .. n -> Requests] : \A r \in Requests : \E j \in 1 .. n : f[j] = r
    BY <2>1, FS_CardinalityType DEF ExistsBijection, Bijection, Surjection
  <2>3. FairSpec /\ []NothingIsStuck => StretchDrains(f, k, 0, MostRequests)
    <3>1. FairSpec /\ []NothingIsStuck => StretchesDrain(f, k, MostRequests)
      BY Single, AllDrain
    <3> QED
      BY <3>1, SMT DEF StretchesDrain
  <2>4. Clean(f, k, 0, MostRequests) => Quiet(k)
    <3>1. MostRequests \in Nat
      BY SMT DEF MostRequests
    <3>2. \A j \in 1 .. n : j \in (0 + 1) .. (0 + MostRequests) /\ j \in DOMAIN f
      BY <2>1, <3>1
    <3> QED
      BY <2>2, <3>2 DEF Quiet, Clean
  <2>5. FairSpec /\ []NothingIsStuck => Forgets(k)
    BY QuietKeysForget
  <2> QED
    BY <2>3, <2>4, <2>5, PTL DEF StretchDrains, Forgets
<1> QED
  BY <1>1 DEF StaleStatusDies
=============================================================================
