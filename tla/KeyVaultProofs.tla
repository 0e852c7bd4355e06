--------------------------- MODULE KeyVaultProofs ---------------------------
(***************************************************************************)
(* Proofs about KeyVault, for every set of keys, users and requests and    *)
(* every number of shards.                                                 *)
(***************************************************************************)
EXTENDS KeyVault, FiniteSetTheorems, TLAPS

USE ShardCounts, CallBound, Placeholders

(***************************************************************************)
(* The inductive invariant: what holds of every key, of every request, and *)
(* of two registrations.                                                   *)
(***************************************************************************)

PreCommit == {"distribute", "warm", "announce", "commit"}
Keyless == ListPCs \cup {"idle"}
\* The steps a request reaches only when findById, or its own commit, gave a row.
Found == {"cacheSet", "cacheNew"} \cup LocPCs \cup RevokePCs \cup CallPCs
\* The steps of a revocation after MarkRevoked.
Revoking(r) == \/ req[r].pc \in {"delVals", "delRows", "delLoc"}
               \/ req[r].pc \in LocPCs /\ req[r].op = "revoke"

KeyOK(k) ==
  /\ row[k] # "none" => owner[k] # NoUser /\ k \in announced
  /\ row[k] = "ACTIVE" => shardRows[k] = Shards
  /\ locCache[k] \in {{}, Shards} /\ shardRows[k] \in {{}, Shards}
  /\ keyCache[k] # "none" => row[k] # "none"
  /\ keyCache[k] = "DEACTIVATED" => row[k] = "DEACTIVATED"
  /\ row[k] # "none" /\ shardRows[k] = {} => k \in blind \/ shardVals[k] = {}
  /\ k \in confirmed => row[k] = "DEACTIVATED" /\ shardVals[k] = {}

RequestOK(r) ==
  /\ req[r].pc \notin Keyless => Key(r) \in Keys
  /\ req[r].pc \in PreCommit => owner[Key(r)] # NoUser /\ row[Key(r)] = "none"
  /\ req[r].pc = "commit" => Key(r) \in announced
  /\ req[r].pc \in Found => row[Key(r)] # "none"
  /\ req[r].pc \in {"check", "cacheSet"} =>
       /\ req[r].seen # "none" => row[Key(r)] # "none"
       /\ req[r].seen = "DEACTIVATED" => row[Key(r)] = "DEACTIVATED"
  /\ req[r].pc \in {"locSet", "delVals", "fetch"} => req[r].locs = Shards
  /\ req[r].pc = "intent" => req[r].op = "call"
  /\ Revoking(r) => row[Key(r)] = "DEACTIVATED"
  /\ req[r].pc \in {"delRows", "delLoc"} => Key(r) \in blind \/ shardVals[Key(r)] = {}

\* An id belongs to one registration.
IdsDiffer ==
  \A r, s \in Requests : r # s /\ req[r].pc \in PreCommit /\ req[s].pc \in PreCommit =>
    Key(r) # Key(s)

IInv ==
  /\ TypeOK
  /\ \A k \in Keys : KeyOK(k)
  /\ \A r \in Requests : RequestOK(r)
  /\ IdsDiffer

(***************************************************************************)
(* What a step does to the requests.                                       *)
(***************************************************************************)

\* Only r moves.
OthersStay(r) ==
  /\ req' \in [Requests -> Request]
  /\ \A s \in Requests : s # r => req'[s] = req[s]

\* Go changes the program counter and nothing else of the request.
LEMMA GoMoves ==
  ASSUME req \in [Requests -> Request], NEW r \in Requests, NEW p \in PCs \cup {"idle"}, Go(r, p)
  PROVE  /\ OthersStay(r)
         /\ req'[r].pc = p /\ req'[r].op = req[r].op /\ req'[r].key = req[r].key
         /\ req'[r].user = req[r].user /\ req'[r].seen = req[r].seen
         /\ req'[r].locs = req[r].locs /\ req'[r].list = req[r].list
<1>1. [req[r] EXCEPT !.pc = p] \in Request
  BY DEF Request
<1> QED
  BY <1>1 DEF Go, Request, OthersStay

\* Done frees the slot.
LEMMA DoneMoves ==
  ASSUME req \in [Requests -> Request], NEW r \in Requests, Done(r)
  PROVE  OthersStay(r) /\ req'[r] = Idle
<1>1. Idle \in Request
  BY DEF Idle, Request, Listing
<1> QED
  BY <1>1 DEF Done, OthersStay

\* GoSeeing also sets what the handler knows of the key.
LEMMA SeeingMoves ==
  ASSUME req \in [Requests -> Request], NEW r \in Requests, NEW p \in PCs,
         NEW status \in Status \cup {"none"}, NEW fromRow \in BOOLEAN,
         GoSeeing(r, p, status, fromRow)
  PROVE  /\ OthersStay(r)
         /\ req'[r].pc = p /\ req'[r].op = req[r].op /\ req'[r].key = req[r].key
         /\ req'[r].seen = status /\ req'[r].locs = req[r].locs
<1>1. [req[r] EXCEPT !.pc = p, !.seen = status, !.fresh = fromRow] \in Request
  BY DEF Request
<1> QED
  BY <1>1 DEF GoSeeing, Request, OthersStay

\* GoLocated also sets the locations it holds.
LEMMA LocatedMoves ==
  ASSUME req \in [Requests -> Request], NEW r \in Requests, NEW p \in PCs,
         NEW locs \in SUBSET Shards, GoLocated(r, p, locs)
  PROVE  /\ OthersStay(r)
         /\ req'[r].pc = p /\ req'[r].op = req[r].op /\ req'[r].key = req[r].key
         /\ req'[r].seen = req[r].seen /\ req'[r].locs = locs
<1>1. [req[r] EXCEPT !.pc = p, !.locs = locs] \in Request
  BY DEF Request
<1> QED
  BY <1>1 DEF GoLocated, Request, OthersStay

\* Start fills a free slot.
LEMMA StartMoves ==
  ASSUME req \in [Requests -> Request], NEW r \in Requests, NEW op \in Ops, NEW p \in PCs,
         NEW k \in Keys \cup {NoKey}, NEW u \in Users \cup {NoUser}, Start(r, op, p, k, u)
  PROVE  /\ OthersStay(r)
         /\ req[r].pc = "idle"
         /\ req'[r].pc = p /\ req'[r].op = op /\ req'[r].key = k /\ req'[r].user = u
<1>1. [Idle EXCEPT !.pc = p, !.op = op, !.key = k, !.user = u] \in Request
  BY DEF Idle, Request, Listing
<1>2. /\ [Idle EXCEPT !.pc = p, !.op = op, !.key = k, !.user = u].pc = p
      /\ [Idle EXCEPT !.pc = p, !.op = op, !.key = k, !.user = u].op = op
      /\ [Idle EXCEPT !.pc = p, !.op = op, !.key = k, !.user = u].key = k
      /\ [Idle EXCEPT !.pc = p, !.op = op, !.key = k, !.user = u].user = u
  BY DEF Idle
<1> QED
  BY <1>1, <1>2 DEF Start, OthersStay, At

(***************************************************************************)
(* Frames: what a step need not be asked about.                            *)
(***************************************************************************)

shared == <<postgres, redis, kafka, lapsed, history>>
core == <<row, owner, shardRows, keyCache, shardVals, locCache, announced, blind, confirmed>>

\* Steps under which the other requests' conditions are stable.
Forward ==
  /\ row' = row /\ owner' = owner
  /\ \A k \in Keys : shardVals'[k] \subseteq shardVals[k]
  /\ blind \subseteq blind' /\ announced \subseteq announced'

\* Moving one request keeps every request typed.
LEMMA LocalType ==
  ASSUME TypeOK, NEW r \in Requests, OthersStay(r), UNCHANGED shared
  PROVE  TypeOK'
BY DEF TypeOK, OthersStay, shared, postgres, redis, kafka, history

\* The other requests stay right while the shared state goes forward.
LEMMA OthersOK ==
  ASSUME IInv, NEW r \in Requests, OthersStay(r), Forward
  PROVE  \A s \in Requests : s # r => RequestOK(s)'
<1> SUFFICES ASSUME NEW s \in Requests, s # r PROVE RequestOK(s)'
  OBVIOUS
<1>1. req'[s] = req[s] /\ RequestOK(s)
  BY DEF IInv, OthersStay
<1>2. CASE req[s].pc \in Keyless
  BY <1>1, <1>2 DEF RequestOK, Keyless, ListPCs, PreCommit, Found, LocPCs, RevokePCs, CallPCs,
    Revoking
<1>3. CASE req[s].pc \notin Keyless
  <2>1. Key(s) \in Keys
    BY <1>1, <1>3 DEF RequestOK
  <2>2. shardVals'[Key(s)] \subseteq shardVals[Key(s)]
    BY <2>1 DEF Forward
  <2> QED
    BY <1>1, <2>1, <2>2 DEF RequestOK, Forward, Key, Revoking
<1> QED
  BY <1>2, <1>3

\* No id comes to be shared unless r enters a registration.
LEMMA IdsStay ==
  ASSUME IInv, NEW r \in Requests, OthersStay(r),
         req'[r].pc \in PreCommit => req[r].pc \in PreCommit /\ req'[r].key = req[r].key
  PROVE  IdsDiffer'
BY DEF IInv, IdsDiffer, OthersStay, Key

\* A step that leaves the stores alone only has to be right about its request.
LEMMA QuietStep ==
  ASSUME IInv, NEW r \in Requests, OthersStay(r), UNCHANGED core, TypeOK', RequestOK(r)',
         req'[r].pc \in PreCommit => req[r].pc \in PreCommit /\ req'[r].key = req[r].key
  PROVE  IInv'
<1>1. \A k \in Keys : KeyOK(k)'
  BY DEF IInv, KeyOK, core
<1>2. Forward
  BY DEF Forward, core
<1>3. \A s \in Requests : RequestOK(s)'
  BY <1>2, OthersOK
<1> QED
  BY <1>1, <1>3, IdsStay DEF IInv

\* A freed slot has nothing to be wrong about.
LEMMA IdleOK ==
  ASSUME NEW r \in Requests, req'[r] = Idle
  PROVE  RequestOK(r)' /\ req'[r].pc \notin PreCommit
BY DEF Idle, RequestOK, Keyless, ListPCs, PreCommit, Found, LocPCs, RevokePCs, CallPCs, Revoking

\* A handler that ends without touching the stores.
LEMMA DoneOK ==
  ASSUME IInv, NEW r \in Requests, Done(r), UNCHANGED core, UNCHANGED shared \/ TypeOK'
  PROVE  IInv'
<1>1. OthersStay(r) /\ req'[r] = Idle
  BY DoneMoves DEF IInv, TypeOK
<1>2. TypeOK'
  BY <1>1, LocalType DEF IInv
<1> QED
  BY <1>1, <1>2, IdleOK, QuietStep

(***************************************************************************)
(* One lemma per operation, one step per action.                           *)
(***************************************************************************)

USE DEF At, Key, PCs, FindPCs, LocPCs, RegisterPCs, RevokePCs, CallPCs, ListPCs,
        PreCommit, Keyless, Found

\* A request past the arrival names a key, and that key is right.
LEMMA KeyOfRequest ==
  ASSUME IInv, NEW r \in Requests, req[r].pc \notin Keyless
  PROVE  RequestOK(r) /\ Key(r) \in Keys /\ KeyOK(Key(r))
BY DEF IInv, RequestOK

\* findById.
LEMMA FindKeeps ==
  ASSUME IInv, NEW r \in Requests, FindStep(r)
  PROVE  IInv'
<1>1. CASE FindHit(r)
  <2>1. RequestOK(r) /\ Key(r) \in Keys /\ KeyOK(Key(r))
    BY <1>1, KeyOfRequest DEF FindHit
  <2>2. /\ OthersStay(r)
        /\ req'[r].pc = "check" /\ req'[r].key = req[r].key /\ req'[r].seen = keyCache[Key(r)]
    <3>1. keyCache[Key(r)] \in Status \cup {"none"} /\ req \in [Requests -> Request]
      BY <2>1 DEF IInv, TypeOK
    <3>2. GoSeeing(r, "check", keyCache[Key(r)], FALSE)
      BY <1>1 DEF FindHit
    <3> QED
      BY <3>1, <3>2, SeeingMoves
  <2>3. TypeOK' /\ UNCHANGED core
    BY <1>1, <2>2, LocalType DEF IInv, FindHit, shared, core, postgres, redis, kafka, history
  <2>4. RequestOK(r)'
    BY <2>1, <2>2, <2>3 DEF RequestOK, KeyOK, core, Revoking
  <2> QED
    BY <2>2, <2>3, <2>4, QuietStep
<1>2. CASE FindMiss(r)
  <2>1. RequestOK(r) /\ req[r].pc = "cacheGet"
    BY <1>2, KeyOfRequest DEF FindMiss
  <2>2. OthersStay(r) /\ req'[r].pc = "dbFind" /\ req'[r].key = req[r].key
    BY <1>2, GoMoves DEF IInv, TypeOK, FindMiss
  <2>3. TypeOK' /\ UNCHANGED core
    BY <1>2, <2>2, LocalType DEF IInv, FindMiss, shared, core, postgres, redis, kafka, history
  <2>4. RequestOK(r)'
    BY <2>1, <2>2, <2>3 DEF RequestOK, core, Revoking
  <2> QED
    BY <2>2, <2>3, <2>4, QuietStep
<1>3. CASE FindRow(r)
  <2>1. RequestOK(r) /\ Key(r) \in Keys /\ KeyOK(Key(r)) /\ req[r].pc = "dbFind"
    BY <1>3, KeyOfRequest DEF FindRow
  <2>2. /\ OthersStay(r)
        /\ req'[r].pc = IF row[Key(r)] = "none" THEN "check" ELSE "cacheSet"
        /\ req'[r].key = req[r].key /\ req'[r].seen = row[Key(r)]
    <3> DEFINE p == IF row[Key(r)] = "none" THEN "check" ELSE "cacheSet"
    <3>1. row[Key(r)] \in Status \cup {"none"} /\ req \in [Requests -> Request]
      BY <2>1 DEF IInv, TypeOK
    <3>2. p \in PCs
      OBVIOUS
    <3>3. GoSeeing(r, p, row[Key(r)], TRUE)
      BY <1>3 DEF FindRow
    <3> HIDE DEF p
    <3>4. /\ OthersStay(r)
          /\ req'[r].pc = p /\ req'[r].key = req[r].key /\ req'[r].seen = row[Key(r)]
      BY <3>1, <3>2, <3>3, SeeingMoves
    <3> QED
      BY <3>4 DEF p
  <2>3. TypeOK' /\ UNCHANGED core
    BY <1>3, <2>2, LocalType DEF IInv, FindRow, shared, core, postgres, redis, kafka, history
  <2>4. RequestOK(r)'
    BY <2>1, <2>2, <2>3 DEF RequestOK, core, Revoking
  <2> QED
    BY <2>2, <2>3, <2>4, QuietStep
<1>4. CASE FillKeyCache(r)
  <2>1. RequestOK(r) /\ Key(r) \in Keys /\ KeyOK(Key(r)) /\ req[r].pc = "cacheSet"
    BY <1>4, KeyOfRequest DEF FillKeyCache
  <2>2. /\ OthersStay(r)
        /\ req'[r].pc = "check" /\ req'[r].key = req[r].key /\ req'[r].seen = req[r].seen
    BY <1>4, GoMoves DEF IInv, TypeOK, FillKeyCache
  <2>3. TypeOK' /\ Forward
    <3>1. req[r].seen \in Status \cup {"none"}
      BY DEF IInv, TypeOK, Request
    <3> QED
      BY <1>4, <2>2, <3>1 DEF IInv, TypeOK, FillKeyCache, OthersStay, Forward, postgres, kafka,
        history
  <2>4. \A k \in Keys : KeyOK(k)'
    BY <1>4, <2>1 DEF IInv, TypeOK, KeyOK, RequestOK, FillKeyCache, postgres, kafka, history
  <2>5. RequestOK(r)'
    BY <2>1, <2>2, <2>3 DEF RequestOK, Forward, Revoking
  <2> QED
    BY <2>2, <2>3, <2>4, <2>5, OthersOK, IdsStay DEF IInv
<1>5. CASE GetReply(r)
  BY <1>5, DoneOK DEF GetReply, shared, core, postgres, redis, kafka, history
<1> QED
  BY <1>1, <1>2, <1>3, <1>4, <1>5 DEF FindStep

\* Arrivals.
LEMMA ArriveKeeps ==
  ASSUME IInv, NEW r \in Requests, Arrive(r)
  PROVE  IInv'
<1>1. ASSUME NEW k \in Keys, NEW u \in Users, StartRegister(r, k, u) PROVE IInv'
  <2>1. /\ OthersStay(r) /\ req[r].pc = "idle"
        /\ req'[r].pc = "distribute" /\ req'[r].key = k
    BY <1>1, StartMoves DEF IInv, TypeOK, StartRegister, Ops
  <2>2. TypeOK'
    BY <1>1, <2>1 DEF IInv, TypeOK, StartRegister, OthersStay, redis, kafka, history
  <2>3. row[k] = "none" /\ owner[k] = NoUser
    BY <1>1 DEF IInv, KeyOK, StartRegister
  <2>4. \A j \in Keys : owner'[j] = IF j = k THEN u ELSE owner[j]
    BY <1>1 DEF IInv, TypeOK, StartRegister
  <2>5. \A j \in Keys : KeyOK(j)'
    BY <1>1, <2>3, <2>4 DEF IInv, KeyOK, StartRegister, redis, kafka, history
  <2>6. RequestOK(r)'
    BY <1>1, <2>1, <2>3, <2>4 DEF RequestOK, Revoking, StartRegister
  <2>7. ASSUME NEW s \in Requests, s # r PROVE RequestOK(s)' /\ (req[s].pc \in PreCommit => Key(s) # k)
    BY <1>1, <2>1, <2>3, <2>4, <2>7 DEF IInv, RequestOK, Revoking, StartRegister, OthersStay, redis,
      kafka, history
  <2>8. IdsDiffer'
    BY <2>1, <2>7 DEF IInv, IdsDiffer, OthersStay
  <2> QED
    BY <2>2, <2>5, <2>6, <2>7, <2>8 DEF IInv
<1>2. ASSUME NEW k \in Keys, NEW u \in Users, StartRevoke(r, k, u) PROVE IInv'
  <2>1. OthersStay(r) /\ req'[r].pc = "cacheGet" /\ req'[r].key = k
    BY <1>2, StartMoves DEF IInv, TypeOK, StartRevoke, Ops
  <2>2. TypeOK' /\ UNCHANGED core
    BY <1>2, <2>1, LocalType DEF IInv, StartRevoke, shared, core, postgres, redis, kafka, history
  <2> QED
    BY <2>1, <2>2, QuietStep DEF RequestOK, Revoking
<1>3. ASSUME NEW k \in Keys, StartGet(r, k) PROVE IInv'
  <2>1. OthersStay(r) /\ req'[r].pc = "cacheGet" /\ req'[r].key = k
    BY <1>3, StartMoves DEF IInv, TypeOK, StartGet, Ops
  <2>2. TypeOK' /\ UNCHANGED core
    BY <1>3, <2>1, LocalType DEF IInv, StartGet, shared, core, postgres, redis, kafka, history
  <2> QED
    BY <2>1, <2>2, QuietStep DEF RequestOK, Revoking
<1>4. ASSUME NEW k \in Keys, StartCall(r, k) PROVE IInv'
  <2>1. OthersStay(r) /\ req'[r].pc = "cacheGet" /\ req'[r].key = k
    BY <1>4, StartMoves DEF IInv, TypeOK, StartCall, Ops
  <2>2. TypeOK' /\ UNCHANGED core
    BY <1>4, <2>1 DEF IInv, TypeOK, StartCall, OthersStay, core, postgres, redis, kafka
  <2> QED
    BY <2>1, <2>2, QuietStep DEF RequestOK, Revoking
<1>5. ASSUME NEW u \in Users, StartList(r, u) PROVE IInv'
  <2>1. OthersStay(r) /\ req'[r].pc = "listGet"
    BY <1>5, StartMoves DEF IInv, TypeOK, StartList, Ops
  <2>2. TypeOK' /\ UNCHANGED core
    BY <1>5, <2>1, LocalType DEF IInv, StartList, shared, core, postgres, redis, kafka, history
  <2> QED
    BY <2>1, <2>2, QuietStep DEF RequestOK, Revoking
<1> QED
  BY <1>1, <1>2, <1>3, <1>4, <1>5 DEF Arrive

\* Writing the values of a key nobody can see yet.
LEMMA UnseenValues ==
  ASSUME IInv, NEW r \in Requests, req[r].pc = "distribute", NEW S \in SUBSET Shards,
         shardVals' = [shardVals EXCEPT ![Key(r)] = S], OthersStay(r),
         UNCHANGED <<row, owner, shardRows, keyCache, locCache, announced, blind, confirmed>>
  PROVE  /\ shardVals' \in [Keys -> SUBSET Shards]
         /\ \A k \in Keys : KeyOK(k)'
         /\ \A s \in Requests : s # r => RequestOK(s)'
<1>1. Key(r) \in Keys /\ row[Key(r)] = "none"
  BY KeyOfRequest DEF RequestOK
<1>2. \A k \in Keys : shardVals'[k] = IF k = Key(r) THEN S ELSE shardVals[k]
  BY DEF IInv, TypeOK
<1>3. shardVals' \in [Keys -> SUBSET Shards]
  BY DEF IInv, TypeOK
<1>4. \A k \in Keys : KeyOK(k)'
  BY <1>1, <1>2 DEF IInv, KeyOK
<1>5. ASSUME NEW s \in Requests, s # r PROVE RequestOK(s)'
  BY <1>1, <1>2, <1>5 DEF IInv, RequestOK, OthersStay, Revoking
<1> QED
  BY <1>3, <1>4, <1>5

\* registerKey.
LEMMA RegisterKeeps ==
  ASSUME IInv, NEW r \in Requests, RegisterStep(r)
  PROVE  IInv'
<1>1. CASE Distribute(r)
  <2>1. RequestOK(r) /\ req[r].pc = "distribute"
    BY <1>1, KeyOfRequest DEF Distribute
  <2>2. OthersStay(r) /\ req'[r].pc = "warm" /\ req'[r].key = req[r].key
    BY <1>1, GoMoves DEF IInv, TypeOK, Distribute
  <2>3. /\ shardVals' \in [Keys -> SUBSET Shards]
        /\ \A k \in Keys : KeyOK(k)'
        /\ \A s \in Requests : s # r => RequestOK(s)'
    BY <1>1, <2>1, <2>2, UnseenValues DEF Distribute, postgres, kafka, history
  <2>4. TypeOK'
    BY <1>1, <2>2, <2>3 DEF IInv, TypeOK, Distribute, OthersStay, postgres, kafka, history
  <2>5. RequestOK(r)'
    BY <1>1, <2>1, <2>2 DEF RequestOK, Revoking, Distribute, postgres
  <2> QED
    BY <2>1, <2>2, <2>3, <2>4, <2>5, IdsStay DEF IInv
<1>2. CASE DistributeFails(r)
  <2>1. OthersStay(r) /\ req'[r] = Idle
    BY <1>2, DoneMoves DEF IInv, TypeOK, DistributeFails
  <2>2. PICK S \in SUBSET Shards : shardVals' = [shardVals EXCEPT ![Key(r)] = S]
    BY <1>2 DEF DistributeFails
  <2>3. /\ shardVals' \in [Keys -> SUBSET Shards]
        /\ \A k \in Keys : KeyOK(k)'
        /\ \A s \in Requests : s # r => RequestOK(s)'
    BY <1>2, <2>1, <2>2, UnseenValues DEF DistributeFails, postgres, kafka, history
  <2>4. TypeOK'
    BY <1>2, <2>1, <2>3 DEF IInv, TypeOK, DistributeFails, OthersStay, postgres, kafka, history
  <2> QED
    BY <2>1, <2>3, <2>4, IdleOK, IdsStay DEF IInv
<1>3. CASE WarmLocations(r)
  <2>1. RequestOK(r) /\ Key(r) \in Keys /\ req[r].pc = "warm"
    BY <1>3, KeyOfRequest DEF WarmLocations
  <2>2. OthersStay(r) /\ req'[r].pc = "announce" /\ req'[r].key = req[r].key
    BY <1>3, GoMoves DEF IInv, TypeOK, WarmLocations
  <2>3. TypeOK' /\ Forward
    BY <1>3, <2>2 DEF IInv, TypeOK, WarmLocations, OthersStay, Forward, postgres, kafka, history
  <2>4. \A k \in Keys : KeyOK(k)'
    BY <1>3 DEF IInv, TypeOK, KeyOK, WarmLocations, postgres, kafka, history
  <2>5. RequestOK(r)'
    BY <2>1, <2>2, <2>3 DEF RequestOK, Revoking, Forward
  <2> QED
    BY <2>1, <2>2, <2>3, <2>4, <2>5, OthersOK, IdsStay DEF IInv
<1>4. CASE AnnounceKey(r)
  <2>1. RequestOK(r) /\ Key(r) \in Keys /\ req[r].pc = "announce"
    BY <1>4, KeyOfRequest DEF AnnounceKey
  <2>2. /\ OthersStay(r)
        /\ req'[r] = Idle \/ (req'[r].pc = "commit" /\ req'[r].key = req[r].key)
    BY <1>4, GoMoves, DoneMoves DEF IInv, TypeOK, AnnounceKey
  <2>3. TypeOK' /\ Forward
    BY <1>4, <2>1, <2>2 DEF IInv, TypeOK, AnnounceKey, OthersStay, Forward, postgres, redis, history
  <2>4. \A k \in Keys : KeyOK(k)'
    BY <1>4 DEF IInv, KeyOK, AnnounceKey, postgres, redis, history
  <2>5. RequestOK(r)'
    BY <1>4, <2>1, <2>2, <2>3, IdleOK DEF RequestOK, Revoking, Forward, AnnounceKey
  <2> QED
    BY <2>1, <2>2, <2>3, <2>4, <2>5, IdleOK, OthersOK, IdsStay DEF IInv
<1>5. CASE CommitKey(r)
  <2>1. RequestOK(r) /\ Key(r) \in Keys /\ req[r].pc = "commit" /\ KeyOK(Key(r))
    BY <1>5, KeyOfRequest DEF CommitKey
  <2>2. OthersStay(r) /\ req'[r].pc = "cacheNew" /\ req'[r].key = req[r].key
    BY <1>5, GoMoves DEF IInv, TypeOK, CommitKey
  <2>3. TypeOK'
    <3>1. row' \in [Keys -> Status \cup {"none"}] /\ shardRows' \in [Keys -> SUBSET Shards]
      BY <1>5 DEF IInv, TypeOK, CommitKey, Status
    <3> QED
      BY <1>5, <2>2, <3>1 DEF IInv, TypeOK, CommitKey, OthersStay, redis, kafka, history
  <2>4. /\ \A k \in Keys : row'[k] = IF k = Key(r) THEN "ACTIVE" ELSE row[k]
        /\ \A k \in Keys : shardRows'[k] = IF k = Key(r) THEN Shards ELSE shardRows[k]
    BY <1>5 DEF IInv, TypeOK, CommitKey
  <2>5. \A k \in Keys : KeyOK(k)'
    <3>1. Shards # {}
      BY DEF Shards
    <3> QED
      BY <1>5, <2>1, <2>4, <3>1 DEF IInv, KeyOK, RequestOK, CommitKey, redis, kafka, history
  <2>6. RequestOK(r)'
    BY <2>1, <2>2, <2>4 DEF RequestOK, Revoking
  <2>7. ASSUME NEW s \in Requests, s # r PROVE RequestOK(s)'
    <3>1. req[s].pc \in PreCommit => Key(s) # Key(r)
      BY <2>1, <2>7 DEF IInv, IdsDiffer
    <3> QED
      BY <1>5, <2>1, <2>2, <2>4, <2>7, <3>1 DEF IInv, RequestOK, OthersStay, Revoking, CommitKey,
        redis, kafka, history
  <2> QED
    BY <2>2, <2>3, <2>5, <2>6, <2>7, IdsStay DEF IInv
<1>6. CASE CacheNewKey(r)
  <2>1. RequestOK(r) /\ Key(r) \in Keys /\ req[r].pc = "cacheNew" /\ KeyOK(Key(r))
    BY <1>6, KeyOfRequest DEF CacheNewKey
  <2>2. OthersStay(r) /\ req'[r].pc = "dropList" /\ req'[r].key = req[r].key
    BY <1>6, GoMoves DEF IInv, TypeOK, CacheNewKey
  <2>3. TypeOK' /\ Forward
    BY <1>6, <2>2 DEF IInv, TypeOK, CacheNewKey, OthersStay, Forward, Status, postgres, kafka, history
  <2>4. \A k \in Keys : KeyOK(k)'
    BY <1>6, <2>1 DEF IInv, TypeOK, KeyOK, RequestOK, CacheNewKey, postgres, kafka, history
  <2>5. RequestOK(r)'
    BY <2>1, <2>2, <2>3 DEF RequestOK, Revoking, Forward
  <2> QED
    BY <2>2, <2>3, <2>4, <2>5, OthersOK, IdsStay DEF IInv
<1>7. CASE DropList(r)
  <2>1. OthersStay(r)
    BY <1>7, DoneMoves DEF IInv, TypeOK, DropList
  <2>2. TypeOK'
    BY <1>7, <2>1 DEF IInv, TypeOK, DropList, OthersStay, postgres, kafka, history
  <2> QED
    BY <1>7, <2>2, DoneOK DEF DropList, core, postgres, kafka, history
<1> QED
  BY <1>1, <1>2, <1>3, <1>4, <1>5, <1>6, <1>7 DEF RegisterStep

\* getLocations.
LEMMA LocationsKeeps ==
  ASSUME IInv, NEW r \in Requests, LocationStep(r)
  PROVE  IInv'
<1> DEFINE next == IF req[r].op = "revoke" THEN "delVals" ELSE "fetch"
<1>a. req \in [Requests -> Request] /\ next \in PCs
  BY DEF IInv, TypeOK
<1>1. CASE LocationsHit(r)
  <2>1. RequestOK(r) /\ Key(r) \in Keys /\ KeyOK(Key(r)) /\ req[r].pc = "locGet"
    BY <1>1, KeyOfRequest DEF LocationsHit
  <2>2. locCache[Key(r)] = Shards /\ locCache[Key(r)] \in SUBSET Shards
    BY <1>1, <2>1 DEF KeyOK, LocationsHit
  <2>3. GoLocated(r, next, locCache[Key(r)])
    BY <1>1 DEF LocationsHit, Located
  <2>4. /\ OthersStay(r) /\ req'[r].pc = next /\ req'[r].op = req[r].op
        /\ req'[r].key = req[r].key /\ req'[r].locs = Shards
    <3> HIDE DEF next
    <3> QED
      BY <1>a, <2>2, <2>3, LocatedMoves
  <2>5. TypeOK' /\ UNCHANGED core
    BY <1>1, <2>4, LocalType DEF IInv, LocationsHit, shared, core, postgres, redis, kafka, history
  <2>6. RequestOK(r)'
    BY <2>1, <2>4, <2>5 DEF RequestOK, Revoking, core
  <2> QED
    BY <2>4, <2>5, <2>6, QuietStep
<1>2. CASE LocationsMiss(r)
  <2>1. RequestOK(r) /\ req[r].pc = "locGet"
    BY <1>2, KeyOfRequest DEF LocationsMiss
  <2>2. /\ OthersStay(r) /\ req'[r].pc = "locRows" /\ req'[r].op = req[r].op
        /\ req'[r].key = req[r].key
    BY <1>2, GoMoves DEF IInv, TypeOK, LocationsMiss
  <2>3. TypeOK' /\ UNCHANGED core
    BY <1>2, <2>2, LocalType DEF IInv, LocationsMiss, shared, core, postgres, redis, kafka, history
  <2>4. RequestOK(r)'
    BY <2>1, <2>2, <2>3 DEF RequestOK, Revoking, core
  <2> QED
    BY <2>2, <2>3, <2>4, QuietStep
<1>3. CASE LocationsRows(r)
  <2>1. RequestOK(r) /\ Key(r) \in Keys /\ KeyOK(Key(r)) /\ req[r].pc = "locRows"
    BY <1>3, KeyOfRequest DEF LocationsRows
  <2>2. shardRows[Key(r)] = Shards /\ shardRows[Key(r)] \in SUBSET Shards
    BY <1>3, <2>1 DEF KeyOK, LocationsRows
  <2>3. GoLocated(r, "locSet", shardRows[Key(r)])
    BY <1>3 DEF LocationsRows
  <2>4. /\ OthersStay(r) /\ req'[r].pc = "locSet" /\ req'[r].op = req[r].op
        /\ req'[r].key = req[r].key /\ req'[r].locs = Shards
    BY <1>a, <2>2, <2>3, LocatedMoves
  <2>5. TypeOK' /\ UNCHANGED core
    BY <1>3, <2>4, LocalType DEF IInv, LocationsRows, shared, core, postgres, redis, kafka, history
  <2>6. RequestOK(r)'
    BY <2>1, <2>4, <2>5 DEF RequestOK, Revoking, core
  <2> QED
    BY <2>4, <2>5, <2>6, QuietStep
<1>4. CASE LocationsNone(r)
  <2>1. CASE req[r].op = "revoke"
    <3>1. RequestOK(r) /\ Key(r) \in Keys /\ KeyOK(Key(r)) /\ req[r].pc = "locRows"
      BY <1>4, KeyOfRequest DEF LocationsNone
    <3>2. /\ OthersStay(r) /\ req'[r].pc = "delRows" /\ req'[r].op = req[r].op
          /\ req'[r].key = req[r].key
      BY <1>4, <2>1, GoMoves DEF IInv, TypeOK, LocationsNone
    <3>3. TypeOK' /\ UNCHANGED core
      BY <1>4, <3>2, LocalType DEF IInv, LocationsNone, shared, core, postgres, redis, kafka, history
    <3>4. RequestOK(r)'
      BY <1>4, <2>1, <3>1, <3>2, <3>3 DEF RequestOK, KeyOK, Revoking, LocationsNone, core
    <3> QED
      BY <3>2, <3>3, <3>4, QuietStep
  <2>2. CASE req[r].op # "revoke"
    BY <1>4, <2>2, DoneOK DEF LocationsNone, shared, core, postgres, redis, kafka, history
  <2> QED
    BY <2>1, <2>2
<1>5. CASE FillLocations(r)
  <2>1. RequestOK(r) /\ Key(r) \in Keys /\ req[r].pc = "locSet" /\ req[r].locs = Shards
    BY <1>5, KeyOfRequest DEF FillLocations, RequestOK
  <2>2. Go(r, next)
    BY <1>5 DEF FillLocations, Located
  <2>3. /\ OthersStay(r) /\ req'[r].pc = next /\ req'[r].op = req[r].op
        /\ req'[r].key = req[r].key /\ req'[r].locs = Shards
    <3> HIDE DEF next
    <3> QED
      BY <1>a, <2>1, <2>2, GoMoves
  <2>4. TypeOK' /\ Forward
    BY <1>5, <2>1, <2>3 DEF IInv, TypeOK, FillLocations, OthersStay, Forward, postgres, kafka,
      history
  <2>5. \A k \in Keys : KeyOK(k)'
    BY <1>5, <2>1 DEF IInv, TypeOK, KeyOK, FillLocations, postgres, kafka, history
  <2>6. RequestOK(r)'
    BY <2>1, <2>3, <2>4 DEF RequestOK, Revoking, Forward
  <2> QED
    BY <2>3, <2>4, <2>5, <2>6, OthersOK, IdsStay DEF IInv
<1>6. CASE LocationsLost(r)
  <2>1. RequestOK(r) /\ Key(r) \in Keys /\ req[r].pc \in LocPCs /\ req[r].op = "revoke"
    BY <1>6, KeyOfRequest DEF LocationsLost
  <2>2. GoLocated(r, "delRows", {})
    BY <1>6 DEF LocationsLost
  <2>3. /\ OthersStay(r) /\ req'[r].pc = "delRows" /\ req'[r].op = req[r].op
        /\ req'[r].key = req[r].key
    BY <1>a, <2>2, LocatedMoves
  <2>4. TypeOK' /\ Forward
    BY <1>6, <2>1, <2>3 DEF IInv, TypeOK, LocationsLost, OthersStay, Forward, postgres, redis, kafka
  <2>5. \A k \in Keys : KeyOK(k)'
    BY <1>6 DEF IInv, KeyOK, LocationsLost, postgres, redis, kafka
  <2>6. RequestOK(r)'
    BY <1>6, <2>1, <2>3, <2>4 DEF RequestOK, Revoking, Forward, LocationsLost
  <2> QED
    BY <2>3, <2>4, <2>5, <2>6, OthersOK, IdsStay DEF IInv
<1> QED
  BY <1>1, <1>2, <1>3, <1>4, <1>5, <1>6 DEF LocationStep

\* revokeKey and deleteShards.
LEMMA RevokeKeeps ==
  ASSUME IInv, NEW r \in Requests, RevokeStep(r)
  PROVE  IInv'
<1>a. req \in [Requests -> Request]
  BY DEF IInv, TypeOK
<1>1. CASE RevokeCheck(r)
  <2>1. CASE MayRevoke(r)
    <3>1. RequestOK(r) /\ req[r].pc = "check" /\ req[r].op = "revoke" /\ row[Key(r)] # "none"
      BY <1>1, <2>1, KeyOfRequest DEF RevokeCheck, MayRevoke, RequestOK
    <3>2. GoSeeing(r, "mark", "none", FALSE)
      BY <1>1, <2>1 DEF RevokeCheck
    <3>3. OthersStay(r) /\ req'[r].pc = "mark" /\ req'[r].key = req[r].key
      BY <1>a, <3>2, SeeingMoves
    <3>4. TypeOK' /\ UNCHANGED core
      BY <1>1, <3>3, LocalType DEF IInv, RevokeCheck, shared, core, postgres, redis, kafka, history
    <3>5. RequestOK(r)'
      BY <3>1, <3>3, <3>4 DEF RequestOK, Revoking, core
    <3> QED
      BY <3>3, <3>4, <3>5, QuietStep
  <2>2. CASE ~MayRevoke(r)
    BY <1>1, <2>2, DoneOK DEF RevokeCheck, shared, core, postgres, redis, kafka, history
  <2> QED
    BY <2>1, <2>2
<1>2. CASE MarkRevoked(r)
  <2>1. RequestOK(r) /\ Key(r) \in Keys /\ KeyOK(Key(r)) /\ req[r].pc = "mark"
    BY <1>2, KeyOfRequest DEF MarkRevoked
  <2>2. /\ OthersStay(r) /\ req'[r].pc = "locGet" /\ req'[r].op = req[r].op
        /\ req'[r].key = req[r].key
    BY <1>2, GoMoves DEF IInv, TypeOK, MarkRevoked
  <2>3. /\ row' \in [Keys -> Status \cup {"none"}]
        /\ \A k \in Keys : row'[k] = IF k = Key(r) THEN "DEACTIVATED" ELSE row[k]
    BY <1>2 DEF IInv, TypeOK, MarkRevoked, Status
  <2>4. TypeOK'
    BY <1>2, <2>2, <2>3 DEF IInv, TypeOK, MarkRevoked, OthersStay, redis, kafka, history
  <2>5. row[Key(r)] # "none"
    BY <2>1 DEF RequestOK
  <2>6. \A k \in Keys : KeyOK(k)'
    BY <1>2, <2>3, <2>5 DEF IInv, KeyOK, MarkRevoked, redis, kafka, history
  <2>7. RequestOK(r)'
    BY <2>1, <2>2, <2>3 DEF RequestOK, Revoking
  <2>8. ASSUME NEW s \in Requests, s # r PROVE RequestOK(s)'
    <3>1. req'[s] = req[s] /\ RequestOK(s)
      BY <2>2, <2>8 DEF IInv, OthersStay
    <3> QED
      BY <1>2, <2>3, <2>5, <3>1 DEF RequestOK, Revoking, MarkRevoked, redis, kafka, history
  <2> QED
    BY <2>2, <2>4, <2>6, <2>7, <2>8, IdsStay DEF IInv
<1>3. CASE DeleteValues(r)
  <2>1. RequestOK(r) /\ Key(r) \in Keys /\ req[r].pc = "delVals" /\ req[r].locs = Shards
    BY <1>3, KeyOfRequest DEF DeleteValues, RequestOK
  <2>2. GoLocated(r, "delRows", {})
    BY <1>3 DEF DeleteValues
  <2>3. OthersStay(r) /\ req'[r].pc = "delRows" /\ req'[r].key = req[r].key
    BY <1>a, <2>2, LocatedMoves
  <2>4. /\ shardVals' \in [Keys -> SUBSET Shards]
        /\ \A k \in Keys : shardVals'[k] = IF k = Key(r) THEN {} ELSE shardVals[k]
    BY <1>3, <2>1 DEF IInv, TypeOK, DeleteValues
  <2>5. TypeOK' /\ Forward
    BY <1>3, <2>3, <2>4 DEF IInv, TypeOK, DeleteValues, OthersStay, Forward, postgres, kafka, history
  <2>6. \A k \in Keys : KeyOK(k)'
    BY <1>3, <2>4 DEF IInv, KeyOK, DeleteValues, postgres, kafka, history
  <2>7. RequestOK(r)'
    BY <2>1, <2>3, <2>4, <2>5 DEF RequestOK, Revoking, Forward
  <2> QED
    BY <2>3, <2>5, <2>6, <2>7, OthersOK, IdsStay DEF IInv
<1>4. CASE DeleteValuesFails(r)
  <2>1. OthersStay(r) /\ req'[r] = Idle
    BY <1>4, DoneMoves DEF IInv, TypeOK, DeleteValuesFails
  <2>2. PICK gone \in SUBSET req[r].locs : shardVals' = [shardVals EXCEPT ![Key(r)] = @ \ gone]
    BY <1>4 DEF DeleteValuesFails
  <2>3. /\ shardVals' \in [Keys -> SUBSET Shards]
        /\ \A k \in Keys : shardVals'[k] \subseteq shardVals[k]
    BY <2>2 DEF IInv, TypeOK
  <2>4. TypeOK' /\ Forward
    BY <1>4, <2>1, <2>3 DEF IInv, TypeOK, DeleteValuesFails, OthersStay, Forward, postgres, kafka,
      history
  <2>5. \A k \in Keys : KeyOK(k)'
    BY <1>4, <2>3 DEF IInv, KeyOK, DeleteValuesFails, postgres, kafka, history
  <2> QED
    BY <2>1, <2>4, <2>5, IdleOK, OthersOK, IdsStay DEF IInv
<1>5. CASE DeleteRows(r)
  <2>1. RequestOK(r) /\ Key(r) \in Keys /\ req[r].pc = "delRows"
    BY <1>5, KeyOfRequest DEF DeleteRows
  <2>2. OthersStay(r) /\ req'[r].pc = "delLoc" /\ req'[r].key = req[r].key
    BY <1>5, GoMoves DEF IInv, TypeOK, DeleteRows
  <2>3. /\ shardRows' \in [Keys -> SUBSET Shards]
        /\ \A k \in Keys : shardRows'[k] = IF k = Key(r) THEN {} ELSE shardRows[k]
    BY <1>5 DEF IInv, TypeOK, DeleteRows
  <2>4. TypeOK' /\ Forward
    BY <1>5, <2>2, <2>3 DEF IInv, TypeOK, DeleteRows, OthersStay, Forward, redis, kafka, history
  <2>5. row[Key(r)] = "DEACTIVATED" /\ (Key(r) \in blind \/ shardVals[Key(r)] = {})
    BY <2>1 DEF RequestOK, Revoking
  <2>6. \A k \in Keys : KeyOK(k)'
    BY <1>5, <2>3, <2>5 DEF IInv, KeyOK, DeleteRows, redis, kafka, history
  <2>7. RequestOK(r)'
    BY <1>5, <2>1, <2>2 DEF RequestOK, Revoking, DeleteRows, redis, history
  <2> QED
    BY <2>2, <2>4, <2>6, <2>7, OthersOK, IdsStay DEF IInv
<1>6. CASE DeleteLocations(r)
  <2>1. RequestOK(r) /\ Key(r) \in Keys /\ req[r].pc = "delLoc"
    BY <1>6, KeyOfRequest DEF DeleteLocations
  <2>2. OthersStay(r) /\ req'[r] = Idle
    BY <1>6, DoneMoves DEF IInv, TypeOK, DeleteLocations
  <2>3. /\ locCache' \in [Keys -> SUBSET Shards]
        /\ \A k \in Keys : locCache'[k] = IF k = Key(r) THEN {} ELSE locCache[k]
        /\ confirmed' \in SUBSET Keys
    BY <1>6, <2>1 DEF IInv, TypeOK, DeleteLocations
  <2>4. TypeOK' /\ Forward
    BY <1>6, <2>2, <2>3 DEF IInv, TypeOK, DeleteLocations, OthersStay, Forward, postgres, kafka
  <2>5. row[Key(r)] = "DEACTIVATED" /\ (Key(r) \in blind \/ shardVals[Key(r)] = {})
    BY <2>1 DEF RequestOK, Revoking
  <2>6. \A k \in Keys : KeyOK(k)'
    BY <1>6, <2>3, <2>5 DEF IInv, KeyOK, DeleteLocations, postgres, kafka
  <2> QED
    BY <2>2, <2>4, <2>6, IdleOK, OthersOK, IdsStay DEF IInv
<1> QED
  BY <1>1, <1>2, <1>3, <1>4, <1>5, <1>6 DEF RevokeStep

\* A counter of a key goes up by one.
LEMMA CountUp ==
  ASSUME NEW f \in [Keys -> Nat], NEW k \in Keys
  PROVE  [f EXCEPT ![k] = @ + 1] \in [Keys -> Nat]
OBVIOUS

\* callApi.
LEMMA CallKeeps ==
  ASSUME IInv, NEW r \in Requests, CallStep(r) \/ IntentVerdict(r)
  PROVE  IInv'
<1>a. req \in [Requests -> Request]
  BY DEF IInv, TypeOK
<1>1. CASE CallCheck(r)
  <2>1. CASE MayCall(r)
    <3>1. /\ RequestOK(r) /\ req[r].pc = "check" /\ req[r].op = "call"
          /\ row[Key(r)] # "none"
      BY <1>1, <2>1, KeyOfRequest DEF CallCheck, MayCall, RequestOK
    <3>2. GoSeeing(r, "intent", "none", FALSE)
      BY <1>1, <2>1 DEF CallCheck
    <3>3. /\ OthersStay(r) /\ req'[r].pc = "intent" /\ req'[r].op = req[r].op
          /\ req'[r].key = req[r].key
      BY <1>a, <3>2, SeeingMoves
    <3>4. TypeOK' /\ UNCHANGED core
      BY <1>1, <3>3, LocalType DEF IInv, CallCheck, shared, core, postgres, redis, kafka, history
    <3>5. RequestOK(r)'
      BY <3>1, <3>3, <3>4 DEF RequestOK, Revoking, core
    <3> QED
      BY <3>3, <3>4, <3>5, QuietStep
  <2>2. CASE ~MayCall(r)
    BY <1>1, <2>2, DoneOK DEF CallCheck, shared, core, postgres, redis, kafka, history
  <2> QED
    BY <2>1, <2>2
<1>2. CASE IntentVerdict(r)
  <2>1. /\ RequestOK(r) /\ req[r].pc = "intent" /\ row[Key(r)] # "none"
        /\ req[r].op = "call"
    BY <1>2, KeyOfRequest DEF IntentVerdict, RequestOK
  <2>2. /\ OthersStay(r) /\ req'[r].pc \in {"locGet", "alert"} /\ req'[r].op = req[r].op
        /\ req'[r].key = req[r].key
    BY <1>2, GoMoves DEF IInv, TypeOK, IntentVerdict
  <2>3. TypeOK' /\ UNCHANGED core
    BY <1>2, <2>2, LocalType DEF IInv, IntentVerdict, shared, core, postgres, redis, kafka, history
  <2>4. RequestOK(r)'
    BY <2>1, <2>2, <2>3 DEF RequestOK, Revoking, core
  <2> QED
    BY <2>2, <2>3, <2>4, QuietStep
<1>3. CASE PublishAlert(r)
  <2>1. RequestOK(r) /\ req[r].pc = "alert" /\ Key(r) \in Keys /\ row[Key(r)] # "none"
    BY <1>3, KeyOfRequest DEF PublishAlert, RequestOK
  <2>2. /\ OthersStay(r)
        /\ req'[r] = Idle \/ (req'[r].pc = "logBlock" /\ req'[r].key = req[r].key)
    BY <1>3, GoMoves, DoneMoves DEF IInv, TypeOK, PublishAlert
  <2>3. alerts' \in [Keys -> Nat]
    BY <1>3, <2>1, CountUp DEF IInv, TypeOK, PublishAlert
  <2>4. TypeOK' /\ UNCHANGED core
    BY <1>3, <2>2, <2>3 DEF IInv, TypeOK, OthersStay, PublishAlert, core, postgres, redis, history
  <2>5. RequestOK(r)' /\ req'[r].pc \notin PreCommit
    BY <2>1, <2>2, <2>4, IdleOK DEF RequestOK, Revoking, core
  <2> QED
    BY <2>2, <2>4, <2>5, QuietStep
<1>4. CASE LogBlocked(r)
  <2>1. OthersStay(r)
    BY <1>4, DoneMoves DEF IInv, TypeOK, LogBlocked
  <2>2. blockEvents' \in [Keys -> Nat]
    <3>1. Key(r) \in Keys
      BY <1>4, KeyOfRequest DEF LogBlocked
    <3> QED
      BY <1>4, <3>1, CountUp DEF IInv, TypeOK, LogBlocked
  <2>3. TypeOK'
    BY <1>4, <2>1, <2>2 DEF IInv, TypeOK, OthersStay, LogBlocked, redis, kafka, history
  <2> QED
    BY <1>4, <2>3, DoneOK DEF LogBlocked, core, redis, kafka, history
<1>5. CASE FetchShards(r)
  <2>1. CASE GoLocated(r, "enclave", {})
    <3>1. RequestOK(r) /\ req[r].pc = "fetch" /\ row[Key(r)] # "none"
      BY <1>5, KeyOfRequest DEF FetchShards, RequestOK
    <3>2. OthersStay(r) /\ req'[r].pc = "enclave" /\ req'[r].key = req[r].key
      BY <1>a, <2>1, LocatedMoves
    <3>3. TypeOK' /\ UNCHANGED core
      BY <1>5, <3>2, LocalType DEF IInv, FetchShards, shared, core, postgres, redis, kafka, history
    <3>4. RequestOK(r)'
      BY <3>1, <3>2, <3>3 DEF RequestOK, Revoking, core
    <3> QED
      BY <3>2, <3>3, <3>4, QuietStep
  <2>2. CASE Done(r)
    BY <1>5, <2>2, DoneOK DEF FetchShards, shared, core, postgres, redis, kafka, history
  <2> QED
    BY <1>5, <2>1, <2>2 DEF FetchShards
<1>6. CASE Execute(r)
  <2>1. RequestOK(r) /\ req[r].pc = "enclave" /\ Key(r) \in Keys /\ row[Key(r)] # "none"
    BY <1>6, KeyOfRequest DEF Execute, RequestOK
  <2>2. /\ OthersStay(r)
        /\ req'[r] = Idle \/ (req'[r].pc = "meter" /\ req'[r].key = req[r].key)
    BY <1>6, GoMoves, DoneMoves DEF IInv, TypeOK, Execute
  <2>3. executed' \in [Keys -> Nat]
    BY <1>6, <2>1, CountUp DEF IInv, TypeOK, Execute
  <2>4. TypeOK' /\ UNCHANGED core
    BY <1>6, <2>2, <2>3 DEF IInv, TypeOK, OthersStay, Execute, core, postgres, redis, kafka
  <2>5. RequestOK(r)' /\ req'[r].pc \notin PreCommit
    BY <2>1, <2>2, <2>4, IdleOK DEF RequestOK, Revoking, core
  <2> QED
    BY <2>2, <2>4, <2>5, QuietStep
<1>7. CASE MeterCall(r)
  <2>1. RequestOK(r) /\ req[r].pc = "meter" /\ Key(r) \in Keys /\ row[Key(r)] # "none"
    BY <1>7, KeyOfRequest DEF MeterCall, RequestOK
  <2>2. OthersStay(r) /\ req'[r].pc = "logCall" /\ req'[r].key = req[r].key
    BY <1>7, GoMoves DEF IInv, TypeOK, MeterCall
  <2>3. timesUsed' \in [Keys -> Nat]
    BY <1>7, <2>1, CountUp DEF IInv, TypeOK, MeterCall
  <2>4. TypeOK' /\ UNCHANGED core
    BY <1>7, <2>2, <2>3 DEF IInv, TypeOK, OthersStay, MeterCall, core, redis, kafka, history
  <2>5. RequestOK(r)'
    BY <2>1, <2>2, <2>4 DEF RequestOK, Revoking, core
  <2> QED
    BY <2>2, <2>4, <2>5, QuietStep
<1>8. CASE LogCall(r)
  <2>1. OthersStay(r)
    BY <1>8, DoneMoves DEF IInv, TypeOK, LogCall
  <2>2. callEvents' \in [Keys -> Nat]
    <3>1. Key(r) \in Keys
      BY <1>8, KeyOfRequest DEF LogCall
    <3> QED
      BY <1>8, <3>1, CountUp DEF IInv, TypeOK, LogCall
  <2>3. TypeOK'
    BY <1>8, <2>1, <2>2 DEF IInv, TypeOK, OthersStay, LogCall, redis, kafka, history
  <2> QED
    BY <1>8, <2>3, DoneOK DEF LogCall, core, redis, kafka, history
<1> QED
  BY <1>1, <1>2, <1>3, <1>4, <1>5, <1>6, <1>7, <1>8 DEF CallStep

\* listKeys, whose result is no concern of the core state.
LEMMA ListKeeps ==
  ASSUME IInv, NEW r \in Requests, ListStep(r)
  PROVE  IInv'
<1>1. CASE ListHit(r)
  BY <1>1, DoneOK DEF ListHit, shared, core, postgres, redis, kafka, history
<1>2. CASE ListMiss(r)
  <2>1. OthersStay(r) /\ req'[r].pc = "listRows" /\ req'[r].key = req[r].key
    BY <1>2, GoMoves DEF IInv, TypeOK, ListMiss
  <2>2. TypeOK' /\ UNCHANGED core
    BY <1>2, <2>1, LocalType DEF IInv, ListMiss, shared, core, postgres, redis, kafka, history
  <2> QED
    BY <2>1, <2>2, QuietStep DEF RequestOK, Revoking
<1>3. CASE ListRows(r)
  <2>1. RowsOf(req[r].user) \in Listing
    BY DEF IInv, TypeOK, RowsOf, Listing
  <2>2. req \in [Requests -> Request] /\ req[r] \in Request
    BY DEF IInv, TypeOK
  <2>3. /\ [req[r] EXCEPT !.pc = "listSet", !.list = RowsOf(req[r].user)] \in Request
        /\ [req[r] EXCEPT !.pc = "listSet", !.list = RowsOf(req[r].user)].pc = "listSet"
    BY <2>1, <2>2 DEF Request
  <2>4. OthersStay(r) /\ req'[r].pc = "listSet"
    BY <1>3, <2>2, <2>3 DEF ListRows, OthersStay
  <2>5. TypeOK' /\ UNCHANGED core
    BY <1>3, <2>4, LocalType DEF IInv, ListRows, shared, core, postgres, redis, kafka, history
  <2> QED
    BY <2>4, <2>5, QuietStep DEF RequestOK, Revoking
<1>4. CASE FillListCache(r)
  <2>1. OthersStay(r)
    BY <1>4, DoneMoves DEF IInv, TypeOK, FillListCache
  <2>2. req[r].list \in Listing
    BY DEF IInv, TypeOK, Request
  <2>3. listCache' \in [Users -> SUBSET Listing]
    BY <1>4, <2>2 DEF IInv, TypeOK, FillListCache
  <2>4. TypeOK'
    BY <1>4, <2>1, <2>3 DEF IInv, TypeOK, OthersStay, FillListCache, postgres, kafka, history
  <2> QED
    BY <1>4, <2>4, DoneOK DEF FillListCache, core, postgres, kafka, history
<1> QED
  BY <1>1, <1>2, <1>3, <1>4 DEF ListStep

\* TTLs and the clock.
LEMMA ExpiryKeeps ==
  ASSUME IInv, Expiry
  PROVE  IInv'
<1>1. req' = req /\ Forward
  BY DEF Expiry, KeyCacheExpires, LocCacheExpires, KeyLapses, ShardExpires, ListCacheExpires,
    Forward, IInv, TypeOK, postgres, redis, kafka, history
<1>2. TypeOK'
  BY <1>1 DEF Expiry, KeyCacheExpires, LocCacheExpires, KeyLapses, ShardExpires, ListCacheExpires,
    IInv, TypeOK, postgres, redis, kafka, history
<1>3. ASSUME NEW k \in Keys PROVE KeyOK(k)'
  BY DEF Expiry, KeyCacheExpires, LocCacheExpires, KeyLapses, ShardExpires, ListCacheExpires,
    IInv, TypeOK, KeyOK, postgres, redis, kafka, history
<1>4. ASSUME NEW r \in Requests PROVE RequestOK(r)'
  BY <1>1 DEF IInv, RequestOK, Forward, Revoking
<1>5. IdsDiffer'
  BY <1>1 DEF IInv, IdsDiffer
<1> QED
  BY <1>2, <1>3, <1>4, <1>5 DEF IInv

(***************************************************************************)
(* The invariant holds, and what follows from it.                          *)
(***************************************************************************)

\* Every reachable state satisfies the inductive invariant.
THEOREM Invariance == Spec => []IInv
<1>1. Init => IInv
  <2> SUFFICES ASSUME Init PROVE IInv
    OBVIOUS
  <2>1. Idle \in Request
    BY DEF Idle, Request, Listing
  <2>2. TypeOK
    BY <2>1 DEF Init, TypeOK
  <2> QED
    BY <2>2 DEF IInv, Init, Idle, KeyOK, RequestOK, IdsDiffer, Revoking
<1>2. IInv /\ [Next]_vars => IInv'
  <2> SUFFICES ASSUME IInv, [Next]_vars PROVE IInv'
    OBVIOUS
  <2>1. ASSUME NEW r \in Requests, Arrive(r) \/ Serve(r) \/ IntentVerdict(r) PROVE IInv'
    BY <2>1, ArriveKeeps, RegisterKeeps, FindKeeps, LocationsKeeps, RevokeKeeps, CallKeeps,
      ListKeeps DEF Serve
  <2>2. ASSUME NEW r \in Requests, Fail(r) PROVE IInv'
    BY <2>2, DoneOK DEF Fail, shared, core, postgres, redis, kafka, history
  <2>3. CASE UNCHANGED vars
    BY <2>3 DEF IInv, TypeOK, KeyOK, RequestOK, IdsDiffer, Revoking, vars, postgres, redis, kafka,
      history
  <2> QED
    BY <2>1, <2>2, <2>3, ExpiryKeeps DEF Next
<1> QED
  BY <1>1, <1>2, PTL DEF Spec

\* Every variable keeps its type.
THEOREM TypeCorrect == Spec => []TypeOK
BY Invariance, PTL DEF IInv

\* A successful revocation leaves no shard value behind.
THEOREM RevocationPurges == Spec => []ConfirmedRevocationPurges
<1>1. IInv => ConfirmedRevocationPurges
  BY DEF IInv, TypeOK, KeyOK, ConfirmedRevocationPurges
<1> QED
  BY <1>1, Invariance, PTL

\* The status cache errs in one direction only.
THEOREM RefusalIsTrue == Spec => []CachedRefusalIsTrue
<1>1. IInv => CachedRefusalIsTrue
  BY DEF IInv, KeyOK, CachedRefusalIsTrue
<1> QED
  BY <1>1, Invariance, PTL

\* What a rolled-back registration leaves in Redis never reaches the enclave.
THEOREM OrphansUnreachable == Spec => []OrphanShardsUnreachable
<1>1. IInv => OrphanShardsUnreachable
  BY DEF IInv, RequestOK, OrphanShardsUnreachable
<1> QED
  BY <1>1, Invariance, PTL

(***************************************************************************)
(* Action properties.                                                      *)
(***************************************************************************)

\* The first locations are always among the selected ones.
LEMMA FirstSelected == 1 \in Selected(Shards)
<1>1. {t \in Shards : t < 1} = {}
  BY DEF Shards
<1>2. Cardinality({t \in Shards : t < 1}) = 0
  BY <1>1, FS_EmptySet
<1> QED
  BY <1>2 DEF Selected, Shards

\* A step of a request leaves the other requests where they are.
LEMMA OneMoves ==
  ASSUME IInv, NEW r \in Requests, Arrive(r) \/ Serve(r) \/ IntentVerdict(r) \/ Fail(r),
         NEW s \in Requests, s # r
  PROVE  req'[s] = req[s]
<1>1. req \in [Requests -> Request]
  BY DEF IInv, TypeOK
<1> USE DEF Go, Done, GoSeeing, GoLocated, Start
<1>2. CASE Arrive(r)
  BY <1>1, <1>2 DEF Arrive, StartRegister, StartRevoke, StartGet, StartCall, StartList
<1>3. CASE RegisterStep(r)
  BY <1>1, <1>3 DEF RegisterStep, Distribute, DistributeFails, WarmLocations, AnnounceKey,
    CommitKey, CacheNewKey, DropList
<1>4. CASE FindStep(r)
  BY <1>1, <1>4 DEF FindStep, FindHit, FindMiss, FindRow, FillKeyCache, GetReply
<1>5. CASE LocationStep(r)
  BY <1>1, <1>5 DEF LocationStep, LocationsHit, LocationsMiss, LocationsRows, LocationsNone,
    FillLocations, LocationsLost
<1>6. CASE RevokeStep(r)
  BY <1>1, <1>6 DEF RevokeStep, RevokeCheck, MarkRevoked, DeleteValues, DeleteValuesFails,
    DeleteRows, DeleteLocations
<1>7. CASE CallStep(r) \/ IntentVerdict(r) \/ Fail(r)
  BY <1>1, <1>7 DEF CallStep, CallCheck, PublishAlert, LogBlocked, FetchShards, Execute, MeterCall,
    LogCall, IntentVerdict, Fail
<1>8. CASE ListStep(r)
  BY <1>1, <1>8 DEF ListStep, ListHit, ListMiss, ListRows, FillListCache
<1> QED
  BY <1>2, <1>3, <1>4, <1>5, <1>6, <1>7, <1>8 DEF Serve

\* Only fetchShards brings a request into the enclave.
LEMMA EnclaveEntry ==
  ASSUME IInv, NEW r \in Requests, Arrive(r) \/ Serve(r) \/ IntentVerdict(r) \/ Fail(r),
         ~FetchShards(r)
  PROVE  req'[r].pc # "enclave"
<1>1. req \in [Requests -> Request] /\ req[r] \in Request
  BY DEF IInv, TypeOK
<1>2. CASE Arrive(r)
  <2>1. PICK op \in Ops, p \in {"distribute", "cacheGet", "listGet"}, k \in Keys \cup {NoKey},
             u \in Users \cup {NoUser} : Start(r, op, p, k, u)
    BY <1>2 DEF Arrive, StartRegister, StartRevoke, StartGet, StartCall, StartList, Ops
  <2> QED
    BY <1>1, <2>1, StartMoves
<1> USE DEF Go, Done, GoSeeing, GoLocated, Idle, Request
<1>3. CASE RegisterStep(r)
  BY <1>1, <1>3 DEF RegisterStep, Distribute, DistributeFails, WarmLocations, AnnounceKey,
    CommitKey, CacheNewKey, DropList
<1>4. CASE FindStep(r)
  BY <1>1, <1>4 DEF FindStep, FindHit, FindMiss, FindRow, FillKeyCache, GetReply
<1>5. CASE LocationStep(r)
  BY <1>1, <1>5 DEF LocationStep, LocationsHit, LocationsMiss, LocationsRows, LocationsNone,
    FillLocations, LocationsLost, Located
<1>6. CASE RevokeStep(r)
  BY <1>1, <1>6 DEF RevokeStep, RevokeCheck, MarkRevoked, DeleteValues, DeleteValuesFails,
    DeleteRows, DeleteLocations
<1>7. CASE (CallStep(r) /\ ~FetchShards(r)) \/ IntentVerdict(r) \/ Fail(r)
  BY <1>1, <1>7 DEF CallStep, CallCheck, PublishAlert, LogBlocked, Execute, MeterCall, LogCall,
    IntentVerdict, Fail
<1>8. CASE ListStep(r)
  BY <1>1, <1>8 DEF ListStep, ListHit, ListMiss, ListRows, FillListCache
<1> QED
  BY <1>2, <1>3, <1>4, <1>5, <1>6, <1>7, <1>8 DEF Serve

\* A confirmed revocation ends callApi's access to the shards.
THEOREM NoAccessAfterRevocation == Spec => NoSecretAfterConfirmedRevocation
<1>1. ASSUME IInv, [Next]_vars, NEW r \in Requests, At(r, "fetch"), At(r, "enclave")'
      PROVE  Key(r) \notin confirmed
  <2>1. FetchShards(r)
    <3>1. req' # req
      BY <1>1
    <3>2. PICK s \in Requests : Arrive(s) \/ Serve(s) \/ IntentVerdict(s) \/ Fail(s)
      BY <1>1, <3>1 DEF Next, Expiry, KeyCacheExpires, LocCacheExpires, KeyLapses, ShardExpires,
        ListCacheExpires, vars
    <3> QED
      BY <1>1, <3>2, OneMoves, EnclaveEntry
  <2>2. RequestOK(r) /\ Key(r) \in Keys /\ KeyOK(Key(r)) /\ req[r].pc = "fetch"
    BY <1>1, KeyOfRequest
  <2>3. req[r].locs = Shards
    BY <2>2 DEF RequestOK
  <2>4. Selected(Shards) \subseteq shardVals[Key(r)]
    <3>1. ~Done(r)
      BY <1>1, DoneMoves DEF IInv, TypeOK, Idle
    <3> QED
      BY <2>1, <2>3, <3>1 DEF FetchShards
  <2> QED
    BY <2>2, <2>4, FirstSelected DEF KeyOK
<1>2. IInv /\ [Next]_vars =>
        [\A r \in Requests : At(r, "fetch") /\ At(r, "enclave")' => Key(r) \notin confirmed]_vars
  BY <1>1
<1> QED
  BY <1>2, Invariance, PTL DEF Spec, NoSecretAfterConfirmedRevocation

\* Only a TTL takes shards from an ACTIVE key.
THEOREM ActiveKeepsShards == Spec => ActiveKeyKeepsItsShards
<1>1. ASSUME IInv, [Next]_vars, NEW k \in Keys, row[k] = "ACTIVE", req' # req
      PROVE  shardVals[k] \subseteq shardVals'[k] /\ shardRows'[k] = Shards
  <2>1. PICK r \in Requests : Arrive(r) \/ Serve(r) \/ IntentVerdict(r) \/ Fail(r)
    BY <1>1 DEF Next, Expiry, KeyCacheExpires, LocCacheExpires, KeyLapses, ShardExpires,
      ListCacheExpires, vars
  <2>2. shardRows[k] = Shards
    BY <1>1 DEF IInv, KeyOK
  <2>3. CASE Arrive(r) \/ FindStep(r) \/ LocationStep(r) \/ ListStep(r) \/ IntentVerdict(r) \/ Fail(r)
    BY <2>2, <2>3 DEF Arrive, StartRegister, StartRevoke, StartGet, StartCall, StartList, FindStep,
      FindHit, FindMiss, FindRow, FillKeyCache, GetReply, LocationStep, LocationsHit, LocationsMiss,
      LocationsRows, LocationsNone, FillLocations, LocationsLost, ListStep, ListHit, ListMiss,
      ListRows, FillListCache, IntentVerdict, Fail, postgres, redis
  <2>4. CASE RegisterStep(r)
    <3>1. req[r].pc \in PreCommit => row[Key(r)] = "none"
      BY <1>1 DEF IInv, RequestOK
    <3>2. \A f \in [Keys -> SUBSET Shards], S \in SUBSET Shards :
            Key(r) # k => [f EXCEPT ![Key(r)] = S][k] = f[k]
      BY <1>1
    <3>3. shardVals \in [Keys -> SUBSET Shards] /\ shardRows \in [Keys -> SUBSET Shards]
      BY <1>1 DEF IInv, TypeOK
    <3> QED
      BY <1>1, <2>2, <2>4, <3>1, <3>2, <3>3 DEF RegisterStep, Distribute, DistributeFails,
        WarmLocations, AnnounceKey, CommitKey, CacheNewKey, DropList, postgres, redis
  <2>5. CASE RevokeStep(r)
    <3>1. req[r].pc \in {"delVals", "delRows", "delLoc"} => row[Key(r)] = "DEACTIVATED"
      BY <1>1 DEF IInv, RequestOK, Revoking
    <3>2. shardVals \in [Keys -> SUBSET Shards] /\ shardRows \in [Keys -> SUBSET Shards]
      BY <1>1 DEF IInv, TypeOK
    <3> QED
      BY <1>1, <2>2, <2>5, <3>1, <3>2 DEF RevokeStep, RevokeCheck, MarkRevoked, DeleteValues,
        DeleteValuesFails, DeleteRows, DeleteLocations, postgres, redis
  <2>6. CASE CallStep(r)
    BY <2>2, <2>6 DEF CallStep, CallCheck, PublishAlert, LogBlocked, FetchShards, Execute,
      MeterCall, LogCall, postgres, redis
  <2> QED
    BY <2>1, <2>3, <2>4, <2>5, <2>6 DEF Serve
<1>2. IInv /\ [Next]_vars =>
        [\A k \in Keys : row[k] = "ACTIVE" /\ req' # req
           => shardVals[k] \subseteq shardVals'[k] /\ shardRows'[k] = Shards]_vars
  BY <1>1
<1> QED
  BY <1>2, Invariance, PTL DEF Spec, ActiveKeyKeepsItsShards

(***************************************************************************)
(* The vault implements its contract.                                      *)
(***************************************************************************)

\* A step that moves no row, no value and no confirmation, and nobody in or
\* out of the enclave, is a stutter of the contract.
LEMMA Stutters ==
  ASSUME NEW r \in Requests, UNCHANGED <<row, shardVals, confirmed>>,
         \A s \in Requests : s # r => req'[s] = req[s],
         req[r].pc # "enclave", req'[r].pc # "enclave"
  PROVE  UNCHANGED Contract!vars
<1>1. Lent' = Lent
  BY DEF Lent
<1>2. Reconstructable' = Reconstructable
  BY DEF Reconstructable
<1> QED
  BY <1>1, <1>2 DEF Contract!vars

\* Taking values of one key takes at most that key's secret.
LEMMA ValuesLost ==
  ASSUME NEW k \in Keys, UNCHANGED <<row, confirmed>>, Lent' = Lent,
         \A j \in Keys : IF j = k THEN shardVals'[j] \subseteq shardVals[j]
                                  ELSE shardVals'[j] = shardVals[j]
  PROVE  Contract!Next \/ UNCHANGED Contract!vars
<1>1. CASE k \in Reconstructable'
  BY <1>1 DEF Reconstructable, Contract!vars
<1>2. CASE k \notin Reconstructable'
  <2>1. Reconstructable' = Reconstructable \ {k}
    BY <1>2 DEF Reconstructable
  <2> QED
    BY <2>1 DEF Contract!Next, Contract!Lose
<1> QED
  BY <1>1, <1>2

\* Leaving the enclave gives the secret back.
LEMMA LeavingGivesBack ==
  ASSUME NEW r \in Requests, UNCHANGED <<row, shardVals, confirmed>>, Key(r) \in Keys,
         \A s \in Requests : s # r => req'[s] = req[s],
         req[r].pc = "enclave", req'[r].pc # "enclave"
  PROVE  Contract!Next
<1>1. Lent' = Lent \ {<<r, Key(r)>>}
  BY DEF Lent
<1>2. Reconstructable' = Reconstructable
  BY DEF Reconstructable
<1> QED
  BY <1>1, <1>2 DEF Contract!Next, Contract!GiveBack

\* registerKey issues the key when it commits.
LEMMA RegisterRefines ==
  ASSUME IInv, NEW r \in Requests, RegisterStep(r), req'[r].pc # "enclave",
         \A s \in Requests : s # r => req'[s] = req[s]
  PROVE  Contract!Next \/ UNCHANGED Contract!vars
<1>1. CASE Distribute(r) \/ DistributeFails(r)
  <2>1. /\ RequestOK(r) /\ req[r].pc = "distribute" /\ row[Key(r)] = "none"
        /\ UNCHANGED <<row, confirmed>>
    BY <1>1, KeyOfRequest DEF Distribute, DistributeFails, RequestOK, postgres, history
  <2>2. \A k \in Keys : k # Key(r) => shardVals'[k] = shardVals[k]
    BY <1>1 DEF IInv, TypeOK, Distribute, DistributeFails
  <2>3. Reconstructable' = Reconstructable /\ Lent' = Lent
    BY <2>1, <2>2 DEF Reconstructable, Lent
  <2> QED
    BY <2>1, <2>3 DEF Contract!vars
<1>2. CASE WarmLocations(r) \/ AnnounceKey(r) \/ CacheNewKey(r) \/ DropList(r)
  BY <1>2, Stutters DEF WarmLocations, AnnounceKey, CacheNewKey, DropList, postgres, redis, history
<1>3. CASE CommitKey(r)
  <2>1. Key(r) \in Keys /\ row[Key(r)] = "none" /\ req[r].pc = "commit"
    BY <1>3, KeyOfRequest DEF CommitKey, RequestOK
  <2>2. /\ row' = [row EXCEPT ![Key(r)] = "ACTIVE"] /\ shardVals' = shardVals
        /\ confirmed' = confirmed /\ row \in [Keys -> Status \cup {"none"}]
    BY <1>3 DEF IInv, TypeOK, CommitKey, redis, history
  <2>3. Lent' = Lent
    BY <2>1 DEF Lent
  <2>4. Reconstructable' \in {Reconstructable, Reconstructable \cup {Key(r)}}
    BY <2>1, <2>2 DEF Reconstructable
  <2> QED
    BY <2>1, <2>2, <2>3, <2>4 DEF Contract!Next, Contract!Issue
<1> QED
  BY <1>1, <1>2, <1>3 DEF RegisterStep

\* revokeKey revokes, loses the secret and confirms, in this order.
LEMMA RevokeRefines ==
  ASSUME IInv, NEW r \in Requests, RevokeStep(r), req'[r].pc # "enclave",
         \A s \in Requests : s # r => req'[s] = req[s]
  PROVE  Contract!Next \/ UNCHANGED Contract!vars
<1>1. CASE RevokeCheck(r) \/ DeleteRows(r)
  BY <1>1, Stutters DEF RevokeCheck, DeleteRows, postgres, redis, history
<1>2. CASE MarkRevoked(r)
  <2>1. Key(r) \in Keys /\ row[Key(r)] # "none" /\ req[r].pc = "mark"
    BY <1>2, KeyOfRequest DEF MarkRevoked, RequestOK
  <2>2. /\ row' = [row EXCEPT ![Key(r)] = "DEACTIVATED"] /\ shardVals' = shardVals
        /\ confirmed' = confirmed /\ row \in [Keys -> Status \cup {"none"}]
    BY <1>2 DEF IInv, TypeOK, MarkRevoked, redis, history
  <2>3. Lent' = Lent /\ Reconstructable' = Reconstructable
    BY <2>1, <2>2 DEF Lent, Reconstructable
  <2>4. CASE row[Key(r)] = "ACTIVE"
    BY <2>1, <2>2, <2>3, <2>4 DEF Contract!Next, Contract!Revoke
  <2>5. CASE row[Key(r)] = "DEACTIVATED"
    BY <2>1, <2>2, <2>3, <2>5 DEF Contract!vars
  <2> QED
    BY <2>1, <2>2, <2>4, <2>5 DEF Status
<1>3. CASE DeleteValues(r) \/ DeleteValuesFails(r)
  <2>1. Key(r) \in Keys /\ req[r].pc = "delVals" /\ UNCHANGED <<row, confirmed>>
    BY <1>3, KeyOfRequest DEF DeleteValues, DeleteValuesFails, postgres, history
  <2>2. \A j \in Keys : IF j = Key(r) THEN shardVals'[j] \subseteq shardVals[j]
                                      ELSE shardVals'[j] = shardVals[j]
    BY <1>3 DEF IInv, TypeOK, DeleteValues, DeleteValuesFails
  <2>3. Lent' = Lent
    BY <2>1 DEF Lent
  <2> QED
    BY <2>1, <2>2, <2>3, ValuesLost
<1>4. CASE DeleteLocations(r)
  <2>1. /\ Key(r) \in Keys /\ req[r].pc = "delLoc" /\ row[Key(r)] = "DEACTIVATED"
        /\ Key(r) \in blind \/ shardVals[Key(r)] = {}
    BY <1>4, KeyOfRequest DEF DeleteLocations, RequestOK, Revoking
  <2>2. UNCHANGED <<row, shardVals>>
    BY <1>4 DEF DeleteLocations, postgres
  <2>3. Lent' = Lent /\ Reconstructable' = Reconstructable
    BY <2>1, <2>2 DEF Lent, Reconstructable
  <2>4. CASE Key(r) \in blind
    BY <1>4, <2>2, <2>3, <2>4 DEF DeleteLocations, Contract!vars
  <2>5. CASE Key(r) \notin blind
    <3>1. Key(r) \notin Reconstructable
      BY <2>1, <2>5, FirstSelected DEF Reconstructable
    <3>2. confirmed' = confirmed \cup {Key(r)}
      BY <1>4, <2>5 DEF DeleteLocations
    <3> QED
      BY <2>1, <2>2, <2>3, <3>1, <3>2 DEF Contract!Next, Contract!Confirm
  <2> QED
    BY <2>4, <2>5
<1> QED
  BY <1>1, <1>2, <1>3, <1>4 DEF RevokeStep

\* callApi borrows the secret at fetchShards and gives it back on every way out
\* of the enclave.
LEMMA CallRefines ==
  ASSUME IInv, NEW r \in Requests, CallStep(r) \/ Fail(r),
         FetchShards(r) \/ req'[r].pc # "enclave",
         \A s \in Requests : s # r => req'[s] = req[s]
  PROVE  Contract!Next \/ UNCHANGED Contract!vars
<1>1. UNCHANGED <<row, shardVals, confirmed>>
  BY DEF CallStep, CallCheck, PublishAlert, LogBlocked, FetchShards, Execute, MeterCall, LogCall,
    Fail, postgres, redis, history
<1>2. CASE req'[r].pc # "enclave" /\ req[r].pc # "enclave"
  BY <1>1, <1>2, Stutters
<1>3. CASE req'[r].pc # "enclave" /\ req[r].pc = "enclave"
  BY <1>1, <1>3, KeyOfRequest, LeavingGivesBack
<1>4. CASE FetchShards(r) /\ req'[r].pc = "enclave"
  <2>1. /\ RequestOK(r) /\ Key(r) \in Keys /\ req[r].pc = "fetch" /\ row[Key(r)] # "none"
        /\ req[r].locs = Shards
    BY <1>4, KeyOfRequest DEF FetchShards, RequestOK
  <2>2. Selected(Shards) \subseteq shardVals[Key(r)] /\ GoLocated(r, "enclave", {})
    <3>1. ~Done(r)
      BY <1>4, DoneMoves DEF IInv, TypeOK, Idle
    <3> QED
      BY <1>4, <2>1, <3>1 DEF FetchShards
  <2>3. req'[r].key = req[r].key
    BY <2>2, LocatedMoves DEF IInv, TypeOK
  <2>4. Lent' = Lent \cup {<<r, Key(r)>>}
    BY <1>4, <2>3 DEF Lent
  <2>5. Key(r) \in Reconstructable /\ Reconstructable' = Reconstructable
    BY <1>1, <2>1, <2>2 DEF Reconstructable
  <2> QED
    BY <1>1, <2>1, <2>4, <2>5 DEF Contract!Next, Contract!Lend
<1> QED
  BY <1>2, <1>3, <1>4

\* The vault is a contract in which caches, stores and failures do not show.
THEOREM Implements == Spec => ImplementsContract
<1>1. Init => Contract!Init
  BY DEF Init, Contract!Init, Reconstructable, Lent, Idle
<1>2. ASSUME IInv, [Next]_vars PROVE Contract!Next \/ UNCHANGED Contract!vars
  <2>1. ASSUME NEW r \in Requests, Arrive(r) \/ Serve(r) \/ IntentVerdict(r) \/ Fail(r)
        PROVE  Contract!Next \/ UNCHANGED Contract!vars
    <3>1. \A s \in Requests : s # r => req'[s] = req[s]
      BY <1>2, <2>1, OneMoves
    <3>2. FetchShards(r) \/ req'[r].pc # "enclave"
      BY <1>2, <2>1, EnclaveEntry
    <3>3. CASE Arrive(r) \/ FindStep(r) \/ LocationStep(r) \/ ListStep(r) \/ IntentVerdict(r)
      <4>1. UNCHANGED <<row, shardVals, confirmed>> /\ req[r].pc \notin {"fetch", "enclave"}
        BY <3>3 DEF Arrive, StartRegister, StartRevoke, StartGet, StartCall, StartList, Start,
          FindStep, FindHit, FindMiss, FindRow, FillKeyCache, GetReply, LocationStep, LocationsHit,
          LocationsMiss, LocationsRows, LocationsNone, FillLocations, LocationsLost, ListStep,
          ListHit, ListMiss, ListRows, FillListCache, IntentVerdict, postgres, redis, history
      <4> QED
        BY <3>1, <3>2, <4>1, Stutters DEF FetchShards
    <3>4. CASE RegisterStep(r)
      <4>1. req'[r].pc # "enclave"
        BY <3>2, <3>4 DEF FetchShards, RegisterStep, Distribute, DistributeFails, WarmLocations,
          AnnounceKey, CommitKey, CacheNewKey, DropList
      <4> QED
        BY <1>2, <3>1, <3>4, <4>1, RegisterRefines
    <3>5. CASE RevokeStep(r)
      <4>1. req'[r].pc # "enclave"
        BY <3>2, <3>5 DEF FetchShards, RevokeStep, RevokeCheck, MarkRevoked, DeleteValues,
          DeleteValuesFails, DeleteRows, DeleteLocations
      <4> QED
        BY <1>2, <3>1, <3>5, <4>1, RevokeRefines
    <3>6. CASE CallStep(r) \/ Fail(r)
      BY <1>2, <3>1, <3>2, <3>6, CallRefines
    <3> QED
      BY <2>1, <3>3, <3>4, <3>5, <3>6 DEF Serve
  <2>2. CASE Expiry
    <3>1. UNCHANGED <<row, confirmed>> /\ Lent' = Lent
      BY <2>2 DEF Expiry, KeyCacheExpires, LocCacheExpires, KeyLapses, ShardExpires,
        ListCacheExpires, Lent, postgres, history
    <3>2. CASE shardVals' = shardVals
      BY <3>1, <3>2 DEF Reconstructable, Contract!vars
    <3>3. ASSUME NEW k \in Keys, NEW s \in Shards, ShardExpires(k, s)
          PROVE  Contract!Next \/ UNCHANGED Contract!vars
      <4>1. \A j \in Keys : IF j = k THEN shardVals'[j] \subseteq shardVals[j]
                                     ELSE shardVals'[j] = shardVals[j]
        BY <1>2, <3>3 DEF IInv, TypeOK, ShardExpires
      <4> QED
        BY <3>1, <4>1, ValuesLost
    <3> QED
      BY <2>2, <3>2, <3>3 DEF Expiry, KeyCacheExpires, LocCacheExpires, KeyLapses,
        ListCacheExpires, redis
  <2>3. CASE UNCHANGED vars
    BY <2>3 DEF vars, postgres, redis, history, Lent, Reconstructable, Contract!vars
  <2> QED
    BY <1>2, <2>1, <2>2, <2>3 DEF Next
<1>3. IInv /\ [Next]_vars => [Contract!Next]_(Contract!vars)
  BY <1>2
<1> QED
  BY <1>1, <1>3, Invariance, PTL DEF Spec, ImplementsContract, Contract!Spec
=============================================================================
