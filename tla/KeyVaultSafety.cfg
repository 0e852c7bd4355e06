SPECIFICATION Spec
CONSTANTS
  Keys = {k1}
  Users = {u1}
  Requests = {r1, r2}
  Total = 2
  Threshold = 1
  MaxCalls = 2
  Offered = {"register", "revoke", "call", "get"}
  NoKey = NoKey
  NoUser = NoUser
SYMMETRY Symmetry
INVARIANTS
  TypeOK
  NothingIsStuck
  ConfirmedRevocationPurges
  OrphanShardsUnreachable
  LedgerNeverAhead
PROPERTIES
  NoSecretAfterConfirmedRevocation
  ActiveKeyKeepsItsShards
  ImplementsContract
