SPECIFICATION FairSpec
CONSTANTS
  Keys = {k1}
  Users = {u1}
  Requests = {r1, r2}
  Total = 1
  Threshold = 1
  MaxCalls = 0
  Offered = {"register", "revoke", "list"}
  NoKey = NoKey
  NoUser = NoUser
INVARIANTS
  CachesAreTrue
PROPERTIES
  StaleStatusDies
  RevokedKeyDies
