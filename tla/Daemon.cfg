SPECIFICATION FairSpec
CONSTANTS
  Pids = {p1}
  Policies = {restricted, trusted}
  Restricted = restricted
  Unlisted = unlisted
  NoPolicy = NoPolicy
  MaxSpawns = 3
  MaxReloads = 1
  MaxRestarts = 1
INVARIANTS
  TypeOK
  ScannerIsReady
PROPERTIES
  UnlockedReadsAreSafe
  DeadAgentsLeave
  MatchesAreRegistered
