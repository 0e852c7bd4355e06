SPECIFICATION Spec
CONSTANTS
  Pids = {p1}
  Policies = {restricted, trusted}
  Restricted = restricted
  Unlisted = unlisted
  NoPolicy = NoPolicy
  MaxSpawns = 1
  MaxReloads = 1
  MaxRestarts = 0
PROPERTY ReloadTakesEffect
