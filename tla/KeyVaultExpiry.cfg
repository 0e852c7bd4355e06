SPECIFICATION Spec
CONSTANTS
  Keys = {k1}
  Users = {u1}
  Requests = {r1}
  Total = 2
  Threshold = 1
  MaxCalls = 2
  Offered = {"register", "call"}
  NoKey = NoKey
  NoUser = NoUser
PROPERTY ExpiredKeyRefused
CHECK_DEADLOCK FALSE
