SPECIFICATION Spec
CONSTANTS
  Keys = {k1}
  Users = {u1}
  Requests = {r1}
  Total = 5
  Threshold = 3
  MaxCalls = 2
  Offered = {"register", "call"}
  NoKey = NoKey
  NoUser = NoUser
INVARIANT AnyThresholdServes
CHECK_DEADLOCK FALSE
