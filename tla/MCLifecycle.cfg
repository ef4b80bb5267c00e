SPECIFICATION FairSpec
CONSTANTS
  u = u
  f = f
  Ids = {1, 2}
  Churn = {1}
  Refs = {u, f}
  NoRef = NoRef
  Policies <- MCPolicies
  NoPoint = NoPoint
  MaxCrashes = 1
  PageSize = 1
  Kind <- MCKind
  Rooted = TRUE
  NoAnswer = NoAnswer
CHECK_DEADLOCK FALSE
INVARIANTS
  SignalFits
PROPERTIES
  DecayTakesItsDue
  EveryPointComesUp
