\* Two deliveries against everything the owner and the network can do.
SPECIFICATION FairSpec
CONSTANTS
  r1 = r1  r2 = r2  r3 = r3  g1 = g1  g2 = g2  v1 = v1  v2 = v2  d1 = d1  d2 = d2
  Requests = {r1, r2}
  Grants = {g1}
  Views = {v1}
  Defs = {d1, d2}
  ViewLimits <- NoLimits
  LinkedViews <- LinkAll
  Policies <- NoPolicies
  AdjustTo <- ResetOnly
  Second = 1
  MaxTime = 1
  MaxRetries = 2
  MaxInFlight = 2
  SeparateData = FALSE
INVARIANTS TypeOK CountsExact DeliveredIsRecorded
PROPERTIES ImplementsLedger EveryRequestAnswered RevocationBites
CHECK_DEADLOCK FALSE
