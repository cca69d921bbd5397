\* One delivery at a time, each policy constraint, a data source of its own.
SPECIFICATION SettledSpec
CONSTANTS
  r1 = r1  r2 = r2  r3 = r3  g1 = g1  g2 = g2  v1 = v1  v2 = v2  d1 = d1  d2 = d2
  Requests = {r1, r2}
  Grants = {g1}
  Views = {v1}
  Defs = {d1}
  ViewLimits <- ViewCeilings
  LinkedViews <- LinkAll
  Policies <- SerialPolicies
  AdjustTo <- NoAdjusting
  Second = 2
  MaxTime = 6
  MaxRetries = 2
  MaxInFlight = 1
  SeparateData = TRUE
INVARIANTS IntervalHolds
PROPERTIES LateRequestsDenied
CHECK_DEADLOCK FALSE
