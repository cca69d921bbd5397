\* Two deliveries at once under a ceiling of one.
SPECIFICATION CalmSpec
CONSTANTS
  r1 = r1  r2 = r2  r3 = r3  g1 = g1  g2 = g2  v1 = v1  v2 = v2  d1 = d1  d2 = d2
  Requests = {r1, r2}
  Grants = {g1}
  Views = {v1}
  Defs = {d1}
  ViewLimits <- NoLimits
  LinkedViews <- LinkAll
  Policies <- MaxOne
  AdjustTo <- NoAdjusting
  Second = 1
  MaxTime = 1
  MaxRetries = 2
  MaxInFlight = 2
  SeparateData = FALSE
INVARIANTS CeilingHolds
CHECK_DEADLOCK FALSE
