\* Three deliveries, two at a time and three attempts each, under ceilings, and a view outside the grant.
SPECIFICATION CalmFirstView
CONSTANTS
  r1 = r1  r2 = r2  r3 = r3  g1 = g1  g2 = g2  v1 = v1  v2 = v2  d1 = d1  d2 = d2
  Requests = {r1, r2, r3}
  Grants = {g1}
  Views = {v1, v2}
  Defs = {d1}
  ViewLimits <- ViewCeilings
  LinkedViews <- LinkFirst
  Policies <- MaxOne
  AdjustTo <- NoAdjusting
  Second = 1
  MaxTime = 1
  MaxRetries = 3
  MaxInFlight = 2
  SeparateData = FALSE
INVARIANTS CeilingOvershoot DisplacedByCommits
PROPERTIES ConfirmedIsDelivered
CHECK_DEADLOCK FALSE
