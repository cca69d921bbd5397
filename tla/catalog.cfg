\* Every owner write between the calls of one discovery or statistics request.
SPECIFICATION Spec
CONSTANTS
  i1 = i1  i2 = i2  g1 = g1  e1 = e1  e2 = e2  n1 = n1  d1 = d1  d2 = d2
  Ids = {i1, i2}
  SlugIds = {i1}
  Grants = {g1}
  Entries = {e1, e2}
  Notes = {n1}
  Defs = {d1, d2}
  LinkSets <- BothViews
  Asides <- StrayTypes
  DataGraphs <- PodTypes
  Absent = Absent
SYMMETRY EntrySymmetry
INVARIANTS TypeOK ListingExact DiscoveryTotal StatsBracketed
CHECK_DEADLOCK FALSE
