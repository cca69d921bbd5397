\* Views of each text, pages and proxy URLs; a container, its copies and what a PUT keeps of them.
SPECIFICATION MCSpec
CONSTANTS
  c = c  o = o  m1 = m1  m2 = m2  t1 = t1
  Prologues <- MCPrologues
  Heads <- MCHeads
  ShortHand <- MCShortHand
  Gaps <- MCGaps
  Patterns <- MCPatterns
  Params <- MCParams
  Values <- MCValues
  WellTyped <- MCWellTyped
  Resources <- MCResources
  References <- MCReferences
  Self = c
  Other = o
  Members = {m1, m2}
  Notes <- MCNotes
INVARIANTS BindsInPlace ProxiesLeadBack RoundTrips
CHECK_DEADLOCK FALSE
