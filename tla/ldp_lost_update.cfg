\* Two PUTs with the ETag of the same state.
SPECIFICATION OrderlySpec
CONSTANTS
  root = root  box = box  bag = bag  memo = memo  note = note
  w1 = w1  w2 = w2  b1 = b1  b2 = b2
  Root = root
  Uris = {root, box}
  Parent <- FlatParent
  Mintable <- FlatMint
  Bodies = {b1, b2}
  InitialPods <- OnlyRoot
  Reserved <- Nobody
  Workers = {w1, w2}
  Reach <- BelowRoot
  Conditions <- AnyHeader
  PutGraphs <- Plains
  PostGraphs <- Plains
PROPERTIES NothingClobbered
