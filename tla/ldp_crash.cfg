\* Restarts in the middle of requests.
SPECIFICATION Spec
CONSTANTS
  root = root  box = box  bag = bag  memo = memo  note = note
  w1 = w1  w2 = w2  b1 = b1  b2 = b2
  Root = root
  Uris = {root, box, memo, bag}
  Parent <- SlashParent
  Mintable <- SlashMint
  Bodies = {b1}
  InitialPods <- RootAndBox
  Reserved = {bag}
  Workers = {w1}
  Reach <- Everywhere
  Conditions = {"none", "any"}
  PutGraphs <- PutClaims
  PostGraphs <- PostClaims
INVARIANTS ListedExist ContainmentManaged
