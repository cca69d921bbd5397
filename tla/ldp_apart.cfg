\* Two threads on different parts of the pod, restarts between requests.
SPECIFICATION OrderlySpec
CONSTANTS
  root = root  box = box  bag = bag  memo = memo  note = note
  w1 = w1  w2 = w2  b1 = b1  b2 = b2
  Root = root
  Uris = {root, box, bag, memo, note}
  Parent <- SlashParent
  Mintable <- SlashMint
  Bodies = {b1}
  InitialPods <- RootAndBoxes
  Reserved <- Nobody
  Workers = {w1, w2}
  Reach <- Apart
  Conditions = {"none", "any"}
  PutGraphs <- PlainOrClaim
  PostGraphs <- Plains
INVARIANTS TypeOK
PROPERTIES ImplementsStore NothingClobbered NonEmptyKept OnlyDeletedForgotten
