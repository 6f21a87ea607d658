SPECIFICATION Spec
CONSTANTS
  r1 = r1
  r2 = r2
  q1 = q1
  seed = seed
  None = None
  NoPlan = NoPlan
  Runs = {r1, r2}
  Requests = {q1}
  Makers = {r1, r2, seed}
  Bodies = {"b1", "b2"}
  Names <- MCNames
  Dataset <- MCDataset
  Seeds <- MCSeeds
  Drafts <- MCDrafts
INVARIANTS
  PreviewHolds
  SecondRunIsNoOp
PROPERTIES
  TouchesOnlyPlanned
  KeepsLateWrites
CHECK_DEADLOCK FALSE
