SPECIFICATION PartSpec
CONSTANTS
  Cells = {1, 2, 3, 4}
  Local <- MCNear
  Associative <- MCNear
  Compact <- MCCompact
  Surfaces <- MCSurfaces
  SynapticBudget = 2
  Horizon = 2
  KR = 1
  KMin = 2
  KMax = 3
  MMax = 2
  DMin = 1
  RhoKeep = 33
  RhoG = 34
  Rho = 60
  ThetaPositive = TRUE
  Seeds <- MCSeeds
  MaxTicks = 2
  Runtimes = {r1, r2, r3}
  Cores = {c1}
  Occurrences = {o1}
  Contents = {x, y}
  Capacity = 2
  MaxDomains = 2
  MaxRoots = 2
  MaxRevision = 2
  Absent = Absent
SYMMETRY MCSymmetry
INVARIANTS PlansAreLawful OnlyHeldCellsStay RestartsAsItWas
INVARIANTS AuthorizedOnce ConstraintsStandOnAssumptions PredictionSeesEveryEvent
CHECK_DEADLOCK FALSE
