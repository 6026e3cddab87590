CONSTANTS
  Cells = {1, 2, 3, 4}
  Local <- MCNear
  Associative <- MCNear
  Compact <- MCCompact
  Surfaces <- MCSurfaces
  SynapticBudget = 2
  Horizon = 2
  KR = 1
  KMin = 3
  KMax = 3
  MMax = 2
  DMin = 1
  RhoKeep = 33
  RhoG = 34
  Rho = 60
  ThetaPositive = FALSE
  Seeds <- MCHalfway
  MaxTicks = 1
SPECIFICATION CoreSpec
INVARIANT PlansAreLawful
CHECK_DEADLOCK FALSE
