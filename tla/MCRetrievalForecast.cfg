SPECIFICATION PartSpec
CONSTANTS
  Cells = {1, 2, 3, 4, 5}
  Assemblies = {0, 1, 2}
  Networks <- MCNetworks
  Cues <- MCCues
  KC = 3
  ThetaA = 1
  LimitPC <- Quarter
  LimitAR <- OneHalf
  MaxCommits = 2
  None = None
  Forecasts = {"near", "far"}
  Budget = 8
  MaxLive = 2
  MaxRoots = 4
  Faults = {"gap", "escape", "publication", "cleanup"}
  Horizon <- MCHorizon
  WorkClasses <- MCClasses
INVARIANTS  RetrievalIsOfTheWhole
INVARIANTS VerdictsAreSound EscrowPaysOffsetsOnce WindowIsComplete
PROPERTIES AdmittedStays
CHECK_DEADLOCK FALSE
