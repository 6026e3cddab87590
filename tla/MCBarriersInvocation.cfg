SPECIFICATION PartFairSpec
CONSTANTS
  Threads = {t1, t2}
  Barriers = {"life1", "life2", "arena"}
  RankOf <- CodeRanks
  Cleanups = {"epoch1", "epoch2"}
  Needs <- CodeNeeds
  MaxDepth = 2
  None = None
  Runtimes = {"r1"}
  Causes = {"c1", "c2"}
  RuntimeOf <- OneRuntimeOf
  MaxRuntimes = 2
  CauseCapacity = 1
  Budget = 4
  WorkClasses = {"pure", "effect", "OPEN_STUDY", "ForecastEscrowReservation", "REQUEST_CASE", "ADMIT_CASE"}
  Work = {"pure", "effect"}
  MaxEpochs = 1
  MaxHorizon = 2
  Studies = {"s1"}
  Frontier <- TwoStepFrontier
INVARIANTS CyclesNeedTheWindow CleanupsAreDeferred
INVARIANTS ChildrenAreCounted ClosedIsDrained EscrowEndsWithStudy
PROPERTIES EveryCleanupRuns
PROPERTIES CloseOnlyReduces KeepsAllowance ClosingCompletes
\* Threads may end up waiting for one another; a drained invocation stops.
CHECK_DEADLOCK FALSE
