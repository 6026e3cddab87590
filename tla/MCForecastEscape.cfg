CONSTANTS
  Forecasts = {"near", "far"}
  Budget = 8
  MaxLive = 2
  MaxRoots = 4
  Faults = {"escape"}
  Horizon <- MCHorizon
  WorkClasses <- MCClasses
SPECIFICATION Spec
INVARIANT CompletedHorizonIsDecided
CHECK_DEADLOCK FALSE
