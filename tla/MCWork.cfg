CONSTANTS
  Workers = {w1, w2}
  Budget = 3
  MaxEpochs = 2
  MaxRounds = 1
  MaxPermits = 3
  WorkClasses <- MCClasses
SPECIFICATION Spec
SYMMETRY Symmetry
INVARIANTS PermitsAreBacked NothingSurvivesItsContext
PROPERTY PermitsMoveOn
CHECK_DEADLOCK FALSE
