CONSTANTS
  Threads = {t1, t2}
  Effects <- MCEffects
  KindOf <- MCKinds
  WorkClasses = {"AUDIT_ONLY", "CIE_AUDIT_ONLY", "PUBLISH", "PUBLISH_TERMINAL"}
  Budget = 3
  MaxCommits = 2
  MaxRounds = 1
  MaxEpochs = 1
  MaxTicks = 1
  None = None
SYMMETRY Callers
SPECIFICATION Spec
INVARIANTS ChargedExactlyOnce RoundsAreCommits
PROPERTIES CommittedInContext CommitsExactlyOnce
CHECK_DEADLOCK FALSE
