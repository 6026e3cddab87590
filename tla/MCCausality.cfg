\* Two threads and one study, which is revised, closed or aborted under them.
SPECIFICATION Spec
CONSTANTS
  Threads = {t1, t2}
  Studies = {"observe", "again", "intervene", "replay"}
  Plan <- CodePlan
  Slots <- CodeSlots
  Independent <- CodePairs
  Contrasts <- CodeContrasts
  Sides <- CodeSides
  Kinds = {"EXECUTION"}
  Outcomes = {"o1", "o2"}
  MaxStudies = 1
  MaxContrasts = 1
  MaxOccurrences = 2
  MaxRevisions = 1
  MaxSnapshots = 2
  None = None
SYMMETRY Symmetry
INVARIANTS AccountsAgree ComparatorsAreIndependent AuditIsPublished RegistryIsExact
PROPERTIES AdmissionsStand PublishesInItsEnvironment
\* Everything stops after begin_close.
CHECK_DEADLOCK FALSE
