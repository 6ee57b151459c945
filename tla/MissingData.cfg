SPECIFICATION Spec
CONSTANTS
  Catalogs <- CalmCatalogs
  ScenarioIds = {"scenario"}
  Snapshots <- DefaultSnapshots
  SafetyRules = {}
  DegradationRules <- DefaultDegradationRules
  ConflictChecks = {}
  RunIds = {"r1"}
  Imported = {}
  MaxRuns = 1
  MaxPrior = 0
  MaxDamage = 0
INVARIANTS
  MissingDataIsNotApproval
CHECK_DEADLOCK FALSE
