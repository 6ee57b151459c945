SPECIFICATION Spec
CONSTANTS
  Catalogs <- GateCatalogs
  ScenarioIds = {"scenario"}
  Snapshots <- GateSnapshots
  SafetyRules = {}
  DegradationRules = {}
  ConflictChecks = {}
  RunIds = {"r1"}
  Imported = {}
  MaxRuns = 1
  MaxPrior = 0
  MaxDamage = 0
INVARIANTS
  UnsupportedTriggerIsActive
CHECK_DEADLOCK FALSE
