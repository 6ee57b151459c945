SPECIFICATION Spec
CONSTANTS
  Catalogs <- StressedCatalogs
  ScenarioIds = {"scenario"}
  Snapshots <- EvidenceSnapshots
  SafetyRules = {}
  DegradationRules <- EvidenceRules
  ConflictChecks = {}
  RunIds = {"x"}
  Imported <- ImportedBundles
  MaxRuns = 2
  MaxPrior = 2
  MaxDamage = 2
INVARIANTS
  DamagedEvidenceRestricts
  MoreEvidenceNeverRelaxes
PROPERTIES
  FreshEvidenceIsClean
CHECK_DEADLOCK FALSE
