SPECIFICATION Spec
CONSTANTS
  Catalogs <- GateCatalogs
  ScenarioIds = {"scenario", "unknown"}
  Snapshots <- GateSnapshots
  SafetyRules <- GateRules
  DegradationRules <- EngineRules
  ConflictChecks <- Checks
  RunIds = {"r1"}
  Imported = {}
  MaxRuns = 1
  MaxPrior = 0
  MaxDamage = 0
INVARIANTS
  TypeOK
  SevereStressorContained
  ReviewFlagIsExact
  ValidCatalogResolves
CHECK_DEADLOCK FALSE
