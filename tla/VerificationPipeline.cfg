SPECIFICATION Spec
CONSTANTS
  Cases <- SomeCases
  FirstCases <- GoodCases
  Catalogs <- SomeCatalogs
  Snapshots <- SomeSnapshots
  Statuses = {"stale"}
  RunIds = {"r"}
  MissionNeed <- Need
  Requirements <- Requirement
  SafetyRules <- SomeRules
  DegradationRules = {}
  ConflictChecks = {}
  MaxRuns = 1
  MaxChanges = 2
INVARIANTS
  TypeOK
  AcceptedRunIsAuthorised
  AcceptedSevereRunIsContained
  OnlyRehashingHidesDamage
  NoErrorBehindAcceptance
  LaterDamageShows
  GraphErrorsAreForeign
CHECK_DEADLOCK FALSE
