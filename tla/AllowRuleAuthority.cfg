SPECIFICATION Spec
CONSTANTS
  Versions <- SomeVersions
  Clean <- CleanArtifacts
  Bundles <- SomeBundles
  Filings <- SomeFilings
  TelemetryInputs <- SomeTelemetryInputs
  CampaignInputs <- SomeCampaignInputs
  ReplayPolicy <- SomeReplayPolicy
  SafetyRules = {}
  DegradationRules = {}
  ConflictChecks = {}
  MaxEdits = 1
  MaxTime = 1
INVARIANT
  AllowedActionHasAuthority
CHECK_DEADLOCK FALSE
