SPECIFICATION Spec
CONSTANTS
  Versions <- SomeVersions
  Clean <- CleanArtifacts
  Bundles <- SomeBundles
  Filings <- SomeFilings
  TelemetryInputs <- SomeTelemetryInputs
  CampaignInputs <- SomeCampaignInputs
  ReplayPolicy <- SomeReplayPolicy
  SafetyRules = {}
  DegradationRules = {}
  ConflictChecks = {}
  MaxEdits = 2
  MaxTime = 1
INVARIANTS
  TypeOK
  LiveDeploymentIsBacked
  CompletePolicyHasLiveWaivers
  ObjectionStopsTheClaim
  ClaimNeedsEveryLayer
  CompleteCampaignPassedItsProbes
  CompletePaperTrail
PROPERTIES
  AdverseStepNeverHelps
CHECK_DEADLOCK FALSE
