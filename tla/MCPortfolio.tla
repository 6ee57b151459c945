------------------------------ MODULE MCPortfolio ------------------------------
(* One small portfolio in which every layer is complete, and what a caller *)
(* may make of each layer.                                                 *)
EXTENDS Portfolio

Evidence(id, kind) ==
  BundleWithComputedHashes(
    [bundle_id   |-> id,
     scope       |-> [case_id |-> "CASE", scenario_id |-> "S"],
     records     |-> <<[evidence_id |-> id, content |-> [kind |-> kind],
                        status |-> "accepted", content_hash |-> {}]>>,
     bundle_hash |-> {}])

SomeBundles ==
  [model  |-> Evidence("model", "test_report"),  ops     |-> Evidence("ops", "telemetry_log"),
   review |-> Evidence("review", "human_review"), package |-> Evidence("package", "run_log")]

------------------------------------------------------------------------------
ModelM == [id |-> "M", lifecycle |-> "approved", evidence |-> {"model"}]
SystemY == [id |-> "Y", lifecycle |-> "approved", models |-> {"M"}, assurance_case |-> {"CASE"}]
UseCaseU == [id |-> "U", system |-> "Y", lifecycle |-> "approved", evidence |-> {"model"}]
DeploymentD ==
  [id |-> "D", system |-> "Y", lifecycle |-> "approved", environment |-> "controlled_field",
   live |-> TRUE, authority |-> "human_approval_required", scenarios |-> {"S"},
   telemetry_sources |-> {"T"}, evidence |-> {"ops"}]

CleanRegistry ==
  [models |-> {ModelM}, systems |-> {SystemY}, use_cases |-> {UseCaseU},
   deployments |-> {DeploymentD}]

RegistryVersions ==
  {[CleanRegistry EXCEPT !.models = {[ModelM EXCEPT !.lifecycle = "suspended"]}],
   [CleanRegistry EXCEPT !.use_cases = {[UseCaseU EXCEPT !.lifecycle = "retired"]}],
   [CleanRegistry EXCEPT !.systems = {[SystemY EXCEPT !.models = {"M", "M2"}]}],
   [CleanRegistry EXCEPT !.deployments = {[DeploymentD EXCEPT !.scenarios = {"S2"}]}],
   [CleanRegistry EXCEPT !.deployments = {[DeploymentD EXCEPT !.live = FALSE,
                                                              !.telemetry_sources = {}]}],
   \* refused: live without telemetry
   [CleanRegistry EXCEPT !.deployments = {[DeploymentD EXCEPT !.telemetry_sources = {}]}]}

------------------------------------------------------------------------------
WaiverRule ==
  [id |-> "R1", decision |-> "require_waiver", categories |-> {"autonomy_execution"},
   subjects |-> {"model"}, min_tier |-> "high", authority |-> "system_owner",
   evidence_kinds |-> {"test_report"}, blocked_conditions |-> {"degraded"}]
AllowRule ==
  [WaiverRule EXCEPT !.id = "R2", !.decision = "allow", !.min_tier = "low", !.authority = "none"]
PackP ==
  [id |-> "P", lifecycle |-> "active", default |-> "block", rules |-> {WaiverRule, AllowRule}]
WaiverW ==
  [id |-> "W", pack |-> "P", rules |-> {"R1"}, authority |-> "system_owner",
   expires_at |-> 1, evidence |-> {"review"}]
RequestQ ==
  [id |-> "Q", category |-> "autonomy_execution", subject |-> "model", tier |-> "high",
   authority |-> "human_reviewer", conditions |-> {}, evidence_kinds |-> {"test_report"},
   waiver_ids |-> <<"W">>, evaluated_at |-> 0]

CleanPolicy == [pack |-> PackP, waivers |-> {WaiverW}, requests |-> {RequestQ}]

PolicyVersions ==
  {[CleanPolicy EXCEPT !.waivers = {[WaiverW EXCEPT !.expires_at = 2]}],
   [CleanPolicy EXCEPT !.waivers = {[WaiverW EXCEPT !.authority = "human_reviewer"]}],
   [CleanPolicy EXCEPT !.requests = {[RequestQ EXCEPT !.waiver_ids = <<"W0", "W">>]}],
   [CleanPolicy EXCEPT !.requests = {[RequestQ EXCEPT !.conditions = {"degraded"}]}],
   [CleanPolicy EXCEPT !.pack.lifecycle = "draft"],
   \* the rule for high-risk actions names the authority that it requires
   [CleanPolicy EXCEPT !.pack.rules =
      {WaiverRule, [AllowRule EXCEPT !.min_tier = "high", !.authority = "governance_board"]}],
   \* refused: a waiver without evidence
   [CleanPolicy EXCEPT !.waivers = {[WaiverW EXCEPT !.evidence = {}]}]}

------------------------------------------------------------------------------
ObjectiveO ==
  [id |-> "O", framework |-> "dod_ai_t_and_e", artifact_types |-> {"evidence_bundle"},
   evidence_kinds |-> {"test_report"}]
MappingX ==
  [id |-> "X", control |-> "O", status |-> "satisfied", artifact_type |-> "evidence_bundle",
   evidence |-> {"model"}]

CleanCrosswalk == [objectives |-> {ObjectiveO}, mappings |-> {MappingX}]

CrosswalkVersions ==
  {[CleanCrosswalk EXCEPT !.mappings = {[MappingX EXCEPT !.status = "partial"]}],
   [CleanCrosswalk EXCEPT !.mappings = {[MappingX EXCEPT !.evidence = {"review"}]}],
   [CleanCrosswalk EXCEPT !.mappings = {[MappingX EXCEPT !.status = "out_of_scope"]}],
   [CleanCrosswalk EXCEPT !.mappings = {[MappingX EXCEPT !.control = "O2"]}],
   \* refused: satisfied by nothing
   [CleanCrosswalk EXCEPT !.mappings = {[MappingX EXCEPT !.evidence = {}]}]}

------------------------------------------------------------------------------
DigestG == [id |-> "G", artifact |-> "A", type |-> "assurance_report"]
SignerK == [id |-> "K", role |-> "human_reviewer", trust |-> "signed_by_identified_key"]
SignatureZ ==
  [id |-> "Z", digest |-> "G", signer |-> "K", algorithm |-> "ed25519", status |-> "verified"]
AttestationT == [id |-> "AT", subjects |-> {"A"}, digests |-> {"G"}, signatures |-> {"Z"}]

CleanProvenance ==
  [id |-> "PM", digests |-> {DigestG}, signers |-> {SignerK}, signatures |-> {SignatureZ},
   attestations |-> {AttestationT}]

ProvenanceVersions ==
  {[CleanProvenance EXCEPT !.signatures = {[SignatureZ EXCEPT !.status = "expired"]}],
   [CleanProvenance EXCEPT !.signatures =
      {[SignatureZ EXCEPT !.status = "unsigned", !.algorithm = "unsigned"]}],
   [CleanProvenance EXCEPT !.signers = {[SignerK EXCEPT !.trust = "local_test_signature"]}],
   [CleanProvenance EXCEPT !.digests = {DigestG, [DigestG EXCEPT !.id = "G2", !.artifact = "A2"]}],
   [CleanProvenance EXCEPT !.id = "PM2"],
   \* refused: signed with nothing, and verified
   [CleanProvenance EXCEPT !.signatures = {[SignatureZ EXCEPT !.algorithm = "unsigned"]}]}

------------------------------------------------------------------------------
SpeedField ==
  [name |-> "speed", type |-> "float", required |-> TRUE, allowed |-> {}, min |-> {0}, max |-> {100}]
ModeField ==
  [name |-> "mode", type |-> "enum", required |-> FALSE, allowed |-> {"auto", "manual"},
   min |-> {}, max |-> {}]
SensorT ==
  [id |-> "T", kind |-> "sensor", trust |-> "high", authority |-> "source_provided",
   schemas |-> {"C"}, evidence |-> {"ops"}]
ReplayL ==
  [SensorT EXCEPT !.id = "L", !.kind = "log_replay", !.trust = "moderate",
                  !.authority = "replay_file"]
RecordV ==
  [id |-> "V", source |-> "L", schema |-> "C", scenarios |-> {"S", "S2"}, evidence |-> {"ops"}]

CleanTelemetryCatalog ==
  [sources |-> {SensorT, ReplayL}, schemas |-> {[id |-> "C", fields |-> {SpeedField, ModeField}]},
   replays |-> {RecordV}]

SomeReplayPolicy ==
  [max_latency |-> 1, require_known_replay_record |-> TRUE, reject_untrusted |-> TRUE]

CurrentInput ==
  [id |-> "in1", source |-> "T", schema |-> "C", captured_at |-> 0, received_at |-> 1,
   payload |-> [speed |-> [type |-> "float", v |-> 50], mode |-> [type |-> "text", v |-> "auto"]],
   replay |-> {}]

SomeTelemetryInputs ==
  {[CurrentInput EXCEPT !.id = "stale", !.received_at = 2],
   [CurrentInput EXCEPT !.id = "replay", !.source = "L", !.replay = {"V"}],
   [CurrentInput EXCEPT !.id = "range", !.payload.speed.v = 101],
   [CurrentInput EXCEPT !.id = "type", !.payload.speed = [type |-> "flag", v |-> 1]],
   [CurrentInput EXCEPT !.id = "source", !.source = "T2"]}

CleanTelemetry ==
  [catalog |-> CleanTelemetryCatalog,
   reports |-> {Tele!Normalize(CleanTelemetryCatalog, SomeReplayPolicy, CurrentInput)}]

TelemetryVersions ==
  {[CleanTelemetry EXCEPT !.catalog.sources = {[SensorT EXCEPT !.trust = "low"], ReplayL}],
   [CleanTelemetry EXCEPT !.catalog.sources = {ReplayL}],
   [CleanTelemetry EXCEPT !.catalog.replays = {}],
   \* refused: a replay that is its own authority
   [CleanTelemetry EXCEPT !.catalog.sources = {[ReplayL EXCEPT !.authority = "source_provided"]}]}

------------------------------------------------------------------------------
Speed(v) == "speed" :> Camp!Number(v)
SlowStressor ==
  [id |-> "STR", severity |-> "critical",
   trigger |-> [three_words |-> TRUE, key |-> "speed", operator |-> "<", literal |-> Camp!Number(50)]]
ScenarioS ==
  [id |-> "S", thread |-> "TH", context |-> "CTX", function |-> "F", conditions |-> {"COND"},
   stressors |-> {}, behavior |-> "MOVE", criteria |-> {"AC"}, hazards |-> {}, evidence |-> {"E"}]
ScenarioS2 ==
  [ScenarioS EXCEPT !.id = "S2", !.stressors = {"STR"}, !.behavior = "STOP", !.hazards = {"HZ"}]

\* A probe passes when its stressor is active and the gate holds the vehicle.
CampaignCatalog ==
  [contexts |-> {"CTX"}, functions |-> {"F"}, conditions |-> {"COND"}, stressors |-> {SlowStressor},
   behaviors |-> {[id |-> "MOVE", required_decision |-> "allow",
                   required_authority_state |-> "autonomous_allowed"],
                  [id |-> "STOP", required_decision |-> "clamp",
                   required_authority_state |-> "human_approval_required"]},
   criteria |-> {[id |-> "AC", requires_evidence |-> FALSE, required_result |-> "pass"]},
   threads |-> {[id |-> "TH", context |-> "CTX", functions |-> {"F"}, scenarios |-> {"S", "S2"},
                 requirements |-> {"REQ"}, hazards |-> {"HZ"}]},
   scenarios |-> {ScenarioS, ScenarioS2}]

BaselineS ==
  [id |-> "KS", scenario |-> "S", role |-> "baseline", expected |-> "pass", minimum_runs |-> 1,
   tags |-> {"baseline"}, requirements |-> {"REQ"}, hazards |-> {}, evidence |-> {"ops"},
   replays |-> {}]
ProbeS2 ==
  [id |-> "KS2", scenario |-> "S2", role |-> "adversarial_probe", expected |-> "pass",
   minimum_runs |-> 2, tags |-> {"adversarial", "telemetry_replay"}, requirements |-> {"REQ"},
   hazards |-> {"HZ"}, evidence |-> {"ops"}, replays |-> {"V"}]
CampaignK ==
  [id |-> "K", status |-> "ready_for_run", thread |-> "TH", objectives |-> {"OBJ"},
   scenarios |-> {BaselineS, ProbeS2},
   threshold |-> [minimum_pass_rate |-> 100, maximum_failed_runs |-> 0,
                  maximum_inconclusive_runs |-> 0, require_all_critical |-> TRUE,
                  require_evidence |-> TRUE],
   tags |-> {"baseline", "adversarial", "telemetry_replay"},
   stop_rules |-> {[id |-> "STOP", evidence |-> {"ops"}]}, evidence |-> {"ops"}]

FirstRun ==
  [run |-> "r1", campaign |-> "K", telemetry |-> [S |-> Speed(80), S2 |-> Speed(20)], prior |-> {}]

SomeCampaignInputs ==
  {[FirstRun EXCEPT !.run = "r2"],
   \* the stressor is not active
   [FirstRun EXCEPT !.run = "r2", !.telemetry.S2 = Speed(80)],
   [FirstRun EXCEPT !.run = "r2", !.telemetry = [S |-> Speed(80)]],
   \* the gate cannot compare a text
   [FirstRun EXCEPT !.run = "r2", !.telemetry.S2 = "speed" :> Camp!Text(1)],
   \* the id of an earlier run
   FirstRun}

CleanCampaigns ==
  [campaigns |-> {CampaignK}, catalog |-> CampaignCatalog,
   reports |-> <<Camp!Run(CampaignK, FirstRun, CampaignCatalog, {})>>]

CampaignVersions ==
  {[CleanCampaigns EXCEPT !.campaigns =
      {[CampaignK EXCEPT !.threshold.minimum_pass_rate = 33, !.threshold.maximum_failed_runs = 2]}],
   [CleanCampaigns EXCEPT !.campaigns = {[CampaignK EXCEPT !.status = "completed"]}],
   [CleanCampaigns EXCEPT !.campaigns = {CampaignK, [CampaignK EXCEPT !.id = "K2"]}],
   [CleanCampaigns EXCEPT !.campaigns =
      {[CampaignK EXCEPT !.scenarios = {BaselineS, [ProbeS2 EXCEPT !.hazards = {"HZ", "HZ2"}]}]}],
   \* refused: a probe of no hazard
   [CleanCampaigns EXCEPT !.campaigns =
      {[CampaignK EXCEPT !.scenarios = {BaselineS, [ProbeS2 EXCEPT !.hazards = {}]}]}]}

------------------------------------------------------------------------------
SnapshotN ==
  [id |-> "N", system |-> "Y", model |-> "M", deployment |-> "D", status |-> "current",
   drift |-> "none", scenarios |-> {"S"}, telemetry_sources |-> {"T"}, evidence |-> {"ops"}]
DriftDR ==
  [id |-> "DR", snapshot |-> "N", system |-> "Y", model |-> "M", deployment |-> "D",
   status |-> "watch", scenarios |-> {"S"}, evidence |-> {"ops"}]
IncidentI ==
  [id |-> "I", system |-> "Y", deployment |-> "D", severity |-> "high", state |-> "closed",
   scenarios |-> {"S"}, hazards |-> {"HZ"}, evidence |-> {"ops"}]
TriggerRT ==
  [id |-> "RT", source |-> "incident_record", record |-> "I", state |-> "satisfied",
   requirements |-> {"REQ"}, evidence |-> {"ops"}]

CleanTrail ==
  [snapshots |-> {SnapshotN}, drifts |-> {DriftDR}, incidents |-> {IncidentI},
   triggers |-> {TriggerRT}]

TrailVersions ==
  {[CleanTrail EXCEPT !.incidents = {[IncidentI EXCEPT !.state = "triaged"]}],
   [CleanTrail EXCEPT !.snapshots = {[SnapshotN EXCEPT !.status = "degraded"]}],
   [CleanTrail EXCEPT !.triggers = {[TriggerRT EXCEPT !.record = "I2"]}],
   [CleanTrail EXCEPT !.triggers = {[TriggerRT EXCEPT !.state = "open"]}],
   [CleanTrail EXCEPT !.drifts = {[DriftDR EXCEPT !.status = "critical"]}],
   \* refused: current, and drifting critically
   [CleanTrail EXCEPT !.snapshots = {[SnapshotN EXCEPT !.drift = "critical"]}]}

------------------------------------------------------------------------------
Owner ==
  [actor |-> "owner", scopes |-> {"policy", "safety_gate"}, can_sign |-> TRUE, can_dissent |-> TRUE,
   can_waive |-> TRUE]
Engineer ==
  [actor |-> "engineer", scopes |-> {"safety_gate"}, can_sign |-> FALSE, can_dissent |-> TRUE,
   can_waive |-> FALSE]
FindingF1 ==
  [id |-> "F1", opened_by |-> "engineer", scope |-> "safety_gate", severity |-> "high",
   status |-> "closed", waiver |-> {}, hazards |-> {}, evidence |-> {"review"}]
SignoffG1 ==
  [id |-> "G1", actor |-> "owner", scope |-> "policy", disposition |-> "approved",
   conditions |-> {}, evidence |-> {"review"}]
DissentN1 ==
  [id |-> "N1", actor |-> "engineer", scope |-> "safety_gate", severity |-> "concern",
   related |-> {}, evidence |-> {"review"}]

CleanReview ==
  [status |-> "completed", bindings |-> {Owner, Engineer}, findings |-> {FindingF1},
   signoffs |-> {SignoffG1}, dissents |-> {}, evidence |-> {"review"}]

ReviewVersions ==
  {[CleanReview EXCEPT !.status = "in_review"],
   [CleanReview EXCEPT !.signoffs = {[SignoffG1 EXCEPT !.disposition = "rejected"]}],
   \* refused: nobody may act
   [CleanReview EXCEPT !.bindings = {}]}

SomeFilings ==
  [findings |-> {[FindingF1 EXCEPT !.id = "F2", !.status = "open", !.severity = "critical",
                                   !.hazards = {"HZ"}],
                 \* refused: critical without a hazard
                 [FindingF1 EXCEPT !.id = "F2", !.status = "open", !.severity = "critical"]},
   signoffs |-> {[SignoffG1 EXCEPT !.id = "G2", !.actor = "engineer", !.scope = "safety_gate"],
                 [SignoffG1 EXCEPT !.id = "G2", !.scope = "safety_gate"]},
   dissents |-> {DissentN1,
                 [DissentN1 EXCEPT !.severity = "blocking_objection", !.related = {"F1"}],
                 \* refused: related to nothing
                 [DissentN1 EXCEPT !.severity = "blocking_objection"]}]

------------------------------------------------------------------------------
Artifact(id, kind) ==
  [id |-> id, kind |-> kind, required |-> TRUE, sensitive |-> FALSE, manifests |-> {},
   evidence |-> {"package"}]
LedgerArtifact ==
  [Artifact("XA6", "run_ledger") EXCEPT !.sensitive = TRUE, !.manifests = {"PM"}]
RuleRR == [id |-> "RR", kinds |-> {"run_ledger"}, required |-> TRUE, evidence |-> {"review"}]

CleanExport ==
  [id |-> "XP", status |-> "ready_to_export", format |-> "json", audience |-> "federal_evaluation",
   artifacts |-> {Artifact("XA1", "assurance_case"), Artifact("XA2", "traceability_graph"),
                  Artifact("XA3", "evidence_bundle"), Artifact("XA4", "readiness_report"),
                  Artifact("XA5", "review_workflow"), LedgerArtifact},
   rules |-> {RuleRR}, manifests |-> {"PM"}, evidence |-> {"package"}, bounded |-> TRUE]

ExportVersions ==
  {[CleanExport EXCEPT !.rules = {[RuleRR EXCEPT !.kinds = {"assurance_case"}]}],
   [CleanExport EXCEPT !.status = "draft"],
   [CleanExport EXCEPT !.manifests = {"PM2"}],
   [CleanExport EXCEPT !.id = "XP2"],
   \* refused: nothing is redacted for this audience
   [CleanExport EXCEPT !.rules = {}]}

------------------------------------------------------------------------------
ThreadTR1 ==
  [id |-> "TR1", closure |-> "closed", requirements |-> {"REQ"}, scenarios |-> {"S"},
   hazards |-> {"HZ"}, controls |-> {"C"}, references |-> {"RF1"}, reviews |-> {"RW"},
   exports |-> {"XP"}]
ThreadTR2 ==
  [ThreadTR1 EXCEPT !.id = "TR2", !.requirements = {"REQ2"}, !.hazards = {"HZ2"},
                    !.references = {"RF2"}]
ReferenceRF1 ==
  [id |-> "RF1", bundle |-> "package", artifacts |-> {"DA4"}, requirements |-> {"REQ"},
   hazards |-> {"HZ"}]
ReferenceRF2 ==
  [ReferenceRF1 EXCEPT !.id = "RF2", !.requirements = {"REQ2"}, !.hazards = {"HZ2"}]
DossierArtifact(id, kind, record) ==
  [id |-> id, kind |-> kind, record |-> record, manifests |-> {"PM"}, evidence |-> {"package"}]

CleanDossier ==
  [status |-> "trace_closed", threads |-> {ThreadTR1, ThreadTR2},
   artifacts |-> {DossierArtifact("DA1", "review_workflow", "RW"),
                  DossierArtifact("DA2", "export_package", "XP"),
                  DossierArtifact("DA3", "readiness_rollup", "RR"),
                  DossierArtifact("DA4", "run_ledger", "RL")},
   references |-> {ReferenceRF1, ReferenceRF2}, bounded |-> TRUE]

DossierVersions ==
  {[CleanDossier EXCEPT !.threads = {ThreadTR1, [ThreadTR2 EXCEPT !.references = {"RF1"}]}],
   [CleanDossier EXCEPT !.references = {ReferenceRF1, [ReferenceRF2 EXCEPT !.bundle = "gone"]}],
   [CleanDossier EXCEPT !.status = "draft",
                        !.threads = {ThreadTR1, [ThreadTR2 EXCEPT !.closure = "partial"]}],
   \* refused: closed with an open thread
   [CleanDossier EXCEPT !.threads = {ThreadTR1, [ThreadTR2 EXCEPT !.closure = "partial"]}]}

------------------------------------------------------------------------------
ClaimC1 ==
  [id |-> "C1", type |-> "capability", risk |-> "moderate", strength |-> "tested",
   review |-> "approved", limited |-> FALSE, text |-> {"runs scenarios"},
   reviewers |-> {"owner"}, references |-> {"CR1"}, capabilities |-> {"registry_layer"},
   artifacts |-> {"XA1"}]
ClaimC2 ==
  [ClaimC1 EXCEPT !.id = "C2", !.type = "non_endorsement", !.risk = "low", !.strength = "none",
                  !.text = {"certified", "not"}, !.references = {}, !.artifacts = {}]
CitationCR1 ==
  [id |-> "CR1", bundle |-> "package", artifacts |-> {"XA1"}, capabilities |-> {"registry_layer"}]
BlockingPhrase == [id |-> "PR1", phrase |-> "certified", markers |-> {"not"}, blocks |-> TRUE]
WarningPhrase == [id |-> "PR2", phrase |-> "production-ready", markers |-> {}, blocks |-> FALSE]

CleanGuardrails ==
  [audience |-> "open_source_readme", review |-> "approved", claims |-> {ClaimC1, ClaimC2},
   references |-> {CitationCR1}, rules |-> {BlockingPhrase, WarningPhrase}, bounded |-> TRUE]

GuardrailVersions ==
  {[CleanGuardrails EXCEPT !.claims = {[ClaimC1 EXCEPT !.text = {"certified"}], ClaimC2}],
   [CleanGuardrails EXCEPT !.claims = {[ClaimC1 EXCEPT !.text = {"production-ready"}], ClaimC2}],
   [CleanGuardrails EXCEPT !.claims = {[ClaimC1 EXCEPT !.capabilities = {"review_workflow"}], ClaimC2}],
   [CleanGuardrails EXCEPT !.claims = {[ClaimC1 EXCEPT !.reviewers = {"nobody"}], ClaimC2}],
   \* refused: strength without a reference
   [CleanGuardrails EXCEPT !.claims = {[ClaimC1 EXCEPT !.references = {}], ClaimC2}]}

------------------------------------------------------------------------------
CoreMapping(concern) ==
  [id |-> concern, concern |-> concern, expectation |-> "required", status |-> "satisfied",
   capabilities |-> {"registry_layer"}, artifacts |-> {"XA1"}, evidence |-> {"package"}]

CleanProfile ==
  [mappings |-> {CoreMapping(c) : c \in Prof!CoreConcerns}, completed |-> Capabilities,
   artifacts |-> {"XA1"}, bundles |-> {"package"}, bounded |-> TRUE]

ProfileVersions ==
  {[CleanProfile EXCEPT !.completed = RequiredCapabilities],
   [CleanProfile EXCEPT !.bundles = {"gone"}],
   [CleanProfile EXCEPT !.mappings =
      {CoreMapping(c) : c \in Prof!CoreConcerns \ {"mission_traceability"}}],
   \* refused: nothing is mapped
   [CleanProfile EXCEPT !.mappings = {}]}

------------------------------------------------------------------------------
CleanArtifacts ==
  [registry_layer |-> CleanRegistry,         policy_pack_engine |-> CleanPolicy,
   framework_crosswalks |-> CleanCrosswalk,  signed_provenance |-> CleanProvenance,
   telemetry_adapters |-> CleanTelemetry,    scenario_campaign_runner |-> CleanCampaigns,
   monitoring_incidents |-> CleanTrail,      review_workflow |-> CleanReview,
   audit_report_export |-> CleanExport,      assurance_dossier |-> CleanDossier,
   claim_guardrails |-> CleanGuardrails,     federal_evaluation_profile |-> CleanProfile]

SomeVersions ==
  [registry_layer |-> RegistryVersions,        policy_pack_engine |-> PolicyVersions,
   framework_crosswalks |-> CrosswalkVersions, signed_provenance |-> ProvenanceVersions,
   telemetry_adapters |-> TelemetryVersions,   scenario_campaign_runner |-> CampaignVersions,
   monitoring_incidents |-> TrailVersions,     review_workflow |-> ReviewVersions,
   audit_report_export |-> ExportVersions,     assurance_dossier |-> DossierVersions,
   claim_guardrails |-> GuardrailVersions,     federal_evaluation_profile |-> ProfileVersions]
==============================================================================
