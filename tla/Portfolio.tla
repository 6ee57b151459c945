------------------------------- MODULE Portfolio -------------------------------
(***************************************************************************)
(* The twelve capability layers held side by side: the artifact of each,   *)
(* the evidence bundles and catalogs they share, the readiness report      *)
(* drawn from each, and the claim gate over these reports                  *)
(* (prototype_rollup.py).                                                  *)
(*                                                                         *)
(* Artifacts are immutable values: a caller revises one by making another, *)
(* which the constructors may refuse.  What one layer says of another is   *)
(* not kept up to date: the profile's list of completed layers, the        *)
(* reports of runs and adapters, the rulings on requests.                  *)
(***************************************************************************)
EXTENDS Readiness

CONSTANTS
  Versions,         \* for each layer, what a caller may replace its artifact with
  Clean,            \* the artifacts at the start
  Bundles,          \* the evidence bundles at the start
  Filings,          \* review records: findings, signoffs and dissents
  TelemetryInputs, CampaignInputs,
  ReplayPolicy,     \* of the telemetry adapter
  SafetyRules, DegradationRules, ConflictChecks,
  MaxEdits, MaxTime

VARIABLES
  held,     \* layer -> artifact
  store,    \* bundle id -> bundle
  now,
  ranAs,    \* each run report with the campaign as it was when it ran
  edits     \* bounds the behaviours

vars == <<held, store, now, ranAs, edits>>

Layers == Capabilities

Reg == INSTANCE Registry
Pol == INSTANCE Policy
Cross == INSTANCE Crosswalk
Prov == INSTANCE Provenance
Tele == INSTANCE TelemetrySources
Camp == INSTANCE Campaigns
Mon == INSTANCE Monitoring
Rev == INSTANCE ReviewWorkflow
Exp == INSTANCE ExportPackage
Dos == INSTANCE Dossier
Guard == INSTANCE Guardrails
Prof == INSTANCE EvaluationProfile

\* The constructors accept the artifact.
Constructs(layer, v) ==
  CASE layer = "registry_layer"             -> Reg!WellFormed(v)
    [] layer = "policy_pack_engine"         -> Pol!WellFormed(v)
    [] layer = "framework_crosswalks"       -> Cross!WellFormed(v)
    [] layer = "signed_provenance"          -> Prov!WellFormed(v)
    [] layer = "telemetry_adapters"         -> Tele!WellFormed(v.catalog)
    [] layer = "scenario_campaign_runner"   -> /\ \A k \in v.campaigns : Camp!WellFormed(k)
                                               /\ \A j, k \in v.campaigns : j.id = k.id => j = k
    [] layer = "monitoring_incidents"       -> Mon!WellFormed(v)
    [] layer = "review_workflow"            -> Rev!WellFormed(v)
    [] layer = "audit_report_export"        -> Exp!WellFormed(v)
    [] layer = "assurance_dossier"          -> Dos!WellFormed(v)
    [] layer = "claim_guardrails"           -> Guard!WellFormed(v)
    [] layer = "federal_evaluation_profile" -> Prof!WellFormed(v)

\* The fields an artifact is declared with, and those that are typed with an enumeration or
\* parsed as a time, where it matters.
HasShape(layer, v) ==
  /\ layer = "policy_pack_engine" =>
       /\ v = [pack |-> v.pack, waivers |-> v.waivers, requests |-> v.requests]
       /\ Pol!HasTimes(v)
  /\ layer = "scenario_campaign_runner" =>
       v = [campaigns |-> v.campaigns, catalog |-> v.catalog, reports |-> v.reports]
  /\ layer = "monitoring_incidents" => \A i \in v.incidents : i.state \in Mon!IncidentState

\* The reports of the first campaigns, with the campaigns.
FirstRuns ==
  LET layer == Clean.scenario_campaign_runner
  IN  {x \in ToSet(layer.reports) \X layer.campaigns : x[1].campaign = x[2].id}

\* Artifacts are as the code declares them, bundles as their constructors accept them, and
\* run reports come from runs.
ASSUME PortfolioAssumption ==
  LET first == Clean.scenario_campaign_runner
      reports == {x[1] : x \in FirstRuns}
  IN  /\ DOMAIN Clean = Layers
      /\ \A l \in Layers : /\ Constructs(l, Clean[l])
                           /\ \A v \in {Clean[l]} \cup Versions[l] : HasShape(l, v)
      /\ \A b \in DOMAIN Bundles : Constructed(Bundles[b]) /\ Bundles[b].bundle_id = b
      /\ \A v \in {first} \cup Versions["scenario_campaign_runner"] : v.reports \in Seq(reports)
      /\ \A x \in FirstRuns : \E in \in CampaignInputs : x[1] = Camp!Run(x[2], in, first.catalog, {})
      /\ MaxEdits \in Nat /\ MaxTime \in Nat

\* What a caller takes from the other layers when it evaluates one of them: the
\* guardrails are told what the profile declares to be completed.
Known ==
  [reviewers    |-> {b.actor : b \in held.review_workflow.bindings},
   capabilities |-> held.federal_evaluation_profile.completed,
   artifacts    |-> {a.id : a \in held.audit_report_export.artifacts}]

\* as_of is the empty set when the caller gives no time to the policy layer.
PolicyReport(as_of) == Pol!PolicyReadiness(held.policy_pack_engine, store, as_of)

\* The report that an evaluation of the layer would give now.
FreshReport(layer) ==
  LET v == held[layer]
  IN  CASE layer = "registry_layer"           -> Reg!RegistryReadiness(v, store)
        [] layer = "policy_pack_engine"       -> PolicyReport({now})
        [] layer = "framework_crosswalks"     -> Cross!CrosswalkReadiness(v, store)
        [] layer = "signed_provenance"        -> Prov!ProvenanceReadiness(v, Prov!StrictPolicy)
        [] layer = "telemetry_adapters"       -> Tele!TelemetryReadiness(v.catalog, v.reports)
        [] layer = "scenario_campaign_runner" -> Camp!CampaignReadiness(v.campaigns, v.reports)
        [] layer = "monitoring_incidents"     ->
             Mon!MonitoringReadiness(v, held.registry_layer, held.telemetry_adapters.catalog, store)
        [] layer = "review_workflow"          -> Rev!ReviewReadiness(v, store)
        [] layer = "audit_report_export"      ->
             Exp!ExportReadiness(v, store, {held.signed_provenance.id})
        [] layer = "assurance_dossier"        ->
             Dos!DossierReadiness(v, store, {held.signed_provenance.id}, {held.audit_report_export.id})
        [] layer = "claim_guardrails"         -> Guard!GuardrailReadiness(v, store, Known)
        [] layer = "federal_evaluation_profile" -> Prof!ProfileReadiness(v, store)

IsComplete(layer) == FreshReport(layer).decision = "complete"

\* An order in which a caller may hand the reports to the rollup.
LayerOrder ==
  <<"registry_layer", "policy_pack_engine", "framework_crosswalks", "signed_provenance",
    "telemetry_adapters", "scenario_campaign_runner", "monitoring_incidents", "review_workflow",
    "audit_report_export", "assurance_dossier", "claim_guardrails", "federal_evaluation_profile">>

FreshReports == [i \in 1..Len(LayerOrder) |-> FreshReport(LayerOrder[i])]

------------------------------------------------------------------------------
Init ==
  /\ held = Clean
  /\ store = Bundles
  /\ now = 0
  /\ ranAs = FirstRuns
  /\ edits = 0

Edit == edits < MaxEdits /\ edits' = edits + 1

\* Faulty: the constructors are not asked.
HoldAnything(layer, v) == Edit /\ v # held[layer] /\ held' = [held EXCEPT ![layer] = v]

Hold(layer, v) ==
  /\ Edit
  /\ v # held[layer]
  /\ Constructs(layer, v)
  /\ held' = [held EXCEPT ![layer] = v]

Revise(layer, v) == Hold(layer, v) /\ UNCHANGED <<store, now, ranAs>>

\* A finding is filed, an actor signs or dissents.
FileReview(field, record) ==
  Revise("review_workflow", [held.review_workflow EXCEPT ![field] = @ \cup {record}])

ResolveFinding(f, status, waiver) ==
  Revise("review_workflow",
         [held.review_workflow EXCEPT
            !.findings = (@ \ {f}) \cup {[f EXCEPT !.status = status, !.waiver = waiver]}])

\* The requests are made again, at the present time.
RefileRequests ==
  Revise("policy_pack_engine",
         [held.policy_pack_engine EXCEPT
            !.requests = {[r EXCEPT !.evaluated_at = now] : r \in @}])

\* The evaluation profile declares what the reports say.
FileProfile ==
  Revise("federal_evaluation_profile",
         [held.federal_evaluation_profile EXCEPT
            !.completed = ToSet(CompletedIds(FreshReports))])

NormalizeInput(in) ==
  LET tele == held.telemetry_adapters
  IN  Revise("telemetry_adapters",
             [tele EXCEPT !.reports = @ \cup {Tele!Normalize(tele.catalog, ReplayPolicy, in)}])

\* A run that raises leaves no report.
RunCampaign(k, in) ==
  LET layer    == held.scenario_campaign_runner
      findings == Camp!ValidationFindings(k, layer.catalog, store,
                                          held.telemetry_adapters.catalog.replays)
      report   == Camp!Run(k, in, layer.catalog, findings)
  IN  /\ ~Camp!RunRaises(k, in, layer.catalog, findings)
      /\ Hold("scenario_campaign_runner", [layer EXCEPT !.reports = Append(@, report)])
      /\ ranAs' = ranAs \cup {<<report, k>>}
      /\ UNCHANGED <<store, now>>

------------------------------------------------------------------------------
(* What happens to the evidence, and time. *)

Store(bundles) ==
  /\ Edit
  /\ store' = bundles
  /\ bundles # store
  /\ UNCHANGED <<held, now, ranAs>>

LoseBundle(b) == Store([x \in DOMAIN store \ {b} |-> store[x]])
DamageContent(b) == Store([store EXCEPT ![b].records[1].content.kind = "damaged"])
AgeRecord(b) == Store([store EXCEPT ![b].records[1].status = "stale"])
StripHashes(b) ==
  Store([store EXCEPT ![b] = [@ EXCEPT !.records[1].content_hash = {}, !.bundle_hash = {}]])

Rehash(b) == Store([store EXCEPT ![b] = BundleWithComputedHashes(@)])

Tick == now < MaxTime /\ now' = now + 1 /\ UNCHANGED <<held, store, ranAs, edits>>

\* What takes something away and adds nothing.  Stripping the hashes from a bundle that
\* no longer matches them is not of this kind: it hides the damage.
Adverse ==
  \/ Tick
  \/ \E b \in DOMAIN store :
       \/ LoseBundle(b) \/ DamageContent(b) \/ AgeRecord(b)
       \/ IntegrityErrors(store[b]) = {} /\ StripHashes(b)

Next ==
  \/ \E l \in Layers : \E v \in Versions[l] : Revise(l, v)
  \/ \E field \in DOMAIN Filings : \E record \in Filings[field] : FileReview(field, record)
  \/ \E f \in held.review_workflow.findings :
       ResolveFinding(f, "closed", {}) \/ ResolveFinding(f, "waived", {"waiver"})
  \/ RefileRequests
  \/ FileProfile
  \/ \E in \in TelemetryInputs : NormalizeInput(in)
  \/ \E k \in held.scenario_campaign_runner.campaigns, in \in CampaignInputs : RunCampaign(k, in)
  \/ \E b \in DOMAIN store : Rehash(b) \/ StripHashes(b)
  \/ Adverse

Spec == Init /\ [][Next]_vars

------------------------------------------------------------------------------
TypeOK ==
  /\ \A l \in Layers : Constructs(l, held[l])
  /\ \A b \in DOMAIN store : store[b].bundle_id = b /\ Constructed(store[b])
  /\ held.scenario_campaign_runner.reports \in Seq({x[1] : x \in ranAs})
  /\ now \in 0..MaxTime /\ edits \in 0..MaxEdits

\* Evidence that is damaged, aged, stripped of hashes or lost, and time that passes,
\* never make any layer's verdict better: several layers skip checks on a bundle they
\* already object to, and what they skip must not outweigh the objection.  It is about
\* bundles with no record marked invalid to begin with, as all of MCPortfolio's are:
\* aging an invalid record to stale would improve the decision on it.
AdverseStepNeverHelps ==
  [][Adverse => \A l \in Layers :
       LayerRank(FreshReport(l)'.decision) <= LayerRank(FreshReport(l).decision)]_vars

\* What a reviewer takes a named bundle for: it is there as it was hashed, and usable.
Sound(b) ==
  /\ b \in DOMAIN store
  /\ HasValidBundleHash(store[b])
  /\ \A i \in DOMAIN store[b].records :
       HasValidContentHash(store[b].records[i]) /\ IsUsable(store[b].records[i].status)

AllSound(ids) == \A b \in ids : Sound(b)

Approved(records) == {r \in records : r.lifecycle = "approved" /\ AllSound(r.evidence)}

\* The system, with its models and use cases, that a deployment runs is approved on
\* sound evidence from the deployment's own scenarios.
IsBacked(d) ==
  LET registry == held.registry_layer
  IN  /\ d.lifecycle = "approved" /\ AllSound(d.evidence)
      /\ \A b \in d.evidence : store[b].scope.scenario_id \in d.scenarios
      /\ \E s \in registry.systems :
           /\ s.id = d.system /\ s.lifecycle = "approved"
           /\ s.models \subseteq {m.id : m \in Approved(registry.models)}
           /\ \E u \in Approved(registry.use_cases) : u.system = s.id

\* Nobody has to act on a deployment: what is observed of it is current, of a model
\* and a telemetry source that are registered for it, and no incident is open.
IsQuiet(d) ==
  LET trail == held.monitoring_incidents
  IN  /\ \A i \in trail.incidents : i.deployment = d.id => i.state \in {"mitigated", "closed"}
      /\ \A x \in trail.snapshots : x.deployment = d.id =>
           /\ x.status = "current" /\ x.system = d.system /\ x.scenarios \subseteq d.scenarios
           /\ \E s \in held.registry_layer.systems : s.id = x.system /\ x.model \in s.models
           /\ x.telemetry_sources \subseteq
                d.telemetry_sources \cap {y.id : y \in held.telemetry_adapters.catalog.sources}

\* When the registry and the monitoring layer are complete, every live deployment is
\* approved down to its models and quiet: the registry checks one step of this chain
\* at a time, the monitoring layer looks into two other layers' catalogs.
LiveDeploymentIsBacked ==
  IsComplete("registry_layer") /\ IsComplete("monitoring_incidents") =>
    \A d \in held.registry_layer.deployments : d.live => IsBacked(d) /\ IsQuiet(d)

\* A complete policy layer rests on waivers that were granted by enough authority, on
\* sound evidence, and had not expired when the request was evaluated; nor by now, if
\* the caller gives the time.
CompletePolicyHasLiveWaivers ==
  LET p == held.policy_pack_engine
      Live(w, rule, request, as_of) ==
        /\ w.id \in ToSet(request.waiver_ids) /\ rule.id \in w.rules /\ w.pack = p.pack.id
        /\ Pol!Satisfies(w.authority, rule.authority) /\ AllSound(w.evidence)
        /\ \A t \in as_of \cup {request.evaluated_at} : t < w.expires_at
  IN  \A as_of \in {{}, {now}} : PolicyReport(as_of).decision = "complete" =>
        \A request \in p.requests : \A rule \in p.pack.rules :
          rule.decision = "require_waiver" /\ Pol!Matches(rule, request)
          => \E w \in p.waivers : Live(w, rule, request, as_of)

SeriousLevels == {ClaimLevels[i] : i \in 2..Len(ClaimLevels)}

\* As long as a blocking dissent or an unresolved severe finding stands among the
\* review records, no serious claim is permitted on fresh reports, whatever else is
\* signed, waived or resolved.
ObjectionStopsTheClaim ==
  LET w == held.review_workflow
  IN  \/ \E d \in w.dissents : d.severity = "blocking_objection"
      \/ \E f \in w.findings : f.severity \in {"medium", "high", "critical"} /\ f.status = "open"
      => \A level \in SeriousLevels : ~RollupPermitsClaim(FreshReports, level)

\* A serious claim rests on a complete report of every required layer: the points of
\* the other layers never stand in for one that is incomplete or left out.  Nobody
\* attests a deployment or a certification to himself.  And the two verdicts on the
\* whole agree: a clean rollup of all the layers permits the claim.
ClaimNeedsEveryLayer ==
  LET fresh == FreshReports
      Without(left) == Restrict(fresh, {i \in DOMAIN fresh : fresh[i].capability \notin left})
      complete == ToSet(CompletedIds(fresh))
  IN  /\ \A left \in {{}} \cup {{l} : l \in RequiredCapabilities} : \A level \in SeriousLevels :
           RollupPermitsClaim(Without(left), level) =>
             /\ level \in {"serious_open_source_prototype", "federal_aligned_prototype"}
             /\ RequiredCapabilities \subseteq complete \ left
      /\ IsRollupClean(fresh, Capabilities) =>
           RollupPermitsClaim(fresh, "serious_open_source_prototype")

\* When the campaign layer is complete, every scenario of every campaign was run, and
\* every planned repetition of a probe passed if the campaign asked for that when it
\* ran.
CompleteCampaignPassedItsProbes ==
  LET layer == held.scenario_campaign_runner
      Ran(k, s)    == \E r \in ToSet(layer.reports) : \E x \in r.results :
                        r.campaign = k.id /\ x.scenario = s.scenario
      Passed(r, s) == \A i \in 1..s.minimum_runs :
                        \E x \in r.results : /\ x.scenario = s.scenario /\ x.run = i
                                             /\ x.result = "pass"
      Probes(k)    == {s \in k.scenarios : s.role \in {"adversarial_probe", "degraded_mode", "stress"}}
  IN  IsComplete("scenario_campaign_runner") =>
        /\ \A k \in layer.campaigns : \A s \in k.scenarios : Ran(k, s)
        /\ \A x \in ranAs :
             x[1] \in ToSet(layer.reports) /\ x[2].threshold.require_all_critical =>
               \A s \in Probes(x[2]) : Passed(x[1], s)

\* The parts of the paper trail, each as its reader takes it.
ThreadsAreSupported ==
  LET d == held.assurance_dossier
      Supports(t, r) == r.id \in t.references /\ Sound(r.bundle)
  IN  \A t \in d.threads :
        /\ t.exports = {held.audit_report_export.id}
        /\ \A q \in t.requirements : \E r \in d.references : Supports(t, r) /\ q \in r.requirements
        /\ \A h \in t.hazards : \E r \in d.references : Supports(t, r) /\ h \in r.hazards

ArtifactsAreSigned ==
  LET m == held.signed_provenance
      Trusted(s) == \E y \in m.signers :
        y.id = s.signer /\ y.trust \in {"signed_by_identified_key", "external_attestation_ready"}
  IN  \A d \in m.digests : \E s \in m.signatures :
        /\ s.digest = d.id /\ s.status = "verified"
        /\ Prov!IsExternalAssuranceGrade(s.algorithm) /\ Trusted(s)

ExportIsRedacted ==
  LET x == held.audit_report_export
  IN  /\ \A a \in x.artifacts : a.sensitive =>
           \E r \in x.rules : a.kind \in r.kinds /\ (r.required => AllSound(r.evidence))
      /\ \E a \in x.artifacts : a.manifests = {held.signed_provenance.id}

ClaimsAreCited ==
  LET p == held.claim_guardrails
      Cites(c, r) == r.id \in c.references /\ Sound(r.bundle)
  IN  \A c \in p.claims : c.references # {} =>
        \A id \in c.capabilities : \E r \in p.references : Cites(c, r) /\ id \in r.capabilities

SatisfiedMappingsHaveKinds ==
  LET x == held.framework_crosswalks
      Shows(b, k) == Sound(b) /\ \E i \in DOMAIN store[b].records : store[b].records[i].content.kind = k
  IN  \A m \in x.mappings : m.status = "satisfied" =>
        \E o \in x.objectives : /\ o.id = m.control
                                /\ \A b \in m.evidence, k \in o.evidence_kinds : Shows(b, k)

ConcernsAreMapped ==
  LET p == held.federal_evaluation_profile
  IN  \A concern \in Prof!CoreConcerns : \E m \in p.mappings :
        /\ m.concern = concern /\ m.capabilities \subseteq p.completed
        /\ m.expectation = "required" => AllSound(m.evidence)

\* When the six layers that are read from outside are complete, their records lead from
\* every requirement, hazard, claim, mapping and concern to sound evidence and to signed
\* artifacts: each layer checks its own references only.
CompletePaperTrail ==
  (\A l \in {"assurance_dossier", "signed_provenance", "audit_report_export", "claim_guardrails",
             "framework_crosswalks", "federal_evaluation_profile"} : IsComplete(l)) =>
    /\ ThreadsAreSupported /\ ArtifactsAreSigned /\ ExportIsRedacted
    /\ ClaimsAreCited /\ SatisfiedMappingsHaveKinds /\ ConcernsAreMapped

\* policy.py:167, "Authority required before a policy decision may be satisfied.", and the
\* refusal to build an allow rule for high-risk actions without one: a request that a rule
\* allows has the authority that the rule requires.
AllowedActionHasAuthority ==
  LET p == held.policy_pack_engine
  IN  \A request \in p.requests : \A rule \in Pol!MatchingRules(p, request) :
        Pol!RuleDecision(p, rule, request) = "allow" /\ rule.decision = "allow"
        => Pol!Satisfies(request.authority, rule.authority)
==============================================================================
