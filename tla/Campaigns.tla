------------------------------- MODULE Campaigns -------------------------------
(***************************************************************************)
(* Scenario campaigns: the records (scenario_campaigns.py), the validation *)
(* before a run (scenario_campaign_validation.py), the run itself, which   *)
(* calls ScenarioRunner once or more for every scenario                    *)
(* (scenario_campaign_runner.py), and the readiness of the layer           *)
(* (scenario_campaign_readiness.py).  Pass rates are in hundredths.        *)
(***************************************************************************)
EXTENDS Runner, Readiness

CanExecute(status) == status \in {"ready_for_run", "running"}

IsNonNominal(role) == role \in {"adversarial_probe", "degraded_mode", "stress"}

RequiredTag ==
  [baseline |-> "baseline", adversarial_probe |-> "adversarial", degraded_mode |-> "degraded_mode",
   regression |-> "regression", stress |-> "stress", negative_control |-> "baseline"]

HasNonNominalCoverage(campaign) == \E s \in campaign.scenarios : IsNonNominal(s.role)
HasAdversarialCoverage(campaign) ==
  \E s \in campaign.scenarios : s.role = "adversarial_probe"

UsesReplay(s) == s.replays # {} \/ "telemetry_replay" \in s.tags

\* What the constructors of scenarios, thresholds and campaigns refuse.
WellFormedScenario(s) ==
  /\ s.minimum_runs > 0
  /\ RequiredTag[s.role] \in s.tags
  /\ IsNonNominal(s.role) => s.hazards # {}

WellFormed(campaign) ==
  /\ {} \notin {campaign.objectives, campaign.scenarios, campaign.tags}
  /\ campaign.threshold.minimum_pass_rate \in 1..100
  /\ \A s \in campaign.scenarios : /\ WellFormedScenario(s)
                                   /\ RequiredTag[s.role] \in campaign.tags
  /\ \A records \in {campaign.scenarios, campaign.stop_rules} :
       \A r, s \in records : r.id = s.id => r = s
  /\ \A r, s \in campaign.scenarios : r.scenario = s.scenario => r = s

RequiredEvidence(campaign) ==
  campaign.evidence \cup UNION {r.evidence : r \in campaign.scenarios \cup campaign.stop_rules}

------------------------------------------------------------------------------
(* ScenarioCampaignValidator *)

PostureFindings(campaign) ==
  Blockers("not executable", Whenever(~CanExecute(campaign.status))) \cup
  Warnings("no non-nominal coverage", Whenever(~HasNonNominalCoverage(campaign))) \cup
  Blockers("non-nominal expected to fail",
           {s.scenario : s \in {t \in campaign.scenarios : IsNonNominal(t.role) /\ t.expected # "pass"}}) \cup
  Blockers("scenario without evidence",
           {s.scenario : s \in {t \in campaign.scenarios :
                                  campaign.threshold.require_evidence /\ t.evidence = {}}})

\* A campaign may name hazards of its mission thread or of the scenario itself.
TraceFindings(campaign, s, catalog) ==
  LET scenario == Lookup(catalog.scenarios, s.scenario)
      threads  == {t \in catalog.threads : t.id = campaign.thread}
  IN  Blockers("thread mismatch", {scenario.id : t \in {scenario.thread} \ {campaign.thread}}) \cup
      Blockers("requirement not traced", s.requirements \ UNION {t.requirements : t \in threads}) \cup
      Blockers("hazard not traced",
               s.hazards \ (scenario.hazards \cup UNION {t.hazards : t \in threads}))

CatalogFindings(campaign, catalog) ==
  LET known == {s \in campaign.scenarios : s.scenario \in Ids(catalog.scenarios)}
  IN  Blockers("catalog error", CatalogErrors(catalog)) \cup
      Warnings("catalog warning", CatalogWarnings(catalog)) \cup
      Blockers("thread missing", {campaign.thread} \ Ids(catalog.threads)) \cup
      Blockers("scenario missing", {s.scenario : s \in campaign.scenarios \ known}) \cup
      UNION {TraceFindings(campaign, s, catalog) : s \in known}

\* replays are the telemetry replay records at hand.
ReplayFindings(campaign, replays) ==
  LET Named(s) == {r \in replays : r.id \in s.replays}
      Lacking(s) ==
        Blockers("replay id missing", Whenever(UsesReplay(s) /\ s.replays = {})) \cup
        Blockers("replay missing", s.replays \ Ids(replays)) \cup
        Blockers("replay of another scenario",
                 Ids({r \in Named(s) : s.scenario \notin r.scenarios})) \cup
        Warnings("replay without evidence", Ids({r \in Named(s) : r.evidence = {}}))
  IN  UNION {Lacking(s) : s \in campaign.scenarios}

ValidationFindings(campaign, catalog, store, replays) ==
  PostureFindings(campaign) \cup CatalogFindings(campaign, catalog) \cup
  BundleFindings(RequiredEvidence(campaign), store) \cup ReplayFindings(campaign, replays)

------------------------------------------------------------------------------
(* ScenarioCampaignRunner.run: in has the id of the run and of the         *)
(* campaign, the telemetry by scenario and the prior bundles.              *)

RunsOf(campaign) == UNION {{s} \X (1..s.minimum_runs) : s \in campaign.scenarios}

RunInput(in, s, i, catalog) ==
  Inputs(catalog, s.scenario, in.telemetry[s.scenario], in.prior, <<in.run, s.scenario, i>>)

HasTelemetry(campaign, in) == {s.scenario : s \in campaign.scenarios} \subseteq DOMAIN in.telemetry

\* Nothing runs unless validation finds no blocker and every scenario has telemetry.
MayExecute(campaign, in, findings) == ~AnyBlocker(findings) /\ HasTelemetry(campaign, in)

\* An exception of one scenario's run leaves the whole campaign without a report.
RunRaises(campaign, in, catalog, findings) ==
  \/ in.campaign # campaign.id
  \/ /\ MayExecute(campaign, in, findings)
     /\ \E run \in RunsOf(campaign) : Failure(RunInput(in, run[1], run[2], catalog)) # "none"

ResultsOf(campaign, in, catalog) ==
  {[scenario |-> run[1].scenario, run |-> run[2],
    result   |-> RunResult(RunInput(in, run[1], run[2], catalog)).verification_result] :
   run \in RunsOf(campaign)}

With(results, verdicts) == {r \in results : r.result \in verdicts}

\* accepts_counts
ThresholdAccepts(threshold, results) ==
  /\ 100 * Cardinality(With(results, {"pass"}))
       >= threshold.minimum_pass_rate * Cardinality(results)
  /\ Cardinality(With(results, {"fail"})) <= threshold.maximum_failed_runs
  /\ Cardinality(With(results, {"inconclusive", "not_run"})) <= threshold.maximum_inconclusive_runs

CriticalScenarios(campaign) == {s.scenario : s \in {t \in campaign.scenarios : IsNonNominal(t.role)}}

\* Faulty: the runs of non-nominal scenarios count like any other.
DecideByThreshold(campaign, results) ==
  IF results = {} THEN "blocked"
  ELSE IF ~ThresholdAccepts(campaign.threshold, results) THEN "failed"
  ELSE IF With(results, {"inconclusive", "not_run"}) # {} THEN "inconclusive" ELSE "accepted"

\* _decide_campaign_run
Decide(campaign, results) ==
  IF results = {} THEN "blocked"
  ELSE IF \/ ~ThresholdAccepts(campaign.threshold, results)
          \/ /\ campaign.threshold.require_all_critical
             /\ \E r \in results : r.scenario \in CriticalScenarios(campaign) /\ r.result # "pass"
       THEN "failed"
  ELSE IF With(results, {"inconclusive", "not_run"}) # {} THEN "inconclusive" ELSE "accepted"

\* The report carries its own bundle of one hashed record.
RunReport(campaign, in, findings, results) ==
  LET decision == Decide(campaign, results)
  IN  [run      |-> in.run,
       campaign |-> campaign.id,
       decision |-> decision,
       blocked  |-> AnyBlocker(findings),
       warned   |-> AnyWarning(findings),
       results  |-> results,
       bundle   |-> BundleWithComputedHashes(
                      [bundle_id   |-> <<"BND", in.run>>,
                       scope       |-> campaign.id,
                       records     |-> <<[evidence_id  |-> <<"EV-CAMPAIGN-RUN", in.run>>,
                                          content      |-> <<decision, results>>,
                                          status       |-> "accepted",
                                          content_hash |-> {}]>>,
                       bundle_hash |-> {}])]

Run(campaign, in, catalog, findings) ==
  RunReport(campaign, in, findings,
            IF MayExecute(campaign, in, findings) THEN ResultsOf(campaign, in, catalog) ELSE {})

------------------------------------------------------------------------------
(* ScenarioCampaignLayerReadinessEvaluator: reports is a sequence, for a    *)
(* run id given twice blocks.                                              *)

CoverageFindings(campaign, reports) ==
  LET own == {r \in reports : r.campaign = campaign.id}
      ran == UNION {{x.scenario : x \in r.results} : r \in own}
  IN  IF own = {} THEN Blockers("no run report", {campaign.id})
      ELSE Blockers("no accepted run",
                    IF \E r \in own : r.decision = "accepted" THEN {} ELSE {campaign.id}) \cup
           Blockers("scenario not run", {s.scenario : s \in campaign.scenarios} \ ran)

ReportFindings(campaigns, reports) ==
  LET Those(P(_)) == {r.run : r \in {x \in reports : P(x)}}
      NotAccepted(r) == r.decision # "accepted"
      Unknown(r)     == r.campaign \notin Ids(campaigns)
      Damaged(r)     == IntegrityErrors(r.bundle) # {}
      Doubtful(r)    == r.warned \/ IntegrityWarnings(r.bundle) # {}
      Empty(r)       == r.results = {}
      Invalid(r)     == r.blocked
  IN  Blockers("run not accepted", Those(NotAccepted)) \cup
      Blockers("unknown campaign", Those(Unknown)) \cup
      Blockers("no results", Those(Empty)) \cup
      Blockers("validation blockers", Those(Invalid)) \cup
      Blockers("report evidence", Those(Damaged)) \cup
      Warnings("report warnings", Those(Doubtful))

CampaignFindings(campaigns, reports) ==
  Blockers("no campaigns", Whenever(campaigns = {})) \cup
  Blockers("no run reports", Whenever(reports = << >>)) \cup
  Blockers("no non-nominal coverage",
           Whenever(campaigns # {} /\ \A k \in campaigns : ~HasNonNominalCoverage(k))) \cup
  Warnings("no adversarial coverage",
           Whenever(campaigns # {} /\ \A k \in campaigns : ~HasAdversarialCoverage(k))) \cup
  Blockers("duplicate run", Repeated([i \in DOMAIN reports |-> reports[i].run])) \cup
  (UNION {CoverageFindings(k, ToSet(reports)) : k \in campaigns}) \cup
  ReportFindings(campaigns, ToSet(reports))

CampaignReadiness(campaigns, reports) ==
  LET findings == CampaignFindings(campaigns, reports)
  IN  LayerReport("scenario_campaign_runner", LayerDecision(findings), findings)
==============================================================================
