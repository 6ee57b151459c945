---------------------------- MODULE PortfolioProofs ----------------------------
(***************************************************************************)
(* What complete reports and a permitted claim mean, for any artifacts,    *)
(* bundles, filings and inputs.                                            *)
(***************************************************************************)
EXTENDS Portfolio, TLAPS

(* The reports and the claim gate.                                         *)

\* Each layer reports under its own name.
LEMMA ReportsAreNamed ==
  ASSUME NEW l \in Layers
  PROVE  FreshReport(l).capability = l
BY DEF Layers, Capabilities, PercentOf, FreshReport, PolicyReport,
       Reg!RegistryReadiness, Pol!PolicyReadiness, Cross!CrosswalkReadiness,
       Prov!ProvenanceReadiness, Tele!TelemetryReadiness, Camp!CampaignReadiness,
       Mon!MonitoringReadiness, Rev!ReviewReadiness, Exp!ExportReadiness, Dos!DossierReadiness,
       Guard!GuardrailReadiness, Prof!ProfileReadiness,
       Reg!LayerReport, Pol!LayerReport, Cross!LayerReport, Prov!LayerReport, Tele!LayerReport,
       Camp!LayerReport, Mon!LayerReport, Rev!LayerReport, Exp!LayerReport, Dos!LayerReport,
       Guard!LayerReport, Prof!LayerReport

\* The rollup is handed one report of each layer.
LEMMA FreshReportsAreOfTheLayers ==
  /\ FreshReports # << >>
  /\ \A i \in DOMAIN FreshReports : \E l \in Layers : FreshReports[i] = FreshReport(l)
  /\ \A l \in Layers : \E i \in DOMAIN FreshReports : FreshReports[i] = FreshReport(l)
<1>1. DOMAIN FreshReports = 1..12
  BY DEF FreshReports, LayerOrder
<1>2. /\ FreshReports[1] = FreshReport("registry_layer")
      /\ FreshReports[2] = FreshReport("policy_pack_engine")
      /\ FreshReports[3] = FreshReport("framework_crosswalks")
      /\ FreshReports[4] = FreshReport("signed_provenance")
      /\ FreshReports[5] = FreshReport("telemetry_adapters")
      /\ FreshReports[6] = FreshReport("scenario_campaign_runner")
      /\ FreshReports[7] = FreshReport("monitoring_incidents")
      /\ FreshReports[8] = FreshReport("review_workflow")
      /\ FreshReports[9] = FreshReport("audit_report_export")
      /\ FreshReports[10] = FreshReport("assurance_dossier")
      /\ FreshReports[11] = FreshReport("claim_guardrails")
      /\ FreshReports[12] = FreshReport("federal_evaluation_profile")
  BY DEF FreshReports, LayerOrder
<1>3. FreshReports # << >>
  BY <1>1
<1>4. Layers = {"registry_layer", "policy_pack_engine", "framework_crosswalks",
                "signed_provenance", "telemetry_adapters", "scenario_campaign_runner",
                "monitoring_incidents", "review_workflow", "audit_report_export",
                "assurance_dossier", "claim_guardrails", "federal_evaluation_profile"}
  BY DEF Layers, Capabilities, PercentOf
<1>5. 1..12 = {1, 2, 3, 4, 5, 6, 7, 8, 9, 10, 11, 12}
  OBVIOUS
<1>6. \A i \in DOMAIN FreshReports : \E l \in Layers : FreshReports[i] = FreshReport(l)
  <2> SUFFICES ASSUME NEW i \in {1, 2, 3, 4, 5, 6, 7, 8, 9, 10, 11, 12}
               PROVE  \E l \in Layers : FreshReports[i] = FreshReport(l)
    BY <1>1, <1>5
  <2> QED BY <1>2, <1>4
<1>7. \A l \in Layers : \E i \in DOMAIN FreshReports : FreshReports[i] = FreshReport(l)
  BY <1>1, <1>2, <1>4, <1>5
<1> QED BY <1>3, <1>6, <1>7

\* What is completed is what is complete: no report completes another layer.
LEMMA CompletedAreComplete ==
  ASSUME NEW reports, \A i \in DOMAIN reports : \E l \in Layers : reports[i] = FreshReport(l)
  PROVE  /\ ToSet(CompletedIds(reports))
              = {l \in Layers : /\ IsComplete(l)
                                /\ \E i \in DOMAIN reports : reports[i].capability = l}
         /\ ToSet(UniqueIds(CompletedIds(reports))) = ToSet(CompletedIds(reports))
<1> DEFINE ids == CompletedIds(reports)
           named(l) == \E i \in DOMAIN reports : reports[i].capability = l
<1>1. ToSet(UniqueIds(ids)) = ToSet(ids)
  <2> HIDE DEF ids
  <2> QED BY DEF UniqueIds, ToSet
<1>2. ToSet(ids) = {reports[i].capability : i \in {i \in DOMAIN reports : reports[i].decision = "complete"}}
  BY DEF CompletedIds, ToSet
<1>3. ASSUME NEW i \in DOMAIN reports, reports[i].decision = "complete"
      PROVE  reports[i].capability \in Layers /\ IsComplete(reports[i].capability)
  <2>1. PICK l \in Layers : reports[i] = FreshReport(l)
    OBVIOUS
  <2> QED BY <1>3, <2>1, ReportsAreNamed DEF IsComplete
<1>4. ASSUME NEW l \in Layers, IsComplete(l),
             NEW i \in DOMAIN reports, reports[i].capability = l
      PROVE  reports[i].decision = "complete"
  <2>1. PICK m \in Layers : reports[i] = FreshReport(m)
    OBVIOUS
  <2> QED BY <1>4, <2>1, ReportsAreNamed DEF IsComplete
<1>5. ToSet(ids) \subseteq {l \in Layers : IsComplete(l) /\ named(l)}
  BY <1>2, <1>3
<1>6. {l \in Layers : IsComplete(l) /\ named(l)} \subseteq ToSet(ids)
  BY <1>2, <1>4
<1> QED BY <1>1, <1>5, <1>6, Zenon

\* What a serious claim needs.
LEMMA PermittedSeriousClaim ==
  ASSUME NEW completed, NEW level \in SeriousLevels, PermitsClaim(completed, level)
  PROVE  /\ level \in {"serious_open_source_prototype", "federal_aligned_prototype"}
         /\ RequiredCapabilities \subseteq ToSet(completed)
<1>1. SeriousLevels = {"serious_open_source_prototype", "federal_aligned_prototype",
                       "operational_deployment_ready", "certified_or_authorized"}
  <2>1. Len(ClaimLevels) = 5 /\ 2..5 = {2, 3, 4, 5}
    BY DEF ClaimLevels
  <2>2. SeriousLevels = {ClaimLevels[i] : i \in {2, 3, 4, 5}}
    BY <2>1 DEF SeriousLevels
  <2> QED BY <2>2 DEF ClaimLevels
<1>2. RequiresSeriousTarget(level)
  <2>1. \E i \in DOMAIN ClaimLevels : ClaimLevels[i] = level
    BY <1>1 DEF ClaimLevels
  <2>2. ClaimRank(level) \in DOMAIN ClaimLevels /\ ClaimLevels[ClaimRank(level)] = level
    BY <2>1 DEF ClaimRank
  <2>3. ClaimRank(level) \in 1..5 /\ ClaimRank(level) # 1
    BY <1>1, <2>2 DEF ClaimLevels
  <2> QED BY <2>3 DEF RequiresSeriousTarget
<1> DEFINE findings == GateFindings(completed, level)
<1>3. ~AnyBlocker(findings)
  BY DEF PermitsClaim, ClaimDecision
<1>4. /\ Blockers("missing", RequiredCapabilities \ ToSet(completed)) \subseteq findings
      /\ Blockers("external authorization required", Whenever(CannotBeSelfAttested(level)))
           \subseteq findings
  BY <1>2 DEF GateFindings
<1> HIDE DEF findings
<1>5. ASSUME NEW kind, NEW offending, Blockers(kind, offending) \subseteq findings
      PROVE  offending = {}
  <2> SUFFICES ASSUME NEW x \in offending PROVE FALSE
    OBVIOUS
  <2>1. Finding("blocker", kind, x) \in findings
    BY <1>5 DEF Blockers
  <2>2. Finding("blocker", kind, x).severity = "blocker"
    BY DEF Finding
  <2> QED BY <1>3, <2>1, <2>2 DEF AnyBlocker
<1>6. RequiredCapabilities \subseteq ToSet(completed)
  BY <1>4, <1>5
<1>7. ~CannotBeSelfAttested(level)
  BY <1>4, <1>5 DEF Whenever
<1> QED BY <1>1, <1>6, <1>7 DEF CannotBeSelfAttested

\* A standing objection keeps the review layer from being complete.
LEMMA ObjectionBlocksTheReview ==
  ASSUME LET w == held.review_workflow
         IN  \/ \E d \in w.dissents : d.severity = "blocking_objection"
             \/ \E f \in w.findings :
                  f.severity \in {"medium", "high", "critical"} /\ f.status = "open"
  PROVE  ~IsComplete("review_workflow")
<1> DEFINE w == held.review_workflow
           findings == Rev!ReviewFindings(w, store)
<1>1. ASSUME NEW kind, NEW offending, Rev!Blockers(kind, offending) \subseteq findings,
             offending # {}
      PROVE  Rev!AnyBlocker(findings)
  <2>1. PICK x : x \in offending
    BY <1>1
  <2>2. Rev!Finding("blocker", kind, x) \in findings
    BY <1>1, <2>1 DEF Rev!Blockers
  <2>3. Rev!Finding("blocker", kind, x).severity = "blocker"
    BY DEF Rev!Finding
  <2> HIDE DEF findings
  <2> QED BY <2>2, <2>3 DEF Rev!AnyBlocker
<1>2. Rev!AnyBlocker(findings)
  <2>1. CASE \E d \in w.dissents : d.severity = "blocking_objection"
    <3>1. Rev!IdsOf(Rev!BlockingDissents(w)) # {}
      BY <2>1 DEF Rev!IdsOf, Rev!BlockingDissents
    <3>2. Rev!Blockers("dissent blocks", Rev!IdsOf(Rev!BlockingDissents(w))) \subseteq findings
      BY DEF Rev!ReviewFindings, Rev!DissentFindings
    <3> QED BY <1>1, <3>1, <3>2
  <2>2. CASE \E f \in w.findings :
               f.severity \in {"medium", "high", "critical"} /\ f.status = "open"
    <3> DEFINE unresolved == Rev!IdsOf({f \in w.findings : Rev!UnresolvedBlocker(f)})
    <3>1. \A x \in {"medium", "high", "critical"} : Rev!BlocksWhenUnresolved(x)
      <4>1. /\ DOMAIN Rev!Severities = 1..5
            /\ Rev!Severities[3] = "medium" /\ Rev!Severities[4] = "high"
            /\ Rev!Severities[5] = "critical"
        BY DEF Rev!Severities
      <4>2. \A i \in 3..5 : Rev!SeverityIs(Rev!Severities[i], "medium")
        BY <4>1 DEF Rev!SeverityIs
      <4> QED BY <4>1, <4>2 DEF Rev!BlocksWhenUnresolved
    <3>2. ~Rev!IsResolved("open")
      BY DEF Rev!IsResolved
    <3>3. unresolved # {}
      BY <2>2, <3>1, <3>2 DEF Rev!IdsOf, Rev!UnresolvedBlocker
    <3>4. Rev!Blockers("unresolved blocker", unresolved) \subseteq findings
      BY DEF Rev!ReviewFindings, Rev!FindingFindings
    <3> QED BY <1>1, <3>3, <3>4
  <2> QED BY <2>1, <2>2
<1> HIDE DEF findings
<1>3. Rev!ReviewReadiness(w, store).decision = "blocked"
  BY <1>2 DEF Rev!ReviewReadiness, Rev!LayerReport, Rev!LayerDecision, findings
<1> QED BY <1>3 DEF IsComplete, FreshReport

\* A blocking dissent or an unresolved severe finding stops every serious claim, whatever
\* else is held: for its layer is required and no other layer's points stand in for it.
THEOREM ObjectionsAreHeard == Spec => []ObjectionStopsTheClaim
<1>1. ObjectionStopsTheClaim
  <2> SUFFICES ASSUME LET w == held.review_workflow
                      IN  \/ \E d \in w.dissents : d.severity = "blocking_objection"
                          \/ \E f \in w.findings :
                               f.severity \in {"medium", "high", "critical"} /\ f.status = "open",
                      NEW level \in SeriousLevels, RollupPermitsClaim(FreshReports, level)
               PROVE  FALSE
    BY DEF ObjectionStopsTheClaim
  <2>1. ~IsComplete("review_workflow")
    BY ObjectionBlocksTheReview
  <2>2. RequiredCapabilities \subseteq ToSet(UniqueIds(CompletedIds(FreshReports)))
    BY PermittedSeriousClaim DEF RollupPermitsClaim
  <2>3. "review_workflow" \in RequiredCapabilities
    BY DEF RequiredCapabilities, Capabilities, PercentOf
  <2> QED BY <2>1, <2>2, <2>3, CompletedAreComplete, FreshReportsAreOfTheLayers
<1> QED BY <1>1, PTL

\* The rollup is never more lenient than the claim gate, and the gate never lets the points
\* of other layers stand in for a required one.
THEOREM ClaimsNeedTheirLayers == Spec => []ClaimNeedsEveryLayer
<1> DEFINE fresh == FreshReports
           complete == ToSet(CompletedIds(fresh))
           Without(left) == Restrict(fresh, {i \in DOMAIN fresh : fresh[i].capability \notin left})
<1>1. ASSUME NEW left, NEW level \in SeriousLevels, RollupPermitsClaim(Without(left), level)
      PROVE  /\ level \in {"serious_open_source_prototype", "federal_aligned_prototype"}
             /\ RequiredCapabilities \subseteq complete \ left
  <2> DEFINE some == Without(left)
  <2>1. /\ DOMAIN some = {i \in DOMAIN fresh : fresh[i].capability \notin left}
        /\ \A i \in DOMAIN some : some[i] = fresh[i]
    BY DEF Restrict
  <2> HIDE DEF fresh, some
  <2>2. /\ \A i \in DOMAIN fresh : \E l \in Layers : fresh[i] = FreshReport(l)
        /\ \A i \in DOMAIN some : \E l \in Layers : some[i] = FreshReport(l)
    BY <2>1, FreshReportsAreOfTheLayers DEF fresh
  <2>3. ToSet(CompletedIds(some)) \subseteq complete \ left
    BY <2>1, <2>2, CompletedAreComplete
  <2>4. /\ level \in {"serious_open_source_prototype", "federal_aligned_prototype"}
        /\ RequiredCapabilities \subseteq ToSet(UniqueIds(CompletedIds(some)))
    BY <1>1, PermittedSeriousClaim DEF RollupPermitsClaim, some
  <2> QED BY <2>2, <2>3, <2>4, CompletedAreComplete
<1>2. ASSUME IsRollupClean(fresh, Capabilities)
      PROVE  RollupPermitsClaim(fresh, "serious_open_source_prototype")
  <2> DEFINE level == "serious_open_source_prototype"
             ids == UniqueIds(CompletedIds(fresh))
             found == RollupFindings(fresh, Capabilities)
             gate == GateFindings(ids, level)
             incomplete == {i \in DOMAIN fresh : fresh[i].decision # "complete"}
             tooFew == AchievedPercent(complete) < TargetPercent
  <2>1. ASSUME NEW kind, NEW offending, Blockers(kind, offending) \subseteq found
        PROVE  offending = {}
    <3> SUFFICES ASSUME NEW x \in offending PROVE FALSE
      OBVIOUS
    <3>1. Finding("blocker", kind, x) \in found /\ Finding("blocker", kind, x).severity = "blocker"
      BY <2>1 DEF Blockers, Finding
    <3> HIDE DEF found
    <3> QED BY <1>2, <3>1 DEF IsRollupClean, AnyBlocker, found
  <2>2. /\ Blockers("not complete", {fresh[i].capability : i \in incomplete}) \subseteq found
        /\ Blockers("target percent not met", Whenever(tooFew)) \subseteq found
    BY DEF RollupFindings
  <2>3. incomplete = {} /\ ~tooFew
    <3> HIDE DEF found
    <3> QED BY <2>1, <2>2 DEF Whenever
  <2>4. Layers \subseteq complete
    <3> HIDE DEF fresh
    <3>1. \A l \in Layers : \E i \in DOMAIN fresh : fresh[i] = FreshReport(l)
      BY FreshReportsAreOfTheLayers DEF fresh
    <3>2. \A l \in Layers : IsComplete(l) /\ \E i \in DOMAIN fresh : fresh[i].capability = l
      BY <2>3, <3>1, ReportsAreNamed DEF IsComplete
    <3> QED BY <3>2, CompletedAreComplete, FreshReportsAreOfTheLayers DEF fresh
  <2>5. ToSet(ids) = complete
    BY CompletedAreComplete, FreshReportsAreOfTheLayers
  <2>6. RequiredCapabilities \ ToSet(ids) = {}
    BY <2>4, <2>5 DEF RequiredCapabilities, Layers
  <2>7. ~CannotBeSelfAttested(level)
    BY DEF CannotBeSelfAttested
  <2> HIDE DEF ids, fresh
  <2>8. ~AnyBlocker(gate)
    <3>1. /\ Blockers("missing", {}) = {} /\ Blockers("external authorization required", {}) = {}
          /\ \A kind, offending : ~AnyBlocker(Warnings(kind, offending))
      BY DEF Blockers, Warnings, Finding, AnyBlocker
    <3> QED BY <2>6, <2>7, <3>1, Zenon DEF GateFindings, AnyBlocker, Whenever
  <2> HIDE DEF level
  <2>9. ClaimDecision(ids, level) # "block"
    BY <2>3, <2>5, <2>8, Zenon DEF ClaimDecision
  <2>10. ClaimDecision(ids, level) \in {"block", "limit", "allow"}
    BY DEF ClaimDecision
  <2> QED BY <2>9, <2>10 DEF RollupPermitsClaim, PermitsClaim, ids, level
<1>3. ClaimNeedsEveryLayer
  BY <1>1, <1>2, Zenon DEF ClaimNeedsEveryLayer
<1> QED BY <1>3, PTL

------------------------------------------------------------------------------
(* The invariant.                                                          *)

\* A report with the campaign that it was made from.
MadeByRun(x) == \E in, catalog, findings : x[1] = Camp!Run(x[2], in, catalog, findings)

Accepts(b, bundle) == bundle.bundle_id = b /\ Constructed(bundle)

\* What is held is as its constructors accept it, and every run report is remembered with
\* the campaign that it is of.
PortfolioInv ==
  /\ DOMAIN held = Layers
  /\ \A l \in Layers : Constructs(l, held[l]) /\ HasShape(l, held[l])
  /\ \A b \in DOMAIN store : Accepts(b, store[b])
  /\ held.scenario_campaign_runner.reports \in Seq({x[1] : x \in ranAs})
  /\ FirstRuns \subseteq ranAs
  /\ \A x \in ranAs : MadeByRun(x)
  /\ now \in 0..MaxTime /\ edits \in 0..MaxEdits

LEMMA LayerNames ==
  Layers = {"registry_layer", "policy_pack_engine", "framework_crosswalks",
            "signed_provenance", "telemetry_adapters", "scenario_campaign_runner",
            "monitoring_incidents", "review_workflow", "audit_report_export",
            "assurance_dossier", "claim_guardrails", "federal_evaluation_profile"}
BY DEF Layers, Capabilities, PercentOf

\* A sequence over a set is one over a larger set.
LEMMA SeqGrows ==
  ASSUME NEW S, NEW T, S \subseteq T, NEW s \in Seq(S)
  PROVE  s \in Seq(T)
OBVIOUS

\* A held artifact that is replaced by one that its constructors accept.
LEMMA HoldKeeps ==
  ASSUME PortfolioInv, NEW l \in Layers, NEW v, Hold(l, v), HasShape(l, v),
         UNCHANGED <<store, now>>, ranAs \subseteq ranAs', \A x \in ranAs' : MadeByRun(x),
         l = "scenario_campaign_runner" => v.reports \in Seq({x[1] : x \in ranAs'})
  PROVE  PortfolioInv'
<1>1. /\ held' = [held EXCEPT ![l] = v] /\ Constructs(l, v)
      /\ edits < MaxEdits /\ edits' = edits + 1
  BY DEF Hold, Edit
<1>2. /\ DOMAIN held' = Layers /\ held'[l] = v
      /\ \A m \in Layers : m # l => held'[m] = held[m]
  BY <1>1 DEF PortfolioInv
<1>3. \A m \in Layers : Constructs(m, held'[m]) /\ HasShape(m, held'[m])
  BY <1>1, <1>2 DEF PortfolioInv
<1>4. held'["scenario_campaign_runner"].reports \in Seq({x[1] : x \in ranAs'})
  <2>1. CASE l = "scenario_campaign_runner"
    BY <1>2, <2>1
  <2>2. CASE l # "scenario_campaign_runner"
    <3>1. held'["scenario_campaign_runner"] = held["scenario_campaign_runner"]
      BY <1>2, <2>2, LayerNames
    <3>2. {x[1] : x \in ranAs} \subseteq {x[1] : x \in ranAs'}
      OBVIOUS
    <3> QED BY <3>1, <3>2, SeqGrows DEF PortfolioInv
  <2> QED BY <2>1, <2>2
<1>5. edits' \in 0..MaxEdits
  BY <1>1, PortfolioAssumption DEF PortfolioInv
<1>6. \A b \in DOMAIN store' : Accepts(b, store'[b])
  BY DEF PortfolioInv
<1> QED BY <1>2, <1>3, <1>4, <1>5, <1>6 DEF PortfolioInv

LEMMA ReviseKeeps ==
  ASSUME PortfolioInv, NEW l \in Layers, NEW v, Revise(l, v), HasShape(l, v),
         l = "scenario_campaign_runner" => v.reports \in Seq({x[1] : x \in ranAs})
  PROVE  PortfolioInv'
<1>1. Hold(l, v) /\ UNCHANGED <<store, now, ranAs>>
  BY DEF Revise
<1>2. \A x \in ranAs' : MadeByRun(x)
  BY <1>1 DEF PortfolioInv
<1> QED BY <1>1, <1>2, HoldKeeps

\* Bundles that are replaced by others that can be constructed.
LEMMA StoreKeeps ==
  ASSUME PortfolioInv, NEW bundles, Store(bundles),
         \A b \in DOMAIN bundles : Accepts(b, bundles[b])
  PROVE  PortfolioInv'
<1>1. /\ store' = bundles /\ UNCHANGED <<held, now, ranAs>>
      /\ edits < MaxEdits /\ edits' = edits + 1
  BY DEF Store, Edit
<1>2. edits' \in 0..MaxEdits
  BY <1>1, PortfolioAssumption DEF PortfolioInv
<1> QED BY <1>1, <1>2 DEF PortfolioInv

LEMMA NotEmpty ==
  ASSUME NEW f, f = [i \in DOMAIN f |-> f[i]], f # << >>
  PROVE  DOMAIN f # {}
BY SMTT(30)

LEMMA HasRecords ==
  ASSUME NEW b, Constructed(b)
  PROVE  DOMAIN b.records # {}
<1>1. /\ b.records = [i \in DOMAIN b.records |-> b.records[i]]
      /\ b.records # << >>
  BY DEF Constructed, WellFormedRecords
<1> QED BY <1>1, NotEmpty

\* The fields of a bundle whose records and hash are replaced.
LEMMA ReplacedFields ==
  ASSUME NEW b, Constructed(b), NEW rs, NEW hash
  PROVE  [b EXCEPT !.records = rs, !.bundle_hash = hash]
           = [bundle_id |-> b.bundle_id, scope |-> b.scope, records |-> rs, bundle_hash |-> hash]
<1> DEFINE c == [b EXCEPT !.records = rs]
<1>1. c = [bundle_id |-> b.bundle_id, scope |-> b.scope, records |-> rs,
           bundle_hash |-> b.bundle_hash]
  BY DEF Constructed
<1>2. [b EXCEPT !.records = rs, !.bundle_hash = hash] = [c EXCEPT !.bundle_hash = hash]
  OBVIOUS
<1> HIDE DEF c
<1>3. [c EXCEPT !.bundle_hash = hash]
        = [bundle_id |-> b.bundle_id, scope |-> b.scope, records |-> rs, bundle_hash |-> hash]
  BY <1>1
<1> QED BY <1>2, <1>3

\* A bundle stays one when one of its records or its hash is replaced.
LEMMA ChangedBundle ==
  ASSUME NEW b, Constructed(b), NEW r, NEW hash,
         1 \in DOMAIN b.records => IsRecord(r) /\ r.evidence_id = b.records[1].evidence_id
  PROVE  LET changed == [b EXCEPT !.records = [@ EXCEPT ![1] = r], !.bundle_hash = hash]
         IN  Constructed(changed) /\ changed.bundle_id = b.bundle_id
<1> DEFINE rs == [b.records EXCEPT ![1] = r]
           c  == [bundle_id |-> b.bundle_id, scope |-> b.scope, records |-> rs, bundle_hash |-> hash]
<1>1. [b EXCEPT !.records = [@ EXCEPT ![1] = r], !.bundle_hash = hash] = c
  <2>1. [b EXCEPT !.records = [@ EXCEPT ![1] = r], !.bundle_hash = hash]
          = [b EXCEPT !.records = rs, !.bundle_hash = hash]
    OBVIOUS
  <2> QED BY <2>1, ReplacedFields
<1>2. /\ DOMAIN rs = DOMAIN b.records
      /\ rs = [i \in DOMAIN rs |-> rs[i]]
      /\ \A i \in DOMAIN rs : IsRecord(rs[i]) /\ rs[i].evidence_id = b.records[i].evidence_id
  BY DEF Constructed
<1> HIDE DEF rs
<1>3. WellFormedRecords(rs)
  <2>1. DOMAIN b.records # {}
    BY HasRecords
  <2>2. rs # << >>
    BY <1>2, <2>1
  <2> QED BY <1>2, <2>2 DEF Constructed, WellFormedRecords
<1>4. Constructed(c) /\ c.bundle_id = b.bundle_id
  BY <1>2, <1>3 DEF Constructed
<1> QED BY <1>1, <1>4

\* Computed hashes change neither the ids nor the records that a bundle has.
LEMMA HashedBundle ==
  ASSUME NEW b, Constructed(b)
  PROVE  LET h == BundleWithComputedHashes(b)
         IN  Constructed(h) /\ h.bundle_id = b.bundle_id
<1> DEFINE rs == RecordsWithComputedHashes(b.records)
           x  == {CalculateBundleHash(b)}
           h  == [bundle_id |-> b.bundle_id, scope |-> b.scope, records |-> rs, bundle_hash |-> x]
<1>1. BundleWithComputedHashes(b) = h
  BY ReplacedFields DEF BundleWithComputedHashes
<1>2. /\ DOMAIN rs = DOMAIN b.records
      /\ rs = [i \in DOMAIN rs |-> rs[i]]
      /\ \A i \in DOMAIN b.records : rs[i] = RecordWithComputedHash(b.records[i])
  BY DEF RecordsWithComputedHashes
<1>3. \A i \in DOMAIN b.records : IsRecord(rs[i]) /\ rs[i].evidence_id = b.records[i].evidence_id
  <2> SUFFICES ASSUME NEW i \in DOMAIN b.records
               PROVE  IsRecord(rs[i]) /\ rs[i].evidence_id = b.records[i].evidence_id
    OBVIOUS
  <2> DEFINE c == {CalculateContentHash(b.records[i])}
  <2>1. rs[i] = [b.records[i] EXCEPT !.content_hash = c] /\ IsRecord(b.records[i])
    BY <1>2 DEF Constructed, RecordWithComputedHash
  <2> HIDE DEF c, rs
  <2> QED BY <2>1 DEF IsRecord
<1> HIDE DEF rs, x
<1>4. WellFormedRecords(rs)
  <2>1. DOMAIN b.records # {}
    BY HasRecords
  <2>2. rs # << >>
    BY <1>2, <2>1
  <2> QED BY <1>2, <1>3, <2>2 DEF Constructed, WellFormedRecords
<1>5. Constructed(h) /\ h.bundle_id = b.bundle_id
  BY <1>2, <1>3, <1>4 DEF Constructed
<1> QED BY <1>1, <1>5

LEMMA ReplacedBundleKeeps ==
  ASSUME PortfolioInv, NEW b \in DOMAIN store, NEW new, Accepts(b, new),
         Store([store EXCEPT ![b] = new])
  PROVE  PortfolioInv'
<1> DEFINE bundles == [store EXCEPT ![b] = new]
<1>1. \A x \in DOMAIN bundles : Accepts(x, bundles[x])
  BY DEF PortfolioInv
<1> HIDE DEF bundles
<1> QED BY <1>1, StoreKeeps DEF bundles

\* What happens to the evidence leaves bundles that the constructors accept.
LEMMA EvidenceStepKeeps ==
  ASSUME PortfolioInv, NEW b \in DOMAIN store,
         LoseBundle(b) \/ DamageContent(b) \/ AgeRecord(b) \/ StripHashes(b) \/ Rehash(b)
  PROVE  PortfolioInv'
<1> DEFINE old == store[b]
           r   == old.records[1]
<1>1. Constructed(old) /\ old.bundle_id = b
  BY DEF PortfolioInv, Accepts
<1>2. 1 \in DOMAIN old.records => IsRecord(r)
  BY <1>1 DEF Constructed
<1>3. ASSUME NEW x
      PROVE  /\ IsRecord(r) => /\ IsRecord([r EXCEPT !.content = x])
                               /\ [r EXCEPT !.content = x].evidence_id = r.evidence_id
             /\ IsRecord(r) /\ x \in EvidenceStatus =>
                  /\ IsRecord([r EXCEPT !.status = x])
                  /\ [r EXCEPT !.status = x].evidence_id = r.evidence_id
             /\ IsRecord(r) => /\ IsRecord([r EXCEPT !.content_hash = x])
                               /\ [r EXCEPT !.content_hash = x].evidence_id = r.evidence_id
  BY DEF IsRecord
<1>4. CASE LoseBundle(b)
  <2> DEFINE left == [x \in DOMAIN store \ {b} |-> store[x]]
  <2>1. \A x \in DOMAIN left : Accepts(x, left[x])
    BY DEF PortfolioInv
  <2> QED BY <1>4, <2>1, StoreKeeps DEF LoseBundle
<1>5. ASSUME NEW s, IsRecord(r) => IsRecord(s) /\ s.evidence_id = r.evidence_id, NEW hash,
             Store([store EXCEPT ![b] = [old EXCEPT !.records = [@ EXCEPT ![1] = s],
                                                    !.bundle_hash = hash]])
      PROVE  PortfolioInv'
  <2> DEFINE new == [old EXCEPT !.records = [@ EXCEPT ![1] = s], !.bundle_hash = hash]
  <2>1. Constructed(new) /\ new.bundle_id = b
    <3>1. 1 \in DOMAIN old.records => IsRecord(s) /\ s.evidence_id = old.records[1].evidence_id
      BY <1>2, <1>5
    <3> HIDE DEF old
    <3> QED BY <1>1, <3>1, ChangedBundle
  <2> HIDE DEF new
  <2>2. Accepts(b, new)
    BY <2>1 DEF Accepts
  <2> QED BY <1>5, <2>2, ReplacedBundleKeeps DEF new
<1>6. ASSUME NEW s, IsRecord(r) => IsRecord(s) /\ s.evidence_id = r.evidence_id,
             Store([store EXCEPT ![b] = [old EXCEPT !.records = [@ EXCEPT ![1] = s]]])
      PROVE  PortfolioInv'
  <2> DEFINE hash == old.bundle_hash
             new  == [old EXCEPT !.records = [@ EXCEPT ![1] = s]]
  <2>1. new = [old EXCEPT !.records = [@ EXCEPT ![1] = s], !.bundle_hash = hash]
    BY <1>1, ReplacedFields DEF Constructed
  <2>2. Store([store EXCEPT ![b] = [old EXCEPT !.records = [@ EXCEPT ![1] = s],
                                               !.bundle_hash = hash]])
    BY <1>6, <2>1, Zenon
  <2> HIDE DEF hash
  <2> QED BY <1>5, <1>6, <2>2
<1>7. CASE DamageContent(b)
  <2> DEFINE s == [r EXCEPT !.content = [@ EXCEPT !.kind = "damaged"]]
  <2>1. Store([store EXCEPT ![b] = [old EXCEPT !.records = [@ EXCEPT ![1] = s]]])
    BY <1>7 DEF DamageContent
  <2>2. IsRecord(r) => IsRecord(s) /\ s.evidence_id = r.evidence_id
    BY <1>3
  <2> HIDE DEF s
  <2> QED BY <1>6, <2>1, <2>2
<1>8. CASE AgeRecord(b)
  <2> DEFINE s == [r EXCEPT !.status = "stale"]
  <2>1. Store([store EXCEPT ![b] = [old EXCEPT !.records = [@ EXCEPT ![1] = s]]])
    BY <1>8 DEF AgeRecord
  <2>2. IsRecord(r) => IsRecord(s) /\ s.evidence_id = r.evidence_id
    BY <1>3 DEF EvidenceStatus
  <2> HIDE DEF s
  <2> QED BY <1>6, <2>1, <2>2
<1>9. CASE StripHashes(b)
  <2> DEFINE s == [r EXCEPT !.content_hash = {}]
  <2>1. Store([store EXCEPT ![b] = [old EXCEPT !.records = [@ EXCEPT ![1] = s], !.bundle_hash = {}]])
    BY <1>9 DEF StripHashes
  <2>2. IsRecord(r) => IsRecord(s) /\ s.evidence_id = r.evidence_id
    BY <1>3
  <2> HIDE DEF s
  <2> QED BY <1>5, <2>1, <2>2
<1>10. CASE Rehash(b)
  <2> DEFINE new == BundleWithComputedHashes(old)
  <2>1. Store([store EXCEPT ![b] = new])
    BY <1>10 DEF Rehash
  <2>2. Accepts(b, new)
    BY <1>1, HashedBundle DEF Accepts
  <2> HIDE DEF new
  <2> QED BY <2>1, <2>2, ReplacedBundleKeeps
<1> QED BY <1>4, <1>7, <1>8, <1>9, <1>10

LEMMA InitHolds == Init => PortfolioInv
<1> SUFFICES ASSUME Init PROVE PortfolioInv
  OBVIOUS
<1>1. /\ DOMAIN Clean = Layers
      /\ \A l \in Layers : Constructs(l, Clean[l]) /\ HasShape(l, Clean[l])
  BY PortfolioAssumption
<1>2. \A b \in DOMAIN Bundles : Accepts(b, Bundles[b])
  BY PortfolioAssumption DEF Accepts
<1>3. Clean.scenario_campaign_runner.reports \in Seq({x[1] : x \in FirstRuns})
  BY PortfolioAssumption
<1>4. \A x \in FirstRuns : MadeByRun(x)
  BY PortfolioAssumption, Zenon DEF MadeByRun
<1>5. 0 \in 0..MaxTime /\ 0 \in 0..MaxEdits
  BY PortfolioAssumption
<1> QED BY <1>1, <1>2, <1>3, <1>4, <1>5 DEF Init, PortfolioInv

\* A run is remembered with the campaign that ran.
LEMMA RunKeeps ==
  ASSUME PortfolioInv, NEW k, NEW in, RunCampaign(k, in)
  PROVE  PortfolioInv'
<1> DEFINE name     == "scenario_campaign_runner"
           layer    == held[name]
           findings == Camp!ValidationFindings(k, layer.catalog, store,
                                               held.telemetry_adapters.catalog.replays)
           report   == Camp!Run(k, in, layer.catalog, findings)
           v        == [layer EXCEPT !.reports = Append(@, report)]
<1>1. /\ Hold(name, v) /\ ranAs' = ranAs \cup {<<report, k>>} /\ UNCHANGED <<store, now>>
  BY DEF RunCampaign
<1>2. MadeByRun(<<report, k>>)
  BY Zenon DEF MadeByRun
<1>3. \A x \in ranAs' : MadeByRun(x)
  BY <1>1, <1>2, Zenon DEF PortfolioInv
<1>4. layer = [campaigns |-> layer.campaigns, catalog |-> layer.catalog, reports |-> layer.reports]
  BY LayerNames DEF PortfolioInv, HasShape
<1> HIDE DEF report, layer
<1>5. v = [campaigns |-> layer.campaigns, catalog |-> layer.catalog,
           reports |-> Append(layer.reports, report)]
  BY <1>4
<1>6. HasShape(name, v)
  BY <1>5, ZenonT(30) DEF HasShape
<1>7. v.reports \in Seq({x[1] : x \in ranAs'})
  <2>1. layer.reports \in Seq({x[1] : x \in ranAs})
    BY DEF PortfolioInv, layer
  <2>2. report \in {x[1] : x \in ranAs'} /\ {x[1] : x \in ranAs} \subseteq {x[1] : x \in ranAs'}
    <3>1. <<report, k>> \in ranAs' /\ <<report, k>>[1] = report /\ ranAs \subseteq ranAs'
      BY <1>1
    <3> QED BY <3>1
  <2>3. layer.reports \in Seq({x[1] : x \in ranAs'})
    BY <2>1, <2>2, SeqGrows
  <2> QED BY <1>5, <2>2, <2>3
<1>8. name \in Layers /\ ranAs \subseteq ranAs'
  BY <1>1, LayerNames
<1> QED BY <1>1, <1>3, <1>6, <1>7, <1>8, HoldKeeps

LEMMA NextKeeps == PortfolioInv /\ [Next]_vars => PortfolioInv'
<1> SUFFICES ASSUME PortfolioInv, [Next]_vars PROVE PortfolioInv'
  OBVIOUS
<1>1. CASE UNCHANGED vars
  BY <1>1 DEF vars, PortfolioInv
<1>2. ASSUME NEW l \in Layers, NEW v \in Versions[l], Revise(l, v)
      PROVE  PortfolioInv'
  <2>1. HasShape(l, v)
    BY PortfolioAssumption
  <2>2. ASSUME l = "scenario_campaign_runner"
        PROVE  v.reports \in Seq({x[1] : x \in ranAs})
    <3>1. v.reports \in Seq({x[1] : x \in FirstRuns})
      BY <2>2, PortfolioAssumption
    <3>2. {x[1] : x \in FirstRuns} \subseteq {x[1] : x \in ranAs}
      BY DEF PortfolioInv
    <3> QED BY <3>1, <3>2, SeqGrows
  <2> QED BY <1>2, <2>1, <2>2, ReviseKeeps
<1>3. ASSUME NEW l \in {"review_workflow", "federal_evaluation_profile", "telemetry_adapters"},
             NEW v, Revise(l, v)
      PROVE  PortfolioInv'
  BY <1>3, LayerNames, ReviseKeeps DEF HasShape
<1>4. ASSUME NEW field, NEW record, FileReview(field, record)
      PROVE  PortfolioInv'
  BY <1>3, <1>4 DEF FileReview
<1>5. ASSUME NEW f, NEW status, NEW waiver, ResolveFinding(f, status, waiver)
      PROVE  PortfolioInv'
  BY <1>3, <1>5 DEF ResolveFinding
<1>6. ASSUME RefileRequests
      PROVE  PortfolioInv'
  <2> DEFINE p == held["policy_pack_engine"]
             refiled == {[r EXCEPT !.evaluated_at = now] : r \in p.requests}
             v == [p EXCEPT !.requests = refiled]
  <2>1. Revise("policy_pack_engine", v)
    BY <1>6 DEF RefileRequests
  <2>2. /\ p = [pack |-> p.pack, waivers |-> p.waivers, requests |-> p.requests]
        /\ Pol!HasTimes(p)
    BY LayerNames DEF PortfolioInv, HasShape
  <2>3. \A r \in refiled : "evaluated_at" \in DOMAIN r /\ r.evaluated_at \in Nat
    <3>1. now \in Nat
      BY PortfolioAssumption DEF PortfolioInv
    <3> QED BY <2>2, <3>1 DEF Pol!HasTimes
  <2> HIDE DEF refiled, p
  <2>4. v = [pack |-> p.pack, waivers |-> p.waivers, requests |-> refiled]
    BY <2>2
  <2> HIDE DEF v
  <2>5. HasShape("policy_pack_engine", v)
    BY <2>2, <2>3, <2>4 DEF HasShape, Pol!HasTimes
  <2> QED BY <2>1, <2>5, LayerNames, ReviseKeeps
<1>7. ASSUME FileProfile
      PROVE  PortfolioInv'
  BY <1>3, <1>7 DEF FileProfile
<1>8. ASSUME NEW in, NormalizeInput(in)
      PROVE  PortfolioInv'
  BY <1>3, <1>8 DEF NormalizeInput
<1>9. ASSUME Tick
      PROVE  PortfolioInv'
  <2>1. now' \in 0..MaxTime
    BY <1>9, PortfolioAssumption DEF Tick, PortfolioInv
  <2> QED BY <1>9, <2>1 DEF Tick, PortfolioInv
<1> QED BY <1>1, <1>2, <1>4, <1>5, <1>6, <1>7, <1>8, <1>9, RunKeeps, EvidenceStepKeeps
        DEF Next, Adverse

\* What is held and stored is at any time what constructors accept, and a run report is one
\* that a run of its campaign made.
THEOREM PortfolioInvariant == Spec => []PortfolioInv
BY InitHolds, NextKeeps, PTL DEF Spec

\* No step makes a layer hold what its constructors refuse.
THEOREM TypeCorrect == Spec => []TypeOK
<1>1. PortfolioInv => TypeOK
  BY DEF PortfolioInv, TypeOK, Accepts
<1> QED BY <1>1, PortfolioInvariant, PTL

------------------------------------------------------------------------------
(* Complete layers.                                                        *)

\* The layers share what a finding is, and what is looked for in a bundle.
LEMMA SameFindings ==
  ASSUME NEW kind, NEW offending
  PROVE  /\ Reg!Blockers(kind, offending) = Blockers(kind, offending)
         /\ Pol!Blockers(kind, offending) = Blockers(kind, offending)
         /\ Cross!Blockers(kind, offending) = Blockers(kind, offending)
         /\ Prov!Blockers(kind, offending) = Blockers(kind, offending)
         /\ Camp!Blockers(kind, offending) = Blockers(kind, offending)
         /\ Mon!Blockers(kind, offending) = Blockers(kind, offending)
         /\ Exp!Blockers(kind, offending) = Blockers(kind, offending)
         /\ Dos!Blockers(kind, offending) = Blockers(kind, offending)
         /\ Guard!Blockers(kind, offending) = Blockers(kind, offending)
         /\ Prof!Blockers(kind, offending) = Blockers(kind, offending)
         /\ Reg!Warnings(kind, offending) = Warnings(kind, offending)
         /\ Pol!Warnings(kind, offending) = Warnings(kind, offending)
         /\ Cross!Warnings(kind, offending) = Warnings(kind, offending)
         /\ Prov!Warnings(kind, offending) = Warnings(kind, offending)
         /\ Camp!Warnings(kind, offending) = Warnings(kind, offending)
         /\ Mon!Warnings(kind, offending) = Warnings(kind, offending)
         /\ Exp!Warnings(kind, offending) = Warnings(kind, offending)
         /\ Dos!Warnings(kind, offending) = Warnings(kind, offending)
         /\ Guard!Warnings(kind, offending) = Warnings(kind, offending)
         /\ Prof!Warnings(kind, offending) = Warnings(kind, offending)
BY DEF Blockers, Warnings, Finding, Reg!Blockers, Pol!Blockers, Cross!Blockers,
       Prov!Blockers, Camp!Blockers, Mon!Blockers, Exp!Blockers, Dos!Blockers,
       Guard!Blockers, Prof!Blockers, Reg!Warnings, Pol!Warnings, Cross!Warnings,
       Prov!Warnings, Camp!Warnings, Mon!Warnings, Exp!Warnings, Dos!Warnings,
       Guard!Warnings, Prof!Warnings, Reg!Finding, Pol!Finding, Cross!Finding, Prov!Finding,
       Camp!Finding, Mon!Finding, Exp!Finding, Dos!Finding, Guard!Finding, Prof!Finding

LEMMA SameIntegrity ==
  ASSUME NEW b
  PROVE  /\ Reg!IntegrityErrors(b) = IntegrityErrors(b)
         /\ Pol!IntegrityErrors(b) = IntegrityErrors(b)
         /\ Cross!IntegrityErrors(b) = IntegrityErrors(b)
         /\ Exp!IntegrityErrors(b) = IntegrityErrors(b)
         /\ Dos!IntegrityErrors(b) = IntegrityErrors(b)
         /\ Guard!IntegrityErrors(b) = IntegrityErrors(b)
         /\ Prof!IntegrityErrors(b) = IntegrityErrors(b)
         /\ Reg!IntegrityWarnings(b) = IntegrityWarnings(b)
         /\ Pol!IntegrityWarnings(b) = IntegrityWarnings(b)
         /\ Cross!IntegrityWarnings(b) = IntegrityWarnings(b)
         /\ Exp!IntegrityWarnings(b) = IntegrityWarnings(b)
         /\ Dos!IntegrityWarnings(b) = IntegrityWarnings(b)
         /\ Guard!IntegrityWarnings(b) = IntegrityWarnings(b)
         /\ Prof!IntegrityWarnings(b) = IntegrityWarnings(b)
<1>1. /\ Reg!IntegrityErrors(b) = IntegrityErrors(b)
      /\ Reg!IntegrityWarnings(b) = IntegrityWarnings(b)
  BY DEF IntegrityErrors, IntegrityWarnings, MissingHashWarnings, StatusWarnings, Findings,
         MismatchedRecords, InvalidRecords, UnhashedRecords, UnusableRecords,
         HasValidBundleHash, HasValidContentHash, CalculateBundleHash, BundleMaterial,
         RecordsWithComputedHashes, RecordWithComputedHash, CalculateContentHash,
         RecordMaterial, Sha256, IsUsable, Reg!IntegrityErrors, Reg!IntegrityWarnings,
         Reg!MissingHashWarnings, Reg!StatusWarnings, Reg!Findings, Reg!MismatchedRecords,
         Reg!InvalidRecords, Reg!UnhashedRecords, Reg!UnusableRecords,
         Reg!HasValidBundleHash, Reg!HasValidContentHash, Reg!CalculateBundleHash,
         Reg!BundleMaterial, Reg!RecordsWithComputedHashes, Reg!RecordWithComputedHash,
         Reg!CalculateContentHash, Reg!RecordMaterial, Reg!Sha256, Reg!IsUsable
<1>2. /\ Pol!IntegrityErrors(b) = IntegrityErrors(b)
      /\ Pol!IntegrityWarnings(b) = IntegrityWarnings(b)
  BY DEF IntegrityErrors, IntegrityWarnings, MissingHashWarnings, StatusWarnings, Findings,
         MismatchedRecords, InvalidRecords, UnhashedRecords, UnusableRecords,
         HasValidBundleHash, HasValidContentHash, CalculateBundleHash, BundleMaterial,
         RecordsWithComputedHashes, RecordWithComputedHash, CalculateContentHash,
         RecordMaterial, Sha256, IsUsable, Pol!IntegrityErrors, Pol!IntegrityWarnings,
         Pol!MissingHashWarnings, Pol!StatusWarnings, Pol!Findings, Pol!MismatchedRecords,
         Pol!InvalidRecords, Pol!UnhashedRecords, Pol!UnusableRecords,
         Pol!HasValidBundleHash, Pol!HasValidContentHash, Pol!CalculateBundleHash,
         Pol!BundleMaterial, Pol!RecordsWithComputedHashes, Pol!RecordWithComputedHash,
         Pol!CalculateContentHash, Pol!RecordMaterial, Pol!Sha256, Pol!IsUsable
<1>3. /\ Cross!IntegrityErrors(b) = IntegrityErrors(b)
      /\ Cross!IntegrityWarnings(b) = IntegrityWarnings(b)
  BY DEF IntegrityErrors, IntegrityWarnings, MissingHashWarnings, StatusWarnings, Findings,
         MismatchedRecords, InvalidRecords, UnhashedRecords, UnusableRecords,
         HasValidBundleHash, HasValidContentHash, CalculateBundleHash, BundleMaterial,
         RecordsWithComputedHashes, RecordWithComputedHash, CalculateContentHash,
         RecordMaterial, Sha256, IsUsable, Cross!IntegrityErrors, Cross!IntegrityWarnings,
         Cross!MissingHashWarnings, Cross!StatusWarnings, Cross!Findings,
         Cross!MismatchedRecords, Cross!InvalidRecords, Cross!UnhashedRecords,
         Cross!UnusableRecords, Cross!HasValidBundleHash, Cross!HasValidContentHash,
         Cross!CalculateBundleHash, Cross!BundleMaterial, Cross!RecordsWithComputedHashes,
         Cross!RecordWithComputedHash, Cross!CalculateContentHash, Cross!RecordMaterial,
         Cross!Sha256, Cross!IsUsable
<1>4. /\ Exp!IntegrityErrors(b) = IntegrityErrors(b)
      /\ Exp!IntegrityWarnings(b) = IntegrityWarnings(b)
  BY DEF IntegrityErrors, IntegrityWarnings, MissingHashWarnings, StatusWarnings, Findings,
         MismatchedRecords, InvalidRecords, UnhashedRecords, UnusableRecords,
         HasValidBundleHash, HasValidContentHash, CalculateBundleHash, BundleMaterial,
         RecordsWithComputedHashes, RecordWithComputedHash, CalculateContentHash,
         RecordMaterial, Sha256, IsUsable, Exp!IntegrityErrors, Exp!IntegrityWarnings,
         Exp!MissingHashWarnings, Exp!StatusWarnings, Exp!Findings, Exp!MismatchedRecords,
         Exp!InvalidRecords, Exp!UnhashedRecords, Exp!UnusableRecords,
         Exp!HasValidBundleHash, Exp!HasValidContentHash, Exp!CalculateBundleHash,
         Exp!BundleMaterial, Exp!RecordsWithComputedHashes, Exp!RecordWithComputedHash,
         Exp!CalculateContentHash, Exp!RecordMaterial, Exp!Sha256, Exp!IsUsable
<1>5. /\ Dos!IntegrityErrors(b) = IntegrityErrors(b)
      /\ Dos!IntegrityWarnings(b) = IntegrityWarnings(b)
  BY DEF IntegrityErrors, IntegrityWarnings, MissingHashWarnings, StatusWarnings, Findings,
         MismatchedRecords, InvalidRecords, UnhashedRecords, UnusableRecords,
         HasValidBundleHash, HasValidContentHash, CalculateBundleHash, BundleMaterial,
         RecordsWithComputedHashes, RecordWithComputedHash, CalculateContentHash,
         RecordMaterial, Sha256, IsUsable, Dos!IntegrityErrors, Dos!IntegrityWarnings,
         Dos!MissingHashWarnings, Dos!StatusWarnings, Dos!Findings, Dos!MismatchedRecords,
         Dos!InvalidRecords, Dos!UnhashedRecords, Dos!UnusableRecords,
         Dos!HasValidBundleHash, Dos!HasValidContentHash, Dos!CalculateBundleHash,
         Dos!BundleMaterial, Dos!RecordsWithComputedHashes, Dos!RecordWithComputedHash,
         Dos!CalculateContentHash, Dos!RecordMaterial, Dos!Sha256, Dos!IsUsable
<1>6. /\ Guard!IntegrityErrors(b) = IntegrityErrors(b)
      /\ Guard!IntegrityWarnings(b) = IntegrityWarnings(b)
  BY DEF IntegrityErrors, IntegrityWarnings, MissingHashWarnings, StatusWarnings, Findings,
         MismatchedRecords, InvalidRecords, UnhashedRecords, UnusableRecords,
         HasValidBundleHash, HasValidContentHash, CalculateBundleHash, BundleMaterial,
         RecordsWithComputedHashes, RecordWithComputedHash, CalculateContentHash,
         RecordMaterial, Sha256, IsUsable, Guard!IntegrityErrors, Guard!IntegrityWarnings,
         Guard!MissingHashWarnings, Guard!StatusWarnings, Guard!Findings,
         Guard!MismatchedRecords, Guard!InvalidRecords, Guard!UnhashedRecords,
         Guard!UnusableRecords, Guard!HasValidBundleHash, Guard!HasValidContentHash,
         Guard!CalculateBundleHash, Guard!BundleMaterial, Guard!RecordsWithComputedHashes,
         Guard!RecordWithComputedHash, Guard!CalculateContentHash, Guard!RecordMaterial,
         Guard!Sha256, Guard!IsUsable
<1>7. /\ Prof!IntegrityErrors(b) = IntegrityErrors(b)
      /\ Prof!IntegrityWarnings(b) = IntegrityWarnings(b)
  BY DEF IntegrityErrors, IntegrityWarnings, MissingHashWarnings, StatusWarnings, Findings,
         MismatchedRecords, InvalidRecords, UnhashedRecords, UnusableRecords,
         HasValidBundleHash, HasValidContentHash, CalculateBundleHash, BundleMaterial,
         RecordsWithComputedHashes, RecordWithComputedHash, CalculateContentHash,
         RecordMaterial, Sha256, IsUsable, Prof!IntegrityErrors, Prof!IntegrityWarnings,
         Prof!MissingHashWarnings, Prof!StatusWarnings, Prof!Findings,
         Prof!MismatchedRecords, Prof!InvalidRecords, Prof!UnhashedRecords,
         Prof!UnusableRecords, Prof!HasValidBundleHash, Prof!HasValidContentHash,
         Prof!CalculateBundleHash, Prof!BundleMaterial, Prof!RecordsWithComputedHashes,
         Prof!RecordWithComputedHash, Prof!CalculateContentHash, Prof!RecordMaterial,
         Prof!Sha256, Prof!IsUsable
<1> QED BY <1>1, <1>2, <1>3, <1>4, <1>5, <1>6, <1>7

LEMMA SameBundles ==
  ASSUME NEW ids, NEW bundles
  PROVE  /\ Reg!BundleFindings(ids, bundles) = BundleFindings(ids, bundles)
         /\ Pol!BundleFindings(ids, bundles) = BundleFindings(ids, bundles)
         /\ Cross!BundleFindings(ids, bundles) = BundleFindings(ids, bundles)
         /\ Exp!BundleFindings(ids, bundles) = BundleFindings(ids, bundles)
         /\ Dos!BundleFindings(ids, bundles) = BundleFindings(ids, bundles)
         /\ Guard!BundleFindings(ids, bundles) = BundleFindings(ids, bundles)
         /\ Prof!BundleFindings(ids, bundles) = BundleFindings(ids, bundles)
<1> DEFINE there    == ids \cap DOMAIN bundles
           wrong    == {b \in there : IntegrityErrors(bundles[b]) # {}}
           doubtful == {b \in there : IntegrityWarnings(bundles[b]) # {}}
<1>1. Reg!BundleFindings(ids, bundles) = BundleFindings(ids, bundles)
  <2>1. /\ wrong = {b \in there : Reg!IntegrityErrors(bundles[b]) # {}}
        /\ doubtful = {b \in there : Reg!IntegrityWarnings(bundles[b]) # {}}
    BY SameIntegrity
  <2>2. \A kind, offending : /\ Reg!Blockers(kind, offending) = Blockers(kind, offending)
                             /\ Reg!Warnings(kind, offending) = Warnings(kind, offending)
    BY SameFindings
  <2> QED BY <2>1, <2>2, Zenon DEF BundleFindings, Reg!BundleFindings
<1>2. Pol!BundleFindings(ids, bundles) = BundleFindings(ids, bundles)
  <2>1. /\ wrong = {b \in there : Pol!IntegrityErrors(bundles[b]) # {}}
        /\ doubtful = {b \in there : Pol!IntegrityWarnings(bundles[b]) # {}}
    BY SameIntegrity
  <2>2. \A kind, offending : /\ Pol!Blockers(kind, offending) = Blockers(kind, offending)
                             /\ Pol!Warnings(kind, offending) = Warnings(kind, offending)
    BY SameFindings
  <2> QED BY <2>1, <2>2, Zenon DEF BundleFindings, Pol!BundleFindings
<1>3. Cross!BundleFindings(ids, bundles) = BundleFindings(ids, bundles)
  <2>1. /\ wrong = {b \in there : Cross!IntegrityErrors(bundles[b]) # {}}
        /\ doubtful = {b \in there : Cross!IntegrityWarnings(bundles[b]) # {}}
    BY SameIntegrity
  <2>2. \A kind, offending : /\ Cross!Blockers(kind, offending) = Blockers(kind, offending)
                             /\ Cross!Warnings(kind, offending) = Warnings(kind, offending)
    BY SameFindings
  <2> QED BY <2>1, <2>2, Zenon DEF BundleFindings, Cross!BundleFindings
<1>4. Exp!BundleFindings(ids, bundles) = BundleFindings(ids, bundles)
  <2>1. /\ wrong = {b \in there : Exp!IntegrityErrors(bundles[b]) # {}}
        /\ doubtful = {b \in there : Exp!IntegrityWarnings(bundles[b]) # {}}
    BY SameIntegrity
  <2>2. \A kind, offending : /\ Exp!Blockers(kind, offending) = Blockers(kind, offending)
                             /\ Exp!Warnings(kind, offending) = Warnings(kind, offending)
    BY SameFindings
  <2> QED BY <2>1, <2>2, Zenon DEF BundleFindings, Exp!BundleFindings
<1>5. Dos!BundleFindings(ids, bundles) = BundleFindings(ids, bundles)
  <2>1. /\ wrong = {b \in there : Dos!IntegrityErrors(bundles[b]) # {}}
        /\ doubtful = {b \in there : Dos!IntegrityWarnings(bundles[b]) # {}}
    BY SameIntegrity
  <2>2. \A kind, offending : /\ Dos!Blockers(kind, offending) = Blockers(kind, offending)
                             /\ Dos!Warnings(kind, offending) = Warnings(kind, offending)
    BY SameFindings
  <2> QED BY <2>1, <2>2, Zenon DEF BundleFindings, Dos!BundleFindings
<1>6. Guard!BundleFindings(ids, bundles) = BundleFindings(ids, bundles)
  <2>1. /\ wrong = {b \in there : Guard!IntegrityErrors(bundles[b]) # {}}
        /\ doubtful = {b \in there : Guard!IntegrityWarnings(bundles[b]) # {}}
    BY SameIntegrity
  <2>2. \A kind, offending : /\ Guard!Blockers(kind, offending) = Blockers(kind, offending)
                             /\ Guard!Warnings(kind, offending) = Warnings(kind, offending)
    BY SameFindings
  <2> QED BY <2>1, <2>2, Zenon DEF BundleFindings, Guard!BundleFindings
<1>7. Prof!BundleFindings(ids, bundles) = BundleFindings(ids, bundles)
  <2>1. /\ wrong = {b \in there : Prof!IntegrityErrors(bundles[b]) # {}}
        /\ doubtful = {b \in there : Prof!IntegrityWarnings(bundles[b]) # {}}
    BY SameIntegrity
  <2>2. \A kind, offending : /\ Prof!Blockers(kind, offending) = Blockers(kind, offending)
                             /\ Prof!Warnings(kind, offending) = Warnings(kind, offending)
    BY SameFindings
  <2> QED BY <2>1, <2>2, Zenon DEF BundleFindings, Prof!BundleFindings
<1> QED BY <1>1, <1>2, <1>3, <1>4, <1>5, <1>6, <1>7

\* A complete report has nothing that blocks and nothing that warns.
LEMMA SameDecision ==
  ASSUME NEW findings
  PROVE  /\ Reg!LayerDecision(findings) = LayerDecision(findings)
         /\ Pol!LayerDecision(findings) = LayerDecision(findings)
         /\ Cross!LayerDecision(findings) = LayerDecision(findings)
         /\ Prov!LayerDecision(findings) = LayerDecision(findings)
         /\ Camp!LayerDecision(findings) = LayerDecision(findings)
         /\ Mon!LayerDecision(findings) = LayerDecision(findings)
         /\ Exp!LayerDecision(findings) = LayerDecision(findings)
         /\ Dos!LayerDecision(findings) = LayerDecision(findings)
         /\ Guard!LayerDecision(findings) = LayerDecision(findings)
         /\ Prof!LayerDecision(findings) = LayerDecision(findings)
BY DEF LayerDecision, AnyBlocker, AnyWarning, Reg!LayerDecision, Pol!LayerDecision,
       Cross!LayerDecision, Prov!LayerDecision, Camp!LayerDecision, Mon!LayerDecision,
       Exp!LayerDecision, Dos!LayerDecision, Guard!LayerDecision, Prof!LayerDecision,
       Reg!AnyBlocker, Pol!AnyBlocker, Cross!AnyBlocker, Prov!AnyBlocker, Camp!AnyBlocker,
       Mon!AnyBlocker, Exp!AnyBlocker, Dos!AnyBlocker, Guard!AnyBlocker, Prof!AnyBlocker,
       Reg!AnyWarning, Pol!AnyWarning, Cross!AnyWarning, Prov!AnyWarning, Camp!AnyWarning,
       Mon!AnyWarning, Exp!AnyWarning, Dos!AnyWarning, Guard!AnyWarning, Prof!AnyWarning

\* Nothing blocks and nothing warns.
IsClear(findings) == ~AnyBlocker(findings) /\ ~AnyWarning(findings)

LEMMA ClearDecision ==
  ASSUME NEW findings, LayerDecision(findings) = "complete"
  PROVE  IsClear(findings)
BY DEF LayerDecision, IsClear

\* A bundle in which nothing is found.
LEMMA NothingFound ==
  ASSUME NEW b \in DOMAIN store,
         IntegrityErrors(store[b]) = {}, IntegrityWarnings(store[b]) = {}
  PROVE  Sound(b)
<1> DEFINE bundle == store[b]
<1>1. ASSUME NEW kind, NEW places, Findings(kind, places) = {}
      PROVE  places = {}
  BY <1>1 DEF Findings
<1>2. /\ MismatchedRecords(bundle) = {} /\ InvalidRecords(bundle) = {}
      /\ (IF bundle.bundle_hash # {} /\ ~HasValidBundleHash(bundle) THEN {0} ELSE {}) = {}
  <2>1. /\ Findings("content hash mismatch", MismatchedRecords(bundle)) = {}
        /\ Findings("marked invalid", InvalidRecords(bundle)) = {}
        /\ Findings("bundle hash mismatch",
                    IF bundle.bundle_hash # {} /\ ~HasValidBundleHash(bundle) THEN {0} ELSE {}) = {}
    BY Zenon DEF IntegrityErrors
  <2> QED BY <1>1, <2>1, Zenon
<1>3. /\ UnhashedRecords(bundle) = {} /\ UnusableRecords(bundle) = {}
      /\ (IF bundle.bundle_hash = {} THEN {0} ELSE {}) = {}
  <2>1. /\ Findings("no content hash", UnhashedRecords(bundle)) = {}
        /\ Findings("no bundle hash", IF bundle.bundle_hash = {} THEN {0} ELSE {}) = {}
        /\ Findings("non-usable status", UnusableRecords(bundle)) = {}
    BY Zenon DEF IntegrityWarnings, MissingHashWarnings, StatusWarnings
  <2> QED BY <1>1, <2>1, Zenon
<1>4. HasValidBundleHash(bundle)
  <2>1. 0 \in {0} /\ 0 \notin {}
    OBVIOUS
  <2> QED BY <1>2, <1>3, <2>1, Zenon
<1>5. ASSUME NEW i \in DOMAIN bundle.records
      PROVE  HasValidContentHash(bundle.records[i]) /\ IsUsable(bundle.records[i].status)
  <2>1. /\ i \notin MismatchedRecords(bundle) /\ i \notin InvalidRecords(bundle)
        /\ i \notin UnhashedRecords(bundle) /\ i \notin UnusableRecords(bundle)
    BY <1>2, <1>3
  <2> QED BY <1>5, <2>1
          DEF MismatchedRecords, InvalidRecords, UnhashedRecords, UnusableRecords
<1> QED BY <1>4, <1>5 DEF Sound

\* Where nothing is found no record offends, and the named bundles are sound.
LEMMA ClearMeansNone ==
  ASSUME NEW findings, IsClear(findings)
  PROVE  /\ \A kind, offending : Blockers(kind, offending) \subseteq findings => offending = {}
         /\ \A kind, offending : Warnings(kind, offending) \subseteq findings => offending = {}
         /\ \A ids : BundleFindings(ids, store) \subseteq findings => AllSound(ids)
<1>1. ASSUME NEW kind, NEW offending, Blockers(kind, offending) \subseteq findings
      PROVE  offending = {}
  <2> SUFFICES ASSUME NEW x \in offending PROVE FALSE
    OBVIOUS
  <2>1. /\ Finding("blocker", kind, x) \in findings
        /\ Finding("blocker", kind, x).severity = "blocker"
    BY <1>1 DEF Blockers, Finding
  <2> QED BY <2>1 DEF IsClear, AnyBlocker
<1>2. ASSUME NEW kind, NEW offending, Warnings(kind, offending) \subseteq findings
      PROVE  offending = {}
  <2> SUFFICES ASSUME NEW x \in offending PROVE FALSE
    OBVIOUS
  <2>1. /\ Finding("warning", kind, x) \in findings
        /\ Finding("warning", kind, x).severity = "warning"
    BY <1>2 DEF Warnings, Finding
  <2> QED BY <2>1 DEF IsClear, AnyWarning
<1>3. ASSUME NEW ids, BundleFindings(ids, store) \subseteq findings
      PROVE  AllSound(ids)
  <2> DEFINE there    == ids \cap DOMAIN store
             wrong    == {b \in there : IntegrityErrors(store[b]) # {}}
             doubtful == {b \in there : IntegrityWarnings(store[b]) # {}}
  <2>1. /\ Blockers("evidence missing", ids \ DOMAIN store) \subseteq findings
        /\ Blockers("evidence integrity", wrong) \subseteq findings
        /\ Warnings("evidence warning", doubtful) \subseteq findings
    BY <1>3 DEF BundleFindings
  <2>2. ids \ DOMAIN store = {} /\ wrong = {} /\ doubtful = {}
    <3> HIDE DEF wrong, doubtful
    <3> QED BY <1>1, <1>2, <2>1
  <2> QED BY <2>2, NothingFound DEF AllSound
<1> QED BY <1>1, <1>2, <1>3, Zenon

\* A complete registry: what its findings rule out.
LEMMA RegistryComplete ==
  ASSUME IsComplete("registry_layer")
  PROVE  LET c == held.registry_layer
             dependents == c.use_cases \cup c.deployments
         IN  /\ \A s \in c.systems : \A m \in s.models : m \in Reg!IdsOf(c.models)
             /\ \A s \in c.systems :
                  ~Reg!Overreaches(s, {m \in c.models : m.id \in s.models})
             /\ \A r \in dependents : /\ Reg!SystemOf(c, r) # {}
                                      /\ ~Reg!Overreaches(r, Reg!SystemOf(c, r))
             /\ \A d \in c.deployments :
                  d.live => Reg!ApprovedUseCases(c, d.system) # {}
             /\ AllSound(Reg!ReferencedBundles(c))
             /\ \A d \in c.deployments : \A b \in d.evidence \cap DOMAIN store :
                  store[b].scope.scenario_id \in d.scenarios
<1> DEFINE c == held.registry_layer
           F == Reg!RegistryFindings(c, store)
           dependents == c.use_cases \cup c.deployments
           ModelsOf(s) == {m \in c.models : m.id \in s.models}
           absent == UNION {{<<s.id, m>> : m \in s.models \ Reg!IdsOf(c.models)} : s \in c.systems}
           over == {s \in c.systems : Reg!Overreaches(s, ModelsOf(s))}
           lost == {r \in dependents : Reg!SystemOf(c, r) = {}}
           loose == {r \in dependents : Reg!Overreaches(r, Reg!SystemOf(c, r))}
           idle == {d \in c.deployments : /\ d.live /\ Reg!SystemOf(c, d) # {}
                                          /\ Reg!ApprovedUseCases(c, d.system) = {}}
           strange == Reg!ScenarioMismatches(c, store)
<1>1. IsClear(F)
  <2>1. LayerDecision(F) = "complete"
    BY SameDecision DEF IsComplete, FreshReport, Reg!RegistryReadiness, Reg!LayerReport
  <2> QED BY <2>1, ClearDecision
<1>2. /\ Reg!Blockers("missing model", absent) \subseteq F
      /\ Reg!Blockers("uses unapproved model", Reg!IdsOf(over)) \subseteq F
      /\ Reg!Blockers("missing system", Reg!IdsOf(lost)) \subseteq F
      /\ Reg!Blockers("uses unapproved system", Reg!IdsOf(loose)) \subseteq F
      /\ Reg!Blockers("no approved use case", Reg!IdsOf(idle)) \subseteq F
      /\ Reg!Blockers("scenario mismatch", strange) \subseteq F
      /\ Reg!BundleFindings(Reg!ReferencedBundles(c), store) \subseteq F
  BY DEF Reg!RegistryFindings, Reg!CatalogFindings, Reg!SystemFindings, Reg!DependentFindings,
         Reg!LiveFindings, Reg!EvidenceFindings
<1> HIDE DEF F, absent, over, lost, loose, idle, strange
<1>3. /\ absent = {} /\ Reg!IdsOf(over) = {} /\ Reg!IdsOf(lost) = {} /\ Reg!IdsOf(loose) = {}
      /\ Reg!IdsOf(idle) = {} /\ strange = {}
  <2>1. \A kind, offending : Reg!Blockers(kind, offending) \subseteq F => offending = {}
    <3> TAKE kind, offending
    <3>1. Reg!Blockers(kind, offending) = Blockers(kind, offending)
      BY SameFindings
    <3> QED BY <1>1, <3>1, ClearMeansNone
  <2> QED BY <1>2, <2>1
<1>4. AllSound(Reg!ReferencedBundles(c))
  <2> DEFINE ids == Reg!ReferencedBundles(c)
  <2>1. Reg!BundleFindings(ids, store) = BundleFindings(ids, store)
    BY SameBundles
  <2> HIDE DEF ids
  <2> QED BY <1>1, <1>2, <2>1, ClearMeansNone DEF ids
<1>5. over = {} /\ lost = {} /\ loose = {} /\ idle = {}
  BY <1>3 DEF Reg!IdsOf
<1>6. \A s \in c.systems : \A m \in s.models : m \in Reg!IdsOf(c.models)
  <2> SUFFICES ASSUME NEW s \in c.systems, NEW m \in s.models, m \notin Reg!IdsOf(c.models)
               PROVE  FALSE
    OBVIOUS
  <2>1. <<s.id, m>> \in {<<s.id, x>> : x \in s.models \ Reg!IdsOf(c.models)}
    OBVIOUS
  <2>2. <<s.id, m>> \in absent
    BY <2>1 DEF absent
  <2> QED BY <1>3, <2>2
<1>7. \A d \in c.deployments : \A b \in d.evidence \cap DOMAIN store :
        store[b].scope.scenario_id \in d.scenarios
  <2> SUFFICES ASSUME NEW d \in c.deployments, NEW b \in d.evidence \cap DOMAIN store,
                      store[b].scope.scenario_id \notin d.scenarios
               PROVE  FALSE
    OBVIOUS
  <2>1. <<d.id, b>> \in {<<d.id, y>> : y \in {x \in d.evidence \cap DOMAIN store :
                                               store[x].scope.scenario_id \notin d.scenarios}}
    OBVIOUS
  <2>2. <<d.id, b>> \in strange
    BY <2>1 DEF strange, Reg!ScenarioMismatches
  <2> QED BY <1>3, <2>2
<1>8. \A r \in dependents : /\ Reg!SystemOf(c, r) # {}
                            /\ ~Reg!Overreaches(r, Reg!SystemOf(c, r))
  BY <1>5 DEF lost, loose
<1>9. \A s \in c.systems : ~Reg!Overreaches(s, ModelsOf(s))
  BY <1>5 DEF over
<1>10. \A d \in c.deployments : d.live => Reg!ApprovedUseCases(c, d.system) # {}
  BY <1>5, <1>8 DEF idle
<1> QED BY <1>4, <1>6, <1>7, <1>8, <1>9, <1>10

\* A complete monitoring layer: what its findings rule out for a deployment.
LEMMA MonitoringComplete ==
  ASSUME IsComplete("monitoring_incidents"),
         NEW d \in held.registry_layer.deployments
  PROVE  LET t == held.monitoring_incidents
             registry == held.registry_layer
         IN  /\ \A i \in t.incidents : ~Mon!IsOpen(i.state)
             /\ \A s \in t.snapshots :
                  /\ Mon!IsCurrent(s)
                  /\ s.system \in Mon!IdsOf(registry.systems)
                  /\ \A y \in registry.systems : y.id = s.system => s.model \in y.models
                  /\ s.telemetry_sources \subseteq
                       Mon!IdsOf(held.telemetry_adapters.catalog.sources)
                  /\ s.deployment = d.id => /\ s.system = d.system
                                            /\ s.scenarios \subseteq d.scenarios
                                            /\ s.telemetry_sources \subseteq d.telemetry_sources
<1> DEFINE t == held.monitoring_incidents
           registry == held.registry_layer
           telemetry == held.telemetry_adapters.catalog
           F == Mon!MonitoringFindings(t, registry, telemetry, store)
           Deployed(s) == Mon!DeploymentOf(registry, s)
           open == {i \in t.incidents : Mon!IsOpen(i.state)}
           stale == {s \in t.snapshots : Mon!RequiresRevalidation(s)}
<1>1. IsClear(F)
  <2>1. LayerDecision(F) = "complete"
    BY SameDecision DEF IsComplete, FreshReport, Mon!MonitoringReadiness, Mon!LayerReport
  <2> QED BY <2>1, ClearDecision
<1>2. /\ Mon!Blockers("incident open", Mon!IdsOf(open)) \subseteq F
      /\ Mon!Blockers("requires revalidation", Mon!IdsOf(stale)) \subseteq F
      /\ Mon!SnapshotFindings(t, registry, telemetry) \subseteq F
  <2>1. /\ Mon!Blockers("incident open", Mon!IdsOf(open)) \subseteq F
        /\ Mon!SnapshotFindings(t, registry, telemetry) \subseteq F
    BY Zenon DEF Mon!MonitoringFindings
  <2>2. Mon!Blockers("requires revalidation", Mon!IdsOf(stale))
          \subseteq Mon!SnapshotFindings(t, registry, telemetry)
    BY Zenon DEF Mon!SnapshotFindings
  <2> HIDE DEF F, open, stale
  <2> QED BY <2>1, <2>2
<1>3. \A s \in t.snapshots :
        /\ Mon!PlaceFindings(registry, s) \subseteq F /\ Mon!ModelFindings(registry, s) \subseteq F
        /\ UNION {Mon!Warnings("telemetry not in deployment",
                               s.telemetry_sources \ x.telemetry_sources) : x \in Deployed(s)}
             \subseteq F
        /\ Mon!Blockers("missing telemetry source",
                        s.telemetry_sources \ Mon!IdsOf(telemetry.sources)) \subseteq F
  <2> SUFFICES ASSUME NEW s \in t.snapshots
               PROVE  /\ Mon!PlaceFindings(registry, s) \subseteq F
                      /\ Mon!ModelFindings(registry, s) \subseteq F
                      /\ UNION {Mon!Warnings("telemetry not in deployment",
                                             s.telemetry_sources \ x.telemetry_sources) :
                                x \in Deployed(s)} \subseteq F
                      /\ Mon!Blockers("missing telemetry source",
                                      s.telemetry_sources \ Mon!IdsOf(telemetry.sources))
                           \subseteq F
    BY Zenon
  <2> DEFINE Lacking(x) ==
               Mon!PlaceFindings(registry, x) \cup Mon!ModelFindings(registry, x) \cup
               (UNION {Mon!Warnings("telemetry not in deployment",
                                   x.telemetry_sources \ y.telemetry_sources) :
                      y \in Deployed(x)}) \cup
               Mon!Blockers("missing telemetry source",
                            x.telemetry_sources \ Mon!IdsOf(telemetry.sources))
  <2>1. UNION {Lacking(x) : x \in t.snapshots} \subseteq Mon!SnapshotFindings(t, registry, telemetry)
    BY DEF Mon!SnapshotFindings
  <2>2. Lacking(s) \subseteq UNION {Lacking(x) : x \in t.snapshots}
    OBVIOUS
  <2> HIDE DEF F
  <2>3. Lacking(s) \subseteq F
    BY <1>2, <2>1, <2>2, Zenon
  <2> QED BY <2>3, Zenon
<1> HIDE DEF F, open, stale
<1>4. \A kind, offending :
        /\ Mon!Blockers(kind, offending) \subseteq F => offending = {}
        /\ Mon!Warnings(kind, offending) \subseteq F => offending = {}
  <2> TAKE kind, offending
  <2>1. /\ Mon!Blockers(kind, offending) = Blockers(kind, offending)
        /\ Mon!Warnings(kind, offending) = Warnings(kind, offending)
    BY SameFindings
  <2> QED BY <1>1, <2>1, ClearMeansNone
<1>5. open = {} /\ stale = {}
  <2>1. Mon!IdsOf(open) = {} /\ Mon!IdsOf(stale) = {}
    BY <1>2, <1>4
  <2> QED BY <2>1 DEF Mon!IdsOf
<1>6. \A i \in t.incidents : ~Mon!IsOpen(i.state)
  BY <1>5 DEF open
<1>7. ASSUME NEW s \in t.snapshots
      PROVE  /\ Mon!IsCurrent(s)
             /\ s.system \in Mon!IdsOf(registry.systems)
             /\ \A y \in registry.systems : y.id = s.system => s.model \in y.models
             /\ s.telemetry_sources \subseteq Mon!IdsOf(telemetry.sources)
             /\ s.deployment = d.id => /\ s.system = d.system
                                       /\ s.scenarios \subseteq d.scenarios
                                       /\ s.telemetry_sources \subseteq d.telemetry_sources
  <2>1. Mon!IsCurrent(s)
    BY <1>5, <1>7 DEF stale, Mon!RequiresRevalidation
  <2>2. s.system \in Mon!IdsOf(registry.systems)
    <3>1. Mon!Blockers("missing system", {s.system} \ Mon!IdsOf(registry.systems)) \subseteq F
      BY <1>3, <1>7 DEF Mon!PlaceFindings
    <3>2. {s.system} \ Mon!IdsOf(registry.systems) = {}
      BY <1>4, <3>1
    <3> QED BY <3>2
  <2>3. ASSUME NEW y \in registry.systems, y.id = s.system, s.model \notin y.models
        PROVE  FALSE
    <3> DEFINE wrong == {x \in Mon!Named(registry.systems, s.system) : s.model \notin x.models}
    <3>1. Mon!Blockers("model not on system", Mon!IdsOf(wrong)) \subseteq F
      BY <1>3, <1>7 DEF Mon!ModelFindings
    <3>2. y \in wrong
      BY <2>3 DEF Mon!Named
    <3> HIDE DEF wrong
    <3>3. Mon!IdsOf(wrong) = {}
      BY <1>4, <3>1
    <3> QED BY <3>2, <3>3 DEF Mon!IdsOf
  <2>4. s.telemetry_sources \subseteq Mon!IdsOf(telemetry.sources)
    <3>1. s.telemetry_sources \ Mon!IdsOf(telemetry.sources) = {}
      BY <1>3, <1>4, <1>7
    <3> QED BY <3>1
  <2>5. ASSUME s.deployment = d.id
        PROVE  /\ s.system = d.system
               /\ s.scenarios \subseteq d.scenarios
               /\ s.telemetry_sources \subseteq d.telemetry_sources
    <3> DEFINE wrong == {x \in Deployed(s) : x.system # s.system}
    <3>1. d \in Deployed(s)
      BY <2>5 DEF Mon!DeploymentOf, Mon!Named
    <3>2. /\ Mon!Blockers("deployment of another system", Mon!IdsOf(wrong)) \subseteq F
          /\ UNION {Mon!Blockers("scenario not in deployment", s.scenarios \ x.scenarios) :
                    x \in Deployed(s)} \subseteq F
      BY <1>3, <1>7 DEF Mon!PlaceFindings
    <3>3. Mon!Blockers("scenario not in deployment", s.scenarios \ d.scenarios) \subseteq F
      BY <3>1, <3>2
    <3>4. Mon!Warnings("telemetry not in deployment",
                       s.telemetry_sources \ d.telemetry_sources) \subseteq F
      BY <1>3, <1>7, <3>1
    <3> HIDE DEF wrong
    <3>5. /\ Mon!IdsOf(wrong) = {} /\ s.scenarios \ d.scenarios = {}
          /\ s.telemetry_sources \ d.telemetry_sources = {}
      BY <1>4, <3>2, <3>3, <3>4
    <3>6. d \notin wrong
      BY <3>5 DEF Mon!IdsOf
    <3> QED BY <3>1, <3>5, <3>6 DEF wrong
  <2> QED BY <2>1, <2>2, <2>3, <2>4, <2>5
<1> QED BY <1>6, <1>7

\* The registry checks one step of the chain at a time: a deployment against its system, a
\* system against its models, a use case against its system; the monitoring layer looks into
\* the registry and the telemetry catalog.  Together they leave no live deployment without
\* an approved chain on sound evidence, and none on which somebody has to act.
THEOREM LiveDeploymentsAreBacked == Spec => []LiveDeploymentIsBacked
<1> DEFINE c == held.registry_layer
           t == held.monitoring_incidents
<1>1. ASSUME PortfolioInv, IsComplete("registry_layer"), NEW d \in c.deployments, d.live
      PROVE  IsBacked(d)
  <2>1. /\ Reg!WellFormed(c) /\ Reg!MayRunLive(d)
    <3>1. Constructs("registry_layer", c)
      BY <1>1, LayerNames DEF PortfolioInv
    <3>2. Reg!WellFormed(c)
      BY <3>1 DEF Constructs
    <3> QED BY <1>1, <3>2 DEF Reg!WellFormed
  <2>2. d.lifecycle = "approved"
    BY <2>1 DEF Reg!MayRunLive, Reg!CanSupportAcceptance
  <2>3. AllSound(d.evidence) /\ \A b \in d.evidence : store[b].scope.scenario_id \in d.scenarios
    <3>1. d.evidence \subseteq Reg!ReferencedBundles(c)
      BY <1>1 DEF Reg!ReferencedBundles
    <3>2. AllSound(d.evidence)
      BY <1>1, <3>1, RegistryComplete DEF AllSound
    <3>3. d.evidence \subseteq DOMAIN store
      BY <3>2 DEF AllSound, Sound
    <3> QED BY <1>1, <3>2, <3>3, RegistryComplete
  <2>4. PICK s \in Reg!SystemOf(c, d) : TRUE
    BY <1>1, RegistryComplete
  <2>5. s \in c.systems /\ s.id = d.system
    BY <2>4 DEF Reg!SystemOf
  <2>6. s.lifecycle = "approved"
    <3>1. ~Reg!Overreaches(d, Reg!SystemOf(c, d))
      BY <1>1, RegistryComplete
    <3> QED BY <2>2, <2>4, <3>1 DEF Reg!Overreaches, Reg!CanSupportAcceptance
  <2>7. s.models \subseteq {m.id : m \in Approved(c.models)}
    <3> SUFFICES ASSUME NEW x \in s.models PROVE x \in {m.id : m \in Approved(c.models)}
      OBVIOUS
    <3>1. x \in Reg!IdsOf(c.models)
      BY <1>1, <2>5, RegistryComplete
    <3>2. PICK m \in c.models : m.id = x
      BY <3>1 DEF Reg!IdsOf
    <3>3. ~Reg!Overreaches(s, {y \in c.models : y.id \in s.models})
      BY <1>1, <2>5, RegistryComplete
    <3>4. m.lifecycle = "approved"
      BY <2>6, <3>2, <3>3 DEF Reg!Overreaches, Reg!CanSupportAcceptance
    <3>5. m.evidence \subseteq Reg!ReferencedBundles(c)
      BY <3>2 DEF Reg!ReferencedBundles
    <3>6. AllSound(m.evidence)
      BY <1>1, <3>5, RegistryComplete DEF AllSound
    <3> QED BY <3>2, <3>4, <3>6 DEF Approved
  <2>8. \E u \in Approved(c.use_cases) : u.system = s.id
    <3>1. PICK u \in Reg!ApprovedUseCases(c, d.system) : TRUE
      BY <1>1, RegistryComplete
    <3>2. u \in c.use_cases /\ u.system = d.system /\ u.lifecycle = "approved"
      BY <3>1 DEF Reg!ApprovedUseCases, Reg!CanSupportAcceptance
    <3>3. u.evidence \subseteq Reg!ReferencedBundles(c)
      BY <3>2 DEF Reg!ReferencedBundles
    <3>4. AllSound(u.evidence)
      BY <1>1, <3>3, RegistryComplete DEF AllSound
    <3> QED BY <2>5, <3>2, <3>4 DEF Approved
  <2> QED BY <2>2, <2>3, <2>5, <2>6, <2>7, <2>8 DEF IsBacked
<1>2. ASSUME PortfolioInv, IsComplete("monitoring_incidents"), NEW d \in c.deployments
      PROVE  IsQuiet(d)
  <2>1. \A i \in t.incidents : i.state \in {"mitigated", "closed"}
    <3>1. HasShape("monitoring_incidents", t)
      BY <1>2, LayerNames DEF PortfolioInv
    <3>2. \A i \in t.incidents : i.state \in Mon!IncidentState /\ ~Mon!IsOpen(i.state)
      BY <1>2, <3>1, MonitoringComplete DEF HasShape
    <3> QED BY <3>2 DEF Mon!IncidentState, Mon!IsOpen
  <2>2. ASSUME NEW x \in t.snapshots, x.deployment = d.id
        PROVE  /\ x.status = "current" /\ x.system = d.system /\ x.scenarios \subseteq d.scenarios
               /\ \E s \in c.systems : s.id = x.system /\ x.model \in s.models
               /\ x.telemetry_sources \subseteq
                    d.telemetry_sources \cap {y.id : y \in held.telemetry_adapters.catalog.sources}
    <3>1. /\ x.status = "current" /\ x.system = d.system /\ x.scenarios \subseteq d.scenarios
          /\ x.telemetry_sources \subseteq d.telemetry_sources
          /\ x.telemetry_sources \subseteq {y.id : y \in held.telemetry_adapters.catalog.sources}
          /\ \E s \in c.systems : s.id = x.system
          /\ \A s \in c.systems : s.id = x.system => x.model \in s.models
      BY <1>2, <2>2, MonitoringComplete DEF Mon!IsCurrent, Mon!IdsOf
    <3> QED BY <3>1
  <2> QED BY <2>1, <2>2 DEF IsQuiet
<1>3. PortfolioInv => LiveDeploymentIsBacked
  BY <1>1, <1>2 DEF LiveDeploymentIsBacked
<1> QED BY <1>3, PortfolioInvariant, PTL

\* A complete policy layer: every rule that matches a request was evaluated, and left
\* nothing behind.
LEMMA PolicyComplete ==
  ASSUME NEW as_of, PolicyReport(as_of).decision = "complete",
         NEW request \in held.policy_pack_engine.requests,
         NEW rule \in held.policy_pack_engine.pack.rules,
         Pol!Matches(rule, request), rule.decision = "require_waiver"
  PROVE  LET p == held.policy_pack_engine
         IN  /\ Pol!ValidPlaces(p, rule, request) # {}
             /\ \A w \in p.waivers : /\ AllSound(w.evidence)
                                     /\ \A t \in as_of : ~(w.expires_at <= t)
<1> DEFINE p == held.policy_pack_engine
           F == Pol!PolicyFindings(p, store, as_of)
           valid == Pol!ValidPlaces(p, rule, request)
           expired == {v \in p.waivers : \E t \in as_of : v.expires_at <= t}
           triggered == Pol!Triggered(rule, request)
<1>1. IsClear(F)
  <2>1. LayerDecision(F) = "complete"
    BY SameDecision DEF PolicyReport, Pol!PolicyReadiness, Pol!LayerReport
  <2> QED BY <2>1, ClearDecision
<1>2. \A kind, offending :
        /\ Pol!Blockers(kind, offending) \subseteq F => offending = {}
        /\ Pol!Warnings(kind, offending) \subseteq F => offending = {}
  <2> TAKE kind, offending
  <2>1. /\ Pol!Blockers(kind, offending) = Blockers(kind, offending)
        /\ Pol!Warnings(kind, offending) = Warnings(kind, offending)
    BY SameFindings
  <2> QED BY <1>1, <2>1, ClearMeansNone
<1>3. /\ Pol!Evaluate(p, request).findings \subseteq F
      /\ \A w \in p.waivers : Pol!BundleFindings(w.evidence, store) \subseteq F
      /\ Pol!Blockers("waiver expired", {w.id : w \in expired}) \subseteq F
  BY Zenon DEF Pol!PolicyFindings, Pol!WaiverEvidenceFindings
<1> HIDE DEF F, expired, valid, triggered
<1>4. Pol!RuleFindings(p, rule, request) \subseteq F
  <2>1. p.pack.lifecycle = "active"
    <3> SUFFICES ASSUME p.pack.lifecycle # "active" PROVE FALSE
      OBVIOUS
    <3>1. Pol!Blockers("pack not active", {p.pack.id}) \subseteq F
      BY <1>3 DEF Pol!Evaluate
    <3> QED BY <1>2, <3>1
  <2>2. rule \in Pol!MatchingRules(p, request)
    BY DEF Pol!MatchingRules
  <2>3. Pol!Evaluate(p, request).findings
          = UNION {Pol!RuleFindings(p, r, request) : r \in Pol!MatchingRules(p, request)}
    BY <2>1, <2>2 DEF Pol!Evaluate
  <2> QED BY <1>3, <2>2, <2>3
<1>5. Pol!WaiverFindings(p, rule, request) \subseteq F
  <2>1. triggered = {}
    <3> SUFFICES ASSUME triggered # {} PROVE FALSE
      OBVIOUS
    <3> DEFINE named == {<<rule.id, x>> : x \in triggered}
    <3>1. Pol!Blockers("blocked condition", named) \subseteq F
      BY <1>4 DEF Pol!RuleFindings, triggered
    <3>2. named # {}
      OBVIOUS
    <3> HIDE DEF named
    <3> QED BY <1>2, <3>1, <3>2
  <2> QED BY <1>4, <2>1 DEF Pol!RuleFindings, triggered
<1>6. valid # {}
  <2> SUFFICES ASSUME valid = {} PROVE FALSE
    OBVIOUS
  <2>1. Pol!Warnings("no valid waiver", {rule.id}) \subseteq F
    BY <1>5 DEF Pol!WaiverFindings, valid
  <2> QED BY <1>2, <2>1
<1>7. expired = {}
  <2>1. {w.id : w \in expired} = {}
    BY <1>2, <1>3
  <2> QED BY <2>1
<1>8. ASSUME NEW w \in p.waivers
      PROVE  AllSound(w.evidence) /\ \A t \in as_of : ~(w.expires_at <= t)
  <2>1. Pol!BundleFindings(w.evidence, store) = BundleFindings(w.evidence, store)
    BY SameBundles
  <2>2. BundleFindings(w.evidence, store) \subseteq F
    BY <1>3, <2>1, Zenon
  <2>3. AllSound(w.evidence)
    BY <1>1, <2>2, ClearMeansNone, Zenon
  <2> QED BY <1>7, <2>3 DEF expired
<1> QED BY <1>6, <1>8 DEF valid

\* A complete policy layer rests on waivers that were alive when the request was evaluated,
\* and are alive now if the time is given.
THEOREM WaiversAreLive == Spec => []CompletePolicyHasLiveWaivers
<1> DEFINE p == held.policy_pack_engine
<1>1. ASSUME PortfolioInv, NEW as_of \in {{}, {now}}, PolicyReport(as_of).decision = "complete",
             NEW request \in p.requests, NEW rule \in p.pack.rules,
             rule.decision = "require_waiver", Pol!Matches(rule, request)
      PROVE  \E w \in p.waivers :
               /\ w.id \in ToSet(request.waiver_ids) /\ rule.id \in w.rules /\ w.pack = p.pack.id
               /\ Pol!Satisfies(w.authority, rule.authority) /\ AllSound(w.evidence)
               /\ \A t \in as_of \cup {request.evaluated_at} : t < w.expires_at
  <2>1. Pol!HasTimes(p) /\ now \in Nat
    <3>1. HasShape("policy_pack_engine", p)
      BY <1>1, LayerNames DEF PortfolioInv
    <3> QED BY <1>1, <3>1, PortfolioAssumption DEF PortfolioInv, HasShape
  <2>2. Pol!ValidPlaces(p, rule, request) # {}
    BY <1>1, PolicyComplete
  <2>3. PICK i \in DOMAIN request.waiver_ids, w \in p.waivers :
          w.id = request.waiver_ids[i] /\ Pol!WaiverSatisfies(w, rule, request, p.pack)
    BY <2>2 DEF Pol!ValidPlaces
  <2>4. w.id \in ToSet(request.waiver_ids)
    BY <2>3 DEF ToSet
  <2>5. /\ rule.id \in w.rules /\ w.pack = p.pack.id
        /\ Pol!Satisfies(w.authority, rule.authority) /\ w.expires_at > request.evaluated_at
    BY <2>3 DEF Pol!WaiverSatisfies
  <2>6. AllSound(w.evidence) /\ \A t \in as_of : ~(w.expires_at <= t)
    BY <1>1, PolicyComplete
  <2>7. w.expires_at \in Nat /\ request.evaluated_at \in Nat
    BY <1>1, <2>1 DEF Pol!HasTimes
  <2>8. \A t \in as_of \cup {request.evaluated_at} : t < w.expires_at
    BY <2>1, <2>5, <2>6, <2>7
  <2> QED BY <2>4, <2>5, <2>6, <2>8
<1>2. PortfolioInv => CompletePolicyHasLiveWaivers
  BY <1>1, Zenon DEF CompletePolicyHasLiveWaivers
<1> QED BY <1>2, PortfolioInvariant, PTL

\* A complete campaign layer: every scenario ran, and every run was accepted.
LEMMA CampaignComplete ==
  ASSUME IsComplete("scenario_campaign_runner")
  PROVE  LET layer == held.scenario_campaign_runner
         IN  /\ \A k \in layer.campaigns : \A s \in k.scenarios :
                  \E r \in ToSet(layer.reports) : \E x \in r.results :
                    r.campaign = k.id /\ x.scenario = s.scenario
             /\ \A r \in ToSet(layer.reports) : r.decision = "accepted"
<1> DEFINE layer == held.scenario_campaign_runner
           reports == ToSet(layer.reports)
           F == Camp!CampaignFindings(layer.campaigns, layer.reports)
           refused == {r \in reports : r.decision # "accepted"}
           Own(k) == {r \in reports : r.campaign = k.id}
           Ran(k) == UNION {{x.scenario : x \in r.results} : r \in Own(k)}
<1>1. IsClear(F)
  <2>1. LayerDecision(F) = "complete"
    BY SameDecision DEF IsComplete, FreshReport, Camp!CampaignReadiness, Camp!LayerReport
  <2> QED BY <2>1, ClearDecision
<1>2. /\ \A k \in layer.campaigns : Camp!CoverageFindings(k, reports) \subseteq F
      /\ Camp!ReportFindings(layer.campaigns, reports) \subseteq F
  <2>1. Camp!ToSet(layer.reports) = reports
    BY DEF ToSet, Camp!ToSet
  <2> QED BY <2>1, Zenon DEF Camp!CampaignFindings
<1> HIDE DEF F, reports, refused
<1>3. \A kind, offending : Camp!Blockers(kind, offending) \subseteq F => offending = {}
  <2> TAKE kind, offending
  <2>1. Camp!Blockers(kind, offending) = Blockers(kind, offending)
    BY SameFindings
  <2> QED BY <1>1, <2>1, ClearMeansNone
<1>4. refused = {}
  <2>1. Camp!Blockers("run not accepted", {r.run : r \in refused})
          \subseteq Camp!ReportFindings(layer.campaigns, reports)
    BY Zenon DEF Camp!ReportFindings, refused
  <2>2. {r.run : r \in refused} = {}
    BY <1>2, <1>3, <2>1
  <2> QED BY <2>2
<1>5. ASSUME NEW k \in layer.campaigns, NEW s \in k.scenarios
      PROVE  \E r \in reports : \E x \in r.results : r.campaign = k.id /\ x.scenario = s.scenario
  <2>1. Own(k) # {}
    <3> SUFFICES ASSUME Own(k) = {} PROVE FALSE
      OBVIOUS
    <3>1. Camp!Blockers("no run report", {k.id}) \subseteq F
      BY <1>2, <1>5 DEF Camp!CoverageFindings
    <3> QED BY <1>3, <3>1
  <2>2. Camp!Blockers("scenario not run", {y.scenario : y \in k.scenarios} \ Ran(k)) \subseteq F
    BY <1>2, <1>5, <2>1, Zenon DEF Camp!CoverageFindings
  <2>3. {y.scenario : y \in k.scenarios} \ Ran(k) = {}
    BY <1>3, <2>2, Zenon
  <2>4. s.scenario \in Ran(k)
    BY <2>3
  <2> QED BY <2>4
<1> QED BY <1>4, <1>5 DEF reports, refused

\* An accepted run of a campaign that asks for it passed every repetition of every probe.
LEMMA AcceptedRunPassed ==
  ASSUME NEW k, NEW in, NEW catalog, NEW findings,
         Camp!Run(k, in, catalog, findings).decision = "accepted",
         k.threshold.require_all_critical,
         NEW s \in k.scenarios, Camp!IsNonNominal(s.role), NEW i \in 1..s.minimum_runs
  PROVE  \E x \in Camp!Run(k, in, catalog, findings).results :
           x.scenario = s.scenario /\ x.run = i /\ x.result = "pass"
<1> DEFINE results == IF Camp!MayExecute(k, in, findings)
                      THEN Camp!ResultsOf(k, in, catalog) ELSE {}
           result == Camp!RunResult(Camp!RunInput(in, s, i, catalog)).verification_result
           x == [scenario |-> s.scenario, run |-> i, result |-> result]
<1>1. /\ Camp!Run(k, in, catalog, findings).results = results
      /\ Camp!Run(k, in, catalog, findings).decision = Camp!Decide(k, results)
  BY DEF Camp!Run, Camp!RunReport
<1>2. x \in Camp!ResultsOf(k, in, catalog)
  <2>1. <<s, i>> \in Camp!RunsOf(k)
    BY DEF Camp!RunsOf
  <2>2. <<s, i>>[1] = s /\ <<s, i>>[2] = i
    OBVIOUS
  <2> QED BY <2>1, <2>2, Zenon DEF Camp!ResultsOf
<1> HIDE DEF results, x
<1>3. /\ results # {}
      /\ \A r \in results : r.scenario \in Camp!CriticalScenarios(k) => r.result = "pass"
  BY <1>1 DEF Camp!Decide
<1>4. results = Camp!ResultsOf(k, in, catalog)
  BY <1>3 DEF results
<1>5. x.scenario = s.scenario /\ x.run = i
  BY DEF x
<1>6. s.scenario \in Camp!CriticalScenarios(k)
  BY DEF Camp!CriticalScenarios
<1> QED BY <1>1, <1>2, <1>3, <1>4, <1>5, <1>6

\* A complete campaign layer ran every scenario, and its runs passed every probe.
THEOREM CampaignsPassedTheirProbes == Spec => []CompleteCampaignPassedItsProbes
<1> DEFINE layer == held.scenario_campaign_runner
<1>1. ASSUME PortfolioInv, IsComplete("scenario_campaign_runner"),
             NEW x \in ranAs, x[1] \in ToSet(layer.reports), x[2].threshold.require_all_critical,
             NEW s \in x[2].scenarios, s.role \in {"adversarial_probe", "degraded_mode", "stress"},
             NEW i \in 1..s.minimum_runs
      PROVE  \E y \in x[1].results : y.scenario = s.scenario /\ y.run = i /\ y.result = "pass"
  <2>1. PICK in, catalog, findings : x[1] = Camp!Run(x[2], in, catalog, findings)
    BY <1>1 DEF PortfolioInv, MadeByRun
  <2>2. x[1].decision = "accepted"
    BY <1>1, CampaignComplete
  <2>3. Camp!IsNonNominal(s.role)
    BY <1>1 DEF Camp!IsNonNominal
  <2> QED BY <1>1, <2>1, <2>2, <2>3, AcceptedRunPassed
<1>2. PortfolioInv => CompleteCampaignPassedItsProbes
  BY <1>1, CampaignComplete, Zenon DEF CompleteCampaignPassedItsProbes
<1> QED BY <1>2, PortfolioInvariant, PTL

------------------------------------------------------------------------------
(* The paper trail. *)

\* A verified signature of external grade, by a trusted signer, for every digest.
LEMMA CompleteManifestIsSigned ==
  ASSUME PortfolioInv, IsComplete("signed_provenance")
  PROVE  ArtifactsAreSigned
<1> DEFINE m == held.signed_provenance
           policy == Prov!StrictPolicy
           F == Prov!ProvenanceFindings(m, policy)
           uncovered == {d \in m.digests : ~Prov!HasSignedClaim(m, d)}
           doubtful == {s \in m.signatures :
                          ~Prov!SupportsExternalReview(Prov!SignerOf(m, s).trust)}
<1>1. IsClear(F)
  <2>1. LayerDecision(F) = "complete"
    BY SameDecision DEF IsComplete, FreshReport, Prov!ProvenanceReadiness, Prov!LayerReport
  <2> QED BY <2>1, ClearDecision
<1>2. \A kind, offending : Prov!Blockers(kind, offending) \subseteq F => offending = {}
  <2> TAKE kind, offending
  <2>1. Prov!Blockers(kind, offending) = Blockers(kind, offending)
    BY SameFindings
  <2> QED BY <1>1, <2>1, ClearMeansNone
<1>3. \A kind, offending : Prov!Unsigned(policy, kind, offending) = Prov!Blockers(kind, offending)
  BY DEF Prov!Unsigned, Prov!StrictPolicy
<1>4. /\ Prov!CoverageFindings(m, policy) \subseteq F
      /\ Prov!SignatureFindings(m, policy) \subseteq F
  BY Zenon DEF Prov!ProvenanceFindings, Prov!ManifestFindings
<1> HIDE DEF F, policy
<1>5. uncovered = {}
  <2>1. Prov!CoverageFindings(m, policy)
          = Prov!Unsigned(policy, "no verified signature", {d.artifact : d \in uncovered})
    BY DEF Prov!CoverageFindings
  <2> HIDE DEF uncovered
  <2>2. Prov!Blockers("no verified signature", {d.artifact : d \in uncovered}) \subseteq F
    BY <1>3, <1>4, <2>1, Zenon
  <2>3. {d.artifact : d \in uncovered} = {}
    BY <1>2, <2>2, Zenon
  <2> QED BY <2>3
<1>6. doubtful = {}
  <2>1. Prov!Unsigned(policy, "signer trust", Prov!IdsOf(doubtful))
          \subseteq Prov!SignatureFindings(m, policy)
    BY Zenon DEF Prov!SignatureFindings
  <2> HIDE DEF doubtful
  <2>2. Prov!Blockers("signer trust", Prov!IdsOf(doubtful)) \subseteq F
    BY <1>3, <1>4, <2>1, Zenon
  <2>3. Prov!IdsOf(doubtful) = {}
    BY <1>2, <2>2, Zenon
  <2> QED BY <2>3 DEF Prov!IdsOf
<1>7. Prov!WellFormed(m)
  <2>1. Constructs("signed_provenance", m)
    BY LayerNames DEF PortfolioInv
  <2> QED BY <2>1 DEF Constructs
<1>8. ASSUME NEW d \in m.digests
      PROVE  \E s \in m.signatures :
               /\ s.digest = d.id /\ s.status = "verified"
               /\ Prov!IsExternalAssuranceGrade(s.algorithm)
               /\ \E y \in m.signers :
                    /\ y.id = s.signer
                    /\ y.trust \in {"signed_by_identified_key", "external_attestation_ready"}
  <2>1. PICK s \in Prov!SignaturesFor(m, d) : Prov!SupportsSignedClaim(s)
    BY <1>5 DEF Prov!HasSignedClaim
  <2>2. /\ s \in m.signatures /\ s.digest = d.id /\ s.status = "verified"
        /\ Prov!IsExternalAssuranceGrade(s.algorithm)
    BY <2>1 DEF Prov!SignaturesFor, Prov!SupportsSignedClaim
  <2> DEFINE y == Prov!SignerOf(m, s)
  <2>3. \E x \in m.signers : x.id = s.signer
    <3>1. s.signer \in Prov!IdsOf(m.signers)
      BY <1>7, <2>2 DEF Prov!WellFormed
    <3> QED BY <3>1 DEF Prov!IdsOf
  <2>4. y \in m.signers /\ y.id = s.signer
    BY <2>3 DEF Prov!SignerOf
  <2>5. Prov!SupportsExternalReview(y.trust)
    BY <1>6, <2>2
  <2> QED BY <2>2, <2>4, <2>5 DEF Prov!SupportsExternalReview
<1> QED BY <1>8 DEF ArtifactsAreSigned

\* A redaction rule for everything sensitive, and a signed manifest behind a run.
LEMMA CompleteExportIsRedacted ==
  ASSUME IsComplete("audit_report_export")
  PROVE  ExportIsRedacted
<1> DEFINE x == held.audit_report_export
           manifests == {held.signed_provenance.id}
           F == Exp!ExportFindings(x, store, manifests)
           exposed == {s \in x.artifacts : s.sensitive /\ s.kind \notin UNION {r.kinds : r \in x.rules}}
           bare == {r \in Exp!RuntimeArtifacts(x) : r.manifests = {}}
<1>1. IsClear(F)
  <2>1. LayerDecision(F) = "complete"
    BY SameDecision DEF IsComplete, FreshReport, Exp!ExportReadiness, Exp!LayerReport
  <2> QED BY <2>1, ClearDecision
<1>2. \A kind, offending : Exp!Blockers(kind, offending) \subseteq F => offending = {}
  <2> TAKE kind, offending
  <2>1. Exp!Blockers(kind, offending) = Blockers(kind, offending)
    BY SameFindings
  <2> QED BY <1>1, <2>1, ClearMeansNone
<1>3. /\ Exp!Blockers("runtime without provenance", {a.id : a \in bare}) \subseteq F
      /\ Exp!Blockers("missing redaction rule", {a.id : a \in exposed}) \subseteq F
      /\ Exp!Blockers("manifest missing", Exp!RequiredManifests(x) \ manifests) \subseteq F
      /\ Exp!Blockers("no runtime artifacts", Exp!Whenever(Exp!RuntimeArtifacts(x) = {})) \subseteq F
      /\ Exp!BundleFindings(Exp!RequiredEvidence(x), store) \subseteq F
  BY Zenon DEF Exp!ExportFindings, Exp!ArtifactFindings, Exp!RedactionFindings,
               Exp!ManifestFindings
<1> HIDE DEF F, exposed, bare, manifests
<1>4. /\ {a.id : a \in bare} = {} /\ {a.id : a \in exposed} = {}
      /\ Exp!RequiredManifests(x) \ manifests = {}
      /\ Exp!Whenever(Exp!RuntimeArtifacts(x) = {}) = {}
  BY <1>2, <1>3, Zenon
<1>5. AllSound(Exp!RequiredEvidence(x))
  <2>1. BundleFindings(Exp!RequiredEvidence(x), store) \subseteq F
    BY <1>3, SameBundles, Zenon
  <2> QED BY <1>1, <2>1, ClearMeansNone, Zenon
<1>6. ASSUME NEW a \in x.artifacts, a.sensitive
      PROVE  \E r \in x.rules : a.kind \in r.kinds /\ (r.required => AllSound(r.evidence))
  <2>1. a \notin exposed
    BY <1>4
  <2>2. PICK r \in x.rules : a.kind \in r.kinds
    BY <1>6, <2>1 DEF exposed
  <2>3. r.evidence \subseteq Exp!RequiredEvidence(x)
    BY DEF Exp!RequiredEvidence
  <2> QED BY <1>5, <2>2, <2>3 DEF AllSound
<1>7. \E a \in x.artifacts : a.manifests = {held.signed_provenance.id}
  <2>1. Exp!RuntimeArtifacts(x) # {}
    BY <1>4 DEF Exp!Whenever
  <2>2. PICK a \in Exp!RuntimeArtifacts(x) : TRUE
    BY <2>1
  <2>3. a \in x.artifacts
    BY <2>2 DEF Exp!RuntimeArtifacts
  <2>4. a.manifests # {}
    BY <1>4, <2>2 DEF bare
  <2>5. a.manifests \subseteq Exp!RequiredManifests(x)
    BY <2>3 DEF Exp!RequiredManifests
  <2>6. a.manifests \subseteq {held.signed_provenance.id}
    BY <1>4, <2>5 DEF manifests
  <2> QED BY <2>3, <2>4, <2>6
<1> QED BY <1>6, <1>7 DEF ExportIsRedacted

\* Every requirement and hazard of a thread has a reference of the thread's own.
LEMMA CompleteDossierIsSupported ==
  ASSUME PortfolioInv, IsComplete("assurance_dossier")
  PROVE  ThreadsAreSupported
<1> DEFINE d == held.assurance_dossier
           manifests == {held.signed_provenance.id}
           exports == {held.audit_report_export.id}
           F == Dos!DossierFindings(d, store, manifests, exports)
           open == {t \in d.threads : ~Dos!IsClosed(t)}
           reviews == {a.record : a \in {b \in d.artifacts : b.kind = "review_workflow"}}
           Lacking(t) ==
             Dos!Blockers("reference missing", t.references \ Dos!IdsOf(d.references)) \cup
             Dos!Blockers("review missing", t.reviews \ reviews) \cup
             Dos!Blockers("requirement unsupported",
                          t.requirements \ UNION {r.requirements : r \in Dos!Supporting(d, t)}) \cup
             Dos!Blockers("hazard unsupported",
                          t.hazards \ UNION {r.hazards : r \in Dos!Supporting(d, t)})
<1>1. IsClear(F)
  <2>1. LayerDecision(F) = "complete"
    BY SameDecision DEF IsComplete, FreshReport, Dos!DossierReadiness, Dos!LayerReport
  <2> QED BY <2>1, ClearDecision
<1>2. \A kind, offending : Dos!Blockers(kind, offending) \subseteq F => offending = {}
  <2> TAKE kind, offending
  <2>1. Dos!Blockers(kind, offending) = Blockers(kind, offending)
    BY SameFindings
  <2> QED BY <1>1, <2>1, ClearMeansNone
<1>3. /\ Dos!Blockers("open thread", Dos!IdsOf(open)) \subseteq F
      /\ Dos!Blockers("export missing", Dos!ExportIds(d) \ exports) \subseteq F
      /\ Dos!BundleFindings(Dos!RequiredEvidence(d), store) \subseteq F
      /\ Dos!ThreadFindings(d) \subseteq F
  BY Zenon DEF Dos!DossierFindings, Dos!PostureFindings, Dos!SourceFindings
<1>4. \A t \in d.threads : Lacking(t) \subseteq Dos!ThreadFindings(d)
  BY Zenon DEF Dos!ThreadFindings
<1>5. \A t \in d.threads :
        /\ Dos!Blockers("requirement unsupported",
                        t.requirements \ UNION {r.requirements : r \in Dos!Supporting(d, t)}) \subseteq F
        /\ Dos!Blockers("hazard unsupported",
                        t.hazards \ UNION {r.hazards : r \in Dos!Supporting(d, t)}) \subseteq F
  <2> HIDE DEF F
  <2> QED BY <1>3, <1>4, Zenon
<1> HIDE DEF F, open, exports, manifests
<1>6. Dos!IdsOf(open) = {} /\ Dos!ExportIds(d) \ exports = {}
  BY <1>2, <1>3, Zenon
<1>7. AllSound(Dos!RequiredEvidence(d))
  <2>1. BundleFindings(Dos!RequiredEvidence(d), store) \subseteq F
    BY <1>3, SameBundles, Zenon
  <2> QED BY <1>1, <2>1, ClearMeansNone, Zenon
<1>8. ASSUME NEW t \in d.threads
      PROVE  t.exports = {held.audit_report_export.id}
  <2>1. Dos!IsClosed(t)
    BY <1>6 DEF Dos!IdsOf, open
  <2>2. Constructs("assurance_dossier", d)
    BY LayerNames DEF PortfolioInv
  <2>3. t.exports # {}
    BY <2>1, <2>2 DEF Constructs, Dos!WellFormed
  <2>4. t.exports \subseteq Dos!ExportIds(d)
    BY DEF Dos!ExportIds
  <2> QED BY <1>6, <2>3, <2>4 DEF exports
<1>9. ASSUME NEW t \in d.threads, NEW r \in Dos!Supporting(d, t)
      PROVE  r \in d.references /\ r.id \in t.references /\ Sound(r.bundle)
  <2>1. r \in d.references /\ r.id \in t.references
    BY <1>9 DEF Dos!Supporting
  <2>2. r.bundle \in Dos!RequiredEvidence(d)
    BY <2>1 DEF Dos!RequiredEvidence
  <2> QED BY <1>7, <2>1, <2>2 DEF AllSound
<1>10. ASSUME NEW t \in d.threads
       PROVE  /\ \A q \in t.requirements : \E r \in Dos!Supporting(d, t) : q \in r.requirements
              /\ \A h \in t.hazards : \E r \in Dos!Supporting(d, t) : h \in r.hazards
  <2>1. /\ t.requirements \ UNION {r.requirements : r \in Dos!Supporting(d, t)} = {}
        /\ t.hazards \ UNION {r.hazards : r \in Dos!Supporting(d, t)} = {}
    BY <1>2, <1>5, Zenon
  <2> QED BY <2>1
<1>11. \A t \in d.threads :
         /\ \A q \in t.requirements : \E r \in d.references :
              r.id \in t.references /\ Sound(r.bundle) /\ q \in r.requirements
         /\ \A h \in t.hazards : \E r \in d.references :
              r.id \in t.references /\ Sound(r.bundle) /\ h \in r.hazards
  BY <1>9, <1>10, Zenon
<1> QED BY <1>8, <1>11 DEF ThreadsAreSupported

\* Every capability that a claim with references names is in one of them.
LEMMA CompleteClaimsAreCited ==
  ASSUME IsComplete("claim_guardrails")
  PROVE  ClaimsAreCited
<1> DEFINE p == held.claim_guardrails
           known == Known
           F == Guard!GuardrailFindings(p, store, known)
           bundles == {r.bundle : r \in p.references}
           Lacking(c) ==
             Guard!Blockers("reviewer unknown", Guard!Unknown(c.reviewers, known.reviewers)) \cup
             Guard!Blockers("reference missing", c.references \ Guard!IdsOf(p.references)) \cup
             Guard!Blockers("unsupported", Guard!Unsupported(p, c)) \cup
             Guard!Blockers("unknown", Guard!Unknown(c.capabilities, known.capabilities) \cup
                                       Guard!Unknown(c.artifacts, known.artifacts))
<1> HIDE DEF known
<1>1. IsClear(F)
  <2>1. LayerDecision(F) = "complete"
    BY SameDecision DEF IsComplete, FreshReport, Guard!GuardrailReadiness, Guard!LayerReport, known
  <2> QED BY <2>1, ClearDecision
<1>2. \A kind, offending : Guard!Blockers(kind, offending) \subseteq F => offending = {}
  <2> TAKE kind, offending
  <2>1. Guard!Blockers(kind, offending) = Blockers(kind, offending)
    BY SameFindings
  <2> QED BY <1>1, <2>1, ClearMeansNone
<1>3. /\ Guard!ClaimFindings(p, known) \subseteq F
      /\ Guard!BundleFindings(bundles, store) \subseteq F
  BY Zenon DEF Guard!GuardrailFindings, Guard!GuardrailValidation
<1>4. \A c \in p.claims : Lacking(c) \subseteq Guard!ClaimFindings(p, known)
  BY Zenon DEF Guard!ClaimFindings
<1> HIDE DEF F, bundles
<1>5. \A c \in p.claims :
        /\ Guard!Blockers("reference missing", c.references \ Guard!IdsOf(p.references)) \subseteq F
        /\ Guard!Blockers("unsupported", Guard!Unsupported(p, c)) \subseteq F
  BY <1>3, <1>4, Zenon
<1>6. AllSound(bundles)
  <2>1. BundleFindings(bundles, store) \subseteq F
    BY <1>3, SameBundles, Zenon
  <2> QED BY <1>1, <2>1, ClearMeansNone, Zenon
<1>7. ASSUME NEW c \in p.claims, c.references # {}, NEW id \in c.capabilities
      PROVE  \E r \in p.references :
               r.id \in c.references /\ Sound(r.bundle) /\ id \in r.capabilities
  <2>1. c.references \ Guard!IdsOf(p.references) = {} /\ Guard!Unsupported(p, c) = {}
    BY <1>2, <1>5, <1>7, Zenon
  <2>2. Guard!Cited(p, c) # {}
    BY <1>7, <2>1 DEF Guard!Cited, Guard!IdsOf
  <2>3. c.capabilities \ UNION {r.capabilities : r \in Guard!Cited(p, c)} = {}
    BY <2>1, <2>2 DEF Guard!Unsupported
  <2>4. PICK r \in Guard!Cited(p, c) : id \in r.capabilities
    BY <1>7, <2>3
  <2>5. r \in p.references /\ r.id \in c.references
    BY <2>4 DEF Guard!Cited
  <2>6. Sound(r.bundle)
    BY <1>6, <2>5 DEF AllSound, bundles
  <2> QED BY <2>4, <2>5, <2>6
<1> QED BY <1>7 DEF ClaimsAreCited

\* A sound bundle has no integrity errors: nothing keeps its kinds from being looked at.
LEMMA SoundHasNoErrors ==
  ASSUME NEW b, Sound(b)
  PROVE  IntegrityErrors(store[b]) = {}
<1> DEFINE bundle == store[b]
<1>1. MismatchedRecords(bundle) = {} /\ InvalidRecords(bundle) = {}
  BY DEF Sound, MismatchedRecords, InvalidRecords, IsUsable
<1>2. (IF bundle.bundle_hash # {} /\ ~HasValidBundleHash(bundle) THEN {0} ELSE {}) = {}
  BY DEF Sound
<1>3. \A kind : Findings(kind, {}) = {}
  BY DEF Findings
<1> QED BY <1>1, <1>2, <1>3, Zenon DEF IntegrityErrors

\* Every bundle of a satisfied mapping shows every kind that the objective asks for.
LEMMA CompleteMappingsHaveKinds ==
  ASSUME IsComplete("framework_crosswalks")
  PROVE  SatisfiedMappingsHaveKinds
<1> DEFINE x == held.framework_crosswalks
           F == Cross!CrosswalkFindings(x, store)
           resolved == {m \in x.mappings : Cross!ObjectiveOf(x, m) # {}}
           bundles == UNION {m.evidence : m \in x.mappings}
<1>1. IsClear(F)
  <2>1. LayerDecision(F) = "complete"
    BY SameDecision DEF IsComplete, FreshReport, Cross!CrosswalkReadiness, Cross!LayerReport
  <2> QED BY <2>1, ClearDecision
<1>2. \A kind, offending : Cross!Blockers(kind, offending) \subseteq F => offending = {}
  <2> TAKE kind, offending
  <2>1. Cross!Blockers(kind, offending) = Blockers(kind, offending)
    BY SameFindings
  <2> QED BY <1>1, <2>1, ClearMeansNone
<1>3. /\ Cross!Blockers("missing control", Cross!IdsOf(x.mappings \ resolved)) \subseteq F
      /\ Cross!BundleFindings(bundles, store) \subseteq F
      /\ Cross!KindFindings(x, store) \subseteq F
  BY Zenon DEF Cross!CrosswalkFindings, Cross!CoverageFindings, Cross!MappingFindings,
               Cross!EvidenceFindings
<1>4. \A m \in x.mappings : m.status = "satisfied" =>
        Cross!Blockers("missing kind", Cross!MissingKinds(x, m, store)) \subseteq F
  <2> SUFFICES ASSUME NEW m \in x.mappings, m.status = "satisfied"
               PROVE  Cross!Blockers("missing kind", Cross!MissingKinds(x, m, store)) \subseteq F
    OBVIOUS
  <2>1. Cross!Blockers("missing kind", Cross!MissingKinds(x, m, store))
          \subseteq Cross!KindFindings(x, store)
    BY DEF Cross!KindFindings
  <2> HIDE DEF F
  <2> QED BY <1>3, <2>1, Zenon
<1> HIDE DEF F, resolved, bundles
<1>5. Cross!IdsOf(x.mappings \ resolved) = {}
  BY <1>2, <1>3, Zenon
<1>6. AllSound(bundles)
  <2>1. BundleFindings(bundles, store) \subseteq F
    BY <1>3, SameBundles, Zenon
  <2> QED BY <1>1, <2>1, ClearMeansNone, Zenon
<1>7. ASSUME NEW m \in x.mappings, m.status = "satisfied"
      PROVE  \E o \in x.objectives :
               /\ o.id = m.control
               /\ \A b \in m.evidence, k \in o.evidence_kinds :
                    Sound(b) /\ \E i \in DOMAIN store[b].records : store[b].records[i].content.kind = k
  <2>1. m \in resolved
    BY <1>5 DEF Cross!IdsOf
  <2>2. PICK o \in Cross!ObjectiveOf(x, m) : TRUE
    BY <2>1 DEF resolved
  <2>3. o \in x.objectives /\ o.id = m.control
    BY <2>2 DEF Cross!ObjectiveOf
  <2>4. ASSUME NEW b \in m.evidence, NEW k \in o.evidence_kinds
        PROVE  Sound(b) /\ \E i \in DOMAIN store[b].records : store[b].records[i].content.kind = k
    <3>1. Sound(b)
      BY <1>6 DEF AllSound, bundles
    <3>2. b \in DOMAIN store /\ Cross!IntegrityErrors(store[b]) = {}
      BY <3>1, SoundHasNoErrors, SameIntegrity DEF Sound
    <3>3. k \in Cross!ExpectedKinds(x, m)
      BY <2>2 DEF Cross!ExpectedKinds
    <3>4. Cross!MissingKinds(x, m, store) = {}
      BY <1>2, <1>4, <1>7, Zenon
    <3>5. k \in Cross!Kinds(store[b])
      <4> SUFFICES ASSUME k \notin Cross!Kinds(store[b]) PROVE FALSE
        OBVIOUS
      <4>1. <<m.id, b, k>> \in
              {<<m.id, b, y>> : y \in Cross!ExpectedKinds(x, m) \ Cross!Kinds(store[b])}
        BY <3>3
      <4>2. <<m.id, b, k>> \in Cross!MissingKinds(x, m, store)
        BY <3>2, <4>1 DEF Cross!MissingKinds
      <4> QED BY <3>4, <4>2
    <3> QED BY <3>1, <3>5 DEF Cross!Kinds
  <2> QED BY <2>3, <2>4
<1> QED BY <1>7, Zenon DEF SatisfiedMappingsHaveKinds

\* Every core concern has a mapping to what the profile declares, on sound evidence.
LEMMA CompleteConcernsAreMapped ==
  ASSUME IsComplete("federal_evaluation_profile")
  PROVE  ConcernsAreMapped
<1> DEFINE p == held.federal_evaluation_profile
           F == Prof!ProfileFindings(p, store)
           blocked == Prof!BlockedMappings(p)
           concerns == {m.concern : m \in p.mappings}
<1>1. IsClear(F)
  <2>1. LayerDecision(F) = "complete"
    BY SameDecision DEF IsComplete, FreshReport, Prof!ProfileReadiness, Prof!LayerReport
  <2> QED BY <2>1, ClearDecision
<1>2. \A kind, offending : Prof!Blockers(kind, offending) \subseteq F => offending = {}
  <2> TAKE kind, offending
  <2>1. Prof!Blockers(kind, offending) = Blockers(kind, offending)
    BY SameFindings
  <2> QED BY <1>1, <2>1, ClearMeansNone
<1>3. /\ Prof!Blockers("missing concern", Prof!CoreConcerns \ concerns) \subseteq F
      /\ Prof!Blockers("mapping blocked", {m.id : m \in blocked}) \subseteq F
      /\ Prof!BundleFindings(p.bundles, store) \subseteq F
  BY Zenon DEF Prof!ProfileFindings, Prof!ConcernFindings, Prof!MappingFindings
<1> HIDE DEF F, blocked, concerns
<1>4. Prof!CoreConcerns \ concerns = {} /\ {m.id : m \in blocked} = {}
  BY <1>2, <1>3, Zenon
<1>5. AllSound(p.bundles)
  <2>1. BundleFindings(p.bundles, store) \subseteq F
    BY <1>3, SameBundles, Zenon
  <2> QED BY <1>1, <2>1, ClearMeansNone, Zenon
<1>6. ASSUME NEW concern \in Prof!CoreConcerns
      PROVE  \E m \in p.mappings : /\ m.concern = concern /\ m.capabilities \subseteq p.completed
                                   /\ m.expectation = "required" => AllSound(m.evidence)
  <2>1. PICK m \in p.mappings : m.concern = concern
    BY <1>4 DEF concerns
  <2>2. Prof!Missing(p, m) = {}
    BY <1>4, <2>1 DEF blocked, Prof!BlockedMappings
  <2>3. Prof!MissingCapabilities(p, m) = {} /\ Prof!MissingEvidence(p, m) = {}
    BY <2>2 DEF Prof!Missing
  <2>4. m.capabilities \subseteq p.completed
    BY <2>3 DEF Prof!MissingCapabilities
  <2>5. m.expectation = "required" => m.evidence \subseteq p.bundles
    BY <2>3 DEF Prof!MissingEvidence
  <2> QED BY <1>5, <2>1, <2>4, <2>5 DEF AllSound
<1> QED BY <1>6, Zenon DEF ConcernsAreMapped

\* When the six layers that are read from outside are complete, their records lead from
\* every requirement, hazard, claim, mapping and concern to sound evidence and to signed
\* artifacts, though each layer checks its own references only.
THEOREM PaperTrailsHold == Spec => []CompletePaperTrail
<1>1. PortfolioInv => CompletePaperTrail
  BY CompleteManifestIsSigned, CompleteExportIsRedacted, CompleteDossierIsSupported,
     CompleteClaimsAreCited, CompleteMappingsHaveKinds, CompleteConcernsAreMapped
     DEF CompletePaperTrail
<1> QED BY <1>1, PortfolioInvariant, PTL
==============================================================================
