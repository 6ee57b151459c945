------------------------------ MODULE Readiness ------------------------------
(***************************************************************************)
(* What every capability layer has in common, and the gate they meet in:   *)
(* findings with a severity and the decision drawn from them (the          *)
(* *_readiness.py modules), the integrity of the evidence bundles that     *)
(* records name, the maturity model (prototype_target.py), the claim gate  *)
(* (prototype_readiness.py) and the rollup (prototype_rollup.py).          *)
(*                                                                         *)
(* A finding is its severity, its kind and the record it is about; ids are *)
(* written with _ where the code has -, and messages are left out.         *)
(***************************************************************************)
EXTENDS Evidence, FiniteSets, FiniteSetsExt, SequencesExt

Finding(severity, kind, on) == [severity |-> severity, kind |-> kind, on |-> on]

\* One finding for each offending record; informative ones decide nothing and are left out.
Blockers(kind, offending) == {Finding("blocker", kind, x) : x \in offending}
Warnings(kind, offending) == {Finding("warning", kind, x) : x \in offending}

\* The offending record of a condition on the whole.
Whenever(condition) == IF condition THEN {"layer"} ELSE {}

AnyBlocker(findings) == \E f \in findings : f.severity = "blocker"
AnyWarning(findings) == \E f \in findings : f.severity = "warning"

LayerDecision(findings) ==
  IF AnyBlocker(findings) THEN "blocked"
  ELSE IF AnyWarning(findings) THEN "limited" ELSE "complete"

LayerRank(decision) ==
  CASE decision = "blocked" -> 0 [] decision = "limited" -> 1 [] decision = "complete" -> 2

\* Faulty: a bundle whose hash does not match is taken for an unhashed one.
LenientBundleFindings(ids, store) ==
  Blockers("evidence missing", ids \ DOMAIN store) \cup
  Warnings("evidence integrity",
           {b \in ids \cap DOMAIN store :
              IntegrityErrors(store[b]) \cup IntegrityWarnings(store[b]) # {}})

\* The bundles a record names, looked up among the bundles at hand.
BundleFindings(ids, store) ==
  LET held == ids \cap DOMAIN store
  IN  Blockers("evidence missing", ids \ DOMAIN store) \cup
      Blockers("evidence integrity", {b \in held : IntegrityErrors(store[b]) # {}}) \cup
      Warnings("evidence warning", {b \in held : IntegrityWarnings(store[b]) # {}})

------------------------------------------------------------------------------
(* prototype_target.py *)

PercentOf ==
  [registry_layer |-> 4, policy_pack_engine |-> 4, framework_crosswalks |-> 4,
   signed_provenance |-> 4, telemetry_adapters |-> 5, scenario_campaign_runner |-> 5,
   monitoring_incidents |-> 5, review_workflow |-> 5, audit_report_export |-> 4,
   assurance_dossier |-> 8, claim_guardrails |-> 6, federal_evaluation_profile |-> 6]

Capabilities == DOMAIN PercentOf

RequiredCapabilities ==
  Capabilities \ {"assurance_dossier", "claim_guardrails", "federal_evaluation_profile"}

BaselinePercent == 40
TargetPercent == 80
MaximumPercent == 100

AchievedPercent(completed) ==
  Min({MaximumPercent,
       BaselinePercent + MapThenSumSet(LAMBDA c : PercentOf[c], completed \cap Capabilities)})

\* Lists of ids and of reports are families over any index: what counts is which members
\* there are and which of them are there twice, never their order.
Repeated(ids) ==
  {ids[i] : i \in {j \in DOMAIN ids : \E k \in DOMAIN ids \ {j} : ids[k] = ids[j]}}

------------------------------------------------------------------------------
(* prototype_readiness.py: completed is a family, for repeated ids count.   *)

ClaimLevels ==
  <<"local_reference_runtime", "serious_open_source_prototype",
    "federal_aligned_prototype", "operational_deployment_ready", "certified_or_authorized">>

ClaimRank(level) == CHOOSE i \in DOMAIN ClaimLevels : ClaimLevels[i] = level
RequiresSeriousTarget(level) == ClaimRank(level) >= 2
CannotBeSelfAttested(level) ==
  level \in {"operational_deployment_ready", "certified_or_authorized"}

\* Faulty: enough percent is enough, whichever capabilities they come from.
GateFindingsByPercent(completed, level) ==
  Warnings("unexpected", ToSet(completed) \ Capabilities) \cup
  Warnings("duplicate", Repeated(completed)) \cup
  Blockers("external authorization required", Whenever(CannotBeSelfAttested(level)))

GateFindings(completed, level) ==
  LET missing == RequiredCapabilities \ ToSet(completed)
  IN  Blockers("missing", IF RequiresSeriousTarget(level) THEN missing ELSE {}) \cup
      Warnings("target not yet complete",
               Whenever(~RequiresSeriousTarget(level) /\ missing # {})) \cup
      Warnings("unexpected", ToSet(completed) \ Capabilities) \cup
      Warnings("duplicate", Repeated(completed)) \cup
      Blockers("external authorization required", Whenever(CannotBeSelfAttested(level))) \cup
      Warnings("alignment, not endorsement", Whenever(level = "federal_aligned_prototype"))

ClaimDecision(completed, level) ==
  LET findings == GateFindings(completed, level)
  IN  IF \/ AnyBlocker(findings)
         \/ RequiresSeriousTarget(level) /\ AchievedPercent(ToSet(completed)) < TargetPercent
      THEN "block"
      ELSE IF level = "federal_aligned_prototype" \/ AnyWarning(findings) THEN "limit"
      ELSE "allow"

PermitsClaim(completed, level) == ClaimDecision(completed, level) \in {"allow", "limit"}

------------------------------------------------------------------------------
(* A layer's readiness report, and prototype_rollup.py over a family of them.   *)

LayerReport(capability, decision, findings) ==
  [capability |-> capability, decision |-> decision,
   warned |-> AnyWarning(findings)]

\* A complete report completes its own capability, any other none.
CompletedIds(reports) ==
  [i \in {i \in DOMAIN reports : reports[i].decision = "complete"} |-> reports[i].capability]

\* dict.fromkeys: each id once.
UniqueIds(ids) == [id \in ToSet(ids) |-> id]

RollupFindings(reports, expected) ==
  LET completed == CompletedIds(reports)
      layers    == [i \in DOMAIN reports |-> reports[i].capability]
      Named(S)  == {reports[i].capability : i \in S}
  IN  Blockers("no layer reports", Whenever(reports = << >>)) \cup
      Blockers("not complete", Named({i \in DOMAIN reports : reports[i].decision # "complete"})) \cup
      Warnings("layer warnings", Named({i \in DOMAIN reports : reports[i].warned})) \cup
      Blockers("duplicate layers", Whenever(Repeated(layers) # {})) \cup
      Blockers("duplicate completed", Repeated(completed)) \cup
      Warnings("unexpected completed", ToSet(completed) \ expected) \cup
      Blockers("target percent not met",
               Whenever(AchievedPercent(ToSet(completed)) < TargetPercent))

IsRollupClean(reports, expected) == ~AnyBlocker(RollupFindings(reports, expected))

RollupPermitsClaim(reports, level) == PermitsClaim(UniqueIds(CompletedIds(reports)), level)
==============================================================================
