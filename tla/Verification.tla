----------------------------- MODULE Verification -----------------------------
(***************************************************************************)
(* VerificationEngine.verify_run (verification.py) as a function of the    *)
(* assurance case, the catalog, a run's result with its evidence bundle    *)
(* and an optional traceability graph.                                     *)
(*                                                                         *)
(* A check is a check id, a tuple of its name and the criterion it is      *)
(* about, if any, and a result.  A finished run is the ids it was made     *)
(* for, its result and its bundle.                                         *)
(***************************************************************************)
EXTENDS Runner, Traceability

Check(id, result) == [check_id |-> id, result |-> result]

\* Faulty: warnings pass.
VerdictOnErrors(errors, warnings) == IF errors # {} THEN "fail" ELSE "pass"

\* Errors fail a check, warnings leave it inconclusive.
Verdict(errors, warnings) ==
  IF errors # {} THEN "fail" ELSE IF warnings # {} THEN "inconclusive" ELSE "pass"

\* Faulty: a status of another enumeration.
AcceptedOrFail(satisfied) == IF satisfied THEN "accepted" ELSE "fail"

PassOrFail(satisfied) == IF satisfied THEN "pass" ELSE "fail"

CaseChecks(case) ==
  {Check(<<"assurance-case-valid">>, Verdict(CaseErrors(case), {})),
   Check(<<"assurance-case-warnings">>, Verdict({}, CaseWarnings(case))),
   Check(<<"severe-hazards-resolved">>, Verdict(UnresolvedHazards(case), {}))}

CatalogChecks(catalog) ==
  {Check(<<"scenario-catalog-valid">>, Verdict(CatalogErrors(catalog), {})),
   Check(<<"scenario-catalog-warnings">>, Verdict({}, CatalogWarnings(catalog)))}

\* accepts_result compares with the result that the criterion requires, so a
\* criterion may ask for a failed run.
CriterionChecks(catalog, scenario, run) ==
  {IF id \in Ids(catalog.criteria)
   THEN Check(<<"acceptance-criterion", id>>,
              PassOrFail(run.result.verification_result =
                           Lookup(catalog.criteria, id).required_result))
   ELSE Check(<<"acceptance-criterion-present", id>>, "fail")
     : id \in scenario.criteria}

RequiresEvidence(catalog, scenario) ==
  \E k \in catalog.criteria : k.id \in scenario.criteria /\ k.requires_evidence

EvidenceChecks(catalog, scenario, run) ==
  LET required == RequiresEvidence(catalog, scenario)
  IN  {Check(<<"required-evidence-present">>,
             IF required /\ run.bundle.records = << >> THEN "fail"
             ELSE IF required /\ UnhashedRecords(run.bundle) # {} THEN "inconclusive"
             ELSE "pass")}

HazardChecks(case, scenario) ==
  {Check(<<"scenario-hazard-coverage">>,
         PassOrFail(/\ scenario.hazards \subseteq Ids(case.hazards)
                    /\ scenario.hazards \cap UnresolvedHazards(case) = {}))}

\* A scenario that the catalog lacks is one failed check in place of three.
ScenarioChecks(case, catalog, run) ==
  IF run.scenario_id \notin Ids(catalog.scenarios)
  THEN {Check(<<"scenario-present">>, "fail")}
  ELSE LET scenario == Lookup(catalog.scenarios, run.scenario_id)
       IN  UNION {CriterionChecks(catalog, scenario, run),
                  EvidenceChecks(catalog, scenario, run),
                  HazardChecks(case, scenario)}

\* Faulty: the authority state is not looked at in any way.
BehaviorChecks(run) ==
  {Check(<<"expected-safe-behavior">>, PassOrFail(run.result.expected_behavior_satisfied))}

\* The run's own flags are believed as they are.
RunChecks(run) ==
  {Check(<<"expected-safe-behavior">>, PassOrFail(run.result.expected_behavior_satisfied)),
   Check(<<"operator-review-consistency">>,
         IF run.result.operator_review_required /\ run.result.final_decision = "allow"
         THEN "inconclusive" ELSE "pass")}

BundleChecks(run) ==
  {Check(<<"evidence-bundle-integrity">>,
         Verdict(IntegrityErrors(run.bundle), IntegrityWarnings(run.bundle)))}

ConnectedClaims(case, graph, run) ==
  {id \in Ids(case.claims) : HasConnectedPath(graph, run.scenario_id, id)}

\* A graph is the empty set or a singleton.
TraceChecks(required, case, graph, run) ==
  IF graph = {}
  THEN {Check(<<"traceability-graph-present">>, IF required THEN "fail" ELSE "inconclusive")}
  ELSE UNION {
    {Check(<<"traceability-graph-valid">>, Verdict(GraphErrors(g), GraphWarnings(g))),
     Check(<<"scenario-to-claim-trace">>,
           IF ConnectedClaims(case, g, run) = {} THEN "inconclusive" ELSE "pass")}
      : g \in graph}

RunVerificationChecks(required, case, catalog, run, graph) ==
  UNION {CaseChecks(case), CatalogChecks(catalog), ScenarioChecks(case, catalog, run),
         RunChecks(run), BundleChecks(run), TraceChecks(required, case, graph, run)}

\* Faulty: a failed check does not outweigh the others.
OverallByMajority(checks) ==
  IF Cardinality({c \in checks : c.result = "pass"}) > Cardinality(checks) \div 2
  THEN "pass" ELSE "fail"

OverallResult(checks) ==
  IF \E c \in checks : c.result = "fail" THEN "fail"
  ELSE IF \E c \in checks : c.result \in {"inconclusive", "not_run"} THEN "inconclusive"
  ELSE "pass"

\* The ids are taken from the run alone.
VerifyRun(required, case, catalog, run, graph) ==
  LET checks == RunVerificationChecks(required, case, catalog, run, graph)
  IN  [run_id |-> run.run_id, case_id |-> run.case_id, scenario_id |-> run.scenario_id,
       overall_result |-> OverallResult(checks), checks |-> checks]

Accepted(summary) == summary.overall_result = "pass"
==============================================================================
