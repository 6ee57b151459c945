-------------------------------- MODULE Runner --------------------------------
(***************************************************************************)
(* ScenarioRunner.run (runner.py) as a function of its inputs: validate    *)
(* the catalog, assess degradation from telemetry and prior evidence,      *)
(* evaluate the safety gate, keep the more restrictive of the two and      *)
(* compare with the expected behavior.                                     *)
(***************************************************************************)
EXTENDS SafetyGate, Degradation

CONSTANTS
  SafetyRules,       \* the gate's rules
  DegradationRules,  \* the engine's rules
  ConflictChecks

\* Neither the gate nor the engine can be constructed otherwise.
ASSUME RuleIdsAssumption ==
  /\ RulesHaveDistinctIds(SafetyRules)
  /\ EngineHasDistinctIds(DegradationRules, ConflictChecks)

ASSUME RuleShapesAssumption ==
  /\ \A r \in SafetyRules : /\ WellFormedCondition(r.condition)
                            /\ r.decision \in AutonomyDecisionType
                            /\ r.authority_state \in RuntimeAuthorityState
  /\ \A r \in DegradationRules : /\ WellFormedCondition(r.condition)
                                 /\ r.level \in DegradationLevel
  /\ \A k \in ConflictChecks : k.level \in DegradationLevel

------------------------------------------------------------------------------
\* Faulty: one of the two is enough.
SatisfiesEither(decision, authority, expected) ==
  \/ DecisionRank(decision) >= DecisionRank(expected.required_decision)
  \/ AuthorityRank(authority) >= AuthorityRank(expected.required_authority_state)

SatisfiesExpectedBehavior(decision, authority, expected) ==
  /\ DecisionRank(decision) >= DecisionRank(expected.required_decision)
  /\ AuthorityRank(authority) >= AuthorityRank(expected.required_authority_state)

\* Faulty: a status of another enumeration.
EvidenceStatusOf(satisfied) == IF satisfied THEN "accepted" ELSE "fail"

VerificationOf(satisfied) == IF satisfied THEN "pass" ELSE "fail"

SignalsOf(in) == Signals(DegradationRules, ConflictChecks, in.telemetry, in.prior)

GateOf(in) == GateResult(SafetyRules, in.catalog, in.scenario_id, in.telemetry)

\* The first step of run that raises, in the order of the code.
Failure(in) ==
  IF ~IsValidCatalog(in.catalog) THEN "invalid catalog"
  ELSE IF in.scenario_id \notin Ids(in.catalog.scenarios) THEN "unknown scenario"
  ELSE IF AssessRaises(DegradationRules, ConflictChecks, in.telemetry, in.prior)
       THEN "assessment"
  ELSE IF ~GateReferencesResolve(in.catalog, in.scenario_id) THEN "gate reference"
  ELSE IF GateRaises(SafetyRules, in.catalog, in.scenario_id, in.telemetry) THEN "gate"
  ELSE "none"

\* What run returns when nothing raises.
RunResult(in) ==
  LET gate      == GateOf(in)
      signals   == SignalsOf(in)
      expected  == ExpectedBehavior(in.catalog, in.scenario_id)
      decision  == MoreRestrictiveDecision(gate.decision, RecommendedDecision(signals))
      authority == MoreRestrictiveAuthority(gate.authority_state, RecommendedAuthority(signals))
      satisfied == SatisfiesExpectedBehavior(decision, authority, expected)
  IN  [run_id                      |-> in.run_id,
       final_decision              |-> decision,
       final_authority_state       |-> authority,
       verification_result         |-> VerificationOf(satisfied),
       expected_behavior_satisfied |-> satisfied,
       operator_review_required    |->
         \/ gate.operator_review_required
         \/ AnyDegraded(signals)
         \/ ~PermitsAutonomousExecution(authority)
         \/ IsRestrictive(decision),
       degraded_mode               |-> gate.degraded_mode \/ AnyDegraded(signals),
       gate                        |-> gate,
       levels                      |-> {s.level : s \in signals}]

\* Faulty: the bundle is returned without its hashes.
UnhashedRunBundle(in, result) ==
  [bundle_id   |-> <<"BND", in.run_id>>,
   scope       |-> in.scenario_id,
   records     |-> <<[evidence_id  |-> <<"EV-RUN", in.run_id>>,
                      content      |-> result,
                      status       |-> "accepted",
                      content_hash |-> {}]>>,
   bundle_hash |-> {}]

\* The bundle id and the record id are made from the run id alone.
RunBundle(in, result) ==
  BundleWithComputedHashes(
    [bundle_id   |-> <<"BND", in.run_id>>,
     scope       |-> in.scenario_id,
     records     |-> <<[evidence_id  |-> <<"EV-RUN", in.run_id>>,
                        content      |-> result,
                        status       |-> "accepted",
                        content_hash |-> {}]>>,
     bundle_hash |-> {}])

NoResult == "no result"

Inputs(catalog, scenarioId, telemetry, prior, runId) ==
  [catalog |-> catalog, scenario_id |-> scenarioId, telemetry |-> telemetry,
   prior |-> prior, run_id |-> runId]

Nominal(result) ==
  PermitsNominalExecution(result.final_decision, result.final_authority_state)

ScenarioOf(in) == Lookup(in.catalog.scenarios, in.scenario_id)
==============================================================================
