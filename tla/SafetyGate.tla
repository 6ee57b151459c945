----------------------------- MODULE SafetyGate ------------------------------
(***************************************************************************)
(* RuntimeSafetyGate.evaluate (safety_gate.py): the decision and authority *)
(* state for one scenario of a catalog under one telemetry snapshot.       *)
(*                                                                         *)
(* A safety rule is a rule id, a condition, a decision and an authority    *)
(* state.  A stressor's trigger condition is a string of three words (key, *)
(* operator, literal) or of some other number of words.                    *)
(***************************************************************************)
EXTENDS ScenarioCatalog, Telemetry

RulesHaveDistinctIds(rules) ==
  \A r, q \in rules : r.rule_id = q.rule_id => r = q

TriggerComparisons == {"<", "<=", ">", ">="}

TriggerRaises(trigger, telemetry) ==
  /\ trigger.three_words
  /\ trigger.operator \in TriggerComparisons
  /\ Has(telemetry, trigger.key)
  /\ ~(IsNumber(Get(telemetry, trigger.key)) /\ IsNumber(trigger.literal))

\* _stressor_trigger_matches: an absent key is looked at before the operator is.
TriggerMatches(trigger, telemetry) ==
  \/ ~trigger.three_words
  \/ LET observed == Get(telemetry, trigger.key)
     IN  /\ Has(telemetry, trigger.key)
         /\ CASE trigger.operator = "<"  -> observed.v < trigger.literal.v
              [] trigger.operator = "<=" -> observed.v <= trigger.literal.v
              [] trigger.operator = ">"  -> observed.v > trigger.literal.v
              [] trigger.operator = ">=" -> observed.v >= trigger.literal.v
              [] trigger.operator \in {"==", "="} -> Equal(observed, trigger.literal)
              [] trigger.operator = "!=" -> ~Equal(observed, trigger.literal)
              [] OTHER -> TRUE

ActiveSevereStressors(catalog, scenario, telemetry) ==
  {x \in SevereStressors(catalog, scenario) : TriggerMatches(x.trigger, telemetry)}

\* The gate's own lookups; the runner's catalog validation makes them succeed.
GateReferencesResolve(catalog, scenarioId) ==
  /\ scenarioId \in Ids(catalog.scenarios)
  /\ LET scenario == Lookup(catalog.scenarios, scenarioId)
     IN  /\ scenario.behavior \in Ids(catalog.behaviors)
         /\ scenario.stressors \subseteq Ids(catalog.stressors)

GateRaises(rules, catalog, scenarioId, telemetry) ==
  \/ ~GateReferencesResolve(catalog, scenarioId)
  \/ \E x \in SevereStressors(catalog, Lookup(catalog.scenarios, scenarioId)) :
       TriggerRaises(x.trigger, telemetry)
  \/ \E r \in rules : ConditionRaises(r.condition, telemetry)

ExpectedBehavior(catalog, scenarioId) ==
  Lookup(catalog.behaviors, Lookup(catalog.scenarios, scenarioId).behavior)

TriggeredRules(rules, telemetry) ==
  {r \in rules : ConditionMatches(r.condition, telemetry)}

\* The expected behavior, when an active severe stressor calls for it.
Demanded(catalog, scenarioId, telemetry) ==
  LET scenario == Lookup(catalog.scenarios, scenarioId)
      expected == ExpectedBehavior(catalog, scenarioId)
  IN  IF /\ ActiveSevereStressors(catalog, scenario, telemetry) # {}
         /\ RestrictsAutonomy(expected)
      THEN {expected}
      ELSE {}

\* Faulty: an active severe stressor does not raise the decision.
GateDecisionByRules(rules, catalog, scenarioId, telemetry) ==
  MostRestrictiveDecision({r.decision : r \in TriggeredRules(rules, telemetry)})

GateDecision(rules, catalog, scenarioId, telemetry) ==
  MostRestrictiveDecision(
    {b.required_decision : b \in Demanded(catalog, scenarioId, telemetry)} \cup
    {r.decision : r \in TriggeredRules(rules, telemetry)})

GateAuthority(rules, catalog, scenarioId, telemetry) ==
  MostRestrictiveAuthority(
    {b.required_authority_state : b \in Demanded(catalog, scenarioId, telemetry)} \cup
    {r.authority_state : r \in TriggeredRules(rules, telemetry)})

\* Faulty: only the decision calls for operator review.
GateResultByDecision(rules, catalog, scenarioId, telemetry) ==
  LET decision  == GateDecision(rules, catalog, scenarioId, telemetry)
      authority == GateAuthority(rules, catalog, scenarioId, telemetry)
      review    == IsRestrictive(decision)
  IN  [scenario_id              |-> scenarioId,
       decision                 |-> decision,
       authority_state          |-> authority,
       operator_review_required |-> review,
       degraded_mode            |-> review \/ TriggeredRules(rules, telemetry) # {}]

\* evaluate, when it does not raise.
GateResult(rules, catalog, scenarioId, telemetry) ==
  LET decision  == GateDecision(rules, catalog, scenarioId, telemetry)
      authority == GateAuthority(rules, catalog, scenarioId, telemetry)
      review    == IsRestrictive(decision) \/ ~PermitsAutonomousExecution(authority)
  IN  [scenario_id              |-> scenarioId,
       decision                 |-> decision,
       authority_state          |-> authority,
       operator_review_required |-> review,
       degraded_mode            |-> review \/ TriggeredRules(rules, telemetry) # {}]
==============================================================================
