---------------------------- MODULE RunnerProofs -----------------------------
(***************************************************************************)
(* What one scenario run guarantees, for any catalog, telemetry, rules and *)
(* prior evidence, and the facts about ranks, restrictive maxima and       *)
(* evidence bundles that this rests on.                                    *)
(***************************************************************************)
EXTENDS Runner, TLAPS

------------------------------------------------------------------------------
(* Ranks and restrictive maxima.                                           *)

\* Every decision has a rank from 1 to 5, and no two have the same: the rank tables
\* of the code order the decisions totally.
LEMMA DecisionRanks ==
  /\ \A d \in AutonomyDecisionType : DecisionRank(d) \in 1..5
  /\ \A d, e \in AutonomyDecisionType : DecisionRank(d) = DecisionRank(e) => d = e
<1>1. /\ DecisionRank("allow") = 1
      /\ DecisionRank("clamp") = 2
      /\ DecisionRank("defer") = 3
      /\ DecisionRank("veto") = 4
      /\ DecisionRank("safe_hold") = 5
  BY DEF DecisionRank
<1>2. ASSUME NEW d \in AutonomyDecisionType, NEW e \in AutonomyDecisionType, DecisionRank(d) = DecisionRank(e)
      PROVE  d = e
  BY <1>1, <1>2 DEF AutonomyDecisionType
<1>3. \A d \in AutonomyDecisionType : DecisionRank(d) \in 1..5
  BY <1>1 DEF AutonomyDecisionType
<1> QED BY <1>2, <1>3

\* The same for authority states.
LEMMA AuthorityRanks ==
  /\ \A a \in RuntimeAuthorityState : AuthorityRank(a) \in 1..5
  /\ \A a, b \in RuntimeAuthorityState : AuthorityRank(a) = AuthorityRank(b) => a = b
<1>1. /\ AuthorityRank("autonomous_allowed") = 1
      /\ AuthorityRank("human_approval_required") = 2
      /\ AuthorityRank("human_override_active") = 3
      /\ AuthorityRank("denied") = 4
      /\ AuthorityRank("emergency_safe_hold") = 5
  BY DEF AuthorityRank
<1>2. ASSUME NEW a \in RuntimeAuthorityState, NEW b \in RuntimeAuthorityState, AuthorityRank(a) = AuthorityRank(b)
      PROVE  a = b
  BY <1>1, <1>2 DEF RuntimeAuthorityState
<1>3. \A a \in RuntimeAuthorityState : AuthorityRank(a) \in 1..5
  BY <1>1 DEF RuntimeAuthorityState
<1> QED BY <1>2, <1>3

\* The most restrictive of some decisions is one of them, or allow, and none of
\* them is more restrictive.
LEMMA MostRestrictiveDecisionIsMaximum ==
  ASSUME NEW D \in SUBSET AutonomyDecisionType
  PROVE  /\ MostRestrictiveDecision(D) \in D \cup {"allow"}
         /\ MostRestrictiveDecision(D) \in AutonomyDecisionType
         /\ \A d \in D : DecisionRank(d) <= DecisionRank(MostRestrictiveDecision(D))
<1> DEFINE all == D \cup {"allow"}
           top(d) == d \in all /\ \A e \in all : DecisionRank(e) <= DecisionRank(d)
<1>1. \E d \in all : \A e \in all : DecisionRank(e) <= DecisionRank(d)
  <2>1. CASE "safe_hold" \in D
    BY <2>1 DEF AutonomyDecisionType, DecisionRank
  <2>2. CASE "safe_hold" \notin D /\ "veto" \in D
    BY <2>2 DEF AutonomyDecisionType, DecisionRank
  <2>3. CASE "safe_hold" \notin D /\ "veto" \notin D /\ "defer" \in D
    BY <2>3 DEF AutonomyDecisionType, DecisionRank
  <2>4. CASE "safe_hold" \notin D /\ "veto" \notin D /\ "defer" \notin D /\ "clamp" \in D
    BY <2>4 DEF AutonomyDecisionType, DecisionRank
  <2>5. CASE "safe_hold" \notin D /\ "veto" \notin D /\ "defer" \notin D /\ "clamp" \notin D
    BY <2>5 DEF AutonomyDecisionType, DecisionRank
  <2> QED BY <2>1, <2>2, <2>3, <2>4, <2>5
<1>2. MostRestrictiveDecision(D) = CHOOSE d \in all : \A e \in all : DecisionRank(e) <= DecisionRank(d)
  BY DEF MostRestrictiveDecision
<1>3. top(MostRestrictiveDecision(D))
  BY <1>1, <1>2
<1> QED BY <1>3 DEF AutonomyDecisionType

\* The same for authority states.
LEMMA MostRestrictiveAuthorityIsMaximum ==
  ASSUME NEW A \in SUBSET RuntimeAuthorityState
  PROVE  /\ MostRestrictiveAuthority(A) \in A \cup {"autonomous_allowed"}
         /\ MostRestrictiveAuthority(A) \in RuntimeAuthorityState
         /\ \A a \in A : AuthorityRank(a) <= AuthorityRank(MostRestrictiveAuthority(A))
<1> DEFINE all == A \cup {"autonomous_allowed"}
           top(a) == a \in all /\ \A b \in all : AuthorityRank(b) <= AuthorityRank(a)
<1>1. \E a \in all : \A b \in all : AuthorityRank(b) <= AuthorityRank(a)
  <2> DEFINE held       == "emergency_safe_hold" \in A
             denied     == "denied" \in A
             overridden == "human_override_active" \in A
             awaiting   == "human_approval_required" \in A
  <2>1. CASE held
    BY <2>1 DEF RuntimeAuthorityState, AuthorityRank
  <2>2. CASE ~held /\ denied
    BY <2>2 DEF RuntimeAuthorityState, AuthorityRank
  <2>3. CASE ~held /\ ~denied /\ overridden
    BY <2>3 DEF RuntimeAuthorityState, AuthorityRank
  <2>4. CASE ~held /\ ~denied /\ ~overridden /\ awaiting
    BY <2>4 DEF RuntimeAuthorityState, AuthorityRank
  <2>5. CASE ~held /\ ~denied /\ ~overridden /\ ~awaiting
    BY <2>5 DEF RuntimeAuthorityState, AuthorityRank
  <2> QED BY <2>1, <2>2, <2>3, <2>4, <2>5
<1>2. MostRestrictiveAuthority(A) = CHOOSE a \in all : \A b \in all : AuthorityRank(b) <= AuthorityRank(a)
  BY DEF MostRestrictiveAuthority
<1>3. top(MostRestrictiveAuthority(A))
  BY <1>1, <1>2
<1> QED BY <1>3 DEF RuntimeAuthorityState

\* Keeping the more restrictive of two decisions loses neither of them.
LEMMA MoreRestrictiveDecisionIsMaximum ==
  ASSUME NEW d \in AutonomyDecisionType, NEW e \in AutonomyDecisionType
  PROVE  /\ MoreRestrictiveDecision(d, e) \in AutonomyDecisionType
         /\ MoreRestrictiveDecision(d, e) \in {d, e}
         /\ DecisionRank(d) <= DecisionRank(MoreRestrictiveDecision(d, e))
         /\ DecisionRank(e) <= DecisionRank(MoreRestrictiveDecision(d, e))
  BY DecisionRanks DEF MoreRestrictiveDecision

\* The same for authority states.
LEMMA MoreRestrictiveAuthorityIsMaximum ==
  ASSUME NEW a \in RuntimeAuthorityState, NEW b \in RuntimeAuthorityState
  PROVE  /\ MoreRestrictiveAuthority(a, b) \in RuntimeAuthorityState
         /\ MoreRestrictiveAuthority(a, b) \in {a, b}
         /\ AuthorityRank(a) <= AuthorityRank(MoreRestrictiveAuthority(a, b))
         /\ AuthorityRank(b) <= AuthorityRank(MoreRestrictiveAuthority(a, b))
  BY AuthorityRanks DEF MoreRestrictiveAuthority

------------------------------------------------------------------------------
(* Levels and signals.                                                     *)

\* An outcome of the enumerations' types is nominal when both of its ranks are one.
LEMMA NominalRanks ==
  ASSUME NEW d \in AutonomyDecisionType, NEW a \in RuntimeAuthorityState
  PROVE  /\ PermitsNominalExecution(d, a) <=> DecisionRank(d) = 1 /\ AuthorityRank(a) = 1
         /\ IsRestrictive(d) <=> DecisionRank(d) # 1
         /\ PermitsAutonomousExecution(a) <=> AuthorityRank(a) = 1
         /\ BlocksAutonomousExecution(a) => AuthorityRank(a) # 1
<1>1. DecisionRank("allow") = 1 /\ AuthorityRank("autonomous_allowed") = 1
  BY DEF DecisionRank, AuthorityRank
<1>2. d = "allow" <=> DecisionRank(d) = 1
  BY <1>1, DecisionRanks DEF AutonomyDecisionType
<1>3. a = "autonomous_allowed" <=> AuthorityRank(a) = 1
  BY <1>1, AuthorityRanks DEF RuntimeAuthorityState
<1>4. IsRestrictive(d) <=> d # "allow"
  BY DEF IsRestrictive, AutonomyDecisionType
<1>5. BlocksAutonomousExecution(a) => a # "autonomous_allowed"
  BY DEF BlocksAutonomousExecution
<1> QED BY <1>2, <1>3, <1>4, <1>5 DEF PermitsNominalExecution, PermitsAutonomousExecution

\* Every level recommends an outcome of the enumerations; one that is not degraded
\* recommends the permissive one.
LEMMA LevelFacts ==
  ASSUME NEW level \in DegradationLevel
  PROVE  /\ LevelDecision(level) \in AutonomyDecisionType
         /\ LevelAuthority(level) \in RuntimeAuthorityState
         /\ IsDegraded(level) => /\ LevelDecision(level) # "allow"
                                 /\ LevelAuthority(level) # "autonomous_allowed"
         /\ ~IsDegraded(level) => /\ LevelDecision(level) = "allow"
                                  /\ LevelAuthority(level) = "autonomous_allowed"
<1>1. /\ LevelDecision("nominal") = "allow" /\ LevelDecision("watch") = "allow"
      /\ LevelDecision("degraded") = "defer" /\ LevelDecision("severe") = "veto"
      /\ LevelDecision("critical") = "safe_hold"
  BY DEF LevelDecision
<1>2. /\ LevelAuthority("nominal") = "autonomous_allowed"
      /\ LevelAuthority("watch") = "autonomous_allowed"
      /\ LevelAuthority("degraded") = "human_approval_required"
      /\ LevelAuthority("severe") = "denied"
      /\ LevelAuthority("critical") = "emergency_safe_hold"
  BY DEF LevelAuthority
<1>3. /\ LevelRank("nominal") = 0 /\ LevelRank("watch") = 1 /\ LevelRank("degraded") = 2
      /\ LevelRank("severe") = 3 /\ LevelRank("critical") = 4
  BY DEF LevelRank
<1>4. \/ level = "nominal" \/ level = "watch" \/ level = "degraded"
      \/ level = "severe" \/ level = "critical"
  BY DEF DegradationLevel
<1> QED
  BY <1>1, <1>2, <1>3, <1>4 DEF IsDegraded, AutonomyDecisionType, RuntimeAuthorityState

\* The outcome a set of signals recommends: at least as restrictive as what each of
\* them asks for, permissive when none of them is degraded, and restrictive otherwise.
LEMMA RecommendationFacts ==
  ASSUME NEW S, \A s \in S : s.level \in DegradationLevel
  PROVE  /\ RecommendedDecision(S) \in AutonomyDecisionType
         /\ RecommendedAuthority(S) \in RuntimeAuthorityState
         /\ \A s \in S :
              /\ DecisionRank(LevelDecision(s.level)) <= DecisionRank(RecommendedDecision(S))
              /\ AuthorityRank(LevelAuthority(s.level)) <= AuthorityRank(RecommendedAuthority(S))
         /\ ~AnyDegraded(S) => /\ RecommendedDecision(S) = "allow"
                               /\ RecommendedAuthority(S) = "autonomous_allowed"
         /\ RecommendedDecision(S) = "allow" => ~AnyDegraded(S)
<1> DEFINE D == {LevelDecision(s.level) : s \in S}
           A == {LevelAuthority(s.level) : s \in S}
<1>1. D \in SUBSET AutonomyDecisionType /\ A \in SUBSET RuntimeAuthorityState
  BY LevelFacts
<1>2. /\ RecommendedDecision(S) \in D \cup {"allow"}
      /\ RecommendedDecision(S) \in AutonomyDecisionType
      /\ \A d \in D : DecisionRank(d) <= DecisionRank(RecommendedDecision(S))
  BY <1>1, MostRestrictiveDecisionIsMaximum DEF RecommendedDecision
<1>3. /\ RecommendedAuthority(S) \in A \cup {"autonomous_allowed"}
      /\ RecommendedAuthority(S) \in RuntimeAuthorityState
      /\ \A a \in A : AuthorityRank(a) <= AuthorityRank(RecommendedAuthority(S))
  BY <1>1, MostRestrictiveAuthorityIsMaximum DEF RecommendedAuthority
<1>4. ~AnyDegraded(S) => /\ RecommendedDecision(S) = "allow"
                         /\ RecommendedAuthority(S) = "autonomous_allowed"
  BY <1>2, <1>3, LevelFacts DEF AnyDegraded
<1>5. ASSUME NEW s \in S, IsDegraded(s.level) PROVE RecommendedDecision(S) # "allow"
  <2>1. LevelDecision(s.level) \in AutonomyDecisionType /\ LevelDecision(s.level) # "allow"
    BY <1>5, LevelFacts
  <2>2. DecisionRank(LevelDecision(s.level)) <= DecisionRank(RecommendedDecision(S))
    BY <1>2
  <2>3. "allow" \in AutonomyDecisionType /\ DecisionRank("allow") = 1
    BY DEF AutonomyDecisionType, DecisionRank
  <2> QED BY <2>1, <2>2, <2>3, DecisionRanks
<1> QED BY <1>2, <1>3, <1>4, <1>5 DEF AnyDegraded

\* Every signal of a run has a level.
LEMMA SignalLevels ==
  ASSUME NEW in
  PROVE  \A s \in SignalsOf(in) : s.level \in DegradationLevel
<1>1. \A s \in RuleSignals(DegradationRules, in.telemetry) : s.level \in DegradationLevel
  BY RuleShapesAssumption DEF RuleSignals
<1>2. \A s \in ConflictSignals(ConflictChecks, in.telemetry) : s.level \in DegradationLevel
  BY RuleShapesAssumption DEF ConflictSignals
<1>3. \A b \in in.prior : \A s \in BundleSignals(b) : s.level \in DegradationLevel
  <2> SUFFICES ASSUME NEW b, NEW s \in BundleSignals(b)
               PROVE  s.level \in DegradationLevel
    OBVIOUS
  <2> DEFINE signal(id, level) == [id |-> id, level |-> level]
  <2>1. \/ \E id : s = signal(id, "critical")
        \/ \E id : s = signal(id, "watch")
        \/ \E id : s = signal(id, "degraded")
    BY DEF BundleSignals
  <2> QED BY <2>1 DEF DegradationLevel
<1> QED BY <1>1, <1>2, <1>3 DEF SignalsOf, Signals

------------------------------------------------------------------------------
(* One run.                                                                *)

\* A run that raises nothing had a valid catalog whose lookups succeed, and an
\* expected behavior with a decision and an authority state.
LEMMA CompletedRun ==
  ASSUME NEW in, HasCatalogShape(in.catalog), Failure(in) = "none"
  PROVE  LET expected == ExpectedBehavior(in.catalog, in.scenario_id) IN
         /\ IsValidCatalog(in.catalog)
         /\ ScenarioOf(in) \in in.catalog.scenarios
         /\ ScenarioOf(in).behavior \in Ids(in.catalog.behaviors)
         /\ expected \in in.catalog.behaviors
         /\ expected.required_decision \in AutonomyDecisionType
         /\ expected.required_authority_state \in RuntimeAuthorityState
<1>1. /\ IsValidCatalog(in.catalog)
      /\ in.scenario_id \in Ids(in.catalog.scenarios)
      /\ GateReferencesResolve(in.catalog, in.scenario_id)
  BY DEF Failure
<1>2. \A items, id : id \in Ids(items) => Lookup(items, id) \in items
  BY DEF Ids, Lookup
<1>3. ScenarioOf(in) \in in.catalog.scenarios
  BY <1>1, <1>2 DEF ScenarioOf
<1>4. ScenarioOf(in).behavior \in Ids(in.catalog.behaviors)
  BY <1>1 DEF GateReferencesResolve, ScenarioOf
<1>5. ExpectedBehavior(in.catalog, in.scenario_id) \in in.catalog.behaviors
  BY <1>2, <1>4 DEF ExpectedBehavior, ScenarioOf
<1> QED BY <1>1, <1>3, <1>4, <1>5 DEF HasCatalogShape

\* The gate's outcome is at least what an active severe stressor demands, and its
\* flags follow from the outcome.
LEMMA GateFacts ==
  ASSUME NEW in, HasCatalogShape(in.catalog), Failure(in) = "none"
  PROVE  LET gate == GateOf(in) IN
         /\ gate.decision \in AutonomyDecisionType
         /\ gate.authority_state \in RuntimeAuthorityState
         /\ \A b \in Demanded(in.catalog, in.scenario_id, in.telemetry) :
              /\ DecisionRank(b.required_decision) <= DecisionRank(gate.decision)
              /\ AuthorityRank(b.required_authority_state) <= AuthorityRank(gate.authority_state)
         /\ gate.operator_review_required
              <=> DecisionRank(gate.decision) # 1 \/ AuthorityRank(gate.authority_state) # 1
         /\ gate.operator_review_required \in BOOLEAN
         /\ gate.degraded_mode \in BOOLEAN
         /\ gate.operator_review_required => gate.degraded_mode
<1> DEFINE demanded == Demanded(in.catalog, in.scenario_id, in.telemetry)
           triggered == TriggeredRules(SafetyRules, in.telemetry)
           D == {b.required_decision : b \in demanded} \cup {r.decision : r \in triggered}
           A == {b.required_authority_state : b \in demanded} \cup
                {r.authority_state : r \in triggered}
           decision == GateDecision(SafetyRules, in.catalog, in.scenario_id, in.telemetry)
           authority == GateAuthority(SafetyRules, in.catalog, in.scenario_id, in.telemetry)
           review == IsRestrictive(decision) \/ ~PermitsAutonomousExecution(authority)
<1>1. \A b \in demanded : /\ b.required_decision \in AutonomyDecisionType
                          /\ b.required_authority_state \in RuntimeAuthorityState
  BY CompletedRun DEF Demanded
<1>2. \A r \in triggered : /\ r.decision \in AutonomyDecisionType
                           /\ r.authority_state \in RuntimeAuthorityState
  BY RuleShapesAssumption DEF TriggeredRules
<1>3. D \in SUBSET AutonomyDecisionType /\ A \in SUBSET RuntimeAuthorityState
  BY <1>1, <1>2
<1>4. decision = MostRestrictiveDecision(D) /\ authority = MostRestrictiveAuthority(A)
  BY DEF GateDecision, GateAuthority
<1>5. /\ decision \in AutonomyDecisionType
      /\ \A d \in D : DecisionRank(d) <= DecisionRank(decision)
  BY <1>3, <1>4, MostRestrictiveDecisionIsMaximum
<1>6. /\ authority \in RuntimeAuthorityState
      /\ \A a \in A : AuthorityRank(a) <= AuthorityRank(authority)
  BY <1>3, <1>4, MostRestrictiveAuthorityIsMaximum
<1>7. \A b \in demanded :
        /\ DecisionRank(b.required_decision) <= DecisionRank(decision)
        /\ AuthorityRank(b.required_authority_state) <= AuthorityRank(authority)
  BY <1>5, <1>6
<1> HIDE DEF decision, authority, demanded, D, A
<1>8. review <=> DecisionRank(decision) # 1 \/ AuthorityRank(authority) # 1
  BY <1>5, <1>6, NominalRanks
<1>9. /\ GateOf(in).decision = decision
      /\ GateOf(in).authority_state = authority
      /\ GateOf(in).operator_review_required = review
      /\ GateOf(in).degraded_mode = (review \/ triggered # {})
  BY DEF GateOf, GateResult, decision, authority
<1> HIDE DEF review
<1>10. review \in BOOLEAN
  BY DEF review
<1> QED BY <1>5, <1>6, <1>7, <1>8, <1>9, <1>10 DEF demanded

\* The final outcome is the more restrictive of the gate's and the recommended one.
LEMMA FinalFacts ==
  ASSUME NEW in, HasCatalogShape(in.catalog), Failure(in) = "none"
  PROVE  LET gate     == GateOf(in)
             signals  == SignalsOf(in)
             decision == RunResult(in).final_decision
             authority == RunResult(in).final_authority_state IN
         /\ decision \in AutonomyDecisionType /\ authority \in RuntimeAuthorityState
         /\ decision \in {gate.decision, RecommendedDecision(signals)}
         /\ authority \in {gate.authority_state, RecommendedAuthority(signals)}
         /\ DecisionRank(gate.decision) <= DecisionRank(decision)
         /\ AuthorityRank(gate.authority_state) <= AuthorityRank(authority)
         /\ DecisionRank(RecommendedDecision(signals)) <= DecisionRank(decision)
         /\ AuthorityRank(RecommendedAuthority(signals)) <= AuthorityRank(authority)
<1>1. /\ GateOf(in).decision \in AutonomyDecisionType
      /\ GateOf(in).authority_state \in RuntimeAuthorityState
  BY GateFacts
<1>2. /\ RecommendedDecision(SignalsOf(in)) \in AutonomyDecisionType
      /\ RecommendedAuthority(SignalsOf(in)) \in RuntimeAuthorityState
  BY SignalLevels, RecommendationFacts
<1>3. /\ RunResult(in).final_decision =
           MoreRestrictiveDecision(GateOf(in).decision, RecommendedDecision(SignalsOf(in)))
      /\ RunResult(in).final_authority_state =
           MoreRestrictiveAuthority(GateOf(in).authority_state,
                                    RecommendedAuthority(SignalsOf(in)))
  BY DEF RunResult
<1> QED
  BY <1>1, <1>2, <1>3, MoreRestrictiveDecisionIsMaximum, MoreRestrictiveAuthorityIsMaximum

\* In a valid catalog a scenario with a severe stressor expects a behavior that
\* restricts autonomy.
LEMMA SevereIsRestricted ==
  ASSUME NEW in, HasCatalogShape(in.catalog), Failure(in) = "none",
         SevereStressors(in.catalog, ScenarioOf(in)) # {}
  PROVE  LET expected == ExpectedBehavior(in.catalog, in.scenario_id) IN
         /\ RestrictsAutonomy(expected)
         /\ \/ DecisionRank(expected.required_decision) # 1
            \/ AuthorityRank(expected.required_authority_state) # 1
<1> DEFINE c == in.catalog
           s == ScenarioOf(in)
           expected == ExpectedBehavior(c, in.scenario_id)
<1>1. /\ CatalogErrors(c) = {} /\ s \in c.scenarios /\ s.behavior \in Ids(c.behaviors)
      /\ expected.required_decision \in AutonomyDecisionType
      /\ expected.required_authority_state \in RuntimeAuthorityState
  BY CompletedRun DEF IsValidCatalog
<1>2. expected = Lookup(c.behaviors, s.behavior)
  BY DEF ExpectedBehavior, ScenarioOf
<1>3. StressorResponseErrors(c, s) = {}
  <2>1. StressorResponseErrors(c, s) \subseteq CatalogErrors(c)
    <3> DEFINE found(x) == ScenarioReferenceErrors(c, x) \cup StressorResponseErrors(c, x)
    <3>1. found(s) \subseteq UNION {found(x) : x \in c.scenarios}
      BY <1>1
    <3>2. UNION {found(x) : x \in c.scenarios} \subseteq CatalogErrors(c)
      BY DEF CatalogErrors
    <3> QED BY <3>1, <3>2
  <2> QED BY <1>1, <2>1
<1>4. RestrictsAutonomy(expected)
  BY <1>1, <1>2, <1>3 DEF StressorResponseErrors
<1> HIDE DEF expected
<1>5. \/ DecisionRank(expected.required_decision) # 1
      \/ AuthorityRank(expected.required_authority_state) # 1
  BY <1>1, <1>4, NominalRanks DEF RestrictsAutonomy
<1> QED BY <1>4, <1>5 DEF expected

\* SevereStressorContained for one run.
LEMMA SevereRun ==
  ASSUME NEW in, HasCatalogShape(in.catalog), Failure(in) = "none"
  PROVE  LET severe == SevereStressors(in.catalog, ScenarioOf(in))
             active == ActiveSevereStressors(in.catalog, ScenarioOf(in), in.telemetry)
             result == RunResult(in) IN
         /\ severe # {} /\ Nominal(result) => result.verification_result = "fail"
         /\ active # {} => result.verification_result = "pass" /\ ~Nominal(result)
<1> DEFINE expected == ExpectedBehavior(in.catalog, in.scenario_id)
           severe == SevereStressors(in.catalog, ScenarioOf(in))
           active == ActiveSevereStressors(in.catalog, ScenarioOf(in), in.telemetry)
           result == RunResult(in)
           d == result.final_decision
           a == result.final_authority_state
           satisfied == SatisfiesExpectedBehavior(d, a, expected)
<1>1. result.verification_result = VerificationOf(satisfied)
  BY DEF RunResult
<1>2. d \in AutonomyDecisionType /\ a \in RuntimeAuthorityState
  BY FinalFacts
<1>3. /\ expected.required_decision \in AutonomyDecisionType
      /\ expected.required_authority_state \in RuntimeAuthorityState
  BY CompletedRun
<1>4. Nominal(result) <=> DecisionRank(d) = 1 /\ AuthorityRank(a) = 1
  BY <1>2, NominalRanks DEF Nominal
<1>5. severe # {} => \/ DecisionRank(expected.required_decision) # 1
                     \/ AuthorityRank(expected.required_authority_state) # 1
  BY SevereIsRestricted
<1>6. active # {} =>
        /\ DecisionRank(expected.required_decision) <= DecisionRank(d)
        /\ AuthorityRank(expected.required_authority_state) <= AuthorityRank(a)
        /\ severe # {}
  <2> SUFFICES ASSUME active # {}
               PROVE  /\ DecisionRank(expected.required_decision) <= DecisionRank(d)
                      /\ AuthorityRank(expected.required_authority_state) <= AuthorityRank(a)
                      /\ severe # {}
    OBVIOUS
  <2>1. severe # {}
    BY DEF ActiveSevereStressors
  <2>2. Demanded(in.catalog, in.scenario_id, in.telemetry) = {expected}
    BY <2>1, SevereIsRestricted DEF Demanded, ScenarioOf
  <2> HIDE DEF severe, active, d, a
  <2>3. /\ DecisionRank(expected.required_decision) <= DecisionRank(GateOf(in).decision)
        /\ AuthorityRank(expected.required_authority_state)
             <= AuthorityRank(GateOf(in).authority_state)
    BY <2>2, GateFacts
  <2>4. /\ DecisionRank(GateOf(in).decision) <= DecisionRank(d)
        /\ AuthorityRank(GateOf(in).authority_state) <= AuthorityRank(a)
    BY FinalFacts DEF d, a
  <2>5. /\ GateOf(in).decision \in AutonomyDecisionType
        /\ GateOf(in).authority_state \in RuntimeAuthorityState
    BY GateFacts
  <2> QED BY <1>2, <1>3, <2>1, <2>3, <2>4, <2>5, DecisionRanks, AuthorityRanks
<1> HIDE DEF expected, severe, active, d, a
<1>7. satisfied <=> /\ DecisionRank(expected.required_decision) <= DecisionRank(d)
                    /\ AuthorityRank(expected.required_authority_state) <= AuthorityRank(a)
  BY <1>2, <1>3, DecisionRanks, AuthorityRanks DEF SatisfiesExpectedBehavior
<1>8. (satisfied => result.verification_result = "pass")
      /\ (~satisfied => result.verification_result = "fail")
  BY <1>1 DEF VerificationOf
<1> HIDE DEF satisfied, result
<1>9. severe # {} /\ Nominal(result) => ~satisfied
  BY <1>2, <1>3, <1>4, <1>5, <1>7, DecisionRanks, AuthorityRanks
<1>10. active # {} => satisfied /\ ~Nominal(result)
  BY <1>5, <1>6, <1>7, <1>9
<1> QED BY <1>8, <1>9, <1>10 DEF severe, active, result

\* ReviewFlagIsExact for one run.
LEMMA ReviewedRun ==
  ASSUME NEW in, HasCatalogShape(in.catalog), Failure(in) = "none"
  PROVE  LET result == RunResult(in) IN
         /\ result.operator_review_required <=> ~Nominal(result)
         /\ result.operator_review_required => result.degraded_mode
<1> DEFINE result == RunResult(in)
           gate == GateOf(in)
           signals == SignalsOf(in)
           d == result.final_decision
           a == result.final_authority_state
<1>1. /\ d \in AutonomyDecisionType /\ a \in RuntimeAuthorityState
      /\ d \in {gate.decision, RecommendedDecision(signals)}
      /\ a \in {gate.authority_state, RecommendedAuthority(signals)}
      /\ DecisionRank(gate.decision) <= DecisionRank(d)
      /\ AuthorityRank(gate.authority_state) <= AuthorityRank(a)
      /\ DecisionRank(RecommendedDecision(signals)) <= DecisionRank(d)
  BY FinalFacts
<1>2. /\ gate.decision \in AutonomyDecisionType
      /\ gate.authority_state \in RuntimeAuthorityState
      /\ gate.operator_review_required
           <=> DecisionRank(gate.decision) # 1 \/ AuthorityRank(gate.authority_state) # 1
      /\ gate.operator_review_required => gate.degraded_mode
  BY GateFacts
<1>3. /\ RecommendedDecision(signals) \in AutonomyDecisionType
      /\ ~AnyDegraded(signals) => /\ RecommendedDecision(signals) = "allow"
                                  /\ RecommendedAuthority(signals) = "autonomous_allowed"
      /\ RecommendedDecision(signals) = "allow" => ~AnyDegraded(signals)
  BY SignalLevels, RecommendationFacts
<1>4. /\ result.operator_review_required
           = \/ gate.operator_review_required
             \/ AnyDegraded(signals)
             \/ ~PermitsAutonomousExecution(a)
             \/ IsRestrictive(d)
      /\ result.degraded_mode = (gate.degraded_mode \/ AnyDegraded(signals))
  BY DEF RunResult
<1>5. /\ Nominal(result) <=> DecisionRank(d) = 1 /\ AuthorityRank(a) = 1
      /\ IsRestrictive(d) <=> DecisionRank(d) # 1
      /\ PermitsAutonomousExecution(a) <=> AuthorityRank(a) = 1
  BY <1>1, NominalRanks DEF Nominal
<1>6. /\ DecisionRank("allow") = 1 /\ AuthorityRank("autonomous_allowed") = 1
      /\ "allow" \in AutonomyDecisionType
  BY DEF DecisionRank, AuthorityRank, AutonomyDecisionType
<1> HIDE DEF d, a, result, gate, signals
<1>7. DecisionRank(d) = 1 /\ AuthorityRank(a) = 1
        => DecisionRank(gate.decision) = 1 /\ AuthorityRank(gate.authority_state) = 1
  BY <1>1, <1>2, DecisionRanks, AuthorityRanks
<1>8. AnyDegraded(signals) => DecisionRank(d) # 1
  BY <1>1, <1>3, <1>6, DecisionRanks
<1>9. DecisionRank(d) # 1 \/ AuthorityRank(a) # 1
        => gate.operator_review_required \/ AnyDegraded(signals)
  BY <1>1, <1>2, <1>3, <1>6
<1> QED BY <1>2, <1>4, <1>5, <1>7, <1>8, <1>9 DEF result

------------------------------------------------------------------------------
(* Evidence bundles.                                                       *)

\* Equal digests are digests of the same material.
LEMMA HashIsInjective ==
  ASSUME NEW x, NEW y, Sha256(x) = Sha256(y)
  PROVE  x = y
<1>1. <<"sha256", x>>[2] = x /\ <<"sha256", y>>[2] = y
  OBVIOUS
<1> QED BY <1>1 DEF Sha256

\* Hashing a record changes its hash only, and the hash does not cover itself.
LEMMA HashedRecord ==
  ASSUME NEW r, IsRecord(r)
  PROVE  LET h == RecordWithComputedHash(r) IN
         /\ IsRecord(h)
         /\ h.evidence_id = r.evidence_id /\ h.content = r.content /\ h.status = r.status
         /\ RecordMaterial(h) = RecordMaterial(r)
         /\ h.content_hash = {CalculateContentHash(r)}
         /\ HasValidContentHash(h)
         /\ RecordWithComputedHash(h) = h
<1> DEFINE x == {CalculateContentHash(r)}
           h == [r EXCEPT !.content_hash = x]
<1>1. /\ h = [evidence_id |-> r.evidence_id, content |-> r.content,
              status |-> r.status, content_hash |-> x]
      /\ IsRecord(h)
      /\ h.evidence_id = r.evidence_id /\ h.content = r.content /\ h.status = r.status
      /\ RecordMaterial(h) = RecordMaterial(r)
      /\ h.content_hash = x
  <2> HIDE DEF x
  <2> QED BY DEF IsRecord, RecordMaterial
<1>2. RecordWithComputedHash(h) = h
  <2>1. RecordWithComputedHash(h) = [h EXCEPT !.content_hash = x]
    BY <1>1 DEF RecordWithComputedHash, CalculateContentHash
  <2> HIDE DEF x
  <2> QED BY <1>1, <2>1
<1>3. CalculateContentHash(h) = CalculateContentHash(r)
  BY <1>1 DEF CalculateContentHash
<1> HIDE DEF h
<1> QED BY <1>1, <1>2, <1>3 DEF RecordWithComputedHash, HasValidContentHash, h

LEMMA NotEmpty ==
  ASSUME NEW f, f = [i \in DOMAIN f |-> f[i]], f # << >>
  PROVE  DOMAIN f # {}
BY SMTT(30)

\* A bundle has at least one record.
LEMMA HasRecords ==
  ASSUME NEW b, Constructed(b)
  PROVE  DOMAIN b.records # {}
<1>1. /\ b.records = [i \in DOMAIN b.records |-> b.records[i]]
      /\ b.records # << >>
  BY DEF Constructed, WellFormedRecords
<1> QED BY <1>1, NotEmpty

\* with_computed_hashes covers the same material, leaves no hash missing or wrong,
\* and changes neither an id nor a status.
LEMMA HashedBundle ==
  ASSUME NEW b, Constructed(b)
  PROVE  LET h == BundleWithComputedHashes(b) IN
         /\ Constructed(h)
         /\ h = [bundle_id |-> b.bundle_id, scope |-> b.scope,
                 records |-> RecordsWithComputedHashes(b.records),
                 bundle_hash |-> {CalculateBundleHash(b)}]
         /\ DOMAIN h.records = DOMAIN b.records
         /\ \A i \in DOMAIN b.records : h.records[i] = RecordWithComputedHash(b.records[i])
         /\ BundleMaterial(h) = BundleMaterial(b)
         /\ HasValidBundleHash(h)
         /\ MismatchedRecords(h) = {} /\ UnhashedRecords(h) = {}
         /\ MissingHashWarnings(h) = {}
<1> DEFINE rs == RecordsWithComputedHashes(b.records)
           x  == {CalculateBundleHash(b)}
           h  == [bundle_id |-> b.bundle_id, scope |-> b.scope, records |-> rs, bundle_hash |-> x]
<1>1. BundleWithComputedHashes(b) = h
  <2>1. BundleWithComputedHashes(b) = [b EXCEPT !.records = rs, !.bundle_hash = x]
    BY DEF BundleWithComputedHashes
  <2> HIDE DEF rs, x
  <2> QED BY <2>1 DEF Constructed
<1>2. /\ DOMAIN rs = DOMAIN b.records
      /\ rs = [i \in DOMAIN rs |-> rs[i]]
      /\ \A i \in DOMAIN b.records : rs[i] = RecordWithComputedHash(b.records[i])
  BY DEF RecordsWithComputedHashes
<1>3. ASSUME NEW i \in DOMAIN b.records
      PROVE  /\ IsRecord(rs[i])
             /\ rs[i].evidence_id = b.records[i].evidence_id
             /\ rs[i].content_hash # {} /\ HasValidContentHash(rs[i])
             /\ RecordWithComputedHash(rs[i]) = rs[i]
  <2>1. IsRecord(b.records[i])
    BY DEF Constructed
  <2> QED BY <1>2, <2>1, HashedRecord
<1>4. RecordsWithComputedHashes(rs) = rs
  BY <1>2, <1>3 DEF RecordsWithComputedHashes
<1> HIDE DEF rs
<1>5. Constructed(h)
  <2>1. rs # << >>
    <3>1. DOMAIN rs # {}
      BY <1>2, HasRecords
    <3> QED BY <3>1
  <2>2. WellFormedRecords(rs)
    BY <1>2, <1>3, <2>1 DEF Constructed, WellFormedRecords
  <2> QED BY <1>2, <1>3, <2>2 DEF Constructed
<1>6. BundleMaterial(h) = BundleMaterial(b)
  BY <1>4 DEF BundleMaterial, rs
<1>7. HasValidBundleHash(h)
  BY <1>6 DEF HasValidBundleHash, CalculateBundleHash
<1>8. MismatchedRecords(h) = {} /\ UnhashedRecords(h) = {} /\ h.bundle_hash # {}
  BY <1>2, <1>3 DEF MismatchedRecords, UnhashedRecords
<1> HIDE DEF x
<1>9. MissingHashWarnings(h) = {}
  BY <1>8 DEF MissingHashWarnings, Findings
<1> QED BY <1>1, <1>2, <1>5, <1>6, <1>7, <1>8, <1>9 DEF rs, x

\* A bundle about whose hashes validate_integrity has nothing to say is as hashed.
LEMMA CleanIsHashed ==
  ASSUME NEW b, Constructed(b), IntegrityErrors(b) = {}, MissingHashWarnings(b) = {}
  PROVE  b.bundle_hash = {CalculateBundleHash(b)} /\ BundleWithComputedHashes(b) = b
<1>1. b.bundle_hash = {CalculateBundleHash(b)}
  BY DEF IntegrityErrors, MissingHashWarnings, Findings, HasValidBundleHash
<1>2. ASSUME NEW i \in DOMAIN b.records
      PROVE  RecordWithComputedHash(b.records[i]) = b.records[i]
  <2> DEFINE r == b.records[i]
             x == {CalculateContentHash(r)}
  <2>1. i \notin MismatchedRecords(b)
    BY DEF IntegrityErrors, Findings
  <2>2. i \notin UnhashedRecords(b)
    BY DEF MissingHashWarnings, Findings
  <2>3. r.content_hash = x /\ IsRecord(r)
    BY <2>1, <2>2 DEF MismatchedRecords, UnhashedRecords, HasValidContentHash, Constructed
  <2>4. RecordWithComputedHash(r) = [r EXCEPT !.content_hash = x]
    BY DEF RecordWithComputedHash
  <2> HIDE DEF r, x
  <2>5. RecordWithComputedHash(r) = r
    BY <2>3, <2>4 DEF IsRecord
  <2> QED BY <2>5 DEF r
<1>3. RecordsWithComputedHashes(b.records) = b.records
  BY <1>2 DEF RecordsWithComputedHashes, Constructed
<1>4. BundleWithComputedHashes(b) = b
  BY <1>1, <1>3, HashedBundle DEF Constructed
<1> QED BY <1>1, <1>4

\* The bundle of a run has one record, which is accepted, and every hash it should.
LEMMA FreshBundle ==
  ASSUME NEW in, NEW result
  PROVE  LET b == RunBundle(in, result) IN
         /\ Constructed(b)
         /\ DOMAIN b.records = {1}
         /\ b.records[1].status = "accepted"
         /\ b.scope = in.scenario_id
         /\ b.bundle_id = <<"BND", in.run_id>>
         /\ IntegrityErrors(b) = {} /\ MissingHashWarnings(b) = {} /\ StatusWarnings(b) = {}
         /\ BundleSignals(b) = {}
<1> DEFINE r   == [evidence_id  |-> <<"EV-RUN", in.run_id>>, content |-> result,
                   status |-> "accepted", content_hash |-> {}]
           raw == [bundle_id |-> <<"BND", in.run_id>>, scope |-> in.scenario_id,
                   records |-> <<r>>, bundle_hash |-> {}]
           b   == BundleWithComputedHashes(raw)
<1>1. b = RunBundle(in, result)
  BY DEF RunBundle
<1>2. IsRecord(r) /\ r.status = "accepted"
  BY DEF IsRecord, EvidenceStatus
<1> HIDE DEF r
<1>3. DOMAIN raw.records = {1} /\ raw.records[1] = r
  OBVIOUS
<1>4. Constructed(raw)
  BY <1>2, <1>3 DEF Constructed, WellFormedRecords
<1>5. raw.scope = in.scenario_id /\ raw.bundle_id = <<"BND", in.run_id>>
  OBVIOUS
<1> HIDE DEF raw
<1>6. /\ Constructed(b)
      /\ b.scope = in.scenario_id /\ b.bundle_id = <<"BND", in.run_id>>
      /\ DOMAIN b.records = {1}
      /\ b.records[1].status = "accepted"
      /\ HasValidBundleHash(b) /\ MismatchedRecords(b) = {}
      /\ MissingHashWarnings(b) = {}
  BY <1>2, <1>3, <1>4, <1>5, HashedBundle, HashedRecord
<1> HIDE DEF b
<1>7. InvalidRecords(b) = {} /\ UnusableRecords(b) = {} /\ StaleRecords(b) = {}
  BY <1>6 DEF InvalidRecords, UnusableRecords, StaleRecords, IsUsable
<1>8. IntegrityErrors(b) = {} /\ StatusWarnings(b) = {}
  BY <1>6, <1>7 DEF IntegrityErrors, StatusWarnings, Findings
<1>9. BundleSignals(b) = {}
  BY <1>6, <1>7, <1>8 DEF BundleSignals
<1> QED BY <1>1, <1>6, <1>8, <1>9

------------------------------------------------------------------------------
(* Changes to a bundle.                                                    *)

\* The fields of a record that was changed in one place.
LEMMA ChangedRecord ==
  ASSUME NEW r, IsRecord(r), NEW x
  PROVE  /\ [r EXCEPT !.status = x]
              = [evidence_id |-> r.evidence_id, content |-> r.content,
                 status |-> x, content_hash |-> r.content_hash]
         /\ [r EXCEPT !.content = x]
              = [evidence_id |-> r.evidence_id, content |-> x,
                 status |-> r.status, content_hash |-> r.content_hash]
         /\ [r EXCEPT !.content_hash = {}]
              = [evidence_id |-> r.evidence_id, content |-> r.content,
                 status |-> r.status, content_hash |-> {}]
  BY DEF IsRecord

\* One record of a bundle is replaced by another with the same id.
LEMMA PatchedBundle ==
  ASSUME NEW b, Constructed(b), NEW i \in DOMAIN b.records,
         NEW r, IsRecord(r), r.evidence_id = b.records[i].evidence_id
  PROVE  LET c == [b EXCEPT !.records[i] = r] IN
         /\ Constructed(c)
         /\ c.bundle_hash = b.bundle_hash /\ c.bundle_id = b.bundle_id /\ c.scope = b.scope
         /\ DOMAIN c.records = DOMAIN b.records
         /\ \A j \in DOMAIN b.records : c.records[j] = IF j = i THEN r ELSE b.records[j]
<1> DEFINE rs == [b.records EXCEPT ![i] = r]
           c  == [b EXCEPT !.records = rs]
<1>1. rs = [j \in DOMAIN b.records |-> IF j = i THEN r ELSE b.records[j]]
  BY DEF Constructed
<1> HIDE DEF rs
<1>2. c = [bundle_id |-> b.bundle_id, scope |-> b.scope, records |-> rs,
           bundle_hash |-> b.bundle_hash]
  BY DEF Constructed
<1>3. /\ DOMAIN rs = DOMAIN b.records
      /\ rs = [j \in DOMAIN rs |-> rs[j]]
      /\ \A j \in DOMAIN b.records : /\ IsRecord(rs[j])
                                     /\ rs[j].evidence_id = b.records[j].evidence_id
  BY <1>1 DEF Constructed
<1>4. WellFormedRecords(rs)
  <2>1. DOMAIN rs # {}
    BY <1>3, HasRecords
  <2>2. rs # << >>
    BY <2>1
  <2> QED BY <1>3, <2>2 DEF Constructed, WellFormedRecords
<1> HIDE DEF c
<1>5. Constructed(c)
  BY <1>2, <1>3, <1>4 DEF Constructed
<1> QED BY <1>1, <1>2, <1>3, <1>5 DEF c, rs

\* c is a bundle with as many records as b and the same bundle hash.
LooksLike(c, b) ==
  /\ Constructed(c)
  /\ c.bundle_hash = b.bundle_hash
  /\ DOMAIN c.records = DOMAIN b.records

\* Another status, another content or no hash leave a bundle that the constructors
\* accept.
LEMMA RecordChanges ==
  ASSUME NEW b, Constructed(b), NEW i \in DOMAIN b.records, NEW x
  PROVE  /\ x \in EvidenceStatus => LooksLike([b EXCEPT !.records[i].status = x], b)
         /\ LooksLike([b EXCEPT !.records[i].content = x], b)
         /\ LooksLike([b EXCEPT !.records[i].content_hash = {}], b)
<1> DEFINE old == b.records[i]
           s   == [old EXCEPT !.status = x]
           k   == [old EXCEPT !.content = x]
           h   == [old EXCEPT !.content_hash = {}]
<1>1. IsRecord(old)
  BY DEF Constructed
<1>2. /\ s.evidence_id = old.evidence_id /\ k.evidence_id = old.evidence_id
      /\ h.evidence_id = old.evidence_id
      /\ x \in EvidenceStatus => IsRecord(s)
      /\ IsRecord(k) /\ IsRecord(h)
  <2> HIDE DEF old
  <2>1. old.status \in EvidenceStatus
    BY <1>1 DEF IsRecord
  <2> QED BY <1>1, <2>1, ChangedRecord DEF IsRecord
<1> HIDE DEF s, k, h
<1>3. /\ x \in EvidenceStatus => LooksLike([b EXCEPT !.records[i] = s], b)
      /\ LooksLike([b EXCEPT !.records[i] = k], b)
      /\ LooksLike([b EXCEPT !.records[i] = h], b)
  BY <1>2, PatchedBundle DEF LooksLike
<1> QED BY <1>3, Zenon DEF s, k, h

\* So does the loss of the bundle hash.
LEMMA UnhashedBundle ==
  ASSUME NEW b, Constructed(b)
  PROVE  LET c == [b EXCEPT !.bundle_hash = {}] IN
         /\ Constructed(c)
         /\ c.bundle_hash = {}
         /\ c.records = b.records /\ c.bundle_id = b.bundle_id /\ c.scope = b.scope
  BY DEF Constructed
==============================================================================
