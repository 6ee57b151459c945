-------------------------- MODULE ScenarioRunProofs --------------------------
(***************************************************************************)
(* What every scenario run guarantees, for any catalogs, telemetry, rules  *)
(* and prior evidence.                                                     *)
(***************************************************************************)
EXTENDS ScenarioRun, RunnerProofs

------------------------------------------------------------------------------
(* One run beside others.                                                  *)

\* DamagedEvidenceRestricts for one run: the integrity error, or the status warning, is
\* itself a signal, and the final outcome is at least what each signal asks for.
LEMMA DamagedRun ==
  ASSUME NEW in, HasCatalogShape(in.catalog), Failure(in) = "none", NEW b \in in.prior
  PROVE  LET result == RunResult(in) IN
         /\ IntegrityErrors(b) # {} => AtLeast(result, "safe_hold", "emergency_safe_hold")
         /\ StatusWarnings(b) # {} => AtLeast(result, "defer", "human_approval_required")
<1> DEFINE signals == SignalsOf(in)
           result == RunResult(in)
           d == result.final_decision
           a == result.final_authority_state
<1>1. ASSUME NEW s \in signals
      PROVE  AtLeast(result, LevelDecision(s.level), LevelAuthority(s.level))
  <2>1. /\ DecisionRank(LevelDecision(s.level)) <= DecisionRank(RecommendedDecision(signals))
        /\ AuthorityRank(LevelAuthority(s.level)) <= AuthorityRank(RecommendedAuthority(signals))
        /\ RecommendedDecision(signals) \in AutonomyDecisionType
        /\ RecommendedAuthority(signals) \in RuntimeAuthorityState
        /\ LevelDecision(s.level) \in AutonomyDecisionType
        /\ LevelAuthority(s.level) \in RuntimeAuthorityState
    BY SignalLevels, RecommendationFacts, LevelFacts
  <2>2. /\ DecisionRank(RecommendedDecision(signals)) <= DecisionRank(d)
        /\ AuthorityRank(RecommendedAuthority(signals)) <= AuthorityRank(a)
        /\ d \in AutonomyDecisionType /\ a \in RuntimeAuthorityState
    BY FinalFacts
  <2> HIDE DEF d, a, signals
  <2>3. /\ DecisionRank(LevelDecision(s.level)) <= DecisionRank(d)
        /\ AuthorityRank(LevelAuthority(s.level)) <= AuthorityRank(a)
    BY <2>1, <2>2, DecisionRanks, AuthorityRanks
  <2>4. DecisionRank(LevelDecision(s.level)) \in Int /\ DecisionRank(d) \in Int
        /\ AuthorityRank(LevelAuthority(s.level)) \in Int /\ AuthorityRank(a) \in Int
    BY <2>1, <2>2, DecisionRanks, AuthorityRanks
  <2> QED BY <2>3, <2>4 DEF AtLeast, d, a
<1>2. BundleSignals(b) \subseteq signals
  BY DEF SignalsOf, Signals
<1>3. ASSUME NEW f \in IntegrityErrors(b)
      PROVE  \E s \in BundleSignals(b) : s.level = "critical"
  <2> DEFINE s == [id |-> <<"evidence error", b.bundle_id, f>>, level |-> "critical"]
  <2>1. s \in BundleSignals(b)
    BY DEF BundleSignals
  <2> QED BY <2>1
<1>4. ASSUME NEW f \in StatusWarnings(b)
      PROVE  \E s \in BundleSignals(b) : s.level = "degraded"
  <2> DEFINE s == [id |-> <<"evidence warning", b.bundle_id, f>>, level |-> "degraded"]
  <2>1. s \in BundleSignals(b)
    BY DEF BundleSignals
  <2> QED BY <2>1
<1>5. /\ LevelDecision("critical") = "safe_hold"
      /\ LevelAuthority("critical") = "emergency_safe_hold"
      /\ LevelDecision("degraded") = "defer"
      /\ LevelAuthority("degraded") = "human_approval_required"
  BY DEF LevelDecision, LevelAuthority
<1> HIDE DEF signals, result
<1>6. IntegrityErrors(b) # {} => AtLeast(result, "safe_hold", "emergency_safe_hold")
  BY <1>1, <1>2, <1>3, <1>5
<1>7. StatusWarnings(b) # {} => AtLeast(result, "defer", "human_approval_required")
  BY <1>1, <1>2, <1>4, <1>5
<1> QED BY <1>6, <1>7 DEF result

\* MoreEvidenceNeverRelaxes for one run: fewer bundles give fewer signals, and the
\* restrictive maximum of fewer signals is at most as restrictive.
LEMMA FewerSignals ==
  ASSUME NEW in, HasCatalogShape(in.catalog), Failure(in) = "none",
         NEW less, less.catalog = in.catalog, less.scenario_id = in.scenario_id,
         less.telemetry = in.telemetry, less.prior \subseteq in.prior,
         Failure(less) = "none"
  PROVE  AtLeast(RunResult(in), RunResult(less).final_decision,
                 RunResult(less).final_authority_state)
<1> DEFINE S == SignalsOf(in)
           T == SignalsOf(less)
<1>1. T \subseteq S
  BY DEF SignalsOf, Signals
<1>2. GateOf(less) = GateOf(in)
  BY DEF GateOf
<1>3. /\ RecommendedDecision(T) \in AutonomyDecisionType
      /\ RecommendedAuthority(T) \in RuntimeAuthorityState
  BY SignalLevels, RecommendationFacts
<1>4. /\ DecisionRank(RecommendedDecision(T)) <= DecisionRank(RecommendedDecision(S))
      /\ AuthorityRank(RecommendedAuthority(T)) <= AuthorityRank(RecommendedAuthority(S))
  <2> DEFINE DT == {LevelDecision(s.level) : s \in T}
             AT == {LevelAuthority(s.level) : s \in T}
  <2>1. DT \in SUBSET AutonomyDecisionType /\ AT \in SUBSET RuntimeAuthorityState
    BY SignalLevels, LevelFacts
  <2>2. RecommendedDecision(T) \in DT \cup {"allow"}
    BY <2>1, MostRestrictiveDecisionIsMaximum DEF RecommendedDecision
  <2>3. RecommendedAuthority(T) \in AT \cup {"autonomous_allowed"}
    BY <2>1, MostRestrictiveAuthorityIsMaximum DEF RecommendedAuthority
  <2>4. /\ \A s \in T :
            /\ DecisionRank(LevelDecision(s.level)) <= DecisionRank(RecommendedDecision(S))
            /\ AuthorityRank(LevelAuthority(s.level)) <= AuthorityRank(RecommendedAuthority(S))
        /\ RecommendedDecision(S) \in AutonomyDecisionType
        /\ RecommendedAuthority(S) \in RuntimeAuthorityState
    BY <1>1, SignalLevels, RecommendationFacts
  <2>5. DecisionRank("allow") = 1 /\ AuthorityRank("autonomous_allowed") = 1
    BY DEF DecisionRank, AuthorityRank
  <2>6. DecisionRank(RecommendedDecision(S)) \in 1..5
        /\ AuthorityRank(RecommendedAuthority(S)) \in 1..5
    BY <2>4, DecisionRanks, AuthorityRanks
  <2> HIDE DEF S, T
  <2>7. DecisionRank(RecommendedDecision(T)) <= DecisionRank(RecommendedDecision(S))
    BY <2>2, <2>4, <2>5, <2>6
  <2>8. AuthorityRank(RecommendedAuthority(T)) <= AuthorityRank(RecommendedAuthority(S))
    BY <2>3, <2>4, <2>5, <2>6
  <2> QED BY <2>7, <2>8
<1> DEFINE d == RunResult(in).final_decision
           a == RunResult(in).final_authority_state
           ld == RunResult(less).final_decision
           la == RunResult(less).final_authority_state
<1>5. /\ d \in AutonomyDecisionType /\ a \in RuntimeAuthorityState
      /\ DecisionRank(GateOf(in).decision) <= DecisionRank(d)
      /\ AuthorityRank(GateOf(in).authority_state) <= AuthorityRank(a)
      /\ DecisionRank(RecommendedDecision(S)) <= DecisionRank(d)
      /\ AuthorityRank(RecommendedAuthority(S)) <= AuthorityRank(a)
  BY FinalFacts
<1>6. /\ ld \in {GateOf(in).decision, RecommendedDecision(T)}
      /\ la \in {GateOf(in).authority_state, RecommendedAuthority(T)}
      /\ ld \in AutonomyDecisionType /\ la \in RuntimeAuthorityState
  BY <1>2, FinalFacts
<1>7. /\ RecommendedDecision(S) \in AutonomyDecisionType
      /\ RecommendedAuthority(S) \in RuntimeAuthorityState
  BY SignalLevels, RecommendationFacts
<1> HIDE DEF S, T, d, a, ld, la
<1>8. DecisionRank(ld) <= DecisionRank(d)
  BY <1>3, <1>4, <1>5, <1>6, <1>7, DecisionRanks
<1>9. AuthorityRank(la) <= AuthorityRank(a)
  BY <1>3, <1>4, <1>5, <1>6, <1>7, AuthorityRanks
<1>10. DecisionRank(ld) \in Int /\ DecisionRank(d) \in Int
       /\ AuthorityRank(la) \in Int /\ AuthorityRank(a) \in Int
  BY <1>5, <1>6, DecisionRanks, AuthorityRanks
<1> QED BY <1>8, <1>9, <1>10 DEF AtLeast, d, a, ld, la

------------------------------------------------------------------------------
(* All runs.                                                               *)

\* The inductive invariant: what is remembered of the latest run are its inputs and
\* what run makes of them.
LastIsARun ==
  \A run \in last :
    /\ \E c \in Catalogs : \E s, t, p, r : run.in = Inputs(c, s, t, p, r)
    /\ run.failure = Failure(run.in)
    /\ run.failure = "none" => run.result = RunResult(run.in)

\* LastIsARun is inductive by itself.
LEMMA LastIsInvariant == Spec => []LastIsARun
<1>1. Init => LastIsARun
  BY DEF Init, LastIsARun
<1>2. LastIsARun /\ [Next]_vars => LastIsARun'
  <2> SUFFICES ASSUME LastIsARun, [Next]_vars PROVE LastIsARun'
    OBVIOUS
  <2>1. ASSUME NEW c \in Catalogs, NEW s, NEW t, NEW r, NEW p,
               Run(Inputs(c, s, t, p, r)) \/ RunRaises(Inputs(c, s, t, p, r))
        PROVE  LastIsARun'
    <3> DEFINE in == Inputs(c, s, t, p, r)
    <3>1. \/ /\ Failure(in) = "none"
             /\ last' = {[in |-> in, failure |-> "none", result |-> RunResult(in)]}
          \/ last' = {[in |-> in, failure |-> Failure(in), result |-> NoResult]}
             /\ Failure(in) # "none"
      BY <2>1 DEF Run, RunRaises
    <3>2. \E k \in Catalogs : \E u, v, w, x : in = Inputs(k, u, v, w, x)
      OBVIOUS
    <3> HIDE DEF in
    <3> QED BY <3>1, <3>2 DEF LastIsARun
  <2>2. ASSUME UNCHANGED last PROVE LastIsARun'
    BY <2>2 DEF LastIsARun
  <2>3. \/ \E c \in Catalogs, s \in ScenarioIds, t \in Snapshots, r \in RunIds,
              p \in SUBSET archive :
             Run(Inputs(c, s, t, p, r)) \/ RunRaises(Inputs(c, s, t, p, r))
        \/ UNCHANGED last
    BY DEF Next, ChangeStatus, LoseHashes, Replace, vars
  <2> QED BY <2>1, <2>2, <2>3
<1> QED BY <1>1, <1>2, PTL DEF Spec

\* What LastIsARun says of a run that completed.
LEMMA CompletedIsARun ==
  ASSUME LastIsARun, NEW run \in Completed
  PROVE  /\ HasCatalogShape(run.in.catalog)
         /\ Failure(run.in) = "none"
         /\ run.result = RunResult(run.in)
<1>1. run \in last /\ run.failure = "none"
  BY DEF Completed
<1>2. PICK c \in Catalogs : \E s, t, p, r : run.in = Inputs(c, s, t, p, r)
  BY <1>1 DEF LastIsARun
<1>3. run.in.catalog = c
  BY <1>2 DEF Inputs
<1> QED BY <1>1, <1>3, CatalogShapesAssumption DEF LastIsARun

\* A severe stressor is contained in every run.
THEOREM SevereIsContained == Spec => []SevereStressorContained
<1>1. LastIsARun => SevereStressorContained
  <2> SUFFICES ASSUME LastIsARun, NEW run \in Completed
               PROVE  LET severe == SevereStressors(run.in.catalog, ScenarioOf(run.in))
                          active == ActiveSevereStressors(run.in.catalog, ScenarioOf(run.in),
                                                          run.in.telemetry)
                      IN  /\ severe # {} /\ Nominal(run.result)
                               => run.result.verification_result = "fail"
                          /\ active # {} => /\ run.result.verification_result = "pass"
                                            /\ ~Nominal(run.result)
    BY DEF SevereStressorContained
  <2> QED BY CompletedIsARun, SevereRun
<1> QED BY <1>1, LastIsInvariant, PTL

\* Operator review is required in exactly the runs that do not end nominal.
THEOREM ReviewIsExact == Spec => []ReviewFlagIsExact
<1>1. LastIsARun => ReviewFlagIsExact
  BY CompletedIsARun, ReviewedRun DEF ReviewFlagIsExact
<1> QED BY <1>1, LastIsInvariant, PTL

\* Damaged, stale or missing prior evidence restricts every run that is given it.
THEOREM DamageRestricts == Spec => []DamagedEvidenceRestricts
<1>1. LastIsARun => DamagedEvidenceRestricts
  BY CompletedIsARun, DamagedRun DEF DamagedEvidenceRestricts
<1> QED BY <1>1, LastIsInvariant, PTL

\* More prior evidence never relaxes the outcome of a run.
THEOREM EvidenceIsMonotone == Spec => []MoreEvidenceNeverRelaxes
<1>1. LastIsARun => MoreEvidenceNeverRelaxes
  <2> SUFFICES ASSUME LastIsARun, NEW run \in Completed, NEW fewer \in SUBSET run.in.prior,
                      Failure([run.in EXCEPT !.prior = fewer]) = "none"
               PROVE  AtLeast(run.result,
                              RunResult([run.in EXCEPT !.prior = fewer]).final_decision,
                              RunResult([run.in EXCEPT !.prior = fewer]).final_authority_state)
    BY DEF MoreEvidenceNeverRelaxes
  <2> DEFINE less == [run.in EXCEPT !.prior = fewer]
  <2>1. \E c \in Catalogs : \E s, t, p, r : run.in = Inputs(c, s, t, p, r)
    BY DEF LastIsARun, Completed
  <2>2. /\ less.catalog = run.in.catalog /\ less.scenario_id = run.in.scenario_id
        /\ less.telemetry = run.in.telemetry /\ less.prior = fewer
    BY <2>1 DEF Inputs
  <2> HIDE DEF less
  <2>3. AtLeast(RunResult(run.in), RunResult(less).final_decision,
                RunResult(less).final_authority_state)
    BY <2>2, CompletedIsARun, FewerSignals DEF less
  <2> QED BY <2>3, CompletedIsARun DEF less
<1> QED BY <1>1, LastIsInvariant, PTL

\* No run gets past validate_references to a lookup of the gate that fails.
THEOREM CatalogsResolve == Spec => []ValidCatalogResolves
<1>1. ASSUME NEW in PROVE Failure(in) # "gate reference"
  <2> SUFFICES ASSUME IsValidCatalog(in.catalog), in.scenario_id \in Ids(in.catalog.scenarios)
               PROVE  GateReferencesResolve(in.catalog, in.scenario_id)
    BY DEF Failure
  <2> DEFINE c == in.catalog
             s == Lookup(c.scenarios, in.scenario_id)
             found(x) == ScenarioReferenceErrors(c, x) \cup StressorResponseErrors(c, x)
  <2>1. s \in c.scenarios
    BY DEF Ids, Lookup
  <2>2. UNION {found(x) : x \in c.scenarios} = {}
    BY DEF IsValidCatalog, CatalogErrors
  <2>3. ScenarioReferenceErrors(c, s) = {}
    BY <2>1, <2>2
  <2>4. /\ MissingReferences(s.id, "stressor", s.stressors, Ids(c.stressors)) = {}
        /\ MissingReferences(s.id, "behavior", {s.behavior}, Ids(c.behaviors)) = {}
    BY <2>3 DEF ScenarioReferenceErrors
  <2>5. s.stressors \subseteq Ids(c.stressors) /\ s.behavior \in Ids(c.behaviors)
    BY <2>4 DEF MissingReferences
  <2> QED BY <2>5 DEF GateReferencesResolve
<1>2. LastIsARun => ValidCatalogResolves
  BY <1>1 DEF LastIsARun, ValidCatalogResolves
<1> QED BY <1>2, LastIsInvariant, PTL

------------------------------------------------------------------------------
(* The bundles at hand.                                                    *)

\* The hashes of a whole bundle are lost, and it can still be constructed.
LEMMA LostHashes ==
  ASSUME NEW b, Constructed(b)
  PROVE  Constructed([b EXCEPT !.records = [i \in DOMAIN @ |-> [@[i] EXCEPT !.content_hash = {}]],
                               !.bundle_hash = {}])
<1> DEFINE rs == [i \in DOMAIN b.records |-> [b.records[i] EXCEPT !.content_hash = {}]]
           c  == [b EXCEPT !.records = rs, !.bundle_hash = {}]
<1>1. ASSUME NEW i \in DOMAIN b.records
      PROVE  IsRecord(rs[i]) /\ rs[i].evidence_id = b.records[i].evidence_id
  <2> DEFINE r == b.records[i]
             h == [r EXCEPT !.content_hash = {}]
  <2>1. IsRecord(r) /\ rs[i] = h
    BY DEF Constructed
  <2> HIDE DEF r, rs
  <2>2. IsRecord(h) /\ h.evidence_id = r.evidence_id
    BY <2>1, ChangedRecord DEF IsRecord
  <2> HIDE DEF h
  <2> QED BY <2>1, <2>2 DEF r
<1>2. DOMAIN rs = DOMAIN b.records /\ rs = [i \in DOMAIN rs |-> rs[i]]
  OBVIOUS
<1> HIDE DEF rs
<1>3. WellFormedRecords(rs)
  <2>1. DOMAIN rs # {}
    BY <1>2, HasRecords
  <2>2. rs # << >>
    BY <2>1
  <2> QED BY <1>1, <1>2, <2>2 DEF Constructed, WellFormedRecords
<1>4. c = [bundle_id |-> b.bundle_id, scope |-> b.scope, records |-> rs, bundle_hash |-> {}]
  <2> DEFINE m == [b EXCEPT !.records = rs]
  <2>1. m = [bundle_id |-> b.bundle_id, scope |-> b.scope, records |-> rs,
             bundle_hash |-> b.bundle_hash]
    BY DEF Constructed
  <2> HIDE DEF m
  <2>2. [m EXCEPT !.bundle_hash = {}]
          = [bundle_id |-> b.bundle_id, scope |-> b.scope, records |-> rs, bundle_hash |-> {}]
    BY <2>1
  <2> QED BY <2>2, Zenon DEF m
<1> HIDE DEF c
<1>5. Constructed(c)
  BY <1>1, <1>2, <1>3, <1>4 DEF Constructed
<1> QED BY <1>5 DEF c, rs

\* TypeOK without its part about results, which LastIsARun gives.
ArchiveInv ==
  /\ last = {} \/ \E run \in last : last = {run}
  /\ \A b \in archive : Constructed(b)
  /\ runs \in 0..MaxRuns
  /\ damage \in 0..MaxDamage

\* Every step keeps the bundles at hand constructible and the counts in their bounds.
LEMMA ArchiveInvariant == Spec => []ArchiveInv
<1>1. Init => ArchiveInv
  BY ImportedAssumption, RunBoundsAssumption DEF Init, ArchiveInv
<1>2. ArchiveInv /\ [Next]_vars => ArchiveInv'
  <2> SUFFICES ASSUME ArchiveInv, [Next]_vars PROVE ArchiveInv'
    OBVIOUS
  <2>1. ASSUME NEW in, Run(in) PROVE ArchiveInv'
    <3> DEFINE result == [in |-> in, failure |-> "none", result |-> RunResult(in)]
    <3>1. /\ runs' \in 0..MaxRuns /\ damage' = damage
          /\ last' = {result}
          /\ archive' = archive \/ archive' = archive \cup {RunBundle(in, RunResult(in))}
      BY <2>1, RunBoundsAssumption DEF Run, ArchiveInv
    <3> HIDE DEF result
    <3> QED BY <3>1, FreshBundle DEF ArchiveInv
  <2>2. ASSUME NEW in, RunRaises(in) PROVE ArchiveInv'
    <3> DEFINE result == [in |-> in, failure |-> Failure(in), result |-> NoResult]
    <3>1. /\ runs' \in 0..MaxRuns /\ damage' = damage
          /\ last' = {result}
          /\ archive' = archive
      BY <2>2, RunBoundsAssumption DEF RunRaises, ArchiveInv
    <3> HIDE DEF result
    <3> QED BY <3>1 DEF ArchiveInv
  <2>3. ASSUME NEW b \in archive, NEW c, Constructed(c), Replace(b, c) PROVE ArchiveInv'
    BY <2>3, RunBoundsAssumption DEF Replace, ArchiveInv
  <2>4. ASSUME NEW b \in archive, NEW i \in DOMAIN b.records, NEW status \in EvidenceStatus,
               NEW rehash \in BOOLEAN, ChangeStatus(b, i, status, rehash)
        PROVE  ArchiveInv'
    <3> DEFINE changed == [b EXCEPT !.records[i].status = status]
    <3>1. Replace(b, IF rehash THEN BundleWithComputedHashes(changed) ELSE changed)
      BY <2>4, Zenon DEF ChangeStatus
    <3>2. Constructed(changed)
      BY RecordChanges DEF ArchiveInv, LooksLike
    <3> HIDE DEF changed
    <3>3. Constructed(BundleWithComputedHashes(changed))
      BY <3>2, HashedBundle
    <3> QED BY <2>3, <3>1, <3>2, <3>3
  <2>5. ASSUME NEW b \in archive, LoseHashes(b) PROVE ArchiveInv'
    BY <2>3, <2>5, LostHashes, Zenon DEF LoseHashes, ArchiveInv
  <2>6. CASE UNCHANGED vars
    BY <2>6 DEF vars, ArchiveInv
  <2> QED BY <2>1, <2>2, <2>4, <2>5, <2>6 DEF Next
<1> QED BY <1>1, <1>2, PTL DEF Spec

\* There is at most one latest run, with values of the enumerations in its result,
\* and every bundle at hand could be constructed.
THEOREM TypeCorrect == Spec => []TypeOK
<1>1. ASSUME NEW in, HasCatalogShape(in.catalog), Failure(in) = "none"
      PROVE  LET result == RunResult(in) IN
             /\ result.final_decision \in AutonomyDecisionType
             /\ result.final_authority_state \in RuntimeAuthorityState
             /\ result.verification_result \in VerificationResult
             /\ result.operator_review_required \in BOOLEAN
             /\ result.degraded_mode \in BOOLEAN
             /\ result.levels \subseteq DegradationLevel
  <2> DEFINE result == RunResult(in)
             signals == SignalsOf(in)
             satisfied == SatisfiesExpectedBehavior(result.final_decision,
                            result.final_authority_state,
                            ExpectedBehavior(in.catalog, in.scenario_id))
  <2>1. /\ result.verification_result = VerificationOf(satisfied)
        /\ result.levels = {s.level : s \in signals}
    BY DEF RunResult
  <2>2. /\ result.operator_review_required
             = \/ GateOf(in).operator_review_required
               \/ AnyDegraded(signals)
               \/ ~PermitsAutonomousExecution(result.final_authority_state)
               \/ IsRestrictive(result.final_decision)
        /\ result.degraded_mode = (GateOf(in).degraded_mode \/ AnyDegraded(signals))
    BY DEF RunResult
  <2>3. result.final_decision \in AutonomyDecisionType
        /\ result.final_authority_state \in RuntimeAuthorityState
    BY <1>1, FinalFacts
  <2>4. result.levels \subseteq DegradationLevel
    BY <2>1, SignalLevels
  <2> HIDE DEF result, signals, satisfied
  <2>5. result.verification_result \in VerificationResult
    BY <2>1 DEF VerificationOf, VerificationResult
  <2>6. result.operator_review_required \in BOOLEAN /\ result.degraded_mode \in BOOLEAN
    BY <2>2
  <2> QED BY <2>3, <2>4, <2>5, <2>6 DEF result
<1>2. LastIsARun /\ ArchiveInv => TypeOK
  BY <1>1, CompletedIsARun DEF ArchiveInv, TypeOK
<1> QED BY <1>2, LastIsInvariant, ArchiveInvariant, PTL

\* The bundle that a run leaves behind raises no signal.
THEOREM FreshIsClean == Spec => FreshEvidenceIsClean
<1> DEFINE A == \A b \in archive' \ archive : damage' = damage => BundleSignals(b) = {}
<1>1. ArchiveInv /\ [Next]_vars => [A]_vars
  <2> SUFFICES ASSUME ArchiveInv, Next, NEW b \in archive' \ archive, damage' = damage
               PROVE  BundleSignals(b) = {}
    OBVIOUS
  <2>1. ASSUME NEW in, Run(in) \/ RunRaises(in) PROVE BundleSignals(b) = {}
    BY <2>1, FreshBundle DEF Run, RunRaises
  <2>2. ASSUME NEW c, NEW d, Replace(c, d) PROVE FALSE
    BY <2>2, RunBoundsAssumption DEF Replace, ArchiveInv
  <2> QED BY <2>1, <2>2 DEF Next, ChangeStatus, LoseHashes
<1> QED BY <1>1, ArchiveInvariant, PTL DEF Spec, FreshEvidenceIsClean
==============================================================================
