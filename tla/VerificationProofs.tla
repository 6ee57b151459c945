-------------------------- MODULE VerificationProofs --------------------------
(***************************************************************************)
(* What the acceptance of a run means, for any assurance cases, catalogs,  *)
(* telemetry and rules, and however the bundle of the run was changed      *)
(* between the run, its verification and the report.                       *)
(***************************************************************************)
EXTENDS VerificationPipeline, RunnerProofs

(* Acceptance.                                                             *)

\* An accepted run passed every one of its checks.
LEMMA AcceptedPasses ==
  ASSUME NEW required, NEW k, NEW c, NEW r, NEW g,
         Accepted(VerifyRun(required, k, c, r, g)),
         NEW check \in RunVerificationChecks(required, k, c, r, g)
  PROVE  check.result # "fail" /\ check.result # "inconclusive"
<1> DEFINE checks == RunVerificationChecks(required, k, c, r, g)
<1>1. OverallResult(checks) = "pass"
  BY DEF Accepted, VerifyRun
<1> HIDE DEF checks
<1>2. \A x \in checks : x.result # "fail" /\ x.result \notin {"inconclusive", "not_run"}
  BY <1>1 DEF OverallResult
<1> QED BY <1>2 DEF checks

\* What the checks of an accepted run leave no room for.
LEMMA AcceptedFacts ==
  ASSUME NEW required, NEW k, NEW c, NEW r, NEW g,
         Accepted(VerifyRun(required, k, c, r, g))
  PROVE  /\ CaseErrors(k) = {} /\ UnresolvedHazards(k) = {}
         /\ r.result.expected_behavior_satisfied
         /\ ~(r.result.operator_review_required /\ r.result.final_decision = "allow")
         /\ IntegrityErrors(r.bundle) = {} /\ IntegrityWarnings(r.bundle) = {}
<1> DEFINE checks == RunVerificationChecks(required, k, c, r, g)
<1>1. CaseChecks(k) \cup RunChecks(r) \cup BundleChecks(r) \subseteq checks
  BY DEF RunVerificationChecks
<1>2. \A x \in CaseChecks(k) \cup RunChecks(r) \cup BundleChecks(r) :
        x.result # "fail" /\ x.result # "inconclusive"
  BY <1>1, AcceptedPasses
<1>3. ASSUME NEW errors, NEW warnings, Verdict(errors, warnings) # "fail",
             Verdict(errors, warnings) # "inconclusive"
      PROVE  errors = {} /\ warnings = {}
  BY <1>3 DEF Verdict
<1>4. \A name, result : Check(name, result).result = result
  BY DEF Check
<1>5. CaseErrors(k) = {} /\ UnresolvedHazards(k) = {}
  <2>1. /\ Check(<<"assurance-case-valid">>, Verdict(CaseErrors(k), {})) \in CaseChecks(k)
        /\ Check(<<"severe-hazards-resolved">>, Verdict(UnresolvedHazards(k), {}))
             \in CaseChecks(k)
    BY DEF CaseChecks
  <2> QED BY <1>2, <1>3, <1>4, <2>1
<1>6. IntegrityErrors(r.bundle) = {} /\ IntegrityWarnings(r.bundle) = {}
  <2>1. Check(<<"evidence-bundle-integrity">>,
              Verdict(IntegrityErrors(r.bundle), IntegrityWarnings(r.bundle)))
          \in BundleChecks(r)
    BY DEF BundleChecks
  <2> QED BY <1>2, <1>3, <1>4, <2>1
<1>7. r.result.expected_behavior_satisfied
  <2>1. Check(<<"expected-safe-behavior">>,
              PassOrFail(r.result.expected_behavior_satisfied)) \in RunChecks(r)
    BY DEF RunChecks
  <2>2. PassOrFail(r.result.expected_behavior_satisfied) # "fail"
    BY <1>2, <1>4, <2>1
  <2> QED BY <2>2 DEF PassOrFail
<1>8. ~(r.result.operator_review_required /\ r.result.final_decision = "allow")
  <2> DEFINE result == IF r.result.operator_review_required /\ r.result.final_decision = "allow"
                       THEN "inconclusive" ELSE "pass"
  <2>1. Check(<<"operator-review-consistency">>, result) \in RunChecks(r)
    BY DEF RunChecks
  <2>2. result # "inconclusive"
    <3> HIDE DEF result
    <3> QED BY <1>2, <1>4, <2>1
  <2> QED BY <2>2
<1> QED BY <1>5, <1>6, <1>7, <1>8

------------------------------------------------------------------------------
(* The invariant.                                                          *)

\* The hashes that are left of the bundle of a run are those it was made with, unless
\* someone computed them again.
KeepsItsHashes(r) ==
  \/ r.rehashed
  \/ r.bundle.bundle_hash = {}
  \/ r.bundle.bundle_hash = r.made.bundle_hash

\* What the caller holds of a run: the result and the bundle that run returned for its
\* inputs, and a bundle that may have been changed since.
IsRun(r) ==
  /\ r = [run_id |-> r.run_id, case_id |-> r.case_id, scenario_id |-> r.scenario_id,
          in |-> r.in, result |-> r.result, bundle |-> r.bundle, made |-> r.made,
          rehashed |-> r.rehashed]
  /\ HasCatalogShape(r.in.catalog)
  /\ Failure(r.in) = "none"
  /\ r.result = RunResult(r.in)
  /\ r.made = RunBundle(r.in, r.result)
  /\ Constructed(r.bundle)
  /\ 1 \in DOMAIN r.bundle.records
  /\ r.rehashed \in BOOLEAN
  /\ KeepsItsHashes(r)

\* A graph was built from a case, a catalog and some bundles, and the build did not
\* raise.
IsBuilt(g) ==
  \E bundles :
    LET from == TraceInputs(MissionNeed, Requirements, g.case, g.catalog, bundles)
    IN  /\ g.graph = Graph(from)
        /\ ~BuildRaises(from)
        /\ g.scopes = {b.scope : b \in bundles}

\* A summary is what verify_run made of what it remembers.
IsVerified(s) ==
  /\ IsRun(s.run)
  /\ \E required \in BOOLEAN : s.made = VerifyRun(required, s.case, s.catalog, s.run, s.graph)

PipelineInv ==
  /\ case \in Cases /\ catalog \in Catalogs
  /\ \A g \in graph : IsBuilt(g)
  /\ \A r \in run : IsRun(r)
  /\ \A s \in summary : IsVerified(s)
  /\ runs \in 0..MaxRuns /\ changes \in 0..MaxChanges

\* A change to the bundle of a run that leaves a constructible bundle, with the old
\* hash of the bundle, none, or one computed afresh.
LEMMA ReplacedBundle ==
  ASSUME PipelineInv, NEW r \in run, NEW b, NEW rehashed \in BOOLEAN,
         ReplaceBundle(r, b, rehashed), Constructed(b), 1 \in DOMAIN b.records,
         rehashed \/ b.bundle_hash = {} \/ b.bundle_hash = r.bundle.bundle_hash
  PROVE  PipelineInv'
<1> DEFINE new == [r EXCEPT !.bundle = b, !.rehashed = @ \/ rehashed]
<1>1. /\ run' = {new} /\ changes' \in 0..MaxChanges
      /\ UNCHANGED <<case, catalog, graph, summary, runs>>
  BY PipelineAssumption DEF ReplaceBundle, Change, PipelineInv
<1>2. IsRun(r)
  BY DEF PipelineInv
<1>3. new = [run_id |-> r.run_id, case_id |-> r.case_id, scenario_id |-> r.scenario_id,
             in |-> r.in, result |-> r.result, bundle |-> b, made |-> r.made,
             rehashed |-> r.rehashed \/ rehashed]
  <2> DEFINE m == [r EXCEPT !.bundle = b]
             y == r.rehashed \/ rehashed
  <2>1. m = [run_id |-> r.run_id, case_id |-> r.case_id, scenario_id |-> r.scenario_id,
             in |-> r.in, result |-> r.result, bundle |-> b, made |-> r.made,
             rehashed |-> r.rehashed]
    BY <1>2 DEF IsRun
  <2>2. new = [m EXCEPT !.rehashed = y]
    BY <2>1
  <2> HIDE DEF m, y
  <2>3. [m EXCEPT !.rehashed = y]
          = [run_id |-> r.run_id, case_id |-> r.case_id, scenario_id |-> r.scenario_id,
             in |-> r.in, result |-> r.result, bundle |-> b, made |-> r.made, rehashed |-> y]
    BY <2>1
  <2> HIDE DEF new
  <2> QED BY <2>2, <2>3 DEF y
<1> HIDE DEF new
<1>4. IsRun(new)
  BY <1>2, <1>3 DEF IsRun, KeepsItsHashes
<1> QED BY <1>1, <1>4 DEF PipelineInv

\* A case, a catalog, a graph, a run, its bundle and its summary stay what they are.
LEMMA PipelineInvariant == Spec => []PipelineInv
<1>1. Init => PipelineInv
  BY PipelineAssumption DEF Init, PipelineInv
<1>2. PipelineInv /\ [Next]_vars => PipelineInv'
  <2> SUFFICES ASSUME PipelineInv, [Next]_vars PROVE PipelineInv'
    OBVIOUS
  <2>1. ASSUME NEW c \in Cases, EditCase(c) PROVE PipelineInv'
    BY <2>1, PipelineAssumption DEF EditCase, Change, PipelineInv
  <2>2. ASSUME NEW c \in Catalogs, EditCatalog(c) PROVE PipelineInv'
    BY <2>2, PipelineAssumption DEF EditCatalog, Change, PipelineInv
  <2>3. ASSUME NEW bundles, BuildGraph(bundles) PROVE PipelineInv'
    <3> DEFINE from == TraceInputs(MissionNeed, Requirements, case, catalog, bundles)
               g    == [graph |-> Graph(from), case |-> case, catalog |-> catalog,
                        scopes |-> {b.scope : b \in bundles}]
    <3>1. /\ ~BuildRaises(from)
          /\ graph' = {g}
          /\ UNCHANGED <<case, catalog, run, summary, runs, changes>>
      BY <2>3, Zenon DEF BuildGraph
    <3>2. IsBuilt(g)
      <4>1. /\ g.graph = Graph(from) /\ g.case = case /\ g.catalog = catalog
            /\ g.scopes = {b.scope : b \in bundles}
        OBVIOUS
      <4> HIDE DEF g
      <4> QED BY <3>1, <4>1 DEF IsBuilt
    <3> HIDE DEF g, from
    <3> QED BY <3>1, <3>2 DEF PipelineInv
  <2>4. ASSUME NEW s, NEW t \in Snapshots, NEW id \in RunIds, RunScenario(s, t, id)
        PROVE  PipelineInv'
    <3> DEFINE in     == Inputs(catalog, s, t, {}, id)
               result == RunResult(in)
               made   == RunBundle(in, result)
               r      == [run_id |-> id, case_id |-> case.case_id, scenario_id |-> s,
                          in |-> in, result |-> result, bundle |-> made,
                          made |-> made, rehashed |-> FALSE]
    <3>1. /\ runs < MaxRuns /\ runs' = runs + 1
          /\ Failure(in) = "none"
          /\ run' = {r}
          /\ UNCHANGED <<case, catalog, graph, summary, changes>>
      BY <2>4, Zenon DEF RunScenario
    <3>2. HasCatalogShape(in.catalog)
      BY PipelineAssumption DEF PipelineInv, Inputs
    <3>3. Constructed(made) /\ 1 \in DOMAIN made.records
      BY FreshBundle
    <3>4. made = RunBundle(in, result) /\ result = RunResult(in)
      OBVIOUS
    <3> HIDE DEF made, in, result
    <3>5. IsRun(r)
      BY <3>1, <3>2, <3>3, <3>4 DEF IsRun, KeepsItsHashes
    <3> HIDE DEF r
    <3> QED BY <3>1, <3>5, PipelineAssumption DEF PipelineInv
  <2>5. ASSUME NEW r \in run, NEW status \in Statuses, ChangeStatus(r, status)
        PROVE  PipelineInv'
    <3> DEFINE b == [r.bundle EXCEPT !.records[1].status = status]
    <3>1. Constructed(r.bundle) /\ 1 \in DOMAIN r.bundle.records
      BY DEF PipelineInv, IsRun
    <3>2. LooksLike(b, r.bundle)
      BY <3>1, RecordChanges, PipelineAssumption
    <3>3. ReplaceBundle(r, b, FALSE)
      BY <2>5, Zenon DEF ChangeStatus
    <3> HIDE DEF b
    <3> QED BY <3>1, <3>2, <3>3, ReplacedBundle DEF LooksLike
  <2>6. ASSUME NEW r \in run, ChangeContent(r) PROVE PipelineInv'
    <3> DEFINE x == [r.bundle.records[1].content EXCEPT !.final_decision = "edited"]
               b == [r.bundle EXCEPT !.records[1].content = x]
    <3>1. Constructed(r.bundle) /\ 1 \in DOMAIN r.bundle.records
      BY DEF PipelineInv, IsRun
    <3>2. ReplaceBundle(r, b, FALSE)
      BY <2>6, Zenon DEF ChangeContent
    <3> HIDE DEF x
    <3>3. LooksLike(b, r.bundle)
      BY <3>1, RecordChanges
    <3> HIDE DEF b
    <3> QED BY <3>1, <3>2, <3>3, ReplacedBundle DEF LooksLike
  <2>7. ASSUME NEW r \in run, LoseHashes(r) PROVE PipelineInv'
    <3> DEFINE m == [r.bundle EXCEPT !.records[1].content_hash = {}]
               b == [m EXCEPT !.bundle_hash = {}]
    <3>1. Constructed(r.bundle) /\ 1 \in DOMAIN r.bundle.records
      BY DEF PipelineInv, IsRun
    <3>2. LooksLike(m, r.bundle)
      BY <3>1, RecordChanges
    <3>3. ReplaceBundle(r, b, FALSE)
      BY <2>7, Zenon DEF LoseHashes
    <3> HIDE DEF m
    <3>4. Constructed(b) /\ b.bundle_hash = {} /\ 1 \in DOMAIN b.records
      BY <3>1, <3>2, UnhashedBundle DEF LooksLike
    <3> HIDE DEF b
    <3> QED BY <3>3, <3>4, ReplacedBundle
  <2>8. ASSUME NEW r \in run, Rehash(r) PROVE PipelineInv'
    <3> DEFINE b == BundleWithComputedHashes(r.bundle)
    <3>1. Constructed(r.bundle) /\ 1 \in DOMAIN r.bundle.records
      BY DEF PipelineInv, IsRun
    <3>2. Constructed(b) /\ 1 \in DOMAIN b.records
      BY <3>1, HashedBundle
    <3>3. ReplaceBundle(r, b, TRUE)
      BY <2>8 DEF Rehash
    <3> HIDE DEF b
    <3> QED BY <3>2, <3>3, ReplacedBundle
  <2>9. ASSUME NEW r \in run, NEW required \in BOOLEAN, Verify(r, required)
        PROVE  PipelineInv'
    <3> DEFINE s == [made |-> VerifyRun(required, case, catalog, r, Graphs),
                     case |-> case, catalog |-> catalog, run |-> r, graph |-> Graphs]
    <3>1. summary' = {s} /\ UNCHANGED <<case, catalog, graph, run, runs, changes>>
      BY <2>9 DEF Verify
    <3>2. /\ s.run = r /\ s.made = VerifyRun(required, case, catalog, r, Graphs)
          /\ s.case = case /\ s.catalog = catalog /\ s.graph = Graphs
      OBVIOUS
    <3> HIDE DEF s
    <3>3. IsVerified(s)
      BY <3>2 DEF IsVerified, PipelineInv
    <3> QED BY <3>1, <3>3 DEF PipelineInv
  <2>10. CASE UNCHANGED vars
    BY <2>10 DEF vars, PipelineInv
  <2> QED BY <2>1, <2>2, <2>3, <2>4, <2>5, <2>6, <2>7, <2>8, <2>9, <2>10 DEF Next
<1> QED BY <1>1, <1>2, PTL DEF Spec

------------------------------------------------------------------------------
(* Types.                                                                  *)

\* Every check of a verification has a result of the enumeration, and there is one at
\* least.
LEMMA ChecksHaveResults ==
  ASSUME NEW required, NEW k, NEW c, NEW r, NEW g
  PROVE  LET checks == RunVerificationChecks(required, k, c, r, g) IN
         /\ checks # {}
         /\ \A x \in checks : x.result \in VerificationResult
         /\ OverallResult(checks) \in VerificationResult
<1> DEFINE checks == RunVerificationChecks(required, k, c, r, g)
           Good(S) == \A x \in S : x.result \in VerificationResult
<1>1. /\ \A errors, warnings : Verdict(errors, warnings) \in VerificationResult
      /\ \A satisfied : PassOrFail(satisfied) \in VerificationResult
      /\ "pass" \in VerificationResult /\ "fail" \in VerificationResult
      /\ "inconclusive" \in VerificationResult
  BY DEF Verdict, PassOrFail, VerificationResult
<1>2. \A id, result : Check(id, result).result = result
  BY DEF Check
<1>3. Good(CaseChecks(k))
  BY <1>1, <1>2 DEF CaseChecks
<1>4. Good(CatalogChecks(c))
  BY <1>1, <1>2 DEF CatalogChecks
<1>5. Good(RunChecks(r))
  BY <1>1, <1>2 DEF RunChecks
<1>6. Good(BundleChecks(r))
  BY <1>1, <1>2 DEF BundleChecks
<1>7. Good(TraceChecks(required, k, g, r))
  BY <1>1, <1>2 DEF TraceChecks
<1>8. Good(ScenarioChecks(k, c, r))
  <2> DEFINE s == Lookup(c.scenarios, r.scenario_id)
  <2>1. Good(CriterionChecks(c, s, r))
    <3> SUFFICES ASSUME NEW id \in s.criteria
                 PROVE  (IF id \in Ids(c.criteria)
                         THEN Check(<<"acceptance-criterion", id>>,
                                    PassOrFail(r.result.verification_result =
                                                 Lookup(c.criteria, id).required_result))
                         ELSE Check(<<"acceptance-criterion-present", id>>, "fail")).result
                           \in VerificationResult
      BY Zenon DEF CriterionChecks
    <3>1. CASE id \in Ids(c.criteria)
      BY <3>1 DEF Check, PassOrFail, VerificationResult
    <3>2. CASE id \notin Ids(c.criteria)
      BY <1>1, <1>2, <3>2
    <3> QED BY <3>1, <3>2
  <2>2. Good(EvidenceChecks(c, s, r))
    BY <1>1, <1>2 DEF EvidenceChecks
  <2>3. Good(HazardChecks(k, s))
    BY DEF HazardChecks, Check, PassOrFail, VerificationResult
  <2> HIDE DEF s
  <2>4. Good({Check(<<"scenario-present">>, "fail")})
    BY <1>1, <1>2
  <2>5. \/ ScenarioChecks(k, c, r) = {Check(<<"scenario-present">>, "fail")}
        \/ ScenarioChecks(k, c, r)
             = UNION {CriterionChecks(c, s, r), EvidenceChecks(c, s, r), HazardChecks(k, s)}
    BY DEF ScenarioChecks, s
  <2> QED BY <2>1, <2>2, <2>3, <2>4, <2>5
<1>9. checks = UNION {CaseChecks(k), CatalogChecks(c), ScenarioChecks(k, c, r),
                      RunChecks(r), BundleChecks(r), TraceChecks(required, k, g, r)}
  BY DEF RunVerificationChecks
<1>10. BundleChecks(r) # {}
  BY DEF BundleChecks
<1> HIDE DEF checks
<1>11. checks # {} /\ Good(checks)
  BY <1>3, <1>4, <1>5, <1>6, <1>7, <1>8, <1>9, <1>10
<1>12. OverallResult(checks) \in VerificationResult
  BY DEF OverallResult, VerificationResult
<1> QED BY <1>11, <1>12 DEF checks

\* Values of the types the code declares, no edge from a node to itself, and bundles
\* that can be constructed.
THEOREM TypeCorrect == Spec => []TypeOK
<1>1. PipelineInv => TypeOK
  <2> SUFFICES ASSUME PipelineInv PROVE TypeOK
    OBVIOUS
  <2>1. ASSUME NEW g \in graph, NEW edge \in g.graph.edges PROVE edge[1] # edge[2]
    BY Zenon DEF PipelineInv, IsBuilt, BuildRaises
  <2>2. \A r \in run : WellFormedRecords(r.bundle.records) /\ r.rehashed \in BOOLEAN
    BY DEF PipelineInv, IsRun, Constructed
  <2>3. ASSUME NEW s \in summary
        PROVE  /\ s.made.overall_result \in VerificationResult
               /\ s.made.checks # {}
               /\ \A c \in s.made.checks : c.result \in VerificationResult
    <3>1. PICK required : s.made = VerifyRun(required, s.case, s.catalog, s.run, s.graph)
      BY DEF PipelineInv, IsVerified
    <3> DEFINE checks == RunVerificationChecks(required, s.case, s.catalog, s.run, s.graph)
    <3>2. s.made.checks = checks /\ s.made.overall_result = OverallResult(checks)
      BY <3>1 DEF VerifyRun
    <3> HIDE DEF checks
    <3>3. checks # {} /\ (\A c \in checks : c.result \in VerificationResult)
          /\ OverallResult(checks) \in VerificationResult
      BY ChecksHaveResults DEF checks
    <3> QED BY <3>2, <3>3
  <2> QED BY <2>1, <2>2, <2>3 DEF TypeOK, PipelineInv
<1> QED BY <1>1, PipelineInvariant, PTL

------------------------------------------------------------------------------
(* What acceptance means.                                                  *)

\* An accepted summary is of a run, and leaves no room for what its checks look at.
LEMMA AcceptedSummary ==
  ASSUME PipelineInv, NEW s \in AcceptedSummaries
  PROVE  /\ IsRun(s.run)
         /\ CaseErrors(s.case) = {} /\ UnresolvedHazards(s.case) = {}
         /\ s.run.result.expected_behavior_satisfied
         /\ ~(s.run.result.operator_review_required /\ s.run.result.final_decision = "allow")
         /\ IntegrityErrors(s.run.bundle) = {} /\ IntegrityWarnings(s.run.bundle) = {}
         /\ \A c \in s.made.checks : c.result # "fail"
         /\ s.made.overall_result = "pass"
<1>1. s \in summary /\ Accepted(s.made)
  BY DEF AcceptedSummaries
<1>2. PICK required : s.made = VerifyRun(required, s.case, s.catalog, s.run, s.graph)
  BY <1>1 DEF PipelineInv, IsVerified
<1>3. s.made.checks = RunVerificationChecks(required, s.case, s.catalog, s.run, s.graph)
  BY <1>2 DEF VerifyRun
<1>4. \A c \in s.made.checks : c.result # "fail"
  BY <1>1, <1>2, <1>3, AcceptedPasses
<1> QED BY <1>1, <1>2, <1>4, AcceptedFacts DEF PipelineInv, IsVerified, Accepted

\* An accepted run that ends with allow also has the authority for it: the review flag
\* that the verification looks at is exact.
THEOREM AcceptanceNeedsAuthority == Spec => []AcceptedRunIsAuthorised
<1>1. PipelineInv => AcceptedRunIsAuthorised
  <2> SUFFICES ASSUME PipelineInv, NEW s \in AcceptedSummaries,
                      s.run.result.final_decision = "allow"
               PROVE  Nominal(s.run.result)
    BY DEF AcceptedRunIsAuthorised
  <2>1. IsRun(s.run) /\ ~s.run.result.operator_review_required
    BY AcceptedSummary
  <2> QED BY <2>1, ReviewedRun DEF IsRun
<1> QED BY <1>1, PipelineInvariant, PTL

\* An accepted run of a scenario with a severe stressor is not nominal.
THEOREM AcceptanceContains == Spec => []AcceptedSevereRunIsContained
<1>1. PipelineInv => AcceptedSevereRunIsContained
  <2> SUFFICES ASSUME PipelineInv, NEW s \in AcceptedSummaries,
                      SevereStressors(s.run.in.catalog, ScenarioOf(s.run.in)) # {}
               PROVE  ~Nominal(s.run.result)
    BY DEF AcceptedSevereRunIsContained
  <2> DEFINE in == s.run.in
  <2>1. /\ HasCatalogShape(in.catalog) /\ Failure(in) = "none"
        /\ s.run.result = RunResult(in)
        /\ s.run.result.expected_behavior_satisfied
    BY AcceptedSummary DEF IsRun
  <2>2. RunResult(in).verification_result
          = VerificationOf(RunResult(in).expected_behavior_satisfied)
    BY DEF RunResult
  <2>3. s.run.result.verification_result # "fail"
    BY <2>1, <2>2 DEF VerificationOf
  <2> QED BY <2>1, <2>3, SevereRun
<1> QED BY <1>1, PipelineInvariant, PTL

\* A bundle without a finding that kept its hashes is the one the run made: its hash
\* covers its id, its scope and every record.
LEMMA CleanBundleIsTheOneMade ==
  ASSUME NEW r, IsRun(r), ~r.rehashed,
         IntegrityErrors(r.bundle) = {}, IntegrityWarnings(r.bundle) = {}
  PROVE  r.bundle = r.made
<1>1. MissingHashWarnings(r.bundle) = {}
  BY DEF IntegrityWarnings
<1>2. /\ r.bundle.bundle_hash = {CalculateBundleHash(r.bundle)}
      /\ BundleWithComputedHashes(r.bundle) = r.bundle
  BY <1>1, CleanIsHashed DEF IsRun
<1>3. /\ Constructed(r.made)
      /\ r.made.bundle_hash = {CalculateBundleHash(r.made)}
      /\ BundleWithComputedHashes(r.made) = r.made
  BY FreshBundle, CleanIsHashed DEF IsRun
<1>4. r.bundle.bundle_hash = r.made.bundle_hash
  BY <1>2 DEF IsRun, KeepsItsHashes
<1>5. CalculateBundleHash(r.bundle) = CalculateBundleHash(r.made)
  BY <1>2, <1>3, <1>4
<1>6. BundleMaterial(r.bundle) = BundleMaterial(r.made)
  BY <1>5, HashIsInjective DEF CalculateBundleHash
<1>7. BundleWithComputedHashes(r.bundle) = BundleWithComputedHashes(r.made)
  <2>1. /\ r.bundle.bundle_id = r.made.bundle_id /\ r.bundle.scope = r.made.scope
        /\ RecordsWithComputedHashes(r.bundle.records)
             = RecordsWithComputedHashes(r.made.records)
    BY <1>6 DEF BundleMaterial
  <2> QED BY <1>3, <1>5, <2>1, HashedBundle DEF IsRun
<1> QED BY <1>2, <1>3, <1>7

\* Acceptance means that the bundle is the one the run made, unless someone computed
\* its hashes again after a change.
THEOREM AcceptanceSeesDamage == Spec => []OnlyRehashingHidesDamage
<1>1. PipelineInv => OnlyRehashingHidesDamage
  BY AcceptedSummary, CleanBundleIsTheOneMade DEF OnlyRehashingHidesDamage
<1> QED BY <1>1, PipelineInvariant, PTL

\* The report on a run shows damage that was done after the verification.
THEOREM ReportShowsDamage == Spec => []LaterDamageShows
<1>1. ASSUME NEW k, NEW r, NEW made, NEW g
      PROVE  Report(k, r, made, g).sections.evidence_integrity = IntegritySeverity(r.bundle)
  BY DEF Report, Sections
<1>2. PipelineInv => LaterDamageShows
  <2> SUFFICES ASSUME PipelineInv, NEW s \in AcceptedSummaries, NEW r \in run,
                      r.bundle # r.made, ~r.rehashed
               PROVE  Report(case, r, s.made, Graphs).sections.evidence_integrity # "info"
    BY DEF LaterDamageShows
  <2>1. IntegrityErrors(r.bundle) # {} \/ IntegrityWarnings(r.bundle) # {}
    BY CleanBundleIsTheOneMade DEF PipelineInv
  <2>2. IntegritySeverity(r.bundle) # "info"
    BY <2>1 DEF IntegritySeverity, SeverityOf
  <2> QED BY <1>1, <2>2
<1> QED BY <1>2, PipelineInvariant, PTL

\* An accepted report has no section of severity error, as long as case, run and graph
\* are the ones that were verified.
THEOREM AcceptanceIsFreeOfErrors == Spec => []NoErrorBehindAcceptance
<1>1. PipelineInv => NoErrorBehindAcceptance
  <2> SUFFICES ASSUME PipelineInv, NEW s \in AcceptedSummaries, NEW r \in run,
                      s.case = case, s.run = r
               PROVE  ~HasErrorSection(Report(case, r, s.made, Graphs))
    BY DEF NoErrorBehindAcceptance
  <2> DEFINE sections == Sections(case, r, s.made, Graphs)
  <2>1. /\ CaseErrors(case) = {} /\ UnresolvedHazards(case) = {}
        /\ r.result.expected_behavior_satisfied
        /\ IntegrityErrors(r.bundle) = {}
        /\ \A c \in s.made.checks : c.result # "fail"
        /\ s.made.overall_result = "pass"
    BY AcceptedSummary
  <2>2. \A warnings : SeverityOf(FALSE, warnings) # "error"
    BY DEF SeverityOf
  <2>3. SeverityFromResult(s.made.overall_result) # "error"
    BY <2>1 DEF SeverityFromResult
  <2>4. OutcomeSeverity(r.result) # "error"
    BY <2>1 DEF OutcomeSeverity, SeverityOf
  <2>5. GapSeverity(case) # "error"
    <3>1. MissingEvidenceIds(case) = {}
      <4>1. EvidenceReferenceErrors(case) = {}
        BY <2>1 DEF CaseErrors, ContentErrors, CaseReferenceErrors
      <4>2. \A x \in EvidenceUsers(case) :
              MissingReferences(x.id, "evidence", x.evidence, Ids(case.evidence)) = {}
        BY <4>1 DEF EvidenceReferenceErrors
      <4>3. \A x \in EvidenceUsers(case) : x.evidence \subseteq Ids(case.evidence)
        BY <4>2 DEF MissingReferences
      <4> QED BY <4>3 DEF MissingEvidenceIds
    <3> QED BY <2>1, <3>1 DEF GapSeverity, SeverityOf
  <2>6. ClaimSeverity(case) # "error"
    BY DEF ClaimSeverity, SeverityOf
  <2>7. CriteriaSeverity(s.made) # "error"
    BY <2>1 DEF CriteriaSeverity, SeverityOf
  <2>8. IntegritySeverity(r.bundle) # "error"
    BY <2>1 DEF IntegritySeverity, SeverityOf
  <2>9. TraceSeverity(s.made, Graphs) # "error"
    BY <2>1 DEF TraceSeverity, SeverityOf
  <2>10. \A title \in DOMAIN sections : sections[title] # "error"
    <3> HIDE DEF Graphs
    <3> QED BY <2>3, <2>4, <2>5, <2>6, <2>7, <2>8, <2>9 DEF Sections
  <2> HIDE DEF sections
  <2>11. Report(case, r, s.made, Graphs).sections = sections
    BY DEF Report, sections
  <2> QED BY <2>10, <2>11 DEF HasErrorSection
<1> QED BY <1>1, PipelineInvariant, PTL

------------------------------------------------------------------------------
(* The traceability graph.                                                 *)

LEMMA NothingMissing ==
  ASSUME NEW owner, NEW kind, NEW ids, NEW existing,
         MissingReferences(owner, kind, ids, existing) = {}
  PROVE  ids \subseteq existing
BY DEF MissingReferences

\* What the validation of a catalog resolves.
LEMMA ValidCatalogResolves ==
  ASSUME NEW c, IsValidCatalog(c)
  PROVE  /\ \A t \in c.threads :
              {t.context} \cup t.functions \cup t.scenarios \subseteq CatalogNodes(c)
         /\ \A s \in c.scenarios :
              UNION {{s.context, s.function, s.behavior}, s.conditions, s.stressors, s.criteria}
                \subseteq CatalogNodes(c)
<1>1. /\ \A t \in c.threads : ThreadErrors(c, t) = {}
      /\ \A s \in c.scenarios : ScenarioReferenceErrors(c, s) = {}
  <2> DEFINE ofThreads == {ThreadErrors(c, t) : t \in c.threads}
             ofScenario(s) == ScenarioReferenceErrors(c, s) \cup StressorResponseErrors(c, s)
             ofScenarios == {ofScenario(s) : s \in c.scenarios}
  <2>1. UNION ofThreads = {} /\ UNION ofScenarios = {}
    BY Zenon DEF IsValidCatalog, CatalogErrors
  <2>2. \A t \in c.threads : ThreadErrors(c, t) = {}
    BY <2>1
  <2>3. \A s \in c.scenarios : ofScenario(s) = {}
    BY <2>1
  <2> QED BY <2>2, <2>3
<1>2. ASSUME NEW t \in c.threads
      PROVE  {t.context} \cup t.functions \cup t.scenarios \subseteq CatalogNodes(c)
  <2>1. /\ MissingReferences(t.id, "context", {t.context}, c.contexts) = {}
        /\ MissingReferences(t.id, "function", t.functions, c.functions) = {}
        /\ MissingReferences(t.id, "scenario", t.scenarios, Ids(c.scenarios)) = {}
    BY <1>1 DEF ThreadErrors
  <2>2. /\ {t.context} \subseteq c.contexts /\ t.functions \subseteq c.functions
        /\ t.scenarios \subseteq Ids(c.scenarios)
    BY <2>1, NothingMissing
  <2> QED BY <2>2 DEF CatalogNodes
<1>3. ASSUME NEW s \in c.scenarios
      PROVE  UNION {{s.context, s.function, s.behavior}, s.conditions, s.stressors, s.criteria}
               \subseteq CatalogNodes(c)
  <2>1. /\ MissingReferences(s.id, "context", {s.context}, c.contexts) = {}
        /\ MissingReferences(s.id, "function", {s.function}, c.functions) = {}
        /\ MissingReferences(s.id, "condition", s.conditions, c.conditions) = {}
        /\ MissingReferences(s.id, "stressor", s.stressors, Ids(c.stressors)) = {}
        /\ MissingReferences(s.id, "behavior", {s.behavior}, Ids(c.behaviors)) = {}
        /\ MissingReferences(s.id, "criterion", s.criteria, Ids(c.criteria)) = {}
    BY <1>1 DEF ScenarioReferenceErrors
  <2>2. /\ {s.context} \subseteq c.contexts /\ {s.function} \subseteq c.functions
        /\ s.conditions \subseteq c.conditions /\ s.stressors \subseteq Ids(c.stressors)
        /\ {s.behavior} \subseteq Ids(c.behaviors) /\ s.criteria \subseteq Ids(c.criteria)
    BY <2>1, NothingMissing
  <2> QED BY <2>2 DEF CatalogNodes
<1> QED BY <1>2, <1>3

\* What the validation of an assurance case resolves.
LEMMA ValidCaseResolves ==
  ASSUME NEW k, IsValidCase(k)
  PROVE  /\ \A x \in EvidenceUsers(k) : x.evidence \subseteq CaseNodes(k)
         /\ \A x \in k.claims : UNION {x.subclaims, x.assumptions, x.criteria}
                                  \subseteq CaseNodes(k)
         /\ \A h \in k.hazards : h.controls \cup h.mitigations \subseteq CaseNodes(k)
         /\ \A x \in k.controls : x.hazards \subseteq CaseNodes(k)
         /\ \A m \in k.mitigations : {m.hazard, m.control} \subseteq CaseNodes(k)
<1>1. CaseReferenceErrors(k) = {}
  BY DEF IsValidCase, CaseErrors, ContentErrors
<1>2. ASSUME NEW x \in EvidenceUsers(k)
      PROVE  x.evidence \subseteq CaseNodes(k)
  <2>1. EvidenceReferenceErrors(k) = {}
    BY <1>1 DEF CaseReferenceErrors
  <2>2. MissingReferences(x.id, "evidence", x.evidence, Ids(k.evidence)) = {}
    BY <2>1 DEF EvidenceReferenceErrors
  <2> QED BY <2>2, NothingMissing DEF CaseNodes
<1>3. ASSUME NEW x \in k.claims
      PROVE  UNION {x.subclaims, x.assumptions, x.criteria} \subseteq CaseNodes(k)
  <2>1. /\ MissingReferences(x.id, "subclaim", x.subclaims, Ids(k.claims)) = {}
        /\ MissingReferences(x.id, "assumption", x.assumptions, Ids(k.assumptions)) = {}
        /\ MissingReferences(x.id, "criterion", x.criteria, Ids(k.criteria)) = {}
    <3> DEFINE ofClaim(y) ==
                 MissingReferences(y.id, "subclaim", y.subclaims, Ids(k.claims)) \cup
                 MissingReferences(y.id, "assumption", y.assumptions, Ids(k.assumptions)) \cup
                 MissingReferences(y.id, "criterion", y.criteria, Ids(k.criteria))
    <3>1. UNION {ofClaim(y) : y \in k.claims} \subseteq CaseReferenceErrors(k)
      BY Zenon DEF CaseReferenceErrors
    <3>2. ofClaim(x) = {}
      BY <1>1, <3>1
    <3> QED BY <3>2
  <2>2. /\ x.subclaims \subseteq Ids(k.claims) /\ x.assumptions \subseteq Ids(k.assumptions)
        /\ x.criteria \subseteq Ids(k.criteria)
    BY <2>1, NothingMissing
  <2> QED BY <2>2 DEF CaseNodes
<1>4. ASSUME NEW h \in k.hazards
      PROVE  h.controls \cup h.mitigations \subseteq CaseNodes(k)
  <2>1. /\ MissingReferences(h.id, "control", h.controls, Ids(k.controls)) = {}
        /\ MissingReferences(h.id, "mitigation", h.mitigations, Ids(k.mitigations)) = {}
    BY <1>1 DEF CaseReferenceErrors
  <2>2. h.controls \subseteq Ids(k.controls) /\ h.mitigations \subseteq Ids(k.mitigations)
    BY <2>1, NothingMissing
  <2> QED BY <2>2 DEF CaseNodes
<1>5. ASSUME NEW x \in k.controls
      PROVE  x.hazards \subseteq CaseNodes(k)
  <2>1. MissingReferences(x.id, "hazard", x.hazards, Ids(k.hazards)) = {}
    BY <1>1 DEF CaseReferenceErrors
  <2> QED BY <2>1, NothingMissing DEF CaseNodes
<1>6. ASSUME NEW m \in k.mitigations
      PROVE  {m.hazard, m.control} \subseteq CaseNodes(k)
  <2>1. /\ MissingReferences(m.id, "hazard", {m.hazard}, Ids(k.hazards)) = {}
        /\ MissingReferences(m.id, "control", {m.control}, Ids(k.controls)) = {}
    <3> DEFINE ofMitigation(y) ==
                 MissingReferences(y.id, "hazard", {y.hazard}, Ids(k.hazards)) \cup
                 MissingReferences(y.id, "control", {y.control}, Ids(k.controls))
    <3>1. UNION {ofMitigation(y) : y \in k.mitigations} \subseteq CaseReferenceErrors(k)
      BY Zenon DEF CaseReferenceErrors
    <3>2. ofMitigation(m) = {}
      BY <1>1, <3>1
    <3> QED BY <3>2
  <2>2. {m.hazard} \subseteq Ids(k.hazards) /\ {m.control} \subseteq Ids(k.controls)
    BY <2>1, NothingMissing
  <2> QED BY <2>2 DEF CaseNodes
<1> QED BY <1>2, <1>3, <1>4, <1>5, <1>6

\* Every edge of a catalog goes between ids that are known.
LEMMA CatalogEdgesAreKnown ==
  ASSUME NEW c, IsValidCatalog(c), NEW requirements, NEW known,
         CatalogNodes(c) \cup requirements \subseteq known,
         \A t \in c.threads : t.hazards \subseteq known,
         \A s \in c.scenarios : s.hazards \cup s.evidence \subseteq known
  PROVE  /\ RequirementEdges(requirements, c) \subseteq known \X known
         /\ \A t \in c.threads : ThreadEdges(t) \subseteq known \X known
         /\ \A s \in c.scenarios : ScenarioEdges(s) \subseteq known \X known
<1>1. /\ \A t \in c.threads : t.id \in known
      /\ \A s \in c.scenarios : s.id \in known
  BY DEF CatalogNodes, Ids
<1>2. ASSUME NEW t \in c.threads
      PROVE  /\ (t.requirements \cap requirements) \X ({t.id} \cup t.scenarios)
                  \subseteq known \X known
             /\ ThreadEdges(t) \subseteq known \X known
  <2>1. {t.context} \cup t.functions \cup t.scenarios \subseteq known
    BY ValidCatalogResolves
  <2>2. (t.requirements \cap requirements) \X ({t.id} \cup t.scenarios) \subseteq known \X known
    BY <1>1, <2>1
  <2>3. UNION {{t.context}, t.functions, t.scenarios, t.hazards} \subseteq known
    BY <2>1
  <2> QED BY <1>1, <2>2, <2>3 DEF ThreadEdges
<1>3. RequirementEdges(requirements, c) \subseteq known \X known
  BY <1>2 DEF RequirementEdges
<1>4. ASSUME NEW s \in c.scenarios
      PROVE  ScenarioEdges(s) \subseteq known \X known
  <2>1. UNION {{s.context, s.function, s.behavior}, s.conditions, s.stressors, s.criteria}
          \subseteq known
    BY ValidCatalogResolves
  <2>2. UNION {{s.context, s.function, s.behavior}, s.conditions, s.stressors,
               s.criteria, s.hazards, s.evidence} \subseteq known
    BY <2>1
  <2> QED BY <1>1, <2>2 DEF ScenarioEdges
<1> QED BY <1>2, <1>3, <1>4

\* Every edge of an assurance case goes between ids that are known.
LEMMA CaseEdgesAreKnown ==
  ASSUME NEW k, IsValidCase(k), NEW known, CaseNodes(k) \subseteq known,
         \A e \in k.evidence : e.supports \subseteq known
  PROVE  CaseEdges(k) \subseteq known \X known
<1>1. \A x \in UNION {k.hazards, k.controls, k.mitigations, k.assumptions, k.evidence,
                      k.criteria, k.claims} : x.id \in known
  BY DEF CaseNodes, Ids
<1>2. \A x \in EvidenceUsers(k) : x.evidence \subseteq known
  BY ValidCaseResolves
<1>3. ASSUME NEW h \in k.hazards PROVE HazardEdges(h) \subseteq known \X known
  <2>1. h.controls \cup h.mitigations \cup h.evidence \subseteq known
    BY <1>2, ValidCaseResolves DEF EvidenceUsers
  <2>2. UNION {h.controls, h.mitigations, h.evidence} \subseteq known
    BY <2>1
  <2> QED BY <1>1, <2>2 DEF HazardEdges
<1>4. ASSUME NEW x \in k.controls PROVE ControlEdges(x) \subseteq known \X known
  <2>1. x.hazards \cup x.evidence \subseteq known
    BY <1>2, ValidCaseResolves DEF EvidenceUsers
  <2> QED BY <1>1, <2>1 DEF ControlEdges
<1>5. ASSUME NEW m \in k.mitigations PROVE MitigationEdges(m) \subseteq known \X known
  <2>1. {m.hazard, m.control} \cup m.evidence \subseteq known
    BY <1>2, ValidCaseResolves DEF EvidenceUsers
  <2> QED BY <1>1, <2>1 DEF MitigationEdges
<1>6. ASSUME NEW x \in k.assumptions \cup k.criteria
      PROVE  x.evidence \X {x.id} \subseteq known \X known
  <2>1. x.evidence \subseteq known
    BY <1>2 DEF EvidenceUsers
  <2> QED BY <1>1, <2>1
<1>7. ASSUME NEW x \in k.claims PROVE ClaimEdges(x) \subseteq known \X known
  <2>1. x.evidence \subseteq known
    BY <1>2 DEF EvidenceUsers
  <2>2. UNION {x.subclaims, x.assumptions, x.criteria} \subseteq known
    BY ValidCaseResolves
  <2>3. UNION {x.subclaims, x.assumptions, x.criteria, x.evidence} \subseteq known
    BY <2>1, <2>2
  <2> QED BY <1>1, <2>3 DEF ClaimEdges
<1>8. \A e \in k.evidence : {e.id} \X e.supports \subseteq known \X known
  BY <1>1
<1>9. \A edges \in {HazardEdges(h) : h \in k.hazards} \cup
                   {ControlEdges(x) : x \in k.controls} \cup
                   {MitigationEdges(m) : m \in k.mitigations} \cup
                   {x.evidence \X {x.id} : x \in k.assumptions \cup k.criteria} \cup
                   {ClaimEdges(x) : x \in k.claims} \cup
                   {{e.id} \X e.supports : e \in k.evidence} : edges \subseteq known \X known
  BY <1>3, <1>4, <1>5, <1>6, <1>7, <1>8
<1> QED BY <1>9, Zenon DEF CaseEdges

\* A graph built from a valid case and a valid catalog lacks a node only for a
\* reference that crosses from one to the other.
THEOREM MissingNodesAreForeign == Spec => []GraphErrorsAreForeign
<1>1. PipelineInv => GraphErrorsAreForeign
  <2> SUFFICES ASSUME PipelineInv, NEW g \in graph,
                      IsValidCase(g.case), IsValidCatalog(g.catalog)
               PROVE  GraphErrors(g.graph) \subseteq ForeignReferences(g)
    BY DEF GraphErrorsAreForeign
  <2>1. PICK bundles :
          /\ g.graph = Graph(TraceInputs(MissionNeed, Requirements, g.case, g.catalog, bundles))
          /\ g.scopes = {b.scope : b \in bundles}
    BY DEF PipelineInv, IsBuilt
  <2> DEFINE known == g.graph.nodes \cup ForeignReferences(g)
  <2>2. g.graph.nodes = UNION {{MissionNeed}, Requirements, CatalogNodes(g.catalog),
                               CaseNodes(g.case), BundleNodes(bundles)}
    BY <2>1 DEF Graph, TraceInputs
  <2>3. g.graph.edges = UNION {{MissionNeed} \X Requirements,
                               RequirementEdges(Requirements, g.catalog),
                               UNION {ThreadEdges(t) : t \in g.catalog.threads},
                               UNION {ScenarioEdges(s) : s \in g.catalog.scenarios},
                               CaseEdges(g.case),
                               BundleEdges(bundles)}
    BY <2>1 DEF Graph, TraceInputs
  <2>4. /\ \A t \in g.catalog.threads : t.hazards \subseteq known
        /\ \A s \in g.catalog.scenarios : s.hazards \cup s.evidence \subseteq known
        /\ \A e \in g.case.evidence : e.supports \subseteq known
        /\ \A b \in bundles : b.scope \in known
    BY <2>1 DEF ForeignReferences
  <2>5. /\ MissionNeed \in known /\ Requirements \subseteq known
        /\ CatalogNodes(g.catalog) \subseteq known /\ CaseNodes(g.case) \subseteq known
        /\ BundleNodes(bundles) \subseteq known
    BY <2>2
  <2> HIDE DEF known
  <2>6. RequirementEdges(Requirements, g.catalog) \subseteq known \X known
    BY <2>4, <2>5, CatalogEdgesAreKnown
  <2>7. /\ UNION {ThreadEdges(t) : t \in g.catalog.threads} \subseteq known \X known
        /\ UNION {ScenarioEdges(s) : s \in g.catalog.scenarios} \subseteq known \X known
    <3>1. /\ \A t \in g.catalog.threads : ThreadEdges(t) \subseteq known \X known
          /\ \A s \in g.catalog.scenarios : ScenarioEdges(s) \subseteq known \X known
      BY <2>4, <2>5, CatalogEdgesAreKnown
    <3> QED BY <3>1, Zenon
  <2>8. CaseEdges(g.case) \subseteq known \X known
    BY <2>4, <2>5, CaseEdgesAreKnown
  <2>9. BundleEdges(bundles) \subseteq known \X known
    <3>1. ASSUME NEW b \in bundles
          PROVE  {<<b.scope, b.bundle_id>>} \cup ({b.bundle_id} \X RecordIds(b))
                   \subseteq known \X known
      <4>1. {b.bundle_id} \cup RecordIds(b) \subseteq known
        BY <2>5 DEF BundleNodes
      <4> QED BY <2>4, <4>1
    <3> QED BY <3>1, Zenon DEF BundleEdges
  <2>10. g.graph.edges \subseteq known \X known
    BY <2>3, <2>5, <2>6, <2>7, <2>8, <2>9
  <2>11. Endpoints(g.graph) \subseteq known
    BY <2>10 DEF Endpoints
  <2> QED BY <2>11 DEF GraphErrors, known
<1> QED BY <1>1, PipelineInvariant, PTL
==============================================================================
