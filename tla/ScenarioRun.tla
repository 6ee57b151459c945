----------------------------- MODULE ScenarioRun -----------------------------
(***************************************************************************)
(* ScenarioRunner.run (runner.py) over time: each run leaves an evidence   *)
(* bundle behind, which later runs can be given as prior evidence, fresh,  *)
(* aged or damaged.                                                        *)
(***************************************************************************)
EXTENDS Runner

CONSTANTS
  Catalogs,     \* the catalogs a run can be given
  ScenarioIds,
  Snapshots,    \* the telemetry snapshots a run can be given
  RunIds,
  Imported,     \* evidence bundles that come from elsewhere
  MaxRuns,      \* bound on the number of runs
  MaxPrior,     \* bound on the bundles one run is given
  MaxDamage     \* bound on the changes made to bundles at hand

ASSUME CatalogShapesAssumption == \A c \in Catalogs : HasCatalogShape(c)

ASSUME ImportedAssumption == \A b \in Imported : Constructed(b)

ASSUME RunBoundsAssumption ==
  MaxRuns \in Nat /\ MaxPrior \in Nat /\ MaxDamage \in Nat

VARIABLES
  archive,   \* the evidence bundles at hand
  last,      \* the inputs and the outcome of the latest run, if any
  runs,      \* number of runs so far
  damage     \* number of changes made to bundles at hand

vars == <<archive, last, runs, damage>>

------------------------------------------------------------------------------
Init ==
  /\ archive = Imported
  /\ last = {}
  /\ runs = 0
  /\ damage = 0

\* run returns a result, and its caller keeps the bundle or does not.
Run(in) ==
  /\ runs < MaxRuns
  /\ runs' = runs + 1
  /\ Failure(in) = "none"
  /\ last' = {[in |-> in, failure |-> "none", result |-> RunResult(in)]}
  /\ \/ UNCHANGED archive
     \/ archive' = archive \cup {RunBundle(in, RunResult(in))}
  /\ UNCHANGED damage

\* run raises: there is no result and no bundle.
RunRaises(in) ==
  /\ runs < MaxRuns
  /\ runs' = runs + 1
  /\ Failure(in) # "none"
  /\ last' = {[in |-> in, failure |-> Failure(in), result |-> NoResult]}
  /\ UNCHANGED <<archive, damage>>

Replace(b, c) ==
  /\ damage < MaxDamage
  /\ damage' = damage + 1
  /\ archive' = (archive \ {b}) \cup {c}
  /\ UNCHANGED <<last, runs>>

\* The status of a record changes; its hashes stay behind, or follow with rehash.
ChangeStatus(b, i, status, rehash) ==
  LET changed == [b EXCEPT !.records[i].status = status]
  IN  /\ status # b.records[i].status
      /\ Replace(b, IF rehash THEN BundleWithComputedHashes(changed) ELSE changed)

\* The hashes of a bundle are lost.
LoseHashes(b) ==
  Replace(b, [b EXCEPT !.records = [i \in DOMAIN @ |-> [@[i] EXCEPT !.content_hash = {}]],
                       !.bundle_hash = {}])

Next ==
  \/ \E c \in Catalogs, s \in ScenarioIds, t \in Snapshots, r \in RunIds,
        prior \in SUBSET archive :
       /\ Cardinality(prior) <= MaxPrior
       /\ \/ Run(Inputs(c, s, t, prior, r))
          \/ RunRaises(Inputs(c, s, t, prior, r))
  \/ \E b \in archive :
       \/ \E i \in DOMAIN b.records, status \in EvidenceStatus, rehash \in BOOLEAN :
            ChangeStatus(b, i, status, rehash)
       \/ LoseHashes(b)

Spec == Init /\ [][Next]_vars

------------------------------------------------------------------------------
Completed == {run \in last : run.failure = "none"}

AtLeast(result, decision, authority) ==
  /\ DecisionRank(result.final_decision) >= DecisionRank(decision)
  /\ AuthorityRank(result.final_authority_state) >= AuthorityRank(authority)

\* There is at most one latest run, with values of the enumerations in its result,
\* and every bundle at hand could be constructed.
TypeOK ==
  /\ last = {} \/ \E run \in last : last = {run}
  /\ \A run \in Completed :
       /\ run.result.final_decision \in AutonomyDecisionType
       /\ run.result.final_authority_state \in RuntimeAuthorityState
       /\ run.result.verification_result \in VerificationResult
       /\ run.result.operator_review_required \in BOOLEAN
       /\ run.result.degraded_mode \in BOOLEAN
       /\ run.result.levels \subseteq DegradationLevel
  /\ \A b \in archive : Constructed(b)
  /\ runs \in 0..MaxRuns
  /\ damage \in 0..MaxDamage

\* A scenario that declares a severe stressor never passes verification with
\* nominal autonomy, whether or not the telemetry shows the stressor; and when it
\* does show it, the gate alone brings about the expected behavior.  This needs
\* the catalog validation, the gate and the runner's comparison to agree on what
\* restricts autonomy.
SevereStressorContained ==
  \A run \in Completed :
    LET severe == SevereStressors(run.in.catalog, ScenarioOf(run.in))
        active == ActiveSevereStressors(run.in.catalog, ScenarioOf(run.in), run.in.telemetry)
    IN  /\ severe # {} /\ Nominal(run.result) => run.result.verification_result = "fail"
        /\ active # {} => /\ run.result.verification_result = "pass"
                          /\ ~Nominal(run.result)

\* Operator review is required exactly when the final outcome is not nominal, and
\* an outcome that is not nominal is always reported as degraded mode: the three
\* flags come from two components with their own rules for them.
ReviewFlagIsExact ==
  \A run \in Completed :
    /\ run.result.operator_review_required <=> ~Nominal(run.result)
    /\ run.result.operator_review_required => run.result.degraded_mode

\* Prior evidence that fails its integrity check forces emergency safe-hold, and
\* prior evidence that is stale or missing forces at least a deferral to a human,
\* whatever the telemetry, the rules and the other bundles say.
DamagedEvidenceRestricts ==
  \A run \in Completed : \A b \in run.in.prior :
    /\ IntegrityErrors(b) # {} => AtLeast(run.result, "safe_hold", "emergency_safe_hold")
    /\ StatusWarnings(b) # {} => AtLeast(run.result, "defer", "human_approval_required")

\* Leaving evidence out never yields a more restrictive outcome: a run with fewer
\* prior bundles, on the same telemetry, is at most as restrictive.
MoreEvidenceNeverRelaxes ==
  \A run \in Completed : \A fewer \in SUBSET run.in.prior :
    LET in == [run.in EXCEPT !.prior = fewer]
    IN  Failure(in) = "none" =>
          AtLeast(run.result, RunResult(in).final_decision, RunResult(in).final_authority_state)

\* Once a catalog passes validate_references, no lookup of the gate fails: a run
\* stops at the runner's own checks or at telemetry it cannot compare.
ValidCatalogResolves == \A run \in last : run.failure # "gate reference"

\* The bundle a run leaves behind raises no signal in a later run that is given it
\* unchanged: the runtime's own evidence never degrades it.
FreshEvidenceIsClean ==
  [][\A b \in archive' \ archive : damage' = damage => BundleSignals(b) = {}]_vars

------------------------------------------------------------------------------
(* What the documentation promises and the code does otherwise.            *)

\* safety_gate.py:437: "Unsupported trigger strings are treated as active."
UnsupportedTriggerIsActive ==
  \A run \in Completed :
    (\E x \in SevereStressors(run.in.catalog, ScenarioOf(run.in)) :
        x.trigger.operator \notin TriggerComparisons \cup {"==", "=", "!="})
    => ~Nominal(run.result)

\* README.md, design principles: "Missing, stale, invalid, or degraded data should
\* not quietly become approval."  Here: a snapshot without a value that one of the
\* engine's rules looks at.
MissingDataIsNotApproval ==
  \A run \in Completed :
    (\E r \in DegradationRules : ~Has(run.in.telemetry, r.condition.telemetry_key))
    => ~Nominal(run.result)
==============================================================================
