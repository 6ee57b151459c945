------------------------- MODULE VerificationPipeline -------------------------
(***************************************************************************)
(* An assurance case and a catalog that are edited, a traceability graph   *)
(* built from them, a scenario run whose evidence bundle may be damaged,   *)
(* its verification and the report: the values that verify_run and         *)
(* generate take are each as old as their caller left them.                *)
(***************************************************************************)
EXTENDS Reporting

CONSTANTS
  Cases,      \* the versions of the assurance case
  FirstCases, \* the versions at the beginning
  Catalogs,   \* the versions of the scenario catalog
  Snapshots,  \* the telemetry snapshots a run can be given
  Statuses,   \* the statuses a record of a bundle can be changed to
  RunIds,
  MissionNeed,
  Requirements,
  MaxRuns,    \* bound on the runs
  MaxChanges  \* bound on the changes made to case, catalog and the run's bundle

ASSUME PipelineAssumption ==
  /\ \A c \in Cases : c.status \in AssuranceCaseStatus
  /\ Statuses \subseteq EvidenceStatus
  /\ FirstCases \subseteq Cases
  /\ \A c \in Catalogs : HasCatalogShape(c)
  /\ MaxRuns \in Nat /\ MaxChanges \in Nat

\* graph, run and summary are empty or singletons, and each remembers what it was
\* made from.
VARIABLES
  case,
  catalog,
  graph,     \* the graph, the case and the catalog, the scopes of the bundles
  run,       \* the ids, in, result, bundle; the bundle as made; whether rehashed
  summary,   \* the summary and what was verified
  runs,
  changes

vars == <<case, catalog, graph, run, summary, runs, changes>>

------------------------------------------------------------------------------
Init ==
  /\ case \in FirstCases
  /\ catalog \in Catalogs
  /\ graph = {} /\ run = {} /\ summary = {}
  /\ runs = 0 /\ changes = 0

Change == changes < MaxChanges /\ changes' = changes + 1

EditCase(c) ==
  /\ Change
  /\ c # case
  /\ case' = c
  /\ UNCHANGED <<catalog, graph, run, summary, runs>>

EditCatalog(c) ==
  /\ Change
  /\ c # catalog
  /\ catalog' = c
  /\ UNCHANGED <<case, graph, run, summary, runs>>

\* build_traceability_graph, with or without the bundle of the run.
BuildGraph(bundles) ==
  LET from == TraceInputs(MissionNeed, Requirements, case, catalog, bundles)
  IN  /\ ~BuildRaises(from)
      /\ graph' = {[graph |-> Graph(from), case |-> case, catalog |-> catalog,
                     scopes |-> {b.scope : b \in bundles}]}
      /\ UNCHANGED <<case, catalog, run, summary, runs, changes>>

\* A run that raises leaves the caller with what it had.
RunScenario(scenarioId, telemetry, runId) ==
  LET in     == Inputs(catalog, scenarioId, telemetry, {}, runId)
      result == RunResult(in)
  IN  /\ runs < MaxRuns
      /\ runs' = runs + 1
      /\ Failure(in) = "none"
      /\ run' = {[run_id |-> runId, case_id |-> case.case_id, scenario_id |-> scenarioId,
                  in |-> in, result |-> result, bundle |-> RunBundle(in, result),
                  made |-> RunBundle(in, result), rehashed |-> FALSE]}
      /\ UNCHANGED <<case, catalog, graph, summary, changes>>

\* The bundle of the run's result is replaced.
ReplaceBundle(r, bundle, rehashed) ==
  /\ Change
  /\ bundle # r.bundle
  /\ run' = {[r EXCEPT !.bundle = bundle, !.rehashed = @ \/ rehashed]}
  /\ UNCHANGED <<case, catalog, graph, summary, runs>>

ChangeStatus(r, status) ==
  ReplaceBundle(r, [r.bundle EXCEPT !.records[1].status = status], FALSE)

ChangeContent(r) ==
  ReplaceBundle(r, [r.bundle EXCEPT !.records[1].content = [@ EXCEPT !.final_decision = "edited"]],
                FALSE)

LoseHashes(r) ==
  ReplaceBundle(r, [r.bundle EXCEPT !.records[1].content_hash = {}, !.bundle_hash = {}], FALSE)

\* with_computed_hashes, or a save and load after the hashes were lost.
Rehash(r) == ReplaceBundle(r, BundleWithComputedHashes(r.bundle), TRUE)

Graphs == {g.graph : g \in graph}

Verify(r, required) ==
  /\ summary = {}
  /\ summary' = {[made |-> VerifyRun(required, case, catalog, r, Graphs),
                  case |-> case, catalog |-> catalog, run |-> r, graph |-> Graphs]}
  /\ UNCHANGED <<case, catalog, graph, run, runs, changes>>

Next ==
  \/ \E c \in Cases : EditCase(c)
  \/ \E c \in Catalogs : EditCatalog(c)
  \/ \E bundles \in {{}} \cup {{r.bundle} : r \in run} : BuildGraph(bundles)
  \/ \E s \in Ids(catalog.scenarios), t \in Snapshots, id \in RunIds :
       RunScenario(s, t, id)
  \/ \E r \in run :
       \/ \E status \in Statuses : ChangeStatus(r, status)
       \/ ChangeContent(r)
       \/ LoseHashes(r)
       \/ Rehash(r)
       \/ \E required \in BOOLEAN : Verify(r, required)

Spec == Init /\ [][Next]_vars

------------------------------------------------------------------------------
AcceptedSummaries == {s \in summary : Accepted(s.made)}

TypeOK ==
  /\ case \in Cases
  /\ catalog \in Catalogs
  /\ \A g \in graph : \A edge \in g.graph.edges : edge[1] # edge[2]
  /\ \A r \in run : /\ WellFormedRecords(r.bundle.records)
                    /\ r.rehashed \in BOOLEAN
  /\ \A s \in summary :
       /\ s.made.overall_result \in VerificationResult
       /\ s.made.checks # {}
       /\ \A c \in s.made.checks : c.result \in VerificationResult
  /\ runs \in 0..MaxRuns /\ changes \in 0..MaxChanges

\* An accepted run whose decision is allow also has the authority for it: the
\* verification looks at the decision and the review flag, never at the authority
\* state, and relies on the runner for the rest.
AcceptedRunIsAuthorised ==
  \A s \in AcceptedSummaries :
    s.run.result.final_decision = "allow" => Nominal(s.run.result)

\* A run accepted against the catalog it was made with is not nominal if its
\* scenario declares a severe stressor, even where an acceptance criterion asks
\* for a failed run.
AcceptedSevereRunIsContained ==
  \A s \in AcceptedSummaries :
    s.catalog = s.run.in.catalog /\ SevereStressors(s.catalog, ScenarioOf(s.run.in)) # {}
    => ~Nominal(s.run.result)

\* Acceptance means that the bundle is the one the run made, unless someone
\* computed its hashes again after a change.
OnlyRehashingHidesDamage ==
  \A s \in AcceptedSummaries : s.run.bundle = s.run.made \/ s.run.rehashed

\* An accepted report has no section of severity error, as long as case, run and
\* graph are the ones that were verified: the sections repeat checks of their own,
\* on other data than the summary.
NoErrorBehindAcceptance ==
  \A s \in AcceptedSummaries : \A r \in run :
    /\ s.case = case /\ s.run = r /\ s.graph = Graphs
    /\ IdentityAligned(case, r, s.made)
    => ~HasErrorSection(Report(case, r, s.made, Graphs))

\* Damage done after the verification does not stay hidden: as long as the hashes
\* were not computed again, the report on an accepted run shows it.
LaterDamageShows ==
  \A s \in AcceptedSummaries : \A r \in run :
    /\ IdentityAligned(case, r, s.made)
    /\ r.made = s.run.made /\ r.bundle # r.made /\ ~r.rehashed
    => Report(case, r, s.made, Graphs).sections.evidence_integrity # "info"

\* What neither the case nor the catalog validates: hazards and evidence named by
\* the catalog, artifacts that evidence claims to support, the bundles' scenarios.
ForeignReferences(g) ==
  g.scopes \cup
  UNION ({t.hazards : t \in g.catalog.threads} \cup
         {s.hazards \cup s.evidence : s \in g.catalog.scenarios} \cup
         {e.supports : e \in g.case.evidence})

\* A graph built from a valid case and a valid catalog lacks a node only for a
\* reference that crosses from one to the other: the two validations and the two
\* dozen edge rules of the builder agree on everything else.
GraphErrorsAreForeign ==
  \A g \in graph :
    IsValidCase(g.case) /\ IsValidCatalog(g.catalog)
    => GraphErrors(g.graph) \subseteq ForeignReferences(g)
==============================================================================
