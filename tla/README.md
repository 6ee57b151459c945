# Verification of the IX Autonomy Assurance Case Runtime

TLA+ models of the runtime in `src/ix_autonomy_assurance_case_runtime`, their TLC
configurations, and theorems about them checked by TLAPS. `PROJECT.json` maps every
definition to the lines it stands for, and every property to a mutant of the code
model that breaks it.

The program is a library of frozen dataclasses with a command line. It has no threads,
network or clock: a *run* is one call, and everything it leaves behind is an immutable
value or a JSON file. What goes wrong in such a program goes wrong between calls:
values of different ages meet, an old value is used again, a file is damaged and then
re-hashed, one of two components that keep rules of their own is forgotten in an
aggregation. The models are therefore about sequences of calls by a free caller, about
files that other tools change (`docs/THREAT_MODEL.md`: the local filesystem is not
assumed immutable), and about the agreement of components.

## 1. The system

### Core: from scenario to accepted run

| Component | State it keeps | Operations | What makes it correct |
|---|---|---|---|
| `contracts.py` | none; enumerations with restrictiveness ranks | ranks, `requires_human_or_stop`, `permits_nominal_execution`, the more restrictive of two | the order is total, and the two predicates exclude each other as the callers assume |
| `scenarios.py` | a catalog of contexts, functions, conditions, stressors, behaviors, criteria, threads, scenarios | `validate_references`, lookups | a catalog that validates makes every later lookup succeed |
| `safety_gate.py` | rules | `evaluate` telemetry for a scenario | the result is the most restrictive rule; an active severe stressor brings about the expected behavior |
| `degradation.py` | rules, conflict checks | `assess` telemetry and prior evidence | damaged, stale or missing evidence restricts; more evidence never relaxes |
| `runner.py` | the gate and the engine | `run`: validate, assess, evaluate, aggregate, compare, hash evidence | the final outcome is no weaker than either component's |
| `authority.py` | none; a request and an outcome per review | `from_safety_gate_result`, `apply_review_decision` | no chain of reviews relaxes a blocked result |
| `evidence.py` | bundles of records with two layers of optional hashes | `with_computed_hashes`, `validate_integrity`, `to_dict`, load | damage shows; saving does not hide it |
| `ledger.py` | a hash chain of entries | `append_entry`, `append_evidence_bundle`, `validate_chain`, `to_dict`, load | an entry commits to its history |
| `assurance_case.py` | claims, hazards, controls, mitigations, assumptions, evidence links, criteria | `validate_references`, `ready_for_human_review`, queries | references resolve; severe hazards have controls and mitigations |
| `traceability.py` | nodes and edges | build, `validate_edges`, reachability, path queries | the graph of valid inputs is valid; the traversal ends and finds what can be reached |
| `verification.py` | none | `verify_run`: a dozen checks and their aggregation | what is accepted was authorised, contained and undamaged |
| `reporting.py` | none | `generate`: identity check, sections, overall result | a report does not hide what its sections see |
| `cli.py` | files | load, check, append, save | round trips keep errors |

How they interact. The runner calls the catalog's validation, then the engine (with
telemetry and prior evidence bundles), then the gate (with catalog and telemetry), keeps
the more restrictive decision and authority state, compares it with the scenario's
expected behavior, and builds an evidence bundle. The bundle goes to the ledger, to
later runs as prior evidence, to the traceability builder, and to `verify_run`, which
also takes the case, the catalog and the graph as its caller left them. A report takes
the case, the run, a summary made earlier and, again, a graph. The authority controller
takes the *gate's* result, not the run's.

### Capability layers built on the core

Each layer has records whose constructors refuse what is malformed, a validation that
looks references up in the catalogs and bundles it is given, and a readiness evaluation
that turns the findings into `complete`, `limited` or `blocked`. The layers are evaluated
one by one, and a rollup draws a verdict from their reports.

| Layer | Files | Operations and hard behaviour | What makes it correct |
|---|---|---|---|
| Registry | `registry`, `_catalog`, `_evidence`, `_readiness` | models, systems, use cases, deployments that refer to each other; lifecycle checks one reference at a time | a live deployment is approved down to its models |
| Policy and waivers | `policy`, `_evaluator`, `_readiness`, `policy_waiver_evidence` | requests judged by rules; waivers that expire between evaluation and use | a complete layer rests on waivers that are still valid |
| Framework crosswalk | `framework_crosswalk`, `_evidence`, `_readiness` | mappings of evidence to control objectives | what is satisfied has evidence of the expected kinds |
| Provenance | `provenance`, `_verifier`, `_readiness` | digests, signatures, signers, attestations under a policy | every digest is signed by somebody identified |
| Telemetry sources | `telemetry`, `telemetry_adapter`, `telemetry_readiness` | one input becomes an envelope or is rejected; latency, replay, types, ranges | trusted sources, with reports behind them |
| Scenario campaigns | `scenario_campaigns`, `_runner`, `_validation`, `_readiness` | every scenario of a campaign is run through `runner`, several times; thresholds; one run raising in the middle | accepted means that the probes passed |
| Monitoring | `monitoring`, `_validation`, `_readiness` | snapshots, drift, incidents and revalidation triggers, checked against registry and telemetry catalog | nothing is left to act on |
| Review workflow | `review_workflow`, `_validation`, `_readiness` | findings, signoffs and dissents of several actors in any order | no acceptance over an open objection |
| Export package, dossier, claim guardrails | nine files | documents with cross references to bundles, manifests and each other | references lead to sound evidence |
| Evaluation profile | three files | declares which layers are complete | concerns are mapped to what is there |
| Prototype readiness | `prototype_target`, `_readiness`, `_rollup` | points, claim gate, rollup | a claim rests on every required layer |

The layers read each other in a few places only: monitoring takes the registry and the
telemetry catalog, campaigns take the replay records, the export package and the dossier
take known manifest and package ids, the guardrails take known ids of three other layers.
Everything is passed by the caller, at the age the caller has it.

## 2. The modules

Pure functions of the code are operators in modules without variables; a module with
variables has one action per operation of the code and one per way a file or value can
change behind its back.

```
Contracts
   |  \
   |   \            EvidenceTrail --- EvidenceTrailProofs
   |    \             |
   |   Evidence ---- LedgerChain --- RunLedger --- RunLedgerProofs
   |     |
   |     |  Telemetry   ScenarioCatalog
   |     |    |    \      |
   |   Degradation  SafetyGate --------------- RuntimeReview --- Authority
   |          \     /                                            |   \
   |           Runner ------ ScenarioRun -- ScenarioRunProofs    | AuthorityPromise
   |             |                   (with RunnerProofs)      AuthorityProofs
   | AssuranceCase
   |    |        |
   |  Traceability --- Traversal --- TraversalProofs
   |       |
   |  Verification -- Reporting -- VerificationPipeline -- VerificationProofs
                                                          (with RunnerProofs)

Evidence
   |
Readiness --- Registry  Policy  Crosswalk  Provenance  TelemetrySources  Monitoring
   |          ReviewWorkflow  ExportPackage  Dossier  Guardrails  EvaluationProfile
   |          Campaigns (with Runner)
   |             |
   +-------- Portfolio (an INSTANCE of each) -- PortfolioProofs
```

| Module | Models | State and actions |
|---|---|---|
| `Contracts` | `contracts.py` | enumerations, ranks, `RequiresHumanOrStop`, `PermitsNominalExecution`, `MoreRestrictive*` |
| `Telemetry` | snapshots and the comparisons of both rule evaluators | a snapshot is a function from present keys to numbers, flags, texts or `None`; a comparison is true, false or *raises* |
| `ScenarioCatalog`, `SafetyGate`, `Degradation`, `Runner` | the files of these names | pure: `CatalogErrors`, `GateFailure`/`GateResult`, `AssessmentFailure`/signals and levels, `Failure`/`RunResult`/`RunBundle` |
| `ScenarioRun` | a caller of `ScenarioRunner.run` | `archive` (bundles at hand), `last` (inputs and outcome of the latest run); `Run`, `RunRaises`, `ChangeStatus`, `LoseHashes` |
| `Authority` | `authority.py` | `origin`, `requests`, `outcome`, `reviews`; `Accept`, `Reject`, `Postpone` under `ApplyReviewDecision`, and `Resubmit` for a request built from an outcome |
| `AuthorityPromise` | what `docs/ARCHITECTURE.md` says of it | abstract specification over four postures; `Authority` implements it |
| `RuntimeReview` | a run and the review of its gate result | `Authority` plus the degradation level of the run |
| `Evidence`, `LedgerChain` | what hashes cover, JSON forms, validations | pure; SHA-256 over canonical JSON is an injection, `Sha256(m)` determines `m` |
| `RunLedger` | `RunLedger` values and files | `held[h]`, one ledger per holder; `AppendEntry`, `Share` (the old value kept, or a file copied), `RoundTrip`, and the damage actions `EditEntry`, `StripHash`, `DropEntry`, `SwapEntries`, `Merge` |
| `EvidenceTrail` | a bundle file and the ledger that recorded it | `file`, `ledger`, history `recorded`; `Produce`, `SaveAndLoad`, `Rehash`, `Record`, and damage actions |
| `AssuranceCase`, `Traceability`, `Verification`, `Reporting` | the files of these names | pure: errors and warnings, the graph and its queries, the checks and results, the sections |
| `Traversal` | `TraceabilityGraph._traverse` as a loop | `visited`, `reachable`, `queue`; `Skip` (`continue`) and `Visit` |
| `VerificationPipeline` | a caller of build, run, verify and report | `case`, `catalog`, `graph`, `run`, `summary`; `EditCase`, `EditCatalog`, `BuildGraph`, `RunScenario`, `ChangeStatus`, `ChangeContent`, `LoseHashes`, `Rehash`, `Verify` |

| `Readiness` | `prototype_*.py` and what the `*_readiness.py` files share | pure: findings and `LayerDecision`, `BundleFindings`, points, `ClaimDecision`, `RollupFindings` |
| `Registry`, `Policy`, `Crosswalk`, `Provenance`, `TelemetrySources`, `Campaigns`, `Monitoring`, `ReviewWorkflow`, `ExportPackage`, `Dossier`, `Guardrails`, `EvaluationProfile` | one layer each: records, validation and readiness files | pure: `WellFormed` for the constructors, the findings, the layer's readiness; `Policy!Evaluate`, `TelemetrySources!Normalize`, `Campaigns!Run` |
| `Portfolio` | a caller that holds an artifact of each layer, the bundles, and the reports drawn from them | `held`, `store`, `now`, history `ranAs` (each run report with the campaign as it was when it ran); `Revise` (a layer's artifact is replaced), `FileReview`, `ResolveFinding`, `RefileRequests`, `FileProfile`, `NormalizeInput`, `RunCampaign`, `Rehash`, and what happens to evidence: `LoseBundle`, `DamageContent`, `AgeRecord`, `StripHashes`, `Tick` |

Conventions that hold in all of them:

- An optional value is a set with at most one member. `{}` is `None`.
- An exception is a named *failure*. An operation that can raise has an operator that
  names the failure, in the order of the code's checks, and an action that leaves the
  caller's state alone.
- Fields that no check, hash rule or aggregation tells apart are one value: a record's
  `content` stands for kind, source, payload, author and tags; a ledger entry's `body`
  for the fields that are only hashed. Texts, messages, report lines and node and edge
  types are left out.
- Telemetry numbers are the code's values counted in hundredths, so `0.5` is `50` and the
  flag `True` equals `100`, as `True == 1` does in Python. Numeric operators refuse flags
  and texts: the comparison raises, as in the code.
- A finding of a layer is its severity, kind and the record it is about. Informative
  findings decide nothing and are left out, and so are findings that readiness repeats
  from validation.
- A text that only has to contain certain words is the set of these words, or a flag.
- A definition whose comment begins with *Faulty:* is not used by the model. It is the
  form a plausible bug would give the definition after it, and the property it must
  break is named in `PROJECT.json`.

## 3. The runs

State counts are for the configurations as they stand, with two workers.

| Run | Distinct states | Question |
|---|---|---|
| `RunLedger` | 415 852 | What does `validate_chain` say of the program's own work, what does an unbroken chain prove about its history, and which damage does the next `validate_chain` report? |
| `EvidenceTrail` | 228 801 | What do a bundle's own hashes show, and what does only the ledger show? |
| `ScenarioRunGate` | 9 829 | Do catalog validation, gate, engine and runner agree on what restricts a run? |
| `ScenarioRunEvidence` | 84 885 | How does prior evidence, fresh, stale, damaged or withheld, act on a run? |
| `Authority` | 110 514 | Where can a chain of reviews lead? |
| `Traversal` | 11 037 | Does the breadth-first loop end, and find exactly what can be reached? |
| `VerificationPipeline` | 191 106 | What does acceptance still prove when the values it looked at have different ages? |
| `Portfolio` | 6 664 | What do complete layers, and the claim gate over them, prove about records and evidence that change under them? |
| `UnsupportedTrigger`, `MissingData`, `RuntimeReview`, `AllowRuleAuthority` | | Four statements of the documentation that the code does not keep (section 6). |

Bounds, and why they are enough:

- `RunLedger`: two holders, ledgers of up to three entries, two entry ids, and no new
  damage while a holder has a damaged copy (`MaxDamage` = 1). Every property relates at
  most two ledgers. Three entries are needed for an inner one to be lost or swapped with
  neighbours on both sides, and a fork needs one common entry and two different
  successors. Two entries can have ids of their own and three must repeat one; entries
  come with a run id, which they then repeat, and without. The theorems of section 5
  drop all of these bounds.
- `EvidenceTrail`: one bundle id with up to two records and two contents, one ledger
  entry, two damage steps. Two damage steps let a hash be stripped after an edit, which
  is how damage could be laundered; saving, loading and re-hashing are unbounded.
- `ScenarioRunGate`: one run, over one stressor of every kind of trigger (each
  comparison, equality and inequality, an unsupported operator, a trigger that is not
  three words, a literal that is no number), every class of expected behavior, seven
  broken catalogs (one for each kind of reference error), and telemetry just below, on
  and above each threshold, absent, `None` or of the wrong type. Runs do not share state
  except through prior evidence, so one is enough here.
- `ScenarioRunEvidence`: two runs, up to two prior bundles, two changes. The imported
  bundles share a record, which is what makes signal ids collide.
- `Authority`: two request ids, two reviews. Two reviews are the shortest chain that
  does what one may not (`LimitedNeedsTwoReviews`); the theorem covers every length.
- `Traversal`: every graph of at most four directed edges over four ids, with all ids
  nodes or one id without a node (the start included), directed and undirected: cycles,
  diamonds and dangling edges all occur.
- `VerificationPipeline`: one run, one verification, two changes of case, catalog or
  bundle at any time, over nine versions of the case (valid, of another id, without a
  control path, with dangling references, with a warning only, supporting itself, with a
  duplicate id) and six of the catalog (expected behaviors that defer, clamp and allow,
  a criterion that asks for a failed run, dangling and duplicate ids). Two changes are
  enough for a bundle to be edited and then re-hashed, or for a value to be edited
  before and another after the verification.

- `Portfolio`: all twelve layers complete at the start, four bundles shared among them,
  two edits at any time and one tick of the clock. An edit replaces the artifact of a
  layer by one of three to seven versions (each with one thing wrong or different, some
  that a constructor refuses), files a review record, resolves a finding, normalises an
  input, runs a campaign, or changes a bundle. Two edits reach every pair of a change in
  one layer and one in another or in the evidence: an objection and its resolution, a
  campaign rerun after its threshold changed, damage and what hides it. A waiver expires
  at the tick. `AllowRuleAuthority` needs one edit.

`CHECK_DEADLOCK FALSE` stands in every configuration: a caller may stop at any time, the
bounds on runs, reviews and changes are eventually used up, and the traversal ends.
No run declares a symmetry.

Fairness. Only `Traversal` assumes any: `WF_vars(Next)`. It is a `while` loop of one
thread without waiting, so a pass that can be made is made. Everything else is a library
whose caller may stop, and claims no liveness.

## 4. What the properties say

Each module has one type invariant. The others, by component:

- Ledger. A chain is *unbroken* when every entry has its sequence number, its hash and
  its link; that is `validate_chain` without its checks of repeated ids.
  `IntactLedgerReportsOnlyRepeats`: of a ledger that forks, copies and round trips built,
  `validate_chain` reports the ids that the caller repeated and nothing else.
  `append_entry` does not look whether an id is new (`ledger.py:246-280`), so a program
  that repeats an entry id has a ledger that does not validate; one that does not has a
  valid ledger without warnings. `EntryCommitsToHistory`: two unbroken ledgers with the
  same entry at a place agree on everything before it. `LatestHashIdentifiesLedger`:
  unbroken ledgers with the same latest hash are equal. `DamageIsReported`: one
  edit, lost hash, inner loss or swap in an unbroken ledger is reported. Losing the tail is
  *not*: the chain has no record of its length, and only the latest hash kept elsewhere
  shows it. `RoundTripKeepsErrors`: filling in missing hashes hides no error.
- Evidence. `LedgerRefutesRewrittenBundle`: a bundle that was edited and re-hashed passes
  `validate_integrity`, and matches no ledger entry. `DamageIsReported`,
  `SaveAndLoadKeepsErrors` as above.
- Run. `SevereStressorContained`: a scenario that declares a severe stressor never passes
  verification with nominal autonomy, and an active one brings about the expected
  behavior. `ReviewFlagIsExact`: the operator-review flag, made from three sources, is
  equivalent to a final outcome that is not nominal. `ValidCatalogResolves`: after
  validation no lookup of the gate fails. `DamagedEvidenceRestricts`,
  `MoreEvidenceNeverRelaxes`, `FreshEvidenceIsClean`: what prior evidence does.
- Authority. `BlockedStaysBlocked`, `LimitedNeedsTwoReviews`, and `KeepsPromise`, the
  refinement of `AuthorityPromise` with postures as the mapping.
- Traversal. `VisitsExactlyTheReachable` compares the loop with a definition of
  reachability, `PathQueriesAgree` the two path queries with each other from both ends,
  `Terminates` is the liveness property.
- Acceptance. `AcceptedRunIsAuthorised`: `verify_run` looks at the decision and the
  review flag, never at the authority state; an accepted `allow` is authorised
  nevertheless. `AcceptedSevereRunIsContained`, for a run verified against the catalog it
  was made with. `OnlyRehashingHidesDamage`. `NoErrorBehindAcceptance`: no section of an
  accepted report is an error as long as the inputs are those verified.
  `LaterDamageShows`. `GraphErrorsAreForeign`: a graph of valid inputs lacks a node only
  where a reference crosses between case, catalog and bundles.

- Layers. `AdverseStepNeverHelps`, a property of steps: losing, damaging, aging or
  unhashing a bundle, or the passing of time, makes no layer's decision better, although
  layers skip checks on evidence they already object to. Stripping the hashes off a bundle
  that no longer matches them is left out of it, because there the decision does improve:
  a missing hash is a warning and a wrong one an error. `LiveDeploymentIsBacked` follows
  the registry's references to their end. `CompletePolicyHasLiveWaivers`: with the time
  given, every waiver that is relied on is alive now, without it only when the request was
  evaluated. `CompleteCampaignPassedItsProbes`, judged by the campaign as it was when it
  ran. `CompletePaperTrail`: six layers that each look at their own references together
  lead from every requirement, hazard, claim, mapping and concern to sound evidence, and
  every digest to an identified signer.
- Claim. `ObjectionStopsTheClaim`: no serious claim is permitted while a blocking dissent
  or an open severe finding stands. `ClaimNeedsEveryLayer`: points of other layers never
  replace a required layer, whether it is incomplete or its report was left out, and a
  clean rollup and the claim gate agree.

## 5. What is proved

TLAPS checks 40 theorems and 165 lemmas, for every value of the constants: any set of
ids, any number of holders, reviews, runs, entries, records, edits and damage steps,
every catalog, case, rule set, snapshot, layer artifact and graph with the shapes below.

Assumptions. They are the shapes that constructors and type annotations give, stated as
`ASSUME` in the module that declares the constants and evaluated by TLC on every run:

- bounds are natural numbers (`MaxEntriesAssumption`, `MaxDamageAssumption`,
  `MaxReviewsAssumption`, `TrailBoundsAssumption`, `RunBoundsAssumption`);
- rules, conflict checks, stressors and behaviors have enumeration values, conditions of
  the right shape, and distinct rule ids (`RuleShapesAssumption`, `RuleIdsAssumption`,
  `CatalogShapesAssumption`): `__post_init__` and the gate's and the engine's
  constructors refuse anything else, and the fields that have no check are typed with the
  enumeration;
- bundles that are imported could be constructed (`ImportedAssumption`), cases have a
  status, catalogs the shape above (`PipelineAssumption`);
- `PortfolioAssumption`: every layer begins with an artifact that its constructors accept
  and is only ever offered artifacts with the declared fields; times parse; every bundle
  could be constructed and stands under its own id; every campaign report that is there at
  the start, or that is put in place of another, was made by a run. A campaign report is
  a plain dataclass, and `CompleteCampaignPassedItsProbes` is only about reports that the
  runner made;
- graphs are finite and over `NodeIds`, and `Sorted` lists a set without adding or losing a member
  (`GraphsAssumption`, `SortedAssumption`): what Python's `sorted` does.

One idealisation underlies all ledger and evidence results: `Sha256` is injective.

| Module | Theorems | Argument |
|---|---|---|
| `AuthorityProofs` | `TypeCorrect`, `BlockedIsInvariant`, `LimitedIsInvariant`, `PromiseIsKept` | `Permitted` states what one review may make of a request, disposition by disposition. `BlockedStaysBlocked` is then inductive. `LimitedNeedsTwoReviews` is not: it says nothing of a chain that asks for human approval but is not nominal yet. `LimitedChain` adds that, from a limited origin, nothing asks for human approval before the first review and nothing is nominal before the second. The refinement maps every review to `Grant`, every resubmission to `AskAgain` or a stutter. |
| `RunLedgerProofs` | `TypeCorrect`, `IntactIsInvariant`, `CommitmentIsInvariant`, `LatestHashIsInvariant`, `RoundTripIsFaithful`, `DamageShows` | `IsLedger` types the entries. `UnbrokenChain` is shown equivalent to `Sound` at every place: the right sequence number, the hash of the entry, the link to its predecessor. Commitment follows by descent from the common entry: equal entries have equal links, equal links have equal material, so the entries before them are equal. `IntactLedgerReportsOnlyRepeats` follows from `IntactIsUnbroken`, which is inductive: an appended entry is sound, and round trips change nothing in a sound chain. `DamageShows` goes through the damage actions, each of which leaves one place that is not sound. |
| `EvidenceTrailProofs` | `TypeCorrect`, `LedgerKnowsItsBundles`, `DamageShowsAtOnce`, `ReloadIsHonest` | `TrailInv`, the strengthening: the bundle on file is one that the loader accepts, and entry *i* holds the hash of the bundle recorded with it. `LedgerRefutesRewrittenBundle` is not inductive, since no step need know what the file was before; with `TrailInv` it follows from `MaterialIsTheBundle`: a bundle that validates cleanly is determined by the material of its hash. For the two step properties there is one lemma per way of damage (`EditShows`, `LostContentHashShows`, `LostBundleHashShows`, `LostRecordShows`) and one about the loader (`ReloadKeepsErrors`). |
| `RunnerProofs` | lemmas only | What holds of one run: ranks order decisions and authority states totally, the most restrictive of many is an upper bound and a member, and `CompletedRun` unfolds the order gate, engine, aggregation, comparison. Then what hashing, editing and stripping make of a bundle. Both modules below rest on it. |
| `ScenarioRunProofs` | `TypeCorrect`, `SevereIsContained`, `ReviewIsExact`, `DamageRestricts`, `EvidenceIsMonotone`, `CatalogsResolve`, `FreshIsClean` | `LastIsARun`: what is remembered of a run is `RunResult` of its inputs, and its failure is `Failure` of them. Every property of results is then a lemma about one run. `ArchiveInv` adds that the bundles at hand are constructible, whatever was done to them. |
| `VerificationProofs` | `TypeCorrect`, `AcceptanceNeedsAuthority`, `AcceptanceContains`, `AcceptanceSeesDamage`, `AcceptanceIsFreeOfErrors`, `ReportShowsDamage`, `MissingNodesAreForeign` | `PipelineInv` remembers of every value what made it: a run is `RunResult` of its inputs with a bundle whose hashes are those of the run, gone, or recomputed (`KeepsItsHashes`); a graph was built from a case and a catalog; a summary is `VerifyRun` of what was verified. The types alone are useless here, because every property compares values of different ages. `AcceptedFacts` is what the checks of an accepted run leave no room for, `CleanBundleIsTheOneMade` turns that into equality of bundles, and `ValidCaseResolves` and `ValidCatalogResolves` follow each of the builder's edge rules to the validation that covers it. |
| `TraversalProofs` | `TypeCorrect`, `PartialCorrectness`, `QueriesAgree` | `IInv` is the loop invariant: what was visited and what is queued can be reached, and (`Frontier`) every edge that leaves a visited node leads into the queue or to an id without a node. With an empty queue the visited set is closed, so it contains everything reachable, which is defined as the intersection of closed sets. `QueriesAgree` needs induction over the rounds of `Within`: `LeastNumber` gets it from the library's well-founded ordering of finite sets, `IterationExists` and `WithinIsIterated` show that the recursive definition has the solution it describes, and `Rounds` that every round closes the set or makes it larger, so that as many rounds as there are nodes close it. `ConnectionsAreMutual`: the nodes not reached from *n* are closed too. |
| `PortfolioProofs` | `PortfolioInvariant`, `TypeCorrect`, `ObjectionsAreHeard`, `ClaimsNeedTheirLayers`, `LiveDeploymentsAreBacked`, `WaiversAreLive`, `CampaignsPassedTheirProbes`, `PaperTrailsHold` | `PortfolioInv`: what is held is as its constructors accept it, and every campaign report stands with the campaign whose run made it. The readiness of a layer is a function of what it holds, so each property rests on a lemma that says what the completeness of one layer rules out (`RegistryComplete`, `MonitoringComplete`, `PolicyComplete`, `CampaignComplete`, `CompleteDossierIsSupported`, ...): a complete report has no finding (`ClearDecision`), so no record offends (`ClearMeansNone`), and a bundle without findings is as it was hashed (`NothingFound`). The constructors are needed where a finding leaves something open: that ids are distinct, that the states of incidents are the four known ones, that a waiver has evidence. The two claim theorems need no invariant: they hold of any artifacts, by the points and the gate. |

`Portfolio` takes the layers by `INSTANCE`, and each layer extends `Readiness`, so that a
finding of the registry layer is `Reg!Finding`. The lemmas `SameFindings`,
`SameIntegrity`, `SameBundles` and `SameDecision` say that these are one definition. A
few small lemmas about hashes stand in two proof modules, which extend different models.

The prover reads `UNION A \cup B` as `UNION (A \cup B)`, TLC's parser as
`(UNION A) \cup B`. Where both occur the models have parentheses, so that what is proved
is what is checked.

Only model-checked:

- `Terminates`: liveness under fairness is out of the prover's reach.
- `AdverseStepNeverHelps`: it is a property of the bundles that the run begins with, not
  of any bundle. A record marked invalid is an error, and one marked stale a warning, so
  that aging a record that was invalid to begin with makes its layer better.
- The four runs of section 6, which are counterexamples.

## 6. Where documentation and code differ

Each is a run that TLC finishes with a counterexample, and a finding in `PROJECT.json`.

- `UnsupportedTrigger`. `_stressor_trigger_matches` says that unsupported trigger strings
  count as active (`safety_gate.py:437`). It returns `False` for an absent key before it
  looks at the operator (`:448`), so a severe stressor with an unsupported operator whose
  key the telemetry lacks leaves the run nominal.
- `MissingData`. `README.md:440` says missing data should not quietly become approval. A
  degradation rule on a key that the telemetry lacks does not match unless its operator
  is `MISSING`, which only one default rule uses (`degradation.py:309`).
- `RuntimeReview`. `from_safety_gate_result` (`authority.py:141`) builds the request from
  the gate's result, while the run's final outcome also contains the engine's
  recommendation (`runner.py:236`). A run held for degradation can be approved away,
  against `docs/ARCHITECTURE.md:120`.
- `AllowRuleAuthority`. An allow rule for high-risk actions has to name an authority
  (`policy.py:271`), which `policy.py:167` describes as required before the decision may
  be satisfied. The evaluator compares it with the request's for `REQUIRE_REVIEW` rules
  only (`policy_evaluator.py:389`); a request of any authority passes an allow rule.

## 7. What is not modelled

- SHA-256 itself and canonical JSON: an injection. Numbers that JSON or floating point
  would confuse are out of reach.
- Field validation that only rejects empty or malformed texts: the inputs of the models
  are those a constructor accepts.
- Wording: messages, reasons, report lines, Markdown, node and edge types.
- Object aliasing inside a process, such as a caller that changes the dictionary it gave
  to `LedgerEntry`; its effect is that of `EditEntry`.
- A waiver whose expiry does not parse: the evaluator treats it as one that expired, and
  the evidence validation raises, so that there is no report.
- Argument parsing and printing in `cli.py`; what it does to ledgers and bundles are the
  round trips of `RunLedger` and `EvidenceTrail`.
- Data that the layers carry and no code of theirs evaluates, so that there is no step to
  state a property of: the stop rules of campaigns (`scenario_campaigns.py:324`), the
  expected result of a campaign's scenario once validated, a drift record's own need for
  revalidation (`monitoring.py:311`), the id of a review waiver
  (`review_workflow_validation.py:320` asks only that somebody may waive), and digests,
  which are never compared with the artifact.
- Summaries, lookups by id and filters of findings in the layers' report classes, and the
  wording of disclaimers, of which the code asks for certain words.
- `__init__.py`, `_version.py` and `project.py`: exports and constants.

## 8. Plan

All components with behaviour of their own are modelled, and every invariant that a
passing run checks is proved. What is left:

1. `AdverseStepNeverHelps` for bundles that no one marked invalid before, layer by layer:
   that a layer's findings about evidence only grow under an adverse step, and that what a
   layer then skips never outweighs them.
2. Invariants of the campaign and monitoring layers beside the ones above.
