------------------------------- MODULE Registry -------------------------------
(***************************************************************************)
(* The registry of models, systems, use cases and deployments: the records *)
(* (registry.py), their references to each other (registry_catalog.py) and *)
(* to evidence (registry_evidence.py), and the readiness of the layer      *)
(* (registry_readiness.py).                                                *)
(***************************************************************************)
EXTENDS Readiness

CanSupportAcceptance(record) == record.lifecycle = "approved"
NeedsOperationalEvidence(environment) == environment \in {"operational_test", "controlled_field"}

IdsOf(records) == {r.id : r \in records}
DistinctIds(records) == \A x, y \in records : x.id = y.id => x = y

\* _validate_live_operation_approval
MayRunLive(d) ==
  /\ CanSupportAcceptance(d)
  /\ ~BlocksAutonomousExecution(d.authority)
  /\ NeedsOperationalEvidence(d.environment) => d.telemetry_sources # {}

\* What the constructors refuse; assurance_case holds at most one id.
WellFormed(c) ==
  /\ \A records \in {c.models, c.systems, c.use_cases, c.deployments} : DistinctIds(records)
  /\ \A r \in c.models \cup c.use_cases : CanSupportAcceptance(r) => r.evidence # {}
  /\ \A s \in c.systems : CanSupportAcceptance(s) => s.assurance_case # {}
  /\ \A d \in c.deployments : /\ d.scenarios # {} /\ d.evidence # {}
                              /\ d.live => MayRunLive(d)

------------------------------------------------------------------------------
(* RegistryCatalog.validate *)

SystemOf(c, record) == {s \in c.systems : s.id = record.system}
ApprovedUseCases(c, system) ==
  {u \in c.use_cases : u.system = system /\ CanSupportAcceptance(u)}

\* Faulty: an approved record may lean on one that was suspended.
OverreachesDraft(record, supports) ==
  CanSupportAcceptance(record) /\ \E s \in supports : s.lifecycle \in {"draft", "under_review"}

\* An approved record that leans on one that is not.
Overreaches(record, supports) ==
  CanSupportAcceptance(record) /\ \E s \in supports : ~CanSupportAcceptance(s)

SystemFindings(c) ==
  LET ModelsOf(s) == {m \in c.models : m.id \in s.models}
  IN  Warnings("no models", IdsOf({s \in c.systems : s.models = {}})) \cup
      Blockers("missing model",
               UNION {{<<s.id, m>> : m \in s.models \ IdsOf(c.models)} : s \in c.systems}) \cup
      Blockers("uses unapproved model",
               IdsOf({s \in c.systems : Overreaches(s, ModelsOf(s))}))

DependentFindings(c) ==
  LET dependents == c.use_cases \cup c.deployments
  IN  Blockers("missing system", IdsOf({r \in dependents : SystemOf(c, r) = {}})) \cup
      Blockers("uses unapproved system",
               IdsOf({r \in dependents : Overreaches(r, SystemOf(c, r))}))

LiveFindings(c) ==
  Blockers("no approved use case",
           IdsOf({d \in c.deployments : /\ d.live /\ SystemOf(c, d) # {}
                                        /\ ApprovedUseCases(c, d.system) = {}}))

CatalogFindings(c) ==
  SystemFindings(c) \cup DependentFindings(c) \cup LiveFindings(c) \cup
  Warnings("catalog empty",
           Whenever(c.models \cup c.systems \cup c.use_cases \cup c.deployments = {}))

------------------------------------------------------------------------------
(* RegistryEvidenceValidator *)

\* collect_registry_evidence_references: systems name no bundles.
ReferencedBundles(c) == UNION {r.evidence : r \in c.models \cup c.use_cases \cup c.deployments}

\* A deployment's bundle has to come from one of its scenarios.
ScenarioMismatches(c, store) ==
  UNION {{<<d.id, b>> : b \in {x \in d.evidence \cap DOMAIN store :
                                 store[x].scope.scenario_id \notin d.scenarios}} :
         d \in c.deployments}

EvidenceFindings(c, store) ==
  BundleFindings(ReferencedBundles(c), store) \cup
  Blockers("scenario mismatch", ScenarioMismatches(c, store))

RegistryFindings(c, store) == CatalogFindings(c) \cup EvidenceFindings(c, store)

RegistryReadiness(c, store) ==
  LET findings == RegistryFindings(c, store)
  IN  LayerReport("registry_layer", LayerDecision(findings), findings)
==============================================================================
