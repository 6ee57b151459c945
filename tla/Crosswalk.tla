------------------------------- MODULE Crosswalk -------------------------------
(***************************************************************************)
(* The crosswalk to assurance frameworks: control objectives, the mappings *)
(* of artifacts to them and the coverage drawn from these                  *)
(* (framework_crosswalk.py), the evidence behind mappings                  *)
(* (framework_crosswalk_evidence.py) and the readiness of the layer        *)
(* (framework_crosswalk_readiness.py).                                     *)
(***************************************************************************)
EXTENDS Readiness

IsFederal(framework) ==
  framework \in {"omb_ai_governance", "omb_ai_acquisition", "odni_ai_governance",
                 "dod_ai_t_and_e", "dod_responsible_ai"}
SupportsAlignmentClaim(status) == status \in {"satisfied", "partial"}
RequiresFollowUp(status) == status \in {"partial", "missing", "not_assessed"}

IdsOf(records) == {r.id : r \in records}

WellFormed(x) ==
  /\ \A records \in {x.objectives, x.mappings} : \A r, s \in records : r.id = s.id => r = s
  /\ \A o \in x.objectives : o.artifact_types # {} /\ o.evidence_kinds # {}
  /\ \A m \in x.mappings : m.status = "satisfied" => m.evidence # {}

ObjectiveOf(x, mapping) == {o \in x.objectives : o.id = mapping.control}
MappingsFor(x, objective) == {m \in x.mappings : m.control = objective.id}

\* _aggregate_coverage_status: the first of these that some mapping has.
CoverageOrder == <<"satisfied", "partial", "out_of_scope", "missing">>
CoverageStatus(x, objective) ==
  LET statuses == {m.status : m \in MappingsFor(x, objective)}
      found    == {i \in DOMAIN CoverageOrder : CoverageOrder[i] \in statuses}
  IN  IF found = {} THEN "not_assessed" ELSE CoverageOrder[Min(found)]

\* _validate_mapping_references
MappingFindings(x) ==
  LET resolved == {m \in x.mappings : ObjectiveOf(x, m) # {}}
  IN  Blockers("missing control", IdsOf(x.mappings \ resolved)) \cup
      Warnings("unexpected artifact type",
               IdsOf({m \in resolved :
                        \E o \in ObjectiveOf(x, m) : m.artifact_type \notin o.artifact_types})) \cup
      Warnings("follow-up", IdsOf({m \in resolved : RequiresFollowUp(m.status)}))

\* build_coverage_report: only an objective without mappings adds a finding.
CoverageFindings(x) ==
  MappingFindings(x) \cup
  Warnings("not assessed", IdsOf({o \in x.objectives : MappingsFor(x, o) = {}}))

------------------------------------------------------------------------------
(* FrameworkEvidenceValidator *)

Kinds(bundle) == {bundle.records[i].content.kind : i \in DOMAIN bundle.records}

ExpectedKinds(x, mapping) == UNION {o.evidence_kinds : o \in ObjectiveOf(x, mapping)}

\* A bundle with integrity errors is not asked for its kinds.
MissingKinds(x, m, store) ==
  UNION {{<<m.id, b, k>> : k \in ExpectedKinds(x, m) \ Kinds(store[b])} :
         b \in {c \in m.evidence \cap DOMAIN store : IntegrityErrors(store[c]) = {}}}

KindFindings(x, store) ==
  UNION {IF m.status = "satisfied"
         THEN Blockers("missing kind", MissingKinds(x, m, store))
         ELSE Warnings("missing kind", MissingKinds(x, m, store)) : m \in x.mappings}

EvidenceFindings(x, store) ==
  Warnings("partial without evidence",
           IdsOf({m \in x.mappings : /\ ObjectiveOf(x, m) # {}
                                     /\ m.status = "partial" /\ m.evidence = {}})) \cup
  KindFindings(x, store) \cup
  BundleFindings(UNION {m.evidence : m \in x.mappings}, store)

CrosswalkFindings(x, store) ==
  Blockers("no federal objective",
           Whenever(\A o \in x.objectives : ~IsFederal(o.framework))) \cup
  Blockers("no mappings", Whenever(x.mappings = {})) \cup
  CoverageFindings(x) \cup EvidenceFindings(x, store)

CrosswalkReadiness(x, store) ==
  LET findings == CrosswalkFindings(x, store)
  IN  LayerReport("framework_crosswalks", LayerDecision(findings), findings)
==============================================================================
