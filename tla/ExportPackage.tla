----------------------------- MODULE ExportPackage -----------------------------
(***************************************************************************)
(* The export package: artifacts bundled for an audience, with redaction   *)
(* rules (export_package.py), its validation against evidence and          *)
(* provenance (export_package_validation.py) and the readiness of the      *)
(* layer (export_package_readiness.py).  bounded stands for the words of   *)
(* the disclaimer.                                                         *)
(***************************************************************************)
EXTENDS Readiness

CanBeExported(status) == status \in {"ready_to_export", "exported"}
IsMachineReadable(format) == format # "markdown"
RequiresRedactionReview(audience) ==
  audience \in {"open_source_review", "technical_due_diligence", "federal_evaluation"}
RequiresEvidenceReference(kind) == kind \notin {"provenance_manifest", "repository_metadata"}
IsRuntimeArtifact(kind) ==
  kind \in {"telemetry_replay", "scenario_campaign", "monitoring_trail", "run_ledger"}
RequiredKinds ==
  {"assurance_case", "traceability_graph", "evidence_bundle", "readiness_report",
   "review_workflow"}

WellFormed(x) ==
  /\ x.artifacts # {}
  /\ \A records \in {x.artifacts, x.rules} : \A r, s \in records : r.id = s.id => r = s
  /\ \A a \in x.artifacts : a.required /\ RequiresEvidenceReference(a.kind) => a.evidence # {}
  /\ \A r \in x.rules : r.kinds # {} /\ (r.required => r.evidence # {})
  /\ RequiresRedactionReview(x.audience) => x.rules # {}
  /\ CanBeExported(x.status) => IsMachineReadable(x.format)

RuntimeArtifacts(x) == {a \in x.artifacts : IsRuntimeArtifact(a.kind)}

RequiredEvidence(x) == x.evidence \cup UNION {r.evidence : r \in x.artifacts \cup x.rules}
RequiredManifests(x) == x.manifests \cup UNION {a.manifests : a \in x.artifacts}

------------------------------------------------------------------------------
(* ExportPackageValidator: manifests are the provenance manifests at hand. *)

PostureFindings(x) ==
  Blockers("status not exportable", Whenever(~CanBeExported(x.status))) \cup
  Blockers("not machine readable", Whenever(~IsMachineReadable(x.format))) \cup
  Blockers("no evidence", Whenever(RequiredEvidence(x) = {}))

ArtifactFindings(x) ==
  Warnings("missing kind", RequiredKinds \ {a.kind : a \in x.artifacts}) \cup
  Blockers("runtime without provenance",
           {a.id : a \in {r \in RuntimeArtifacts(x) : r.manifests = {}}})

RedactionFindings(x) ==
  LET covered == UNION {r.kinds : r \in x.rules}
  IN  Blockers("missing redaction rule",
               {a.id : a \in {s \in x.artifacts : s.sensitive /\ s.kind \notin covered}})

ManifestFindings(x, manifests) ==
  Blockers("no provenance", Whenever(x.manifests = {})) \cup
  Blockers("manifest missing", RequiredManifests(x) \ manifests)

\* Readiness adds that some artifact comes from a run.
ExportFindings(x, store, manifests) ==
  PostureFindings(x) \cup ArtifactFindings(x) \cup RedactionFindings(x) \cup
  ManifestFindings(x, manifests) \cup BundleFindings(RequiredEvidence(x), store) \cup
  Blockers("disclaimer weak", Whenever(~x.bounded)) \cup
  Blockers("no runtime artifacts", Whenever(RuntimeArtifacts(x) = {}))

ExportReadiness(x, store, manifests) ==
  LET findings == ExportFindings(x, store, manifests)
  IN  LayerReport("audit_report_export", LayerDecision(findings), findings)
==============================================================================
