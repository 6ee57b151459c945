-------------------------------- MODULE Dossier --------------------------------
(***************************************************************************)
(* The assurance dossier: trace threads from a mission need to evidence,   *)
(* review and export (assurance_dossier.py), its validation                *)
(* (assurance_dossier_validation.py) and the readiness of the layer        *)
(* (assurance_dossier_readiness.py).  bounded stands for the words of the  *)
(* disclaimer.                                                             *)
(***************************************************************************)
EXTENDS Readiness

CanSupportTraceClosure(status) == status \in {"trace_closed", "exported"}
IsClosed(thread) == thread.closure = "closed"
IsRuntimeArtifact(kind) ==
  kind \in {"telemetry_replay", "scenario_campaign", "monitoring_trail", "run_ledger"}
IsClosureArtifact(kind) ==
  kind \in {"review_workflow", "evidence_bundle", "provenance_manifest", "export_package",
            "readiness_rollup"}
RequiredKinds == {"review_workflow", "export_package", "readiness_rollup"}

IdsOf(records) == {r.id : r \in records}

WellFormed(d) ==
  /\ \A records \in {d.threads, d.artifacts, d.references} :
       records # {} /\ \A r, s \in records : r.id = s.id => r = s
  /\ \A a \in d.artifacts : a.kind = "provenance_manifest" \/ a.evidence # {}
  /\ \A r \in d.references : r.artifacts # {} /\ r.requirements # {}
  /\ \A t \in d.threads :
       /\ {} \notin {t.requirements, t.scenarios, t.hazards, t.controls, t.references, t.reviews}
       /\ IsClosed(t) => t.exports # {}
  /\ CanSupportTraceClosure(d.status) => \A t \in d.threads : IsClosed(t)

RequiredEvidence(d) ==
  (UNION {a.evidence : a \in d.artifacts}) \cup {r.bundle : r \in d.references}
RequiredManifests(d) == UNION {a.manifests : a \in d.artifacts}
ExportIds(d) == UNION {t.exports : t \in d.threads}

------------------------------------------------------------------------------
(* AssuranceDossierValidator: manifests and exports are the provenance      *)
(* manifests and export packages at hand.                                  *)

KindsOf(d) == {a.kind : a \in d.artifacts}

PostureFindings(d) ==
  Blockers("status not trace closed", Whenever(~CanSupportTraceClosure(d.status))) \cup
  Blockers("open thread", IdsOf({t \in d.threads : ~IsClosed(t)})) \cup
  Blockers("no runtime artifacts", Whenever(\A k \in KindsOf(d) : ~IsRuntimeArtifact(k))) \cup
  Blockers("no closure artifacts", Whenever(\A k \in KindsOf(d) : ~IsClosureArtifact(k)))

\* Faulty: any reference of the dossier supports a thread.
AnyReference(d, t) == d.references

\* A thread is supported by the references it names itself.
Supporting(d, t) == {r \in d.references : r.id \in t.references}

ThreadFindings(d) ==
  LET reviews == {a.record : a \in {b \in d.artifacts : b.kind = "review_workflow"}}
      Lacking(t) ==
        Blockers("reference missing", t.references \ IdsOf(d.references)) \cup
        Blockers("review missing", t.reviews \ reviews) \cup
        Blockers("requirement unsupported",
                 t.requirements \ UNION {r.requirements : r \in Supporting(d, t)}) \cup
        Blockers("hazard unsupported",
                 t.hazards \ UNION {r.hazards : r \in Supporting(d, t)})
  IN  UNION {Lacking(t) : t \in d.threads}

ArtifactFindings(d) ==
  Warnings("missing kind", RequiredKinds \ KindsOf(d)) \cup
  Blockers("artifact without provenance",
           IdsOf({a \in d.artifacts : a.kind # "provenance_manifest" /\ a.manifests = {}}))

ReferenceFindings(d) ==
  LET Named(r) ==
        Blockers("artifact missing", r.artifacts \ IdsOf(d.artifacts)) \cup
        Blockers("requirement missing",
                 r.requirements \ UNION {t.requirements : t \in d.threads}) \cup
        Blockers("hazard missing", r.hazards \ UNION {t.hazards : t \in d.threads})
  IN  UNION {Named(r) : r \in d.references}

SourceFindings(d, manifests, exports) ==
  Blockers("no provenance", Whenever(RequiredManifests(d) = {})) \cup
  Blockers("manifest missing", RequiredManifests(d) \ manifests) \cup
  Blockers("no export package", Whenever(ExportIds(d) = {})) \cup
  Blockers("export missing", ExportIds(d) \ exports)

\* Readiness repeats closure, artifacts, provenance and exports: nothing new.
DossierFindings(d, store, manifests, exports) ==
  PostureFindings(d) \cup ThreadFindings(d) \cup ArtifactFindings(d) \cup
  ReferenceFindings(d) \cup SourceFindings(d, manifests, exports) \cup
  BundleFindings(RequiredEvidence(d), store) \cup
  Blockers("disclaimer weak", Whenever(~d.bounded))

DossierReadiness(d, store, manifests, exports) ==
  LET findings == DossierFindings(d, store, manifests, exports)
  IN  LayerReport("assurance_dossier", LayerDecision(findings), findings)
==============================================================================
