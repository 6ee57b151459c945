------------------------------- MODULE Monitoring -------------------------------
(***************************************************************************)
(* Monitoring: snapshots of a deployed system, drift records, incidents    *)
(* and revalidation triggers (monitoring.py), their validation against the *)
(* registry, the telemetry catalog and the evidence                        *)
(* (monitoring_validation.py), and the readiness of the layer              *)
(* (monitoring_readiness.py).                                              *)
(***************************************************************************)
EXTENDS Readiness

IsCurrent(snapshot) == snapshot.status = "current"
DriftRequiresRevalidation(drift) == drift \in {"degraded", "critical"}
RequiresRevalidation(snapshot) ==
  ~IsCurrent(snapshot) \/ DriftRequiresRevalidation(snapshot.drift)

RequiresAuthorityReview(severity) == severity \in {"high", "critical"}
IncidentState == {"open", "triaged", "mitigated", "closed"}
IsOpen(state) == state \in {"open", "triaged"}
BlocksAcceptance(state) == state \in {"open", "in_progress"}

IdsOf(records) == {r.id : r \in records}

WellFormed(t) ==
  /\ \A records \in {t.snapshots, t.drifts, t.incidents, t.triggers} :
       \A r, s \in records : r.id = s.id => r = s
  /\ \A r \in t.snapshots \cup t.drifts \cup t.incidents \cup t.triggers : r.evidence # {}
  /\ \A s \in t.snapshots : /\ s.scenarios # {} /\ s.telemetry_sources # {}
                            /\ ~(IsCurrent(s) /\ DriftRequiresRevalidation(s.drift))
  /\ \A d \in t.drifts : DriftRequiresRevalidation(d.status) => d.scenarios # {}
  /\ \A i \in t.incidents : /\ i.scenarios # {}
                            /\ RequiresAuthorityReview(i.severity) => i.hazards # {}
  /\ \A r \in t.triggers : r.requirements # {}

RequiredEvidence(t) ==
  UNION {r.evidence : r \in t.snapshots \cup t.drifts \cup t.incidents \cup t.triggers}

------------------------------------------------------------------------------
(* MonitoringTrailValidator: registry and telemetry are the catalogs.      *)

Named(records, id) == {r \in records : r.id = id}

DeploymentOf(registry, record) == Named(registry.deployments, record.deployment)

\* The findings that snapshots and incidents have in common.
PlaceFindings(registry, record) ==
  LET deployed == DeploymentOf(registry, record)
  IN  Blockers("missing system", {record.system} \ IdsOf(registry.systems)) \cup
      Blockers("missing deployment", {record.deployment} \ IdsOf(registry.deployments)) \cup
      Blockers("deployment of another system",
               IdsOf({d \in deployed : d.system # record.system})) \cup
      UNION {Blockers("scenario not in deployment", record.scenarios \ d.scenarios) : d \in deployed}

ModelFindings(registry, s) ==
  Blockers("missing model", {s.model} \ IdsOf(registry.models)) \cup
  Blockers("model not on system",
           IdsOf({y \in Named(registry.systems, s.system) : s.model \notin y.models}))

SnapshotFindings(t, registry, telemetry) ==
  LET Lacking(s) ==
        PlaceFindings(registry, s) \cup ModelFindings(registry, s) \cup
        (UNION {Warnings("telemetry not in deployment", s.telemetry_sources \ d.telemetry_sources) :
                d \in DeploymentOf(registry, s)}) \cup
        Blockers("missing telemetry source", s.telemetry_sources \ IdsOf(telemetry.sources))
  IN  (UNION {Lacking(s) : s \in t.snapshots}) \cup
      Blockers("requires revalidation", IdsOf({s \in t.snapshots : RequiresRevalidation(s)}))

\* A drift record's own status decides nothing.
DriftFindings(t) ==
  LET Strays(d, s) ==
        \/ <<d.system, d.model, d.deployment>> # <<s.system, s.model, s.deployment>>
        \/ ~(d.scenarios \subseteq s.scenarios)
  IN  Blockers("missing snapshot", {d.snapshot : d \in t.drifts} \ IdsOf(t.snapshots)) \cup
      Blockers("drift strays from snapshot",
               IdsOf({d \in t.drifts : \E s \in Named(t.snapshots, d.snapshot) : Strays(d, s)}))

\* A review finding is taken to exist.
SourceExists(t, trigger) ==
  CASE trigger.source = "monitoring_snapshot" -> trigger.record \in IdsOf(t.snapshots)
    [] trigger.source = "drift_record"        -> trigger.record \in IdsOf(t.drifts)
    [] trigger.source = "incident_record"     -> trigger.record \in IdsOf(t.incidents)
    [] OTHER                                  -> TRUE

TriggerFindings(t) ==
  Warnings("no trigger history", Whenever(t.triggers = {})) \cup
  Blockers("missing source record", IdsOf({r \in t.triggers : ~SourceExists(t, r)})) \cup
  Blockers("trigger blocks", IdsOf({r \in t.triggers : BlocksAcceptance(r.state)}))

\* Readiness adds open incidents and a history of drift.
MonitoringFindings(t, registry, telemetry, store) ==
  Blockers("no current snapshot", Whenever(\A s \in t.snapshots : ~IsCurrent(s))) \cup
  SnapshotFindings(t, registry, telemetry) \cup DriftFindings(t) \cup TriggerFindings(t) \cup
  (UNION {PlaceFindings(registry, i) : i \in t.incidents}) \cup
  Blockers("incident open", IdsOf({i \in t.incidents : IsOpen(i.state)})) \cup
  Warnings("no drift history", Whenever(t.drifts = {})) \cup
  BundleFindings(RequiredEvidence(t), store)

MonitoringReadiness(t, registry, telemetry, store) ==
  LET findings == MonitoringFindings(t, registry, telemetry, store)
  IN  LayerReport("monitoring_incidents", LayerDecision(findings), findings)
==============================================================================
