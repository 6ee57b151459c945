----------------------------- MODULE Degradation -----------------------------
(***************************************************************************)
(* The degradation engine (degradation.py): telemetry rules, conflict      *)
(* checks and the integrity of prior evidence bundles, each turned into    *)
(* signals of some level.                                                  *)
(*                                                                         *)
(* A signal is its id and its level; prior is the set of evidence bundles  *)
(* the caller passes.                                                      *)
(***************************************************************************)
EXTENDS Evidence, Telemetry

DegradationLevel == {"nominal", "watch", "degraded", "severe", "critical"}

LevelRank(level) ==
  CASE level = "nominal"  -> 0
    [] level = "watch"    -> 1
    [] level = "degraded" -> 2
    [] level = "severe"   -> 3
    [] level = "critical" -> 4

IsDegraded(level) == LevelRank(level) >= LevelRank("degraded")

LevelDecision(level) ==
  CASE level = "critical" -> "safe_hold"
    [] level = "severe"   -> "veto"
    [] level = "degraded" -> "defer"
    [] OTHER              -> "allow"

LevelAuthority(level) ==
  CASE level = "critical" -> "emergency_safe_hold"
    [] level = "severe"   -> "denied"
    [] level = "degraded" -> "human_approval_required"
    [] OTHER              -> "autonomous_allowed"

------------------------------------------------------------------------------
\* Rules and conflict checks share one id space.
EngineHasDistinctIds(rules, checks) ==
  /\ \A r, q \in rules : r.rule_id = q.rule_id => r = q
  /\ \A k, m \in checks : k.check_id = m.check_id => k = m
  /\ \A r \in rules, k \in checks : r.rule_id # k.check_id

RuleSignals(rules, telemetry) ==
  {[id |-> <<"rule", r.rule_id>>, level |-> r.level] :
     r \in {r \in rules : ConditionMatches(r.condition, telemetry)}}

BothPresent(check, telemetry) ==
  Has(telemetry, check.primary_key) /\ Has(telemetry, check.comparison_key)

ConflictRaises(check, telemetry) ==
  /\ BothPresent(check, telemetry)
  /\ \/ ~IsNumber(Get(telemetry, check.primary_key))
     \/ ~IsNumber(Get(telemetry, check.comparison_key))

Conflicts(check, telemetry) ==
  LET a == Get(telemetry, check.primary_key).v
      b == Get(telemetry, check.comparison_key).v
  IN  /\ BothPresent(check, telemetry)
      /\ (IF a < b THEN b - a ELSE a - b) > check.max_allowed_delta

ConflictSignals(checks, telemetry) ==
  {[id |-> <<"check", k.check_id>>, level |-> k.level] :
     k \in {k \in checks : Conflicts(k, telemetry)}}

\* Faulty: an integrity error degrades like a stale record does.
MildBundleSignals(b) ==
  {[id |-> <<"evidence finding", b.bundle_id, f>>, level |-> "degraded"] :
     f \in IntegrityErrors(b) \cup StatusWarnings(b)}

\* _signals_from_evidence_bundles: an unhashed record or bundle is only watched.
BundleSignals(b) ==
  {[id |-> <<"evidence error", b.bundle_id, f>>, level |-> "critical"] :
     f \in IntegrityErrors(b)} \cup
  {[id |-> <<"evidence warning", b.bundle_id, f>>, level |-> "watch"] :
     f \in MissingHashWarnings(b)} \cup
  {[id |-> <<"evidence warning", b.bundle_id, f>>, level |-> "degraded"] :
     f \in StatusWarnings(b)} \cup
  {[id |-> <<"evidence stale", b.records[i].evidence_id>>, level |-> "degraded"] :
     i \in StaleRecords(b)} \cup
  {[id |-> <<"evidence invalid", b.records[i].evidence_id>>, level |-> "critical"] :
     i \in InvalidRecords(b)}

Signals(rules, checks, telemetry, prior) ==
  RuleSignals(rules, telemetry) \cup
  ConflictSignals(checks, telemetry) \cup
  UNION {BundleSignals(b) : b \in prior}

------------------------------------------------------------------------------
IdsWith(b, places) == {b.records[i].evidence_id : i \in places}

\* DegradationAssessment refuses a repeated signal id: two bundles with the same
\* stale, or the same invalid, record cannot be assessed together.
RepeatedSignalIds(prior) ==
  \E b, c \in prior :
    /\ b # c
    /\ \/ IdsWith(b, StaleRecords(b)) \cap IdsWith(c, StaleRecords(c)) # {}
       \/ IdsWith(b, InvalidRecords(b)) \cap IdsWith(c, InvalidRecords(c)) # {}

\* It also refuses two bundles with the same id.
RepeatedBundleIds(prior) ==
  \E b, c \in prior : b # c /\ b.bundle_id = c.bundle_id

AssessRaises(rules, checks, telemetry, prior) ==
  \/ \E r \in rules : ConditionRaises(r.condition, telemetry)
  \/ \E k \in checks : ConflictRaises(k, telemetry)
  \/ RepeatedBundleIds(prior)
  \/ RepeatedSignalIds(prior)

\* Faulty: the mildest signal decides.
MildestDecision(signals) ==
  LET decisions == {LevelDecision(s.level) : s \in signals}
  IN  IF decisions = {} THEN "allow"
      ELSE CHOOSE d \in decisions : \A e \in decisions : DecisionRank(d) <= DecisionRank(e)

RecommendedDecision(signals) ==
  MostRestrictiveDecision({LevelDecision(s.level) : s \in signals})

RecommendedAuthority(signals) ==
  MostRestrictiveAuthority({LevelAuthority(s.level) : s \in signals})

\* degraded_mode() and requires_operator_review() both come to this.
AnyDegraded(signals) == \E s \in signals : IsDegraded(s.level)

------------------------------------------------------------------------------
LOCAL Below(id, key, n, level) ==
  [rule_id   |-> id, level |-> level,
   condition |-> [telemetry_key |-> key, operator |-> "lt",
                  threshold |-> {Number(n)}, upper |-> {}]]

LOCAL Above(id, key, n, level) ==
  [Below(id, key, n, level) EXCEPT !.condition.operator = "gt"]

LOCAL Missing(id, key, level) ==
  [Below(id, key, 0, level) EXCEPT !.condition.operator = "missing",
                                   !.condition.threshold = {}]

\* build_default_degradation_rules, in hundredths.
DefaultDegradationRules ==
  {Below("NAV-CONFIDENCE-CRITICAL", "navigation_confidence", 50, "critical"),
   Below("NAV-CONFIDENCE-DEGRADED", "navigation_confidence", 70, "degraded"),
   Missing("COMMS-LINK-MISSING", "comms_link_active", "severe"),
   Below("POWER-MARGIN-LOW", "power_margin_pct", 2000, "degraded"),
   Above("SENSOR-DRIFT-HIGH", "sensor_drift_sigma", 300, "degraded"),
   Above("CONTROL-LOOP-LATENCY-HIGH", "control_loop_latency_ms", 25000, "severe")}
==============================================================================
