--------------------------- MODULE TelemetrySources ---------------------------
(***************************************************************************)
(* Telemetry sources, schemas and replay records (telemetry.py), the       *)
(* adapter that normalises one input into an envelope                      *)
(* (telemetry_adapter.py) and the readiness of the layer                   *)
(* (telemetry_readiness.py).                                               *)
(*                                                                         *)
(* A payload maps field names to values; a value is its Python type, where *)
(* a text that parses as a UTC time is a "timestamp", and a number or a    *)
(* token.  Times are natural numbers of seconds.  A schema's bounds and an *)
(* input's replay record are sets of at most one element.                  *)
(***************************************************************************)
EXTENDS Readiness

TrustLevels == <<"untrusted", "low", "moderate", "high", "verified_source">>
TrustIs(level, least) ==
  \E i, j \in DOMAIN TrustLevels : TrustLevels[i] = level /\ TrustLevels[j] = least /\ i >= j

IsReplaySource(source) == source.kind = "log_replay"
CanSupportAcceptance(source) == TrustIs(source.trust, "high")

\* The Python types that _matches_field_type lets through: no flag for a number.
TypesOf ==
  [string    |-> {"text", "timestamp"}, enum    |-> {"text", "timestamp"},
   timestamp |-> {"text", "timestamp"}, boolean |-> {"flag"},
   integer   |-> {"integer"},           float   |-> {"integer", "float"}]

IsNumeric(type) == type \in {"integer", "float"}

IdsOf(records) == {r.id : r \in records}

WellFormedField(f) ==
  /\ f.type = "enum" <=> f.allowed # {}
  /\ ~IsNumeric(f.type) => f.min = {} /\ f.max = {}
  /\ \A low \in f.min, high \in f.max : low <= high

WellFormed(c) ==
  /\ \A records \in {c.sources, c.schemas, c.replays} : \A r, s \in records : r.id = s.id => r = s
  /\ \A s \in c.sources : /\ s.schemas # {}
                          /\ CanSupportAcceptance(s) => s.evidence # {}
                          /\ IsReplaySource(s) => s.authority = "replay_file"
  /\ \A s \in c.schemas : /\ s.fields # {}
                          /\ \A f, g \in s.fields : f.name = g.name => f = g
                          /\ \A f \in s.fields : WellFormedField(f)
  /\ \A r \in c.replays : r.scenarios # {}

------------------------------------------------------------------------------
(* TelemetryAdapter.normalize: findings, quality flags and freshness.      *)

Named(records, id) == {r \in records : r.id = id}

MissingFindings(c, in) ==
  Blockers("missing source", {in.source} \ IdsOf(c.sources)) \cup
  Blockers("missing schema", {in.schema} \ IdsOf(c.schemas))

\* A replay record is asked for by a replay source, and by an input that names one.
ReplayFindings(c, policy, source, in) ==
  LET known   == {r \in c.replays : r.id \in in.replay}
      unknown == in.replay \ IdsOf(c.replays)
  IN  Blockers("missing replay record",
               IF IsReplaySource(source) /\ in.replay = {} THEN {source.id} ELSE {}) \cup
      (IF policy.require_known_replay_record THEN Blockers("replay record unknown", unknown)
       ELSE Warnings("replay record unknown", unknown)) \cup
      Blockers("replay mismatch",
               IdsOf({r \in known : <<r.source, r.schema>> # <<in.source, in.schema>>}))

ReplayFlags(source, in) ==
  IF IsReplaySource(source) \/ in.replay # {} THEN {"replay_only"} ELSE {}

Freshness(policy, in) ==
  IF in.captured_at > in.received_at THEN "future_dated"
  ELSE IF in.received_at - in.captured_at > policy.max_latency THEN "stale" ELSE "current"

TimestampFindings(policy, in) ==
  Blockers("captured in the future",
           IF Freshness(policy, in) = "future_dated" THEN {in.id} ELSE {}) \cup
  Warnings("stale", IF Freshness(policy, in) = "stale" THEN {in.id} ELSE {})

TimestampFlags(policy, in) ==
  CASE Freshness(policy, in) = "future_dated" -> {"future_timestamp"}
    [] Freshness(policy, in) = "stale"        -> {"stale_timestamp"}
    [] OTHER                                  -> {}

OutOfRange(f, value) ==
  /\ IsNumeric(f.type)
  /\ \/ \E low \in f.min : value.v < low
     \/ \E high \in f.max : value.v > high

\* A value of the wrong type is not looked at further.
IllTyped(f, value) == value.type \notin TypesOf[f.type]
Misfit(f, value) ==
  \/ IllTyped(f, value)
  \/ f.type = "enum" /\ value.v \notin f.allowed
  \/ f.type = "timestamp" /\ value.type # "timestamp"
  \/ OutOfRange(f, value)

PayloadFindings(schema, in) ==
  LET present == DOMAIN in.payload
  IN  Blockers("missing field", {f.name : f \in {g \in schema.fields : g.required}} \ present) \cup
      Blockers("misfit", {f.name : f \in {g \in schema.fields :
                            g.name \in present /\ Misfit(g, in.payload[g.name])}}) \cup
      Warnings("unexpected field", present \ {f.name : f \in schema.fields})

IsTrusted(source) ==
  TrustIs(source.trust, IF IsReplaySource(source) THEN "moderate" ELSE "high")

TrustFindings(policy, source) ==
  LET doubtful == IF IsTrusted(source) THEN {} ELSE {source.id}
  IN  IF policy.reject_untrusted THEN Blockers("untrusted", doubtful)
      ELSE Warnings("untrusted", doubtful)

TrustFlags(source) == IF IsTrusted(source) THEN {} ELSE {"source_untrusted"}

AdapterFindings(c, policy, source, schema, in) ==
  Blockers("schema not supported", {in.schema} \ source.schemas) \cup
  ReplayFindings(c, policy, source, in) \cup TimestampFindings(policy, in) \cup
  PayloadFindings(schema, in) \cup TrustFindings(policy, source)

\* Replay alone does not block; the flags of a misfit come with a blocker, so no
\* envelope ever carries them.
BlockingFlags ==
  {"missing_field", "schema_mismatch", "stale_timestamp", "future_timestamp", "out_of_range",
   "source_untrusted"}

SupportsRuntimeEvaluation(envelope) ==
  envelope.freshness = "current" /\ envelope.flags \cap BlockingFlags = {}

Envelope(policy, source, in) ==
  [input     |-> in,
   freshness |-> Freshness(policy, in),
   flags     |-> ReplayFlags(source, in) \cup TimestampFlags(policy, in) \cup TrustFlags(source)]

AdapterReport(in, findings, envelopes) ==
  [input    |-> in.id,
   findings |-> findings,
   envelope |-> envelopes,
   decision |-> IF envelopes = {} THEN "rejected"
                ELSE IF \A e \in envelopes : SupportsRuntimeEvaluation(e) THEN "accepted"
                ELSE "degraded"]

Normalize(c, policy, in) ==
  IF Named(c.sources, in.source) = {} \/ Named(c.schemas, in.schema) = {}
  THEN AdapterReport(in, MissingFindings(c, in), {})
  ELSE LET source   == CHOOSE s \in Named(c.sources, in.source) : TRUE
           schema   == CHOOSE s \in Named(c.schemas, in.schema) : TRUE
           findings == AdapterFindings(c, policy, source, schema, in)
       IN  AdapterReport(in, findings, IF AnyBlocker(findings) THEN {}
                                       ELSE {Envelope(policy, source, in)})

------------------------------------------------------------------------------
(* TelemetryLayerReadinessEvaluator: neither the evidence of sources nor   *)
(* that of replay records is looked up.                                    *)

CatalogFindings(c) ==
  Blockers("no sources", Whenever(c.sources = {})) \cup
  Blockers("no schemas", Whenever(c.schemas = {})) \cup
  Warnings("no replay records", Whenever(c.replays = {}))

ReportFindings(reports) ==
  LET Those(decision) == {r.input : r \in {s \in reports : s.decision = decision}}
  IN  Blockers("no adapter reports", Whenever(reports = {})) \cup
      Blockers("no usable envelope", Whenever(Those("accepted") = {})) \cup
      Blockers("rejected", Those("rejected")) \cup
      Warnings("degraded", Those("degraded"))

TelemetryFindings(c, reports) ==
  CatalogFindings(c) \cup ReportFindings(reports) \cup UNION {r.findings : r \in reports}

TelemetryReadiness(c, reports) ==
  LET findings == TelemetryFindings(c, reports)
  IN  LayerReport("telemetry_adapters", LayerDecision(findings), findings)
==============================================================================
