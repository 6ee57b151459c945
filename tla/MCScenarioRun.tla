---------------------------- MODULE MCScenarioRun ----------------------------
(* Catalogs, telemetry and rules shared by the runs of ScenarioRun.        *)
EXTENDS ScenarioRun

Nav == "navigation_confidence"
Comms == "comms_link_active"
Mode == "mode"

Stressor(id, severity, key, operator, literal) ==
  [id |-> id, severity |-> severity,
   trigger |-> [three_words |-> operator # "", key |-> key,
                operator |-> operator, literal |-> literal]]

Behavior(decision, authority) ==
  [id |-> "behavior", required_decision |-> decision,
   required_authority_state |-> authority]

Thread == [id |-> "thread", context |-> "context", functions |-> {"function"},
           scenarios |-> {"scenario"}]

Catalog(stressors, behavior) ==
  [contexts |-> {"context"}, functions |-> {"function"}, conditions |-> {"condition"},
   stressors |-> stressors, behaviors |-> {behavior},
   criteria |-> {[id |-> "criterion", requires_evidence |-> TRUE]},
   threads |-> {Thread},
   scenarios |-> {[id |-> "scenario", thread |-> "thread", context |-> "context",
                   function |-> "function", conditions |-> {"condition"},
                   stressors |-> Ids(stressors), behavior |-> "behavior",
                   criteria |-> {"criterion"}, evidence |-> {}]}]

\* One stressor whose trigger is compared, unsupported, or not three words long.
Triggers(severity) ==
  {Stressor("stressor", severity, Nav, "<", Number(50)),
   Stressor("stressor", severity, Nav, "<=", Number(50)),
   Stressor("stressor", severity, Nav, ">", Number(69)),
   Stressor("stressor", severity, Nav, ">=", Number(100)),
   Stressor("stressor", severity, Nav, ">", None),
   Stressor("stressor", severity, Nav, "==", Flag(TRUE)),
   Stressor("stressor", severity, Mode, "!=", Text(1)),
   Stressor("stressor", severity, Comms, "is", Text(1)),
   Stressor("stressor", severity, Comms, "", None)}

Behaviors ==
  {Behavior("allow", "autonomous_allowed"), Behavior("allow", "human_approval_required"),
   Behavior("allow", "human_override_active"), Behavior("clamp", "autonomous_allowed"),
   Behavior("defer", "human_approval_required"), Behavior("safe_hold", "denied")}

PlainCatalog ==
  Catalog({Stressor("stressor", "critical", Nav, "<", Number(50))},
          Behavior("defer", "human_approval_required"))

\* Catalogs that validate_references refuses, one for each kind of error.
BrokenCatalogs ==
  {[PlainCatalog EXCEPT !.stressors = {}],
   [PlainCatalog EXCEPT !.behaviors = {}],
   [PlainCatalog EXCEPT !.threads = {}],
   [PlainCatalog EXCEPT !.scenarios = {}],
   [PlainCatalog EXCEPT !.criteria = {}],
   [PlainCatalog EXCEPT !.conditions = {"condition", "stressor"}],
   [PlainCatalog EXCEPT !.behaviors = @ \cup {Behavior("allow", "autonomous_allowed")}]}

SomeCatalogs ==
  {Catalog({x}, b) : x \in Triggers("minor") \cup Triggers("major"), b \in Behaviors}

GateCatalogs == SomeCatalogs \cup BrokenCatalogs

Snapshot(nav, comms, mode) ==
  [k \in {x \in {Nav, Comms, Mode} :
            CASE x = Nav   -> nav # None
              [] x = Comms -> comms # None
              [] x = Mode  -> mode # None} |->
     CASE k = Nav   -> nav
       [] k = Comms -> comms
       [] k = Mode  -> mode]

GateSnapshots ==
  {Snapshot(nav, comms, mode) :
     nav \in {None, Number(49), Number(50), Number(70), Number(100), Flag(TRUE)},
     comms \in {None, Flag(TRUE)},
     mode \in {None, Text(1), Text(2)}}
  \cup {[k \in {Nav, Comms, Mode} |-> None]}

Condition(key, operator, threshold, upper) ==
  [telemetry_key |-> key, operator |-> operator, threshold |-> threshold, upper |-> upper]

GateRule(id, condition, decision, authority) ==
  [rule_id |-> id, condition |-> condition, decision |-> decision,
   authority_state |-> authority]

GateRules ==
  {GateRule("comms", Condition(Comms, "exists", {}, {}), "allow", "autonomous_allowed"),
   GateRule("mode", Condition(Mode, "in", {Text(2), Text(3)}, {}),
            "allow", "human_override_active"),
   GateRule("nav", Condition(Nav, "between", {Number(60)}, {Number(70)}),
            "clamp", "autonomous_allowed")}

EngineRule(id, condition, level) ==
  [rule_id |-> id, condition |-> condition, level |-> level]

EngineRules ==
  {EngineRule("link", Condition(Comms, "missing", {}, {}), "watch"),
   EngineRule("full", Condition(Nav, "gte", {Number(100)}, {}), "severe")}

Checks ==
  {[check_id |-> "drift", primary_key |-> Nav, comparison_key |-> Mode,
    max_allowed_delta |-> 10, level |-> "degraded"]}

\* Values that stand on both sides of every threshold of the default rules.
DefaultSnapshots ==
  {[k \in {x \in {Nav, Comms, "power_margin_pct", "control_loop_latency_ms"} :
             x # missing} |->
      CASE k = Nav -> nav
        [] k = Comms -> Flag(TRUE)
        [] k = "power_margin_pct" -> power
        [] k = "control_loop_latency_ms" -> latency] :
     missing \in {Nav, Comms, "power_margin_pct", "none"},
     nav \in {Number(49), Number(50), Number(69), Number(70), Text(1)},
     power \in {Number(1999), Number(2000)},
     latency \in {Number(25000), Number(25001)}}

CalmCatalogs == {Catalog({}, Behavior("allow", "autonomous_allowed"))}

StressedCatalogs == {PlainCatalog}

EvidenceSnapshots ==
  {Snapshot(nav, Flag(TRUE), None) : nav \in {Number(60), Number(50)}}

EvidenceRules ==
  {EngineRule("nav", Condition(Nav, "lte", {Number(50)}, {}), "severe")}

\* Two bundles from elsewhere that share a record.
SharedRecord(status) ==
  [evidence_id |-> <<"EV", "shared">>, content |-> [plan |-> "plan"], status |-> status, content_hash |-> {}]

ImportedBundle(id) ==
  BundleWithComputedHashes(
    [bundle_id |-> <<"BND", id>>, scope |-> "scenario",
     records |-> <<SharedRecord("provided")>>, bundle_hash |-> {}])

ImportedBundles == {ImportedBundle("x"), ImportedBundle("y")}
==============================================================================
