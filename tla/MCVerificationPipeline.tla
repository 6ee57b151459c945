------------------------ MODULE MCVerificationPipeline ------------------------
(* Small assurance cases and catalogs for VerificationPipeline.  Every id  *)
(* is a tuple, as the ids of bundles and records are.                      *)
EXTENDS VerificationPipeline

Nav == "navigation_confidence"
Mode == "mode"

Hazard(severity, controls, mitigations) ==
  [id |-> <<"H">>, severity |-> severity, controls |-> controls,
   mitigations |-> mitigations, evidence |-> {<<"E">>}]

Claim(subclaims, evidence, criteria) ==
  [id |-> <<"K">>, subclaims |-> subclaims, evidence |-> evidence,
   assumptions |-> {<<"A">>}, criteria |-> criteria, result |-> "pass"]

EvidenceLink(status, supports) ==
  [id |-> <<"E">>, status |-> status, supports |-> supports]

GoodCase ==
  [case_id |-> <<"CASE">>, status |-> "ready_for_review",
   claims |-> {Claim({}, {<<"E">>}, {<<"V">>})},
   hazards |-> {Hazard("critical", {<<"C">>}, {<<"M">>})},
   controls |-> {[id |-> <<"C">>, hazards |-> {<<"H">>}, evidence |-> {<<"E">>}]},
   mitigations |-> {[id |-> <<"M">>, hazard |-> <<"H">>, control |-> <<"C">>,
                     evidence |-> {<<"E">>}]},
   assumptions |-> {[id |-> <<"A">>, evidence |-> {<<"E">>}]},
   evidence |-> {EvidenceLink("accepted", {<<"K">>})},
   criteria |-> {[id |-> <<"V">>, evidence |-> {<<"E">>}]}]

SomeCases ==
  {GoodCase,
   \* another case
   [GoodCase EXCEPT !.case_id = <<"CASE2">>, !.hazards = {Hazard("minor", {}, {})}],
   \* a severe hazard without a control path
   [GoodCase EXCEPT !.hazards = {Hazard("major", {}, {})}],
   \* references to artifacts that are gone
   [GoodCase EXCEPT !.evidence = {}],
   [GoodCase EXCEPT !.status = "draft", !.controls = {}],
   \* a warning only
   [GoodCase EXCEPT !.claims = {Claim({}, {}, {})}],
   \* a claim that supports itself, and evidence that supports an unknown artifact
   [GoodCase EXCEPT !.claims = {Claim({<<"K">>}, {}, {})}],
   [GoodCase EXCEPT !.evidence = {EvidenceLink("provided", {<<"X">>})}],
   \* an id used twice
   [GoodCase EXCEPT !.criteria = {[id |-> <<"A">>, evidence |-> {}]}]}

GoodCases == {GoodCase}

SomeCatalog(severity, decision, authority, required, evidence, hazards) ==
  [contexts |-> {<<"CTX">>}, functions |-> {<<"F">>}, conditions |-> {<<"COND">>},
   stressors |-> {[id |-> <<"STR">>, severity |-> severity,
                   trigger |-> [three_words |-> TRUE, key |-> Nav,
                                operator |-> "<", literal |-> Number(50)]]},
   behaviors |-> {[id |-> <<"B">>, required_decision |-> decision,
                   required_authority_state |-> authority]},
   criteria |-> {[id |-> <<"AC">>, requires_evidence |-> evidence,
                  required_result |-> required]},
   threads |-> {[id |-> <<"T">>, context |-> <<"CTX">>, functions |-> {<<"F">>},
                 scenarios |-> {<<"S">>}, requirements |-> {<<"REQ">>},
                 hazards |-> hazards]},
   scenarios |-> {[id |-> <<"S">>, thread |-> <<"T">>, context |-> <<"CTX">>,
                   function |-> <<"F">>, conditions |-> {<<"COND">>},
                   stressors |-> {<<"STR">>}, behavior |-> <<"B">>,
                   criteria |-> {<<"AC">>}, hazards |-> hazards,
                   evidence |-> {<<"E">>}]}]

DeferCatalog ==
  SomeCatalog("critical", "defer", "human_approval_required", "pass", TRUE, {<<"H">>})

ClampCatalog ==
  SomeCatalog("critical", "clamp", "autonomous_allowed", "pass", FALSE, {<<"H">>})

\* Its criterion asks for a failed run.
FailCatalog ==
  SomeCatalog("critical", "clamp", "autonomous_allowed", "fail", FALSE, {<<"H">>})

AllowCatalog ==
  SomeCatalog("minor", "allow", "autonomous_allowed", "pass", FALSE, {<<"H">>})

\* It names a hazard that no case has.
DanglingCatalog ==
  SomeCatalog("minor", "allow", "autonomous_allowed", "pass", TRUE, {<<"GONE">>})

DuplicateCatalog ==
  [SomeCatalog("minor", "allow", "autonomous_allowed", "pass", TRUE, {<<"H">>})
     EXCEPT !.conditions = {<<"COND">>, <<"B">>}]

SomeCatalogs ==
  {DeferCatalog, ClampCatalog, FailCatalog, AllowCatalog, DanglingCatalog, DuplicateCatalog}

SomeSnapshots ==
  {[k \in {Nav} |-> Number(40)], [k \in {Nav} |-> Number(60)],
   [k \in {Nav, Mode} |-> IF k = Nav THEN Number(60) ELSE Text(1)]}

SomeRules ==
  {[rule_id |-> "mode", decision |-> "allow", authority_state |-> "human_override_active",
    condition |-> [telemetry_key |-> Mode, operator |-> "exists",
                   threshold |-> {}, upper |-> {}]]}

Requirement == {<<"REQ">>}
Need == <<"NEED">>
==============================================================================
