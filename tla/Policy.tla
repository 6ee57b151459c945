-------------------------------- MODULE Policy --------------------------------
(***************************************************************************)
(* Policy packs and waivers: the records (policy.py), the evaluation of a  *)
(* request (policy_evaluator.py), the evidence behind waivers              *)
(* (policy_waiver_evidence.py) and the readiness of the layer              *)
(* (policy_readiness.py).  Times are natural numbers; the waiver ids of a  *)
(* request are a sequence, since the first valid one is taken.             *)
(***************************************************************************)
EXTENDS Readiness

PolicyDecisions == <<"allow", "require_review", "require_waiver", "block">>
RiskTiers == <<"low", "moderate", "high", "critical">>
Authorities == <<"none", "human_reviewer", "system_owner", "governance_board">>

Rank(x, order) == CHOOSE i \in DOMAIN order : order[i] = x
AtLeast(x, y, order) == Rank(x, order) >= Rank(y, order)

Satisfies(authority, required) == AtLeast(authority, required, Authorities)

NeedsAuthority(decision) == decision \in {"require_review", "require_waiver"}

------------------------------------------------------------------------------
(* Constructors that refuse. *)

WellFormedRule(r) ==
  /\ r.categories # {} /\ r.subjects # {}
  /\ r.authority = "none" =>
       /\ ~NeedsAuthority(r.decision)
       /\ ~(r.decision = "allow" /\ AtLeast(r.min_tier, "high", RiskTiers))
       /\ "waiver_approval" \notin r.categories
  /\ r.decision = "require_waiver" => r.evidence_kinds # {}

WellFormedWaiver(w) == w.authority # "none" /\ w.rules # {} /\ w.evidence # {}

WellFormedPack(pack) ==
  /\ \A r \in pack.rules : WellFormedRule(r)
  /\ \A r, s \in pack.rules : r.id = s.id => r = s
  /\ pack.default # "allow"
  /\ pack.lifecycle = "active" => \E r \in pack.rules : r.decision # "allow"

\* The times parse.
HasTimes(p) ==
  /\ \A w \in p.waivers : w.expires_at \in Nat
  /\ \A r \in p.requests : "evaluated_at" \in DOMAIN r /\ r.evaluated_at \in Nat

WellFormed(p) ==
  /\ WellFormedPack(p.pack)
  /\ \A w \in p.waivers : WellFormedWaiver(w)
  /\ \A v, w \in p.waivers : v.id = w.id => v = w

------------------------------------------------------------------------------
(* PolicyEvaluator.evaluate *)

Matches(rule, request) ==
  /\ request.category \in rule.categories
  /\ request.subject \in rule.subjects
  /\ AtLeast(request.tier, rule.min_tier, RiskTiers)

\* Faulty: the waiver's expiry is compared the wrong way round.
WaiverSatisfiesLater(w, rule, request, pack) ==
  /\ w.pack = pack.id
  /\ rule.id \in w.rules
  /\ Satisfies(w.authority, rule.authority)
  /\ w.expires_at <= request.evaluated_at

\* _waiver_satisfies_rule
WaiverSatisfies(w, rule, request, pack) ==
  /\ w.pack = pack.id
  /\ rule.id \in w.rules
  /\ Satisfies(w.authority, rule.authority)
  /\ w.expires_at > request.evaluated_at

\* The places in the request's waiver ids that hold a waiver valid for the rule.
ValidPlaces(p, rule, request) ==
  {i \in DOMAIN request.waiver_ids :
     \E w \in p.waivers : /\ w.id = request.waiver_ids[i]
                          /\ WaiverSatisfies(w, rule, request, p.pack)}

\* Every id looked at before the accepted one leaves a warning behind.
WaiverFindings(p, rule, request) ==
  LET valid  == ValidPlaces(p, rule, request)
      looked == IF valid = {} THEN DOMAIN request.waiver_ids ELSE 1..(Min(valid) - 1)
  IN  Warnings("waiver refused", {<<rule.id, request.waiver_ids[i]>> : i \in looked}) \cup
      Warnings("no valid waiver", IF valid = {} THEN {rule.id} ELSE {})

Triggered(rule, request) == rule.blocked_conditions \cap request.conditions
MissingKinds(rule, request) == rule.evidence_kinds \ request.evidence_kinds

\* The authority a rule of this decision asks for before it allows; an allow rule asks for none.
Cleared(p, rule, request) ==
  CASE rule.decision = "require_waiver" -> ValidPlaces(p, rule, request) # {}
    [] rule.decision = "require_review" -> Satisfies(request.authority, rule.authority)
    [] OTHER -> rule.decision = "allow"

RuleDecision(p, rule, request) ==
  IF Triggered(rule, request) # {} \/ rule.decision = "block" THEN "block"
  ELSE IF ~Cleared(p, rule, request) THEN rule.decision
  ELSE IF MissingKinds(rule, request) # {} THEN "require_review" ELSE "allow"

RuleFindings(p, rule, request) ==
  IF Triggered(rule, request) # {}
  THEN Blockers("blocked condition", {<<rule.id, c>> : c \in Triggered(rule, request)})
  ELSE Warnings("missing evidence kind", {<<rule.id, k>> : k \in MissingKinds(rule, request)}) \cup
       Blockers("rule blocks", IF rule.decision = "block" THEN {rule.id} ELSE {}) \cup
       (IF rule.decision = "require_waiver" THEN WaiverFindings(p, rule, request) ELSE {}) \cup
       Warnings("authority insufficient",
                IF rule.decision = "require_review" /\ ~Cleared(p, rule, request)
                THEN {rule.id} ELSE {})

MatchingRules(p, request) == {r \in p.pack.rules : Matches(r, request)}

\* _aggregate_decision: the most restrictive one.
MostRestrictive(decisions) ==
  CHOOSE d \in decisions : \A e \in decisions : AtLeast(d, e, PolicyDecisions)

\* The report on one request.
Evaluate(p, request) ==
  LET rules == MatchingRules(p, request)
  IN  IF p.pack.lifecycle # "active"
      THEN [decision |-> "block", findings |-> Blockers("pack not active", {p.pack.id})]
      ELSE IF rules = {}
      THEN [decision |-> p.pack.default, findings |-> Warnings("default applied", {request.id})]
      ELSE [decision |-> MostRestrictive({RuleDecision(p, r, request) : r \in rules}),
            findings |-> UNION {RuleFindings(p, r, request) : r \in rules}]

------------------------------------------------------------------------------
(* PolicyWaiverEvidenceValidator, and the readiness of the layer.  as_of is *)
(* the empty set when no time is given: then no expiry is looked at.       *)

WaiverEvidenceFindings(p, store, as_of) ==
  Blockers("wrong policy pack", {w.id : w \in {v \in p.waivers : v.pack # p.pack.id}}) \cup
  Blockers("missing rule",
           {w.id : w \in {v \in p.waivers : ~(v.rules \subseteq {r.id : r \in p.pack.rules})}}) \cup
  (UNION {BundleFindings(w.evidence, store) : w \in p.waivers}) \cup
  Blockers("waiver expired",
           {w.id : w \in {v \in p.waivers : \E t \in as_of : v.expires_at <= t}})

PolicyFindings(p, store, as_of) ==
  Blockers("no requests", Whenever(p.requests = {})) \cup
  (UNION {Evaluate(p, request).findings : request \in p.requests}) \cup
  WaiverEvidenceFindings(p, store, as_of)

PolicyReadiness(p, store, as_of) ==
  LET findings == PolicyFindings(p, store, as_of)
      blocked  == \E request \in p.requests : Evaluate(p, request).decision = "block"
  IN  LayerReport("policy_pack_engine",
                  IF blocked THEN "blocked" ELSE LayerDecision(findings), findings)
==============================================================================
