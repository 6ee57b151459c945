------------------------------ MODULE Contracts ------------------------------
(***************************************************************************)
(* The vocabulary every other module shares: the enumerations of           *)
(* contracts.py as sets of their wire values, and the rank tables that     *)
(* safety_gate.py, degradation.py, authority.py and runner.py each repeat. *)
(***************************************************************************)
EXTENDS Integers

AutonomyDecisionType == {"allow", "clamp", "defer", "veto", "safe_hold"}

RuntimeAuthorityState ==
  {"autonomous_allowed", "human_approval_required", "human_override_active",
   "denied", "emergency_safe_hold"}

EvidenceStatus == {"missing", "provided", "accepted", "stale", "invalid"}

HazardSeverity == {"negligible", "minor", "major", "critical", "catastrophic"}

VerificationResult == {"pass", "fail", "inconclusive", "not_run"}

ReviewDisposition ==
  {"approved", "approved_with_conditions", "rejected", "needs_more_evidence",
   "escalated"}

DecisionRank(decision) ==
  CASE decision = "allow"     -> 1
    [] decision = "clamp"     -> 2
    [] decision = "defer"     -> 3
    [] decision = "veto"      -> 4
    [] decision = "safe_hold" -> 5

AuthorityRank(authority) ==
  CASE authority = "autonomous_allowed"      -> 1
    [] authority = "human_approval_required" -> 2
    [] authority = "human_override_active"   -> 3
    [] authority = "denied"                  -> 4
    [] authority = "emergency_safe_hold"     -> 5

SeverityRank(severity) ==
  CASE severity = "negligible"   -> 1
    [] severity = "minor"        -> 2
    [] severity = "major"        -> 3
    [] severity = "critical"     -> 4
    [] severity = "catastrophic" -> 5

RequiresMitigation(severity) == SeverityRank(severity) >= SeverityRank("major")

IsUsable(status) == status \in {"provided", "accepted"}

IsRestrictive(decision) == decision \in {"clamp", "defer", "veto", "safe_hold"}

PermitsAutonomousExecution(authority) == authority = "autonomous_allowed"

BlocksAutonomousExecution(authority) ==
  authority \in {"human_override_active", "denied", "emergency_safe_hold"}

\* Both halves of permits_nominal_execution(), which the gate result, the run
\* result and the authority result each define in the same way.
PermitsNominalExecution(decision, authority) ==
  decision = "allow" /\ PermitsAutonomousExecution(authority)

AllowsAcceptance(disposition) ==
  disposition \in {"approved", "approved_with_conditions"}

MoreRestrictiveDecision(current, candidate) ==
  IF DecisionRank(candidate) > DecisionRank(current) THEN candidate ELSE current

MoreRestrictiveAuthority(current, candidate) ==
  IF AuthorityRank(candidate) > AuthorityRank(current) THEN candidate ELSE current

\* The loops that start from the permissive value and keep the more restrictive
\* one: the ranks are distinct, so the order of the loop does not matter.
MostRestrictiveDecision(decisions) ==
  LET all == decisions \cup {"allow"}
  IN  CHOOSE d \in all : \A e \in all : DecisionRank(e) <= DecisionRank(d)

MostRestrictiveAuthority(authorities) ==
  LET all == authorities \cup {"autonomous_allowed"}
  IN  CHOOSE a \in all : \A b \in all : AuthorityRank(b) <= AuthorityRank(a)

\* A value of type T | None is the empty set or a singleton.
Optional(S) == {{}} \cup {{x} : x \in S}
==============================================================================
