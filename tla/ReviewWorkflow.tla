---------------------------- MODULE ReviewWorkflow ----------------------------
(***************************************************************************)
(* The human review workflow: its records (review_workflow.py), their      *)
(* validation against the authority of the actors and the evidence         *)
(* (review_workflow_validation.py) and the readiness of the layer          *)
(* (review_workflow_readiness.py).  A record is immutable: a caller that   *)
(* files a finding, signs or dissents makes a new one.                     *)
(***************************************************************************)
EXTENDS Readiness

CanAcceptSignoff(status) == status \in {"ready_for_review", "in_review", "completed"}
CanSupportAcceptance(status) == status = "completed"

Severities == <<"info", "low", "medium", "high", "critical">>
SeverityIs(x, least) ==
  \E i, j \in DOMAIN Severities : Severities[i] = x /\ Severities[j] = least /\ i >= j

BlocksWhenUnresolved(severity) == SeverityIs(severity, "medium")
IsResolved(status) == status \in {"mitigated", "waived", "accepted_risk", "closed"}

UnresolvedBlocker(f) == BlocksWhenUnresolved(f.severity) /\ ~IsResolved(f.status)

\* What the constructors of findings, signoffs, dissents and the workflow refuse.
WellFormedFinding(f) ==
  /\ f.status = "waived" => f.waiver # {}
  /\ BlocksWhenUnresolved(f.severity) => f.evidence # {}
  /\ f.severity = "critical" => f.hazards # {}

WellFormedSignoff(s) ==
  /\ AllowsAcceptance(s.disposition) => s.evidence # {}
  /\ s.disposition = "approved_with_conditions" => s.conditions # {}

WellFormedDissent(d) == d.severity = "blocking_objection" => d.related # {}

WellFormed(w) ==
  /\ w.bindings # {}
  /\ \A b \in w.bindings : b.scopes # {}
  /\ \A f \in w.findings : WellFormedFinding(f)
  /\ \A s \in w.signoffs : WellFormedSignoff(s)
  /\ \A d \in w.dissents : WellFormedDissent(d)
  /\ \A records \in {w.findings, w.signoffs, w.dissents} :
       \A x, y \in records : x.id = y.id => x = y

Accepted(w) == {s \in w.signoffs : AllowsAcceptance(s.disposition)}
\* Faulty: a dissent blocks until the findings it is about are resolved.
UnansweredDissents(w) ==
  {d \in w.dissents : /\ d.severity = "blocking_objection"
                      /\ \E f \in w.findings : f.id \in d.related /\ ~IsResolved(f.status)}

BlockingDissents(w) == {d \in w.dissents : d.severity = "blocking_objection"}

RequiredEvidence(w) ==
  w.evidence \cup UNION {x.evidence : x \in w.findings \cup w.signoffs \cup w.dissents}

------------------------------------------------------------------------------
(* ReviewWorkflowValidator *)

IdsOf(records) == {x.id : x \in records}

\* _actor_has_scope; a right to sign or to dissent is asked of the same binding.
Bound(w, actor) == {b \in w.bindings : b.actor = actor}
HasScope(w, actor, scope) == \E b \in Bound(w, actor) : scope \in b.scopes
CanSign(w, actor, scope) == \E b \in Bound(w, actor) : b.can_sign /\ scope \in b.scopes
CanDissent(w, actor, scope) == \E b \in Bound(w, actor) : b.can_dissent /\ scope \in b.scopes

PostureFindings(w) ==
  Blockers("status cannot accept signoff",
           Whenever(~CanAcceptSignoff(w.status) /\ w.signoffs # {})) \cup
  Blockers("not completed", Whenever(~CanSupportAcceptance(w.status))) \cup
  Blockers("no accepting signoff", Whenever(Accepted(w) = {}))

\* A waiver is not looked up: that some actor may waive is all that is asked.
FindingFindings(w) ==
  LET mayWaive == \E b \in w.bindings : b.can_waive
  IN  Blockers("actor not bound", IdsOf({f \in w.findings : Bound(w, f.opened_by) = {}})) \cup
      Blockers("actor scope missing",
               IdsOf({f \in w.findings : ~HasScope(w, f.opened_by, f.scope)})) \cup
      Blockers("unresolved blocker", IdsOf({f \in w.findings : UnresolvedBlocker(f)})) \cup
      Blockers("waiver without authority",
               IdsOf({f \in w.findings : f.waiver # {} /\ ~mayWaive}))

SignoffFindings(w) ==
  Blockers("actor cannot sign",
           IdsOf({s \in w.signoffs : ~CanSign(w, s.actor, s.scope)})) \cup
  Blockers("condition missing",
           (UNION {s.conditions : s \in w.signoffs}) \ IdsOf(w.findings))

DissentFindings(w) ==
  Blockers("actor cannot dissent",
           IdsOf({d \in w.dissents : ~CanDissent(w, d.actor, d.scope)})) \cup
  Blockers("related finding missing",
           (UNION {d.related : d \in w.dissents}) \ IdsOf(w.findings)) \cup
  Blockers("dissent blocks", IdsOf(BlockingDissents(w)))

\* Readiness asks for status, signoff, findings and dissents once more: nothing new.
ReviewFindings(w, store) ==
  PostureFindings(w) \cup FindingFindings(w) \cup SignoffFindings(w) \cup
  DissentFindings(w) \cup BundleFindings(RequiredEvidence(w), store)

ReviewReadiness(w, store) ==
  LET findings == ReviewFindings(w, store)
  IN  LayerReport("review_workflow", LayerDecision(findings), findings)
==============================================================================
