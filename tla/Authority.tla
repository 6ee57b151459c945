------------------------------ MODULE Authority ------------------------------
(***************************************************************************)
(* Human reviews of runtime results (authority.py).                        *)
(*                                                                         *)
(* AuthorityController keeps no state: the requests are immutable values   *)
(* that their holders can have reviewed again, and a new request can be    *)
(* built from the outcome of an earlier review.  The module follows one    *)
(* runtime result and every review that descends from it.                  *)
(***************************************************************************)
EXTENDS Contracts

CONSTANTS
  RequestIds,
  MaxReviews      \* bound on the reviews of one chain

ASSUME MaxReviewsAssumption == MaxReviews \in Nat

VARIABLES
  origin,    \* the safety-gate result the chain started from
  requests,  \* the review requests made so far
  outcome,   \* the latest AuthorityDecisionResult, if any
  reviews    \* number of reviews applied

vars == <<origin, requests, outcome, reviews>>

------------------------------------------------------------------------------
\* An AuthorityReviewDecision; __post_init__ refuses every other combination.
ReviewDecision ==
  {rev \in [request_id               : RequestIds,
            disposition              : ReviewDisposition,
            approved_decision        : Optional(AutonomyDecisionType),
            approved_authority_state : Optional(RuntimeAuthorityState),
            with_conditions          : BOOLEAN] :
     /\ AllowsAcceptance(rev.disposition) =>
          rev.approved_decision # {} /\ rev.approved_authority_state # {}
     /\ rev.disposition = "approved_with_conditions" => rev.with_conditions
     /\ ~AllowsAcceptance(rev.disposition) =>
          rev.approved_decision = {} /\ rev.approved_authority_state = {}}

FromSafetyGateResult(id, gate) ==
  [request_id |-> id, decision |-> gate.decision, authority_state |-> gate.authority_state]

DeferToHumanRelease(req) ==
  /\ req.decision = "defer"
  /\ req.authority_state = "human_approval_required"

\* Faulty: only an acceptance that relaxes both values counts as relaxing.
WouldRelaxBoth(req, decision, authority) ==
  /\ DecisionRank(decision) < DecisionRank(req.decision)
  /\ AuthorityRank(authority) < AuthorityRank(req.authority_state)
  /\ ~DeferToHumanRelease(req)

\* _would_relax_restricted_runtime_state
WouldRelax(req, decision, authority) ==
  /\ \/ DecisionRank(decision) < DecisionRank(req.decision)
     \/ AuthorityRank(authority) < AuthorityRank(req.authority_state)
  /\ ~DeferToHumanRelease(req)

Result(req, decision, authority, accepted) ==
  [request_id      |-> req.request_id,
   decision        |-> decision,
   authority_state |-> authority,
   accepted        |-> accepted]

Accept(req, rev) ==
  \E decision \in rev.approved_decision, authority \in rev.approved_authority_state :
    /\ AllowsAcceptance(rev.disposition)
    /\ ~WouldRelax(req, decision, authority)
    /\ outcome' = {Result(req, decision, authority, TRUE)}

\* Faulty: the authority state is given as the decision.
RejectMixedUp(req, rev) ==
  /\ rev.disposition = "rejected"
  /\ outcome' = {Result(req, "denied", "denied", FALSE)}

Reject(req, rev) ==
  /\ rev.disposition = "rejected"
  /\ outcome' = {Result(req, "veto", "denied", FALSE)}

\* Faulty: more evidence turns every request into a deferral.
PostponeAfresh(req, rev) ==
  /\ rev.disposition \in {"needs_more_evidence", "escalated"}
  /\ outcome' = {Result(req, "defer", "human_approval_required", FALSE)}

Postpone(req, rev) ==
  /\ rev.disposition \in {"needs_more_evidence", "escalated"}
  /\ outcome' = {Result(req,
                        MoreRestrictiveDecision(req.decision, "defer"),
                        MoreRestrictiveAuthority(req.authority_state,
                                                 "human_approval_required"),
                        FALSE)}

------------------------------------------------------------------------------
Init ==
  /\ origin \in [decision : AutonomyDecisionType, authority_state : RuntimeAuthorityState]
  /\ requests \in {{FromSafetyGateResult(id, origin)} : id \in RequestIds}
  /\ outcome = {}
  /\ reviews = 0

\* apply_review_decision.  A decision about another request, and an acceptance that
\* would relax the request, raise and change nothing.
ApplyReviewDecision(req, rev) ==
  /\ reviews < MaxReviews
  /\ rev.request_id = req.request_id
  /\ Accept(req, rev) \/ Reject(req, rev) \/ Postpone(req, rev)
  /\ reviews' = reviews + 1
  /\ UNCHANGED <<origin, requests>>

\* A request is built from the latest outcome: its decision and authority state are
\* the current ones now.
Resubmit(id) ==
  \E result \in outcome :
    /\ requests' = requests \cup {FromSafetyGateResult(id, result)}
    /\ UNCHANGED <<origin, outcome, reviews>>

Next ==
  \/ \E req \in requests, rev \in ReviewDecision : ApplyReviewDecision(req, rev)
  \/ \E id \in RequestIds : Resubmit(id)

Spec == Init /\ [][Next]_vars

------------------------------------------------------------------------------
Blocked(x) ==
  \/ DecisionRank(x.decision) >= DecisionRank("veto")
  \/ AuthorityRank(x.authority_state) >= AuthorityRank("human_override_active")

Nominal(x) == PermitsNominalExecution(x.decision, x.authority_state)

PostureOf(x) ==
  IF Nominal(x) THEN "nominal"
  ELSE IF DeferToHumanRelease(x) THEN "awaiting_human"
  ELSE IF Blocked(x) THEN "blocked"
  ELSE "limited"

Promise == INSTANCE AuthorityPromise WITH
  asked   <- {PostureOf(req) : req \in requests},
  granted <- {PostureOf(result) : result \in outcome}

\* Requests and outcomes carry decisions and authority states, and at most one
\* outcome is the latest.
TypeOK ==
  /\ origin \in [decision : AutonomyDecisionType, authority_state : RuntimeAuthorityState]
  /\ requests \subseteq [request_id : RequestIds, decision : AutonomyDecisionType,
                         authority_state : RuntimeAuthorityState]
  /\ outcome \in Optional([request_id : RequestIds, decision : AutonomyDecisionType,
                           authority_state : RuntimeAuthorityState, accepted : BOOLEAN])
  /\ reviews \in 0..MaxReviews

\* A runtime result that was vetoed, held safe, denied or overridden stays blocked
\* through every chain of reviews: no order of escalations, rejections, approvals
\* and resubmissions leads back to nominal autonomy, or even to a deferral.
BlockedStaysBlocked ==
  Blocked(origin) => \A x \in requests \cup outcome : Blocked(x)

\* A runtime result that is limited, but does not ask for human approval, becomes
\* nominal only after two reviews, the first of which turned it into a request for
\* human approval.
LimitedNeedsTwoReviews ==
  /\ PostureOf(origin) = "limited"
  /\ \E result \in outcome : Nominal(result)
  => /\ reviews >= 2
     /\ \E req \in requests : DeferToHumanRelease(req)

\* Every chain of reviews keeps the promise of AuthorityPromise.
KeepsPromise == Promise!PromiseSpec
==============================================================================
