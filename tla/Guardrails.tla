------------------------------ MODULE Guardrails ------------------------------
(***************************************************************************)
(* Claim guardrails: the statements made about the runtime, the evidence   *)
(* they cite and the phrases they may not use (claim_guardrails.py), their *)
(* validation (claim_guardrails_validation.py) and the readiness of the    *)
(* layer (claim_guardrails_readiness.py).  A claim's text is the set of    *)
(* phrases it contains; bounded stands for the words of the disclaimer.    *)
(***************************************************************************)
EXTENDS Readiness

RequiresStrictReview(audience) ==
  audience \in {"open_source_readme", "technical_review", "federal_evaluation"}
NeedsEvidence(type) == type # "non_endorsement"
RequiresReviewerSignoff(risk) == risk \in {"moderate", "high"}
SupportsRelease(review) == review \in {"approved", "approved_with_limitations"}

Strengths == <<"none", "described", "tested", "trace_closed", "exported">>
StrengthRank(strength) == CHOOSE i \in DOMAIN Strengths : Strengths[i] = strength
SupportsPublicClaim(strength) == StrengthRank(strength) >= StrengthRank("tested")

WellFormed(p) ==
  /\ \A records \in {p.claims, p.references, p.rules} :
       records # {} /\ \A r, s \in records : r.id = s.id => r = s
  /\ \A r \in p.references : r.artifacts # {} /\ r.capabilities # {}
  /\ \A c \in p.claims : /\ NeedsEvidence(c.type) => c.references # {}
                         /\ RequiresReviewerSignoff(c.risk) => c.reviewers # {}
                         /\ c.review = "approved_with_limitations" => c.limited
                         /\ c.strength = "none" => c.references = {}

CanBeReleased(c) ==
  /\ SupportsRelease(c.review)
  /\ c.risk # "prohibited"
  /\ NeedsEvidence(c.type) => SupportsPublicClaim(c.strength)

Limitations(p) == {c \in p.claims : c.type \in {"limitation", "non_endorsement"}}

\* A rule matches unless one of its markers is in the text too.
Prohibits(rule, claim) == rule.phrase \in claim.text /\ rule.markers \cap claim.text = {}

UsesProhibitedPhrase(p) == \E c \in p.claims, r \in p.rules : Prohibits(r, c)

LacksLimitation(p) == RequiresStrictReview(p.audience) /\ Limitations(p) = {}

\* Any prohibited phrase, whether its rule is to block or to warn.
CanRelease(p) ==
  /\ SupportsRelease(p.review)
  /\ \A c \in p.claims : CanBeReleased(c)
  /\ ~UsesProhibitedPhrase(p)
  /\ ~LacksLimitation(p)

------------------------------------------------------------------------------
(* ClaimGuardrailValidator: known is what the caller says there is, where  *)
(* an empty set of ids is not looked at.                                   *)

Unknown(ids, known) == IF known = {} THEN {} ELSE ids \ known

IdsOf(records) == {r.id : r \in records}

PostureFindings(p) ==
  Blockers("review not releasable", Whenever(~SupportsRelease(p.review))) \cup
  Blockers("no limitation claim", Whenever(LacksLimitation(p))) \cup
  Blockers("claim not releasable", IdsOf({c \in p.claims : ~CanBeReleased(c)}))

LanguageFindings(p) ==
  LET Hits(r) == {<<c.id, r.id>> : c \in {d \in p.claims : Prohibits(r, d)}}
  IN  UNION {IF r.blocks THEN Blockers("prohibited phrase", Hits(r))
             ELSE Warnings("prohibited phrase", Hits(r)) : r \in p.rules}

Cited(p, c) == {r \in p.references : r.id \in c.references}

\* A claim that cites nothing that is there is not asked for support.
Unsupported(p, c) ==
  IF Cited(p, c) = {} THEN {}
  ELSE (c.capabilities \ UNION {r.capabilities : r \in Cited(p, c)}) \cup
       (c.artifacts \ UNION {r.artifacts : r \in Cited(p, c)})

ClaimFindings(p, known) ==
  LET Lacking(c) ==
        Blockers("reviewer unknown", Unknown(c.reviewers, known.reviewers)) \cup
        Blockers("reference missing", c.references \ IdsOf(p.references)) \cup
        Blockers("unsupported", Unsupported(p, c)) \cup
        Blockers("unknown", Unknown(c.capabilities, known.capabilities) \cup
                            Unknown(c.artifacts, known.artifacts))
  IN  UNION {Lacking(c) : c \in p.claims}

CitedIds(p) == UNION {c.references : c \in p.claims}

ReferenceFindings(p, known) ==
  Warnings("reference unused", IdsOf(p.references) \ CitedIds(p)) \cup
  Blockers("unknown", UNION {Unknown(r.capabilities, known.capabilities) \cup
                             Unknown(r.artifacts, known.artifacts) : r \in p.references})

GuardrailValidation(p, store, known) ==
  PostureFindings(p) \cup LanguageFindings(p) \cup ClaimFindings(p, known) \cup
  ReferenceFindings(p, known) \cup BundleFindings({r.bundle : r \in p.references}, store) \cup
  Blockers("disclaimer weak", Whenever(~p.bounded))

\* Readiness asks once more whether the package can be released.
GuardrailFindings(p, store, known) ==
  GuardrailValidation(p, store, known) \cup
  Blockers("not release-ready", Whenever(~CanRelease(p))) \cup
  Blockers("no references cited", Whenever(CitedIds(p) = {}))

GuardrailReadiness(p, store, known) ==
  LET findings == GuardrailFindings(p, store, known)
  IN  LayerReport("claim_guardrails", LayerDecision(findings), findings)
==============================================================================
