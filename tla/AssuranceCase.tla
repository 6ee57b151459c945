----------------------------- MODULE AssuranceCase -----------------------------
(***************************************************************************)
(* The assurance case (assurance_case.py): its references, the errors and  *)
(* warnings of validate_references, and the queries made beside it.        *)
(*                                                                         *)
(* A case is an id, a status and a set of records for each kind of         *)
(* artifact, each with the references and the statuses that some check     *)
(* reads.  A Control lists at least one hazard, or cannot be constructed.  *)
(***************************************************************************)
EXTENDS ScenarioCatalog

AssuranceCaseStatus ==
  {"draft", "ready_for_review", "accepted", "rejected", "superseded"}

\* VerificationResult.requires_follow_up.
RequiresFollowUp(result) == result \in {"fail", "inconclusive", "not_run"}

HasControlPath(hazard) == hazard.controls \cup hazard.mitigations # {}

HasSupportPath(claim) == claim.evidence \cup claim.subclaims \cup claim.criteria # {}

\* Severe hazards without a control or mitigation path.
UnresolvedHazards(case) ==
  {h.id : h \in {h \in case.hazards : RequiresMitigation(h.severity) /\ ~HasControlPath(h)}}

UnsupportedClaims(case) == {k.id : k \in {k \in case.claims : ~HasSupportPath(k)}}

------------------------------------------------------------------------------
ArtifactKinds(case) ==
  <<case.claims, case.hazards, case.controls, case.mitigations, case.assumptions,
    case.evidence, case.criteria>>

\* One namespace for the ids of all kinds.
CaseDuplicates(case) ==
  LET kinds == ArtifactKinds(case)
      within(items) == {id \in Ids(items) : \E x, y \in items : x.id = id /\ y.id = id /\ x # y}
  IN  UNION {IF p[1] = p[2] THEN within(kinds[p[1]]) ELSE Ids(kinds[p[1]]) \cap Ids(kinds[p[2]])
               : p \in (DOMAIN kinds) \X (DOMAIN kinds)}

\* Every kind but evidence itself refers to evidence by id.
EvidenceUsers(case) ==
  UNION {case.claims, case.hazards, case.controls, case.mitigations,
         case.assumptions, case.criteria}

EvidenceReferenceErrors(case) ==
  UNION {MissingReferences(x.id, "evidence", x.evidence, Ids(case.evidence))
           : x \in EvidenceUsers(case)}

\* Faulty: the references between hazards, controls and mitigations are not checked.
ClaimReferenceErrors(case) ==
  EvidenceReferenceErrors(case) \cup
  UNION {MissingReferences(k.id, "subclaim", k.subclaims, Ids(case.claims)) \cup
         MissingReferences(k.id, "assumption", k.assumptions, Ids(case.assumptions)) \cup
         MissingReferences(k.id, "criterion", k.criteria, Ids(case.criteria))
           : k \in case.claims}

CaseReferenceErrors(case) ==
  EvidenceReferenceErrors(case) \cup
  (UNION {MissingReferences(k.id, "subclaim", k.subclaims, Ids(case.claims)) \cup
          MissingReferences(k.id, "assumption", k.assumptions, Ids(case.assumptions)) \cup
          MissingReferences(k.id, "criterion", k.criteria, Ids(case.criteria))
            : k \in case.claims}) \cup
  (UNION {MissingReferences(h.id, "control", h.controls, Ids(case.controls)) \cup
          MissingReferences(h.id, "mitigation", h.mitigations, Ids(case.mitigations))
            : h \in case.hazards}) \cup
  (UNION {MissingReferences(x.id, "hazard", x.hazards, Ids(case.hazards))
            : x \in case.controls}) \cup
  UNION {MissingReferences(m.id, "hazard", {m.hazard}, Ids(case.hazards)) \cup
         MissingReferences(m.id, "control", {m.control}, Ids(case.controls))
           : m \in case.mitigations}

\* What is wrong with the content, whatever the status of the case.
ContentErrors(case) ==
  {<<"duplicated", id>> : id \in CaseDuplicates(case)} \cup
  (IF case.claims = {} THEN {<<"no claims">>} ELSE {}) \cup
  CaseReferenceErrors(case) \cup
  {<<"requires control or mitigation", id>> : id \in UnresolvedHazards(case)}

\* A status that claims more than the content supports adds an error of its own.
CaseErrors(case) ==
  ContentErrors(case) \cup
  (IF ContentErrors(case) # {} /\ case.status \in {"ready_for_review", "accepted"}
   THEN {<<"status", case.status>>} ELSE {})

CaseWarnings(case) ==
  {<<"no support path", id>> : id \in UnsupportedClaims(case)} \cup
  {<<"non-usable evidence", e.id>> : e \in {e \in case.evidence : ~IsUsable(e.status)}}

IsValidCase(case) == CaseErrors(case) = {}

ReadyForHumanReview(case) == case.status = "ready_for_review" /\ IsValidCase(case)

\* reporting.py collects the dangling evidence references on its own.
MissingEvidenceIds(case) ==
  (UNION {x.evidence : x \in EvidenceUsers(case)}) \ Ids(case.evidence)
==============================================================================
