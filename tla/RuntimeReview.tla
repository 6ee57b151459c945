---------------------------- MODULE RuntimeReview ----------------------------
(***************************************************************************)
(* A run and the reviews of it.  The runner keeps the more restrictive of  *)
(* the safety gate's result and the degradation engine's recommendation,   *)
(* but the one constructor of a review request takes the gate's result     *)
(* alone (authority.py, AuthorityReviewRequest.from_safety_gate_result).   *)
(***************************************************************************)
EXTENDS Authority, Degradation

VARIABLE
  level      \* the worst degradation level of the run

reviewVars == <<vars, level>>

\* The run result, of which origin is the safety_gate_result.
FinalOutcome ==
  [decision        |-> MoreRestrictiveDecision(origin.decision, LevelDecision(level)),
   authority_state |-> MoreRestrictiveAuthority(origin.authority_state,
                                                LevelAuthority(level))]

ReviewInit == Init /\ level \in DegradationLevel

ReviewNext == Next /\ UNCHANGED level

ReviewSpec == ReviewInit /\ [][ReviewNext]_reviewVars

------------------------------------------------------------------------------
\* ARCHITECTURE.md:120 says of authority.py that a human review "must not silently
\* convert emergency safe-hold, veto, or denied authority into nominal autonomy".
\* Here: the final outcome of the run that the reviewed gate result belongs to.
HeldRunIsNotApprovedAway ==
  Blocked(FinalOutcome) => \A result \in outcome : ~Nominal(result)
==============================================================================
