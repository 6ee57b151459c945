-------------------------- MODULE AuthorityPromise ---------------------------
(***************************************************************************)
(* What the authority controller promises about a chain of reviews         *)
(* (ARCHITECTURE.md, "authority.py"): a runtime result that asks for human *)
(* approval may be released, a blocked one may not, and one that is merely *)
(* limited has to be turned into a request for human approval first.       *)
(***************************************************************************)

Posture == {"nominal", "limited", "awaiting_human", "blocked"}

MayBecome(p, q) ==
  CASE p \in {"nominal", "awaiting_human"} -> q \in Posture
    [] p = "limited"                       -> q \in Posture \ {"nominal"}
    [] p = "blocked"                       -> q = "blocked"

VARIABLES
  asked,     \* the postures that requests for review were made for
  granted    \* the posture of the latest review outcome, if any

promiseVars == <<asked, granted>>

PromiseInit ==
  /\ asked \in {{p} : p \in Posture}
  /\ granted = {}

Grant ==
  /\ \E p \in asked : \E q \in Posture : MayBecome(p, q) /\ granted' = {q}
  /\ UNCHANGED asked

AskAgain ==
  /\ asked' = asked \cup granted
  /\ UNCHANGED granted

PromiseNext == Grant \/ AskAgain

PromiseSpec == PromiseInit /\ [][PromiseNext]_promiseVars
==============================================================================
