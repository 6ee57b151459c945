--------------------------- MODULE AuthorityProofs ---------------------------
(***************************************************************************)
(* What chains of human reviews preserve, for any request identifiers and  *)
(* any number of reviews: no bound of the model-checked instance is left.  *)
(***************************************************************************)
EXTENDS Authority, TLAPS

Postured == [decision : AutonomyDecisionType, authority_state : RuntimeAuthorityState]

RequestType ==
  [request_id : RequestIds, decision : AutonomyDecisionType,
   authority_state : RuntimeAuthorityState]

ResultType ==
  [request_id : RequestIds, decision : AutonomyDecisionType,
   authority_state : RuntimeAuthorityState, accepted : BOOLEAN]

\* What one review may make of a request: a blocked one stays blocked, and only a
\* request that is nominal already, or asks for human approval, becomes nominal.
Permitted(req, result) ==
  /\ Blocked(req) => Blocked(result)
  /\ Nominal(result) => Nominal(req) \/ DeferToHumanRelease(req)

\* Every decision has a rank from 1 to 5, and no two have the same: the rank tables
\* of the code order the decisions totally.
LEMMA DecisionRanks ==
  /\ \A d \in AutonomyDecisionType : DecisionRank(d) \in 1..5
  /\ \A d, e \in AutonomyDecisionType : DecisionRank(d) = DecisionRank(e) => d = e
<1>1. /\ DecisionRank("allow") = 1
      /\ DecisionRank("clamp") = 2
      /\ DecisionRank("defer") = 3
      /\ DecisionRank("veto") = 4
      /\ DecisionRank("safe_hold") = 5
  BY DEF DecisionRank
<1>2. ASSUME NEW d \in AutonomyDecisionType, NEW e \in AutonomyDecisionType, DecisionRank(d) = DecisionRank(e)
      PROVE  d = e
  BY <1>1, <1>2 DEF AutonomyDecisionType
<1>3. \A d \in AutonomyDecisionType : DecisionRank(d) \in 1..5
  BY <1>1 DEF AutonomyDecisionType
<1> QED BY <1>2, <1>3

\* The same for authority states.
LEMMA AuthorityRanks ==
  /\ \A a \in RuntimeAuthorityState : AuthorityRank(a) \in 1..5
  /\ \A a, b \in RuntimeAuthorityState : AuthorityRank(a) = AuthorityRank(b) => a = b
<1>1. /\ AuthorityRank("autonomous_allowed") = 1
      /\ AuthorityRank("human_approval_required") = 2
      /\ AuthorityRank("human_override_active") = 3
      /\ AuthorityRank("denied") = 4
      /\ AuthorityRank("emergency_safe_hold") = 5
  BY DEF AuthorityRank
<1>2. ASSUME NEW a \in RuntimeAuthorityState, NEW b \in RuntimeAuthorityState, AuthorityRank(a) = AuthorityRank(b)
      PROVE  a = b
  BY <1>1, <1>2 DEF RuntimeAuthorityState
<1>3. \A a \in RuntimeAuthorityState : AuthorityRank(a) \in 1..5
  BY <1>1 DEF RuntimeAuthorityState
<1> QED BY <1>2, <1>3

\* Keeping the more restrictive of two decisions loses neither of them.
LEMMA MoreRestrictiveDecisionIsMaximum ==
  ASSUME NEW d \in AutonomyDecisionType, NEW e \in AutonomyDecisionType
  PROVE  /\ MoreRestrictiveDecision(d, e) \in AutonomyDecisionType
         /\ MoreRestrictiveDecision(d, e) \in {d, e}
         /\ DecisionRank(d) <= DecisionRank(MoreRestrictiveDecision(d, e))
         /\ DecisionRank(e) <= DecisionRank(MoreRestrictiveDecision(d, e))
  BY DecisionRanks DEF MoreRestrictiveDecision

\* The same for authority states.
LEMMA MoreRestrictiveAuthorityIsMaximum ==
  ASSUME NEW a \in RuntimeAuthorityState, NEW b \in RuntimeAuthorityState
  PROVE  /\ MoreRestrictiveAuthority(a, b) \in RuntimeAuthorityState
         /\ MoreRestrictiveAuthority(a, b) \in {a, b}
         /\ AuthorityRank(a) <= AuthorityRank(MoreRestrictiveAuthority(a, b))
         /\ AuthorityRank(b) <= AuthorityRank(MoreRestrictiveAuthority(a, b))
  BY AuthorityRanks DEF MoreRestrictiveAuthority

\* The values of the ranks that the postures are defined by.
LEMMA PostureRanks ==
  ASSUME NEW x, x.decision \in AutonomyDecisionType,
         x.authority_state \in RuntimeAuthorityState
  PROVE  /\ DecisionRank(x.decision) \in 1..5
         /\ AuthorityRank(x.authority_state) \in 1..5
         /\ Blocked(x) <=> DecisionRank(x.decision) >= 4 \/ AuthorityRank(x.authority_state) >= 3
         /\ Nominal(x) <=> DecisionRank(x.decision) = 1 /\ AuthorityRank(x.authority_state) = 1
         /\ DeferToHumanRelease(x)
              <=> DecisionRank(x.decision) = 3 /\ AuthorityRank(x.authority_state) = 2
<1>1. /\ "allow" \in AutonomyDecisionType /\ "defer" \in AutonomyDecisionType
      /\ "autonomous_allowed" \in RuntimeAuthorityState
      /\ "human_approval_required" \in RuntimeAuthorityState
  BY DEF AutonomyDecisionType, RuntimeAuthorityState
<1>2. /\ DecisionRank("allow") = 1 /\ DecisionRank("defer") = 3 /\ DecisionRank("veto") = 4
  BY DEF DecisionRank
<1>3. /\ AuthorityRank("autonomous_allowed") = 1
      /\ AuthorityRank("human_approval_required") = 2
      /\ AuthorityRank("human_override_active") = 3
  BY DEF AuthorityRank
<1> QED
  BY <1>1, <1>2, <1>3, DecisionRanks, AuthorityRanks
  DEF Blocked, Nominal, DeferToHumanRelease, PermitsNominalExecution,
      PermitsAutonomousExecution

\* _apply_accepting_decision: an acceptance that does not relax the request, or that
\* answers a request for human approval, is permitted.
LEMMA AcceptIsPermitted ==
  ASSUME NEW req \in RequestType, NEW rev \in ReviewDecision, Accept(req, rev)
  PROVE  \E result \in ResultType : outcome' = {result} /\ Permitted(req, result)
<1>1. PICK d \in rev.approved_decision, a \in rev.approved_authority_state :
             ~WouldRelax(req, d, a) /\ outcome' = {Result(req, d, a, TRUE)}
  BY DEF Accept
<1> DEFINE result == Result(req, d, a, TRUE)
<1>2. d \in AutonomyDecisionType /\ a \in RuntimeAuthorityState
  BY DEF ReviewDecision, Optional
<1>3. result \in ResultType
  BY <1>2 DEF Result, ResultType, RequestType
<1>4. /\ DecisionRank(d) >= DecisionRank(req.decision)
      /\ AuthorityRank(a) >= AuthorityRank(req.authority_state)
      \/ DeferToHumanRelease(req)
  BY <1>1, <1>2, DecisionRanks, AuthorityRanks DEF WouldRelax, RequestType
<1>5. Permitted(req, result)
  <2>1. result.decision = d /\ result.authority_state = a
    BY DEF Result
  <2>2. req.decision \in AutonomyDecisionType /\ req.authority_state \in RuntimeAuthorityState
    BY DEF RequestType
  <2> HIDE DEF result
  <2> QED BY <1>2, <1>4, <2>1, <2>2, PostureRanks DEF Permitted
<1> QED BY <1>1, <1>3, <1>5

\* A rejection vetoes and denies, whatever the request was.
LEMMA RejectIsPermitted ==
  ASSUME NEW req \in RequestType, NEW rev \in ReviewDecision, Reject(req, rev)
  PROVE  \E result \in ResultType : outcome' = {result} /\ Permitted(req, result)
<1> DEFINE result == Result(req, "veto", "denied", FALSE)
<1>1. result \in ResultType
  BY DEF Result, ResultType, RequestType, AutonomyDecisionType, RuntimeAuthorityState
<1>2. result.decision = "veto" /\ DecisionRank("veto") = 4
  BY DEF Result, DecisionRank
<1>3. Permitted(req, result)
  <2> HIDE DEF result
  <2> QED BY <1>1, <1>2, PostureRanks DEF Permitted, ResultType
<1> QED BY <1>1, <1>3 DEF Reject

\* Asking for more evidence, or escalating, keeps whatever restricts the request more
\* than a deferral to a human does.
LEMMA PostponeIsPermitted ==
  ASSUME NEW req \in RequestType, NEW rev \in ReviewDecision, Postpone(req, rev)
  PROVE  \E result \in ResultType : outcome' = {result} /\ Permitted(req, result)
<1> DEFINE d == MoreRestrictiveDecision(req.decision, "defer")
           a == MoreRestrictiveAuthority(req.authority_state, "human_approval_required")
           result == Result(req, d, a, FALSE)
<1>1. /\ req.decision \in AutonomyDecisionType /\ req.authority_state \in RuntimeAuthorityState
      /\ "defer" \in AutonomyDecisionType /\ "human_approval_required" \in RuntimeAuthorityState
  BY DEF RequestType, AutonomyDecisionType, RuntimeAuthorityState
<1>2. /\ d \in AutonomyDecisionType
      /\ DecisionRank(req.decision) <= DecisionRank(d)
      /\ DecisionRank("defer") <= DecisionRank(d)
  BY <1>1, MoreRestrictiveDecisionIsMaximum
<1>3. /\ a \in RuntimeAuthorityState
      /\ AuthorityRank(req.authority_state) <= AuthorityRank(a)
  BY <1>1, MoreRestrictiveAuthorityIsMaximum
<1>4. result \in ResultType /\ result.decision = d /\ result.authority_state = a
  BY <1>2, <1>3 DEF Result, ResultType, RequestType
<1>5. DecisionRank("defer") = 3
  BY DEF DecisionRank
<1>6. outcome' = {result}
  BY DEF Postpone
<1>7. Permitted(req, result)
  <2> HIDE DEF result, d, a
  <2> QED BY <1>1, <1>2, <1>3, <1>4, <1>5, PostureRanks DEF Permitted
<1> QED BY <1>4, <1>6, <1>7

\* Every review, whatever its disposition, has one outcome, which is permitted.
LEMMA ReviewIsPermitted ==
  ASSUME TypeOK, NEW req \in requests, NEW rev \in ReviewDecision,
         ApplyReviewDecision(req, rev)
  PROVE  /\ req \in RequestType
         /\ \E result \in ResultType : outcome' = {result} /\ Permitted(req, result)
<1>1. req \in RequestType
  BY DEF TypeOK, RequestType
<1>2. Accept(req, rev) \/ Reject(req, rev) \/ Postpone(req, rev)
  BY DEF ApplyReviewDecision
<1> QED BY <1>1, <1>2, AcceptIsPermitted, RejectIsPermitted, PostponeIsPermitted

\* A request built from an outcome has the outcome's decision and authority state.
LEMMA ResubmitKeepsPosture ==
  ASSUME TypeOK, NEW id \in RequestIds, Resubmit(id)
  PROVE  \E result \in ResultType, req \in RequestType :
           /\ outcome = {result}
           /\ requests' = requests \cup {req}
           /\ req.decision = result.decision
           /\ req.authority_state = result.authority_state
<1>1. PICK result \in outcome : requests' = requests \cup {FromSafetyGateResult(id, result)}
  BY DEF Resubmit
<1>2. result \in ResultType /\ outcome = {result}
  BY <1>1 DEF TypeOK, Optional, ResultType
<1> DEFINE req == FromSafetyGateResult(id, result)
<1>3. /\ req \in RequestType
      /\ req.decision = result.decision
      /\ req.authority_state = result.authority_state
  BY <1>2 DEF FromSafetyGateResult, RequestType, ResultType
<1> QED BY <1>1, <1>2, <1>3

\* The initial request is the gate result's.
LEMMA InitialRequest ==
  ASSUME Init
  PROVE  /\ origin \in Postured
         /\ \E req \in RequestType :
              /\ requests = {req}
              /\ req.decision = origin.decision
              /\ req.authority_state = origin.authority_state
<1>1. origin \in Postured
  BY DEF Init, Postured
<1>2. PICK id \in RequestIds : requests = {FromSafetyGateResult(id, origin)}
  BY DEF Init
<1> DEFINE req == FromSafetyGateResult(id, origin)
<1>3. /\ req \in RequestType
      /\ req.decision = origin.decision
      /\ req.authority_state = origin.authority_state
  BY <1>1 DEF FromSafetyGateResult, RequestType, Postured
<1> QED BY <1>1, <1>2, <1>3

\* Requests, outcomes and the count of reviews keep their types.
THEOREM TypeCorrect == Spec => []TypeOK
<1>1. Init => TypeOK
  <2> SUFFICES ASSUME Init PROVE TypeOK
    OBVIOUS
  <2>1. PICK req \in RequestType : requests = {req}
    BY InitialRequest
  <2>2. requests \subseteq RequestType /\ outcome = {} /\ reviews \in 0..MaxReviews
    BY <2>1, MaxReviewsAssumption DEF Init
  <2> QED BY <2>2 DEF Init, TypeOK, RequestType, Optional
<1>2. TypeOK /\ [Next]_vars => TypeOK'
  <2> SUFFICES ASSUME TypeOK, [Next]_vars PROVE TypeOK'
    OBVIOUS
  <2>1. ASSUME NEW req \in requests, NEW rev \in ReviewDecision, ApplyReviewDecision(req, rev)
        PROVE  TypeOK'
    <3>1. outcome' \in Optional(ResultType)
      BY <2>1, ReviewIsPermitted DEF Optional
    <3>2. reviews' \in 0..MaxReviews /\ UNCHANGED <<origin, requests>>
      BY <2>1, MaxReviewsAssumption DEF ApplyReviewDecision, TypeOK
    <3> QED BY <3>1, <3>2 DEF TypeOK, ResultType
  <2>2. ASSUME NEW id \in RequestIds, Resubmit(id)
        PROVE  TypeOK'
    <3>1. requests' \subseteq RequestType
      BY <2>2, ResubmitKeepsPosture DEF TypeOK, RequestType
    <3>2. UNCHANGED <<origin, outcome, reviews>>
      BY <2>2 DEF Resubmit
    <3> QED BY <3>1, <3>2 DEF TypeOK, RequestType
  <2>3. CASE UNCHANGED vars
    BY <2>3 DEF vars, TypeOK
  <2> QED BY <2>1, <2>2, <2>3 DEF Next
<1> QED BY <1>1, <1>2, PTL DEF Spec

\* A blocked runtime result stays blocked through every chain of reviews: the
\* invariant is inductive given the types, because each review is Permitted and each
\* new request repeats an outcome.
THEOREM BlockedIsInvariant == Spec => []BlockedStaysBlocked
<1>1. Init => BlockedStaysBlocked
  <2> SUFFICES ASSUME Init, Blocked(origin) PROVE \A x \in requests \cup outcome : Blocked(x)
    BY DEF BlockedStaysBlocked
  <2> QED BY InitialRequest DEF Init, Blocked
<1>2. TypeOK /\ BlockedStaysBlocked /\ [Next]_vars => BlockedStaysBlocked'
  <2> SUFFICES ASSUME TypeOK, BlockedStaysBlocked, [Next]_vars, Blocked(origin)'
               PROVE  \A x \in requests' \cup outcome' : Blocked(x)
    BY DEF BlockedStaysBlocked, Blocked
  <2>1. Blocked(origin) /\ UNCHANGED origin
    BY DEF Next, ApplyReviewDecision, Resubmit, vars, Blocked
  <2>2. \A x \in requests \cup outcome : Blocked(x)
    BY <2>1 DEF BlockedStaysBlocked
  <2>3. ASSUME NEW req \in requests, NEW rev \in ReviewDecision, ApplyReviewDecision(req, rev)
        PROVE  \A x \in requests' \cup outcome' : Blocked(x)
    <3>1. requests' = requests
      BY <2>3 DEF ApplyReviewDecision
    <3> QED BY <2>2, <2>3, <3>1, ReviewIsPermitted DEF Permitted
  <2>4. ASSUME NEW id \in RequestIds, Resubmit(id)
        PROVE  \A x \in requests' \cup outcome' : Blocked(x)
    <3>1. outcome' = outcome
      BY <2>4 DEF Resubmit
    <3> QED BY <2>2, <2>4, <3>1, ResubmitKeepsPosture DEF Blocked
  <2>5. CASE UNCHANGED vars
    BY <2>2, <2>5 DEF vars
  <2> QED BY <2>3, <2>4, <2>5 DEF Next
<1> QED BY <1>1, <1>2, TypeCorrect, PTL DEF Spec

\* The strengthening of LimitedNeedsTwoReviews: a chain that started limited has had a
\* review before anything in it asks for human approval, and two before anything in it
\* is nominal.
LimitedChain ==
  PostureOf(origin) = "limited" =>
    \A x \in requests \cup outcome :
      /\ DeferToHumanRelease(x) => reviews >= 1
      /\ Nominal(x) => reviews >= 2 /\ \E req \in requests : DeferToHumanRelease(req)

\* A limited result never becomes nominal in one review: the first one has to turn it
\* into a request for human approval.
THEOREM LimitedIsInvariant == Spec => []LimitedNeedsTwoReviews
<1>1. Init => LimitedChain
  <2> SUFFICES ASSUME Init, PostureOf(origin) = "limited"
               PROVE  \A x \in requests \cup outcome : ~DeferToHumanRelease(x) /\ ~Nominal(x)
    BY DEF LimitedChain
  <2>1. PICK req \in RequestType : /\ requests = {req}
                                   /\ req.decision = origin.decision
                                   /\ req.authority_state = origin.authority_state
    BY InitialRequest
  <2>2. ~DeferToHumanRelease(origin) /\ ~Nominal(origin)
    BY DEF PostureOf
  <2> QED BY <2>1, <2>2 DEF Init, DeferToHumanRelease, Nominal
<1>2. TypeOK /\ LimitedChain /\ [Next]_vars => LimitedChain'
  <2> SUFFICES ASSUME TypeOK, LimitedChain, [Next]_vars, PostureOf(origin)' = "limited"
               PROVE  \A x \in requests' \cup outcome' :
                        /\ DeferToHumanRelease(x) => reviews' >= 1
                        /\ Nominal(x) => /\ reviews' >= 2
                                         /\ \E req \in requests' : DeferToHumanRelease(req)
    BY DEF LimitedChain, DeferToHumanRelease, Nominal
  <2>1. UNCHANGED origin
    BY DEF Next, ApplyReviewDecision, Resubmit, vars
  <2>2. PostureOf(origin) = "limited"
    BY <2>1 DEF PostureOf, Nominal, DeferToHumanRelease, Blocked
  <2>3. \A x \in requests \cup outcome :
          /\ DeferToHumanRelease(x) => reviews >= 1
          /\ Nominal(x) => reviews >= 2 /\ \E req \in requests : DeferToHumanRelease(req)
    BY <2>2 DEF LimitedChain
  <2>4. ASSUME NEW req \in requests, NEW rev \in ReviewDecision, ApplyReviewDecision(req, rev)
        PROVE  \A x \in requests' \cup outcome' :
                 /\ DeferToHumanRelease(x) => reviews' >= 1
                 /\ Nominal(x) => /\ reviews' >= 2
                                  /\ \E r \in requests' : DeferToHumanRelease(r)
    <3>1. requests' = requests /\ reviews' = reviews + 1 /\ reviews \in Nat
      BY <2>4 DEF ApplyReviewDecision, TypeOK
    <3>2. PICK result \in ResultType : outcome' = {result} /\ Permitted(req, result)
      BY <2>4, ReviewIsPermitted
    <3>3. Nominal(result) => reviews >= 1 /\ \E r \in requests : DeferToHumanRelease(r)
      BY <2>3, <3>1, <3>2 DEF Permitted
    <3> QED BY <2>3, <3>1, <3>2, <3>3
  <2>5. ASSUME NEW id \in RequestIds, Resubmit(id)
        PROVE  \A x \in requests' \cup outcome' :
                 /\ DeferToHumanRelease(x) => reviews' >= 1
                 /\ Nominal(x) => /\ reviews' >= 2
                                  /\ \E r \in requests' : DeferToHumanRelease(r)
    <3>1. outcome' = outcome /\ reviews' = reviews
      BY <2>5 DEF Resubmit
    <3>2. PICK result \in ResultType, req \in RequestType :
            /\ outcome = {result}
            /\ requests' = requests \cup {req}
            /\ req.decision = result.decision
            /\ req.authority_state = result.authority_state
      BY <2>5, ResubmitKeepsPosture
    <3>3. (Nominal(req) <=> Nominal(result))
          /\ (DeferToHumanRelease(req) <=> DeferToHumanRelease(result))
      BY <3>2 DEF Nominal, DeferToHumanRelease
    <3> QED BY <2>3, <3>1, <3>2, <3>3
  <2>6. CASE UNCHANGED vars
    BY <2>3, <2>6 DEF vars
  <2> QED BY <2>4, <2>5, <2>6 DEF Next
<1>3. LimitedChain => LimitedNeedsTwoReviews
  BY DEF LimitedChain, LimitedNeedsTwoReviews
<1> QED BY <1>1, <1>2, <1>3, TypeCorrect, PTL DEF Spec

\* What is permitted is what AuthorityPromise lets a posture become.
LEMMA PermittedMayBecome ==
  ASSUME NEW req \in RequestType, NEW result \in ResultType, Permitted(req, result)
  PROVE  /\ PostureOf(req) \in Promise!Posture
         /\ PostureOf(result) \in Promise!Posture
         /\ Promise!MayBecome(PostureOf(req), PostureOf(result))
<1>1. /\ ~(Nominal(req) /\ Blocked(req)) /\ ~(DeferToHumanRelease(req) /\ Blocked(req))
      /\ ~(Nominal(result) /\ Blocked(result))
      /\ ~(DeferToHumanRelease(result) /\ Blocked(result))
  BY PostureRanks DEF RequestType, ResultType
<1>2. PostureOf(req) \in Promise!Posture /\ PostureOf(result) \in Promise!Posture
  BY DEF PostureOf, Promise!Posture
<1>3. PostureOf(req) = "limited" => PostureOf(result) # "nominal"
  BY DEF PostureOf, Permitted
<1>4. PostureOf(req) = "blocked" => PostureOf(result) = "blocked"
  BY <1>1 DEF PostureOf, Permitted
<1> QED BY <1>2, <1>3, <1>4 DEF Promise!MayBecome, Promise!Posture

\* A chain of reviews implements the promise: a review is a Grant from the posture of
\* the request under review, and building a request from an outcome is AskAgain.
THEOREM PromiseIsKept == Spec => KeepsPromise
<1>1. Init => Promise!PromiseInit
  <2> SUFFICES ASSUME Init PROVE Promise!PromiseInit
    OBVIOUS
  <2>1. PICK req \in RequestType : requests = {req}
    BY InitialRequest
  <2>2. {PostureOf(r) : r \in requests} = {PostureOf(req)}
    BY <2>1
  <2>3. PostureOf(req) \in Promise!Posture
    BY DEF PostureOf, Promise!Posture
  <2>4. {PostureOf(result) : result \in outcome} = {}
    BY DEF Init
  <2> QED BY <2>2, <2>3, <2>4 DEF Promise!PromiseInit
<1>2. TypeOK /\ [Next]_vars => [Promise!PromiseNext]_(Promise!promiseVars)
  <2> SUFFICES ASSUME TypeOK, [Next]_vars
               PROVE  [Promise!PromiseNext]_(Promise!promiseVars)
    OBVIOUS
  <2>1. ASSUME NEW req \in requests, NEW rev \in ReviewDecision, ApplyReviewDecision(req, rev)
        PROVE  Promise!Grant
    <3>1. requests' = requests
      BY <2>1 DEF ApplyReviewDecision
    <3>2. req \in RequestType
      BY <2>1, ReviewIsPermitted
    <3>3. PICK result \in ResultType : outcome' = {result} /\ Permitted(req, result)
      BY <2>1, ReviewIsPermitted
    <3>4. /\ PostureOf(result) \in Promise!Posture
          /\ Promise!MayBecome(PostureOf(req), PostureOf(result))
      BY <3>2, <3>3, PermittedMayBecome
    <3>5. {PostureOf(r) : r \in outcome'} = {PostureOf(result)}
      BY <3>3
    <3> QED BY <3>1, <3>4, <3>5 DEF Promise!Grant, PostureOf, Nominal, Blocked,
               DeferToHumanRelease
  <2>2. ASSUME NEW id \in RequestIds, Resubmit(id)
        PROVE  Promise!AskAgain
    <3>1. outcome' = outcome
      BY <2>2 DEF Resubmit
    <3>2. PICK result \in ResultType, req \in RequestType :
            /\ outcome = {result}
            /\ requests' = requests \cup {req}
            /\ req.decision = result.decision
            /\ req.authority_state = result.authority_state
      BY <2>2, ResubmitKeepsPosture
    <3>3. PostureOf(req) = PostureOf(result)
      BY <3>2 DEF PostureOf, Nominal, DeferToHumanRelease, Blocked
    <3>4. {PostureOf(r) : r \in requests'}
            = {PostureOf(r) : r \in requests} \cup {PostureOf(r) : r \in outcome}
      BY <3>2, <3>3
    <3> QED BY <3>1, <3>4 DEF Promise!AskAgain, PostureOf, Nominal, Blocked,
               DeferToHumanRelease
  <2>3. CASE UNCHANGED vars
    BY <2>3 DEF vars, Promise!promiseVars, PostureOf
  <2> QED BY <2>1, <2>2, <2>3 DEF Next, Promise!PromiseNext
<1> QED BY <1>1, <1>2, TypeCorrect, PTL DEF Spec, KeepsPromise, Promise!PromiseSpec
==============================================================================
