SPECIFICATION Spec
CONSTANTS
  RequestIds = {q1, q2}
  MaxReviews = 2
INVARIANTS
  TypeOK
  BlockedStaysBlocked
  LimitedNeedsTwoReviews
PROPERTIES
  KeepsPromise
CHECK_DEADLOCK FALSE
