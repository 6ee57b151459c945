SPECIFICATION ReviewSpec
CONSTANTS
  RequestIds = {q1}
  MaxReviews = 1
INVARIANTS
  HeldRunIsNotApprovedAway
CHECK_DEADLOCK FALSE
