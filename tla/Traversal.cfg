SPECIFICATION Spec
CONSTANTS
  NodeIds <- SmallIds
  Graphs <- SmallGraphs
  Start = 1
  Sorted <- Ascending
INVARIANTS
  TypeOK
  VisitsExactlyTheReachable
  PathQueriesAgree
PROPERTIES
  Terminates
CHECK_DEADLOCK FALSE
