CONSTANTS
  Actor <- MCActor
  Graphs <- MCGraphs
  Resolution = 1
  MaxRounds = 3

SPECIFICATION Spec

INVARIANT MembershipIsCommunityId


\* The result is returned once.
CHECK_DEADLOCK FALSE
