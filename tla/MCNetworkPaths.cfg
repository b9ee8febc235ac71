CONSTANTS
  Actor <- MCActor
  Graphs <- MCGraphs
  Depths = {0, 2, 3}
  Ends <- MCEnds

SPECIFICATION Spec

INVARIANTS
  PathIsShortest
  EgoIsNeighbourhood
  ComponentsAreClasses
  DiameterIsAttained
  AllPathsAreFound

PROPERTY SearchReturns

\* A search returns and is over.
CHECK_DEADLOCK FALSE
