CONSTANTS
  Actor <- MCActor
  Graphs <- MCGraphs
  Arrivals <- MCArrivals
  Resolution = 1
  MaxRounds = 3

SPECIFICATION FairReports

INVARIANTS
  WithinComponents
  StoppedMeansStable
  ResultIsPartition
  BridgesCountEnds
  SharesAreShares
  ColoursTellCommunities
  ImportIsComplete

PROPERTY ReportReturns

\* A report is returned once.
CHECK_DEADLOCK FALSE
