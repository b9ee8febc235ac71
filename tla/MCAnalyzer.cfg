CONSTANTS
  Actor <- MCActor
  EdgeWeight <- MCWeight
  Traffics <- MCTraffics
  Jobs <- MCJobs
  Entry <- MCEntry
  Directories <- MCDirectories
  Domain <- MCDomain
  Loadable <- MCLoadable
  MaxLoads = 1
  MinExternal = 2
  MinDomains = 2
  Damp = 1
  DampBase = 2
  Iterations = 2
  Arrivals <- MCArrivals
  Granularity = 2
  Threshold = 1
  MaxGap = 4

SPECIFICATION Spec

INVARIANTS
  BooksBalance
  ResultsAreCounts
  RankMassIsKept
  DegreesAddUp
  
  OnlyTheInsideIsCounted
  AnswersAreToTheLatest

\* A report is returned and the call is over.
CHECK_DEADLOCK FALSE
