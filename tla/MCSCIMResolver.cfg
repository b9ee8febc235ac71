CONSTANTS
  c1 = c1
  c2 = c2
  alice = alice
  bob = bob
  Caller <- MCCaller
  Address <- MCAddress
  Email <- MCEmail
  Normal <- MCNormal
  InternalEmail <- MCInternalEmail
  UserName <- MCUserName
  Roster <- MCRoster
  MaxCalls = 4

SPECIFICATION Spec

INVARIANTS
  IndexConsistent
  CallersAgree
  AnswersStayTrue
  StatsConsistent

PROPERTIES
  NeverRebindToAuto
  ActorsOnlyGrow
  Linearizable
