CONSTANTS
  Main = Main
  a1 = a1
  a2 = a2
  b1 = b1
  c1 = c1
  m1 = m1
  m2 = m2
  t1 = t1
  t2 = t2
  Address <- MCAddress
  Email <- MCEmail
  Normal <- MCNormal
  InternalEmail <- MCInternalEmail
  UserName <- MCUserName
  Roster <- MCRoster
  MaxCalls = 16
  MailId <- MCMailId
  Header <- MCHeader
  MessageID <- MCMessageID
  Thread <- MCThread
  MaxMail = 3
  MaxRuns = 2
  MaxMore = 1

SPECIFICATION Spec

INVARIANT ThreadsListMessages
