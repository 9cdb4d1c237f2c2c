SPECIFICATION FairClientSpec
CONSTANTS
  MaxDials = 2
  MaxFailures = 2
  Interval = 3
  MaxDelay = 5
  Requests = {r1, r2, s1}
  Streams = {s1}
  NoRequest = none
  MaxConcurrentRequests = 2
  RecvCap = 1
  SendCap = 1
  MaxChunks = 1
INVARIANTS
  LinkTypeOK
  ConnectedIsWatched
  CrashAfterReconnect
  TypeOK
  JobsBounded
  AnswerShape
PROPERTIES
  LossNoticed
  Reconnects
  AcceptedEnds
