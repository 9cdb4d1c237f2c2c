SPECIFICATION Spec
CONSTANTS
  Requests = {r1, r2, s1}
  Streams = {s1}
  NoRequest = none
  MaxConcurrentRequests = 2
  RecvCap = 1
  SendCap = 1
  MaxChunks = 2
INVARIANTS
  StopNeverPanics
