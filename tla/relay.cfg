SPECIFICATION Spec
VIEW View
CONSTANTS
  Requests = {s1}
  Streams = {s1}
  Conns = {c1, c2}
  NoConn = noConn
  NoMsg = noMsg
  NoRequest = noRequest
  MaxConcurrentRequests = 1
  RespCap = 1
  SendCap = 1
  ClientMax = 1
  RecvCap = 1
  ClientSendCap = 1
  MaxChunks = 2
INVARIANTS
  Delivered
  NothingAfterLast
PROPERTIES
  Assumed
