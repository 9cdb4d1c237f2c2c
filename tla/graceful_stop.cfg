SPECIFICATION Spec
CHECK_DEADLOCK FALSE
CONSTANTS
  Requests = {r1}
  Streams = {}
  Conns = {c1}
  NoConn = noConn
  NoMsg = noMsg
  MaxConcurrentRequests = 1
  RespCap = 1
  SendCap = 1
  MaxChunks = 0
INVARIANTS
  GracefulStop
