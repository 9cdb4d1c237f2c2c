SPECIFICATION ServeSpec
CONSTANTS
  Requests = {s1}
  Streams = {s1}
  Conns = {c1}
  NoConn = noConn
  NoMsg = noMsg
  MaxConcurrentRequests = 1
  RespCap = 1
  SendCap = 1
  MaxChunks = 1
PROPERTIES
  ResponseNotLost
