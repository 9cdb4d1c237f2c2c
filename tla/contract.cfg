SPECIFICATION FairServeSpec
CONSTANTS
  Requests = {s1, r1}
  Streams = {s1}
  Conns = {c1}
  NoConn = noConn
  NoMsg = noMsg
  MaxConcurrentRequests = 1
  RespCap = 2
  SendCap = 1
  MaxChunks = 2
PROPERTIES
  EveryCallAnswered
  Contract
