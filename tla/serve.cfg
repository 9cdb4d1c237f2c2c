SPECIFICATION Spec
CHECK_DEADLOCK FALSE
CONSTANTS
  Requests = {s1, r1}
  Streams = {s1}
  Conns = {c1, c2}
  NoConn = noConn
  NoMsg = noMsg
  MaxConcurrentRequests = 2
  RespCap = 1
  SendCap = 1
  MaxChunks = 0
SYMMETRY Symmetry
VIEW View
INVARIANTS
  TypeOK
  SlotAccounting
  TableOwnership
  CloseDiscipline
  ForwardNeverPanics
