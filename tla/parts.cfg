SPECIFICATION PartsSpec
CONSTANTS
  Window = 20
  RequestTimeout = 8
  CleanupPeriod = 2
  ResponseTimeout = 40
  StreamTimeout = 60
  Grain = 1
  Skews <- MCSkews
  Requests = {r1, r2}
  Objects = {o1, o2, o3}
  NoObject = NoObject
  SendCap = 1
  RespCap = 1
  BufferSize = 2
  MaxPayloadSize = 5
  MaxBody = 8
  MaxSet = 3
  NoConn = noConn
  Free = free
  Conns = {c1, c2}
CHECK_DEADLOCK FALSE
INVARIANTS
  PartsTypeOK
  RegistryTypeOK
  SweepExclusive
  CloseOnce
  ClosedIsForgotten
  SoleOwner
  NoMixUp
  LiveIsFresh
  OwnTimerIdle
  Accounted
  PiecesEndEvents
  Precedence
  RunsAsAssumed
PROPERTIES
  PicksOpen
