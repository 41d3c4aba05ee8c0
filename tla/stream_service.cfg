\* One stream with every operation the host has, against the abstract service.
CONSTANTS
  p1 = p1
  Ports = {p1}
  BufferLen = 2
  MaxConns = 1
  MaxPacketPayload = 1
  DrainLimit = 2
  AnswerLens = {2, 3}
  PeerBuf = 2
  MaxRequest = 3
  MaxControl = 1
  MaxEvents = 1
  RxDepth = 2
  Shutdowns = {"half", "full"}
SPECIFICATION Spec
INVARIANTS
  NoOrphan
  RequestCreditReturns
PROPERTIES
  ImplementsService
  AnswerIsKept
\* Once every port is used and every bound met nothing is left to do.
CHECK_DEADLOCK FALSE
