\* Two streams at a time; an answer exceeds the host's buffer and one Drain,
\* so both stall for credit and for the limit, in every order.
CONSTANTS
  p1 = p1
  p2 = p2
  Ports = {p1, p2}
  BufferLen = 3
  MaxConns = 2
  MaxPacketPayload = 1
  DrainLimit = 2
  AnswerLens = {4}
  PeerBuf = 2
  MaxRequest = 1
  MaxControl = 0
  MaxEvents = 0
  RxDepth = 2
  Shutdowns = {"half", "full"}
SPECIFICATION Spec
SYMMETRY Symmetry
INVARIANTS
  TypeOK
  HostBufferNeverOverruns
  StreamIntact
  EndMeansComplete
\* Once every port is used and every bound met nothing is left to do.
CHECK_DEADLOCK FALSE
