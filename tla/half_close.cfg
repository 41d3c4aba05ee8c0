\* A client that shuts down its sending side after its request.
CONSTANTS
  p1 = p1
  Ports = {p1}
  BufferLen = 2
  MaxConns = 1
  MaxPacketPayload = 1
  DrainLimit = 1
  AnswerLens = {3}
  PeerBuf = 2
  MaxRequest = 1
  MaxControl = 0
  MaxEvents = 0
  RxDepth = 2
  Shutdowns = {"half"}
SPECIFICATION FairSpec
PROPERTIES
  ConnectionCloses
\* Once every port is used and every bound met nothing is left to do.
CHECK_DEADLOCK FALSE
