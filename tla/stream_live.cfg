\* Two streams compete for one place, with the least credit, one packet per
\* Drain and requests that may overflow the buffer.  No symmetry: it is not
\* sound for liveness.
CONSTANTS
  p1 = p1
  p2 = p2
  Ports = {p1, p2}
  BufferLen = 1
  MaxConns = 1
  MaxPacketPayload = 1
  DrainLimit = 1
  AnswerLens = {2}
  PeerBuf = 1
  MaxRequest = 2
  MaxControl = 0
  MaxEvents = 0
  RxDepth = 2
  Shutdowns = {"full"}
SPECIFICATION FairSpec
INVARIANTS
  ForgottenHostIsTold
PROPERTIES
  PlacesComeBack
  RequestsAreAnswered
\* Once every port is used and every bound met nothing is left to do.
CHECK_DEADLOCK FALSE
