\* Serve's loop over the queues: a transmit ring of two and counters that
\* wrap at four.
CONSTANTS
  p1 = p1
  Ports = {p1}
  BufferLen = 2
  MaxConns = 1
  MaxPacketPayload = 1
  DrainLimit = 2
  AnswerLens = {3}
  PeerBuf = 2
  MaxRequest = 1
  MaxControl = 1
  MaxEvents = 1
  RxDepth = 2
  Shutdowns = {"full"}
  TxDepth = 2
  Wrap = 4
SPECIFICATION DeviceSpec
INVARIANTS
  DeviceTypeOK
  RingNeverOverfull
PROPERTIES
  ImplementsStream
