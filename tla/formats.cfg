\* Real sizes where they fit, a scaled address space for the image.
CONSTANTS
  Space = 64
  Reach = 16
  maxImageSize = 20
  HostLens = {0, 1, 15, 21, 22, 23, 27, 28, 29, 31, 32, 33, 34, 35, 47, 48, 49, 63, 64, 70}
  OptionBytes = {0, 1, 2, 255}
  OptionMax = 6
  FrameLens = {281, 282, 283, 301, 302, 303, 321, 322, 342, 362}
  UdpLens = {0, 247, 248, 249, 267, 268, 288, 308, 328, 329, 65535}
  Words = {0, 1, 255, 32768, 65535}
  WordsMax = 4
  Addresses = {0, 6, 8, 11, 12, 24, 62}
  Sizes = {0, 4, 9}
  Base = 8
  Entries = {0, 8, 10, 12, 20, 24}
  MessageLens = {0, 1, 31, 32, 4096, 65535}
  QueueSizes = {0, 1, 32, 33}
SPECIFICATION Spec
INVARIANTS
  ClientOptionsArrive
  OptionsParsed
  ServerFieldsArrive
  ReadsStayInside
  ChecksumCancels
  ImageFaithful
  EntryReached
  ProgramsSayTheirMessage
  
  MacUsable
\* Each input is computed once.
CHECK_DEADLOCK FALSE
