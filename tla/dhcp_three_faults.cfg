\* One server, three faults for four attempts.
CONSTANTS
  s1 = s1
  Servers = {s1}
  Timeout = 30
  MaxFaults = 3
  MaxForeign = 1
  Omitted = {}
  Unspecified = Unspecified
  Broken = Broken
SPECIFICATION FairSpec
PROPERTIES
  AcquireSucceeds
\* Acquire returns.
CHECK_DEADLOCK FALSE
