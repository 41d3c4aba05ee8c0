\* A server whose OFFER and ACK may both lack the subnet mask.
CONSTANTS
  s1 = s1
  Servers = {s1}
  Timeout = 30
  MaxFaults = 1
  MaxForeign = 1
  Omitted = {"mask"}
  Unspecified = Unspecified
  Broken = Broken
SPECIFICATION Spec
INVARIANTS
  LeaseHasMask
\* Acquire returns.
CHECK_DEADLOCK FALSE
