\* Two servers, lost and late frames, refusals and other clients' traffic; a
\* deadline that cuts an attempt short.
CONSTANTS
  s1 = s1
  s2 = s2
  Servers = {s1, s2}
  Timeout = 7
  MaxFaults = 2
  MaxForeign = 1
  Omitted = {}
  Unspecified = Unspecified
  Broken = Broken
SPECIFICATION Spec
SYMMETRY Symmetry
INVARIANTS
  DhcpTypeOK
  LeaseIsBound
\* Acquire returns.
CHECK_DEADLOCK FALSE
