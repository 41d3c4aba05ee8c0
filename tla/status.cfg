\* The boot with interface errors and a policy that comes and goes.
CONSTANTS
  MaxStackErrs = 1
  MaxPolicy = 2
SPECIFICATION FairSpec
INVARIANTS
  StatusTypeOK
  StatusIsEarned
  StackBeforeNetwork
PROPERTIES
  ProbeRecovers
\* main may halt the machine.
CHECK_DEADLOCK FALSE
