\* The boot up to the first /status reply.
CONSTANTS
  MaxStackErrs = 0
  MaxPolicy = 0
SPECIFICATION Spec
INVARIANTS
  OutputIsTheTasks
\* main may halt the machine.
CHECK_DEADLOCK FALSE
