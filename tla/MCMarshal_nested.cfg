SPECIFICATION Spec
CONSTANT
  Calls <- MCCalls
INVARIANT
  NestingAccepted
CHECK_DEADLOCK FALSE
