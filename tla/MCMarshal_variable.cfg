SPECIFICATION Spec
CONSTANT
  Calls <- MCCalls
INVARIANT
  StructuresSent
CHECK_DEADLOCK FALSE
