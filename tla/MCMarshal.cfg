SPECIFICATION Spec
CONSTANT
  Calls <- MCCalls
INVARIANTS
  TypeOK
  NothingLost
  WholeUnits
  RefusesExactly
  MethodsAsNamed
  IInv
CHECK_DEADLOCK FALSE
