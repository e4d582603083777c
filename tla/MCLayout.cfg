SPECIFICATION Spec
CONSTANTS
  Descriptions <- MCDescriptions
  Bases = {0, 4}
INVARIANTS
  IInv
  ReadsRight
  SizeRight
  NeverRaises
CHECK_DEADLOCK FALSE
