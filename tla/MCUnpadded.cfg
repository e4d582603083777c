SPECIFICATION Spec
CONSTANTS
  Descriptions <- MCDescriptions
  Bases = {0}
INVARIANT
  AttributesCorrespond
CHECK_DEADLOCK FALSE
