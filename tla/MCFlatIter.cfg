SPECIFICATION FairSpec
CONSTANTS
  a = a
  b = b
  x = x
  Atoms <- MCAtoms
  Texts <- MCTexts
  Deep = 5
  Inputs <- MCInputs
  Flat <- MCFlat
  GroupSizes = {1, 2, 3}
INVARIANTS
  TypeOK
  NothingLost
  EndsExactly
  OverflowsOnlyWhen
PROPERTIES
  Terminates
  SourceSpec
CHECK_DEADLOCK FALSE
