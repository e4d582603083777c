SPECIFICATION Spec
CONSTANTS
  a = a
  b = b
  x = x
  Atoms <- MCAtoms
  Texts <- MCTexts
  Deep = 5
  Inputs <- MCInputs
  Flat <- MCFlat
  GroupSizes = {1, 2, 3}
INVARIANT
  TooFewReported
CHECK_DEADLOCK FALSE
