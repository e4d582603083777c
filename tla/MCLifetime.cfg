SPECIFICATION SetupSpec
CONSTANTS
  c1 = c1
  c2 = c2
  k1 = k1
  k2 = k2
  t1 = t1
  t2 = t2
  render = render
  own = own
  other = other
  Conns <- MCConns
  Cookies <- MCCookies
  Keys <- MCKeys
  Handles <- MCHandles
  Foreign <- MCForeign
  Threads <- MCThreads
  Asked <- MCAsked
  Core = Core
  Null = Null
  MaxRefs = 1
SYMMETRY Symmetry
INVARIANTS
  TypeOK
  RefsExact
  NoUseAfterFree
  NothingUnset
  SetupReadable
  IInv
PROPERTY
  ClosedOnlyByDisconnect
CHECK_DEADLOCK FALSE
