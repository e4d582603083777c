SPECIFICATION Spec
CONSTANTS
  t1 = t1
  c1 = c1
  c2 = c2
  Threads = {t1}
  Cookies = {c1, c2}
  MaxEvents = 1
  NoThread = NoThread
  NoCookie = NoCookie
SYMMETRY Symmetry
INVARIANTS
  ErrorsAlwaysThrown
CHECK_DEADLOCK FALSE
