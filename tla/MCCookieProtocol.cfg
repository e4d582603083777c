SPECIFICATION FairSpec
CONSTANTS
  t1 = t1
  t2 = t2
  c1 = c1
  c2 = c2
  Threads = {t1, t2}
  Cookies = {c1, c2}
  MaxEvents = 1
  NoThread = NoThread
  NoCookie = NoCookie
INVARIANTS
  HandedOnce
  KeptWhileReferenced
  NoOrphanAnswers
  NobodyInFreedConnection
  FreedUntouched
  NeverWaitsForUnsent
  ReportsJustified
  IInv
PROPERTIES
  LedgerSpec
  ReplyReturns
  WaitReturns
CHECK_DEADLOCK FALSE
