SPECIFICATION Spec
CONSTANTS
  t1 = t1
  t2 = t2
  m1 = m1
  m2 = m2
  cfm = cfm
  None = None
  Threads = {t1, t2}
  Symbols = {m1, m2}
  Optional = {cfm}
  Refresh = 1
  StaleAfter = 1
  MaxStale = 2
  Jump = 1
  MaxTime = 4
INVARIANT PricesNotExpired
CHECK_DEADLOCK FALSE
