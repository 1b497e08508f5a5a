SPECIFICATION Spec
CONSTANTS
  t1 = t1
  t2 = t2
  t3 = t3
  k1 = k1
  k2 = k2
  k3 = k3
  None = None
  Threads = {t1, t2}
  Keys = {k1, k2, k3}
  MaxConnections = 2
  MaxConcurrent = 2
  Burst = 1
  Rate = 2
  MaxEntries = 1
  IdleMin = 1
  CleanupEvery = 2
  MaxClock = 3
INVARIANTS TypeOK NothingLeaks GrantsPaidFor
PROPERTY BusyEnds
CHECK_DEADLOCK FALSE
