SPECIFICATION FairSpec
CONSTANTS
  t1 = t1
  Threads = {t1, t2, t3}
  NoThread = NoThread
  SpinCount = TRUE
  Internal = TRUE
  MaxRecursion <- OneRecursive
  MaxAbandoned = 1
INVARIANTS TypeOK MutualExclusion OneBaton LockCountExact OwnerExact NoLostWakeup
PROPERTIES LockSpec Progress
