SPECIFICATION Spec
CONSTANTS
  Threads = {t1, t2}
  Files = {f1, f2}
  MaxHandle = 2
  MaxFd = 4
  None = None
INVARIANT CacheExact
CHECK_DEADLOCK FALSE
