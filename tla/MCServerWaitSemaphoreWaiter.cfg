SPECIFICATION Spec
CONSTANTS
  m1 = m1
  m2 = m2
  s1 = s1
  e1 = e1
  e2 = e2
  r1 = r1
  t1 = t1
  t2 = t2
  t3 = t3
  p1 = p1
  p2 = p2
  Threads = {t1, t2, t3}
  Processes = {p1, p2}
  ProcessOf <- OwnProcess
  Mutexes = {}
  Semaphores = {s1}
  Events = {e1}
  Timers = {}
  Manual = {}
  SemMax <- SemMax2
  NoThread = NoThread
  NoOwner = NoOwner
  Workloads <- SemaphoreLoads
  ReleaseCounts = {1}
  MaxSuspend = 1
  MaxApc = 1
  MaxRecursion = 1
  MaxStale = 1
INVARIANT NobodyToWake
CHECK_DEADLOCK FALSE
