SPECIFICATION Spec
CONSTANTS
  m1 = m1
  m2 = m2
  s1 = s1
  e1 = e1
  e2 = e2
  r1 = r1
  t1 = t1
  t2 = t2
  t3 = t3
  p1 = p1
  p2 = p2
  Threads = {t1, t2, t3}
  Processes = {p1, p2}
  ProcessOf <- OwnProcess
  Mutexes = {m1, m2}
  Semaphores = {s1}
  Events = {e1, e2}
  Timers = {r1}
  Manual = {e2}
  SemMax <- SemMax2
  NoThread = NoThread
  NoOwner = NoOwner
  Workloads <- AllLoads
  ReleaseCounts = {1, 2}
  MaxSuspend = 2
  MaxApc = 2
  MaxRecursion = 1
  MaxStale = 1
INVARIANTS TypeOK NoMissedWake MutexExact SafeWithoutCrashes OneAnswer KilledClientWakes TimerApcExact
PROPERTIES NoNestedSuspend SuspendedAcquireNothing
CHECK_DEADLOCK FALSE
