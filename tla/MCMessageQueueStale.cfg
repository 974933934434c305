SPECIFICATION Spec
CONSTANTS
  t1 = t1
  Threads = {t1, t2}
  Results = {r1, r2, r3}
  NoQueue = NoQueue
  NoResult = NoResult
  Workloads <- NestedLoads
  MaxPosted = 1
  MaxDepth = 4
INVARIANT AnsweredWhenRetrieved
CHECK_DEADLOCK FALSE
