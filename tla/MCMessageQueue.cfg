SPECIFICATION FairSpec
CONSTANTS
  t1 = t1
  Threads = {t1, t2}
  Results = {r1, r2, r3}
  NoQueue = NoQueue
  NoResult = NoResult
  Workloads <- AllLoads
  MaxPosted = 1
  MaxDepth = 4
INVARIANTS TypeOK ResultsOwned StacksMatch NoLostWake BitsExact
PROPERTIES SendReplySpec SendsReturn
CHECK_DEADLOCK FALSE
