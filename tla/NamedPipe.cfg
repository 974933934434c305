SPECIFICATION FairSpec
CONSTANTS
  Threads = {t1, t2}
  Servers = {s1, s2}
  Clients = {c1, c2}
  None = None
  MaxInstances = 2
INVARIANTS TypeOK StateExact OneAnswer NoMissedServer InstancesExact
PROPERTY FlushReturns
