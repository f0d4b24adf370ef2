SPECIFICATION Spec
CONSTANTS
  parent = parent
  child = child
  t1 = t1
  t2 = t2
  t3 = t3
  Processes = {parent, child}
  Creator = parent
  Threads = {t1, t2}
  ProcessOf <- TwoThreadsInChild
  Openers = {}
  PoolSize = 2
  MaxFaults = 0
INVARIANT OwnEngine
