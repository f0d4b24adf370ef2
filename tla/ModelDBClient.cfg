SPECIFICATION FairSpec
CONSTANTS
  parent = parent
  child = child
  t1 = t1
  t2 = t2
  t3 = t3
  Processes = {parent, child}
  Creator = parent
  Threads = {t1, t2, t3}
  ProcessOf <- OneThreadInChild
  Openers = {t1, t3}
  PoolSize = 2
  MaxFaults = 1
INVARIANTS OwnEngine NothingKept OneEngineEach
PROPERTIES CallsEnd
