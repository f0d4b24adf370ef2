SPECIFICATION Spec
CONSTANTS
  t1 = t1
  t2 = t2
  Threads = {t1, t2}
  Forked = {}
  Documents = {d1, d2}
  MaxClients = 2
  MaxFaults = 2
SYMMETRY ThreadSymmetry
INVARIANTS TypeOK ClientsAccounted OpenWhenUsed ReturnedMeansStored
