SPECIFICATION FairSpec
CONSTANTS
  c1 = c1
  c2 = c2
  Clients = {c1, c2}
  Entries = {e1}
  Versions = {v1}
  Projects = {p1}
  None = None
  OneVersionPerProcess = TRUE
  MaxRegistrations = 4
  MaxFaults = 2
PROPERTY EveryScriptReturns
