SPECIFICATION Spec
CONSTANTS
  c1 = c1
  c2 = c2
  Clients = {c1}
  Entries = {e1}
  Versions = {v1, v2}
  Projects = {p1}
  None = None
  OneVersionPerProcess = FALSE
  MaxRegistrations = 2
  MaxFaults = 0
INVARIANT FlowRunsItsVersion
