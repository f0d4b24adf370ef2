SPECIFICATION Spec
CONSTANTS
  c1 = c1
  c2 = c2
  Clients = {c1, c2}
  Entries = {e1}
  Versions = {v1, v2}
  Projects = {p1}
  None = None
  OneVersionPerProcess = TRUE
  MaxRegistrations = 3
  MaxFaults = 1
SYMMETRY ClientSymmetry
INVARIANTS TypeOK KeysUnique RowsResolve ObjectsResolve FlowRunsItsVersion FlowRowsBounded
PROPERTIES StoreDelivers ImplementsCatalog
