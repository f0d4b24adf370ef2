SPECIFICATION Spec
CONSTANTS
  t1 = t1  t2 = t2
  env = env  own = own  broken = broken
  db1 = db1  db2 = db2
  p = p  local = local
  f1 = f1  f2 = f2
  x = x  y = y
  None = None  Missing = Missing  Emptied = Emptied
  Threads = {t1, t2}
  Settings = {env, own, broken}
  EnvSettings = env
  BackendOf <- BackendOfSettings
  ResultsOf <- ResultsOfSettings
  Databases = {db1, db2}
  Contents = {x, y}
  FlowIds = {f1, f2}
  NumericIds = {}
  Projects = {p, local}
  Reference <- Saving
  SaveOptions <- NoOptions
  Variables <- DefaultVariables
  Parameters <- AllParameters
  Calls <- CallsOf
  MaxCalls <- MaxCallsOf
  MaxFaults = 1
  MaxDeployments = 2
  FlowIdOf <- FlowIdOfDeployments
  ProjectOf <- ProjectOfDeployments
INVARIANTS SavedLoads ResultsComplete SettledConfiguration
PROPERTIES ImplementsBackend
CHECK_DEADLOCK FALSE
