SPECIFICATION Spec
CONSTANTS
  c1 = c1
  c2 = c2
  save_db_result = save_db_result
  other = other
  None = None
  Callers = {c1, c2}
  Tasks <- SavingOnly
  ReferenceTasks <- SavingOnly
  SavingTasks <- SavingOnly
  FileTasks <- Nothing
  EmptyTasks <- Nothing
  TaskNames <- Nothing
  Inputs = {i1, i2}
  MaxRuns = 2
  MaxRetries = 0
  MaxFaults = 1
SYMMETRY CallerSymmetry
INVARIANTS ReturnedComplete UnwatchedBounded
