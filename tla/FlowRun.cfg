SPECIFICATION FairSpec
CONSTANTS
  c1 = c1
  c2 = c2
  save_db_result = save_db_result
  other = other
  None = None
  Callers = {c1}
  Tasks <- Both
  ReferenceTasks <- SavingOnly
  SavingTasks <- SavingOnly
  FileTasks <- Nothing
  EmptyTasks <- OtherOnly
  TaskNames <- NamesOfTasks
  Inputs = {i1}
  MaxRuns = 1
  MaxRetries = 2
  MaxFaults = 2
INVARIANTS ReturnedComplete ReturnedStored
PROPERTIES ImplementsBackend CallsReturn GivenUpRunsEnd
