SPECIFICATION FairSpec
CONSTANTS
  mongodb = mongodb
  mysql = mysql
  prefect = prefect
  Callers = {c1, c2}
  Services = {mongodb, mysql}
  Checks <- MySqlFirst
  Asked = {mysql}
  Named = {mysql}
  MaxSessions = 1
  MaxRounds = 1
  MaxFaults = 2
INVARIANTS NothingLeftRunning NothingLeftStored
PROPERTIES PersistKept SessionsGoOn
CHECK_DEADLOCK FALSE
