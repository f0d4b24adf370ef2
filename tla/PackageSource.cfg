SPECIFICATION Spec
CONSTANTS
  python = python  numpy = numpy  epics = epics  pip = pip
  tarball = tarball
  None = None
  Processes = {p1, p2}
  Paths = {a1}
  Releases <- AllReleases
  Dependencies = {python, numpy, epics, pip}
  Mentions <- MentionsOf
  MaxCalls = 3
  MaxReleases = 1
  MaxFaults = 2
INVARIANTS InstallDelivers DependenciesPresent
CHECK_DEADLOCK FALSE
