SPECIFICATION FairSpec
CONSTANTS
  w1 = w1
  w2 = w2
  host = host
  alias = alias
  elsewhere = elsewhere
  short = short
  long = long
  mixed = mixed
  empty = empty
  None = None
  Filesystems = {"mounted", "unknown"}
  Workers = {w1, w2}
  Dirs = {host, alias, elsewhere}
  Names = {f1}
  Aliased = {alias}
  Replaced <- HostToAlias
  Objects = {short, long, mixed, empty}
  Broken <- MixedOnly
  Falsy <- EmptyOnly
  Size <- Sizes
  MaxFaults = 1
INVARIANTS TypeOK FilesWhole
PROPERTY WritesReturn
