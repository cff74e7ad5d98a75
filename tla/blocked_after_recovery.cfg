CONSTANTS
  c1 = c1
  c2 = c2
  c3 = c3
  p = p
  q = q
  Clients = {c1}
  Paths = {p, q}
  Jobs <- BigFileJobs
  None = None
  Junk = Junk
  BUFFERSIZE = 4
  Capacity = 2
  MaxEpoch = 2
  MaxBreaks = 1
  MayRefuse = {p}
  BadPaths = {}
  InterruptAt = {}
  Resets = FALSE
  ReadErrors = FALSE
  DiskErrors = FALSE
SPECIFICATION FairSpec
PROPERTY EveryClientAnswered
CHECK_DEADLOCK FALSE
