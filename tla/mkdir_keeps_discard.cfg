CONSTANTS
  c1 = c1
  c2 = c2
  c3 = c3
  p = p
  q = q
  Clients = {c1, c2, c3}
  Paths = {p, q}
  Jobs <- FileOrDirJobs
  None = None
  Junk = Junk
  BUFFERSIZE = 2
  Capacity = 2
  MaxEpoch = 1
  MaxBreaks = 0
  MayRefuse = {p}
  BadPaths = {}
  InterruptAt = {}
  Resets = FALSE
  ReadErrors = FALSE
  DiskErrors = FALSE
SPECIFICATION Spec
PROPERTY OnlyUselessDiscarded
CHECK_DEADLOCK FALSE
