CONSTANTS
  c1 = c1
  c2 = c2
  c3 = c3
  p = p
  q = q
  Clients = {c1}
  Paths = {p, q}
  Jobs <- BigFileJobs
  None = None
  Junk = Junk
  BUFFERSIZE = 2
  Capacity = 2
  MaxEpoch = 2
  MaxBreaks = 1
  MayRefuse = {}
  BadPaths = {}
  InterruptAt = {}
  Resets = FALSE
  ReadErrors = FALSE
  DiskErrors = FALSE
SPECIFICATION Spec
INVARIANT IntactWhileAcked
CHECK_DEADLOCK FALSE
