CONSTANTS
  c1 = c1
  c2 = c2
  c3 = c3
  p = p
  q = q
  Clients = {c1, c2}
  Paths = {p, q}
  Jobs <- FaultJobs
  None = None
  Junk = Junk
  BUFFERSIZE = 2
  Capacity = 1
  MaxEpoch = 2
  MaxBreaks = 1
  MayRefuse = {p}
  BadPaths = {q}
  InterruptAt = {1, 2, 3, 4}
  Resets = TRUE
  ReadErrors = TRUE
  DiskErrors = TRUE
SPECIFICATION Spec
INVARIANT TypeOK
INVARIANT NoOverrun
CHECK_DEADLOCK FALSE
SYMMETRY Symmetry
