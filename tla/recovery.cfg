CONSTANTS
  c1 = c1
  c2 = c2
  c3 = c3
  p = p
  q = q
  Clients = {c1, c2}
  Paths = {p, q}
  Jobs <- RecoveryJobs
  None = None
  Junk = Junk
  BUFFERSIZE = 2
  Capacity = 2
  MaxEpoch = 5
  MaxBreaks = 1
  MayRefuse = {}
  BadPaths = {}
  InterruptAt = {4}
  Resets = FALSE
  ReadErrors = FALSE
  DiskErrors = FALSE
SPECIFICATION FairSpec
INVARIANT Aligned
INVARIANT AckTruthful
INVARIANT NoStrayAnswer
PROPERTY ResendsCurrent
PROPERTY EveryClientAnswered
PROPERTY ImplementsCopyService
