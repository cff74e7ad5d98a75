CONSTANTS
  ByteMod = 8
  SizeMod = 16
  Count = 3
  Texts <- Lengths
  Chunks = {1, 3, 4}
  Capacity = 3
SPECIFICATION FairSpec
INVARIANT TypeOK
INVARIANT AsSent
INVARIANT ClosedWhenGone
PROPERTY EverySendEnds
PROPERTY EverythingArrives
CHECK_DEADLOCK FALSE
