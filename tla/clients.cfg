CONSTANTS
  c1 = c1
  c2 = c2
  c3 = c3
  Cells = {c1, c2, c3}
  Null = Null
  Overlaps = {FALSE}
  Middles = {FALSE}
SPECIFICATION FairSpec
INVARIANT ListsTheLiving
INVARIANT NoMisuse
INVARIANT NothingLeftOpen
PROPERTY HandlerExits
PROPERTY ChangesLikeARoster
CHECK_DEADLOCK FALSE
