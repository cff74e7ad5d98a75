CONSTANTS
  c1 = c1
  c2 = c2
  c3 = c3
  Cells = {c1, c2, c3}
  Null = Null
  Overlaps = {FALSE}
  Middles = {TRUE}
SPECIFICATION Spec
INVARIANT EmptyWhenAllExited
CHECK_DEADLOCK FALSE
