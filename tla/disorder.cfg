CONSTANTS
  c1 = c1
  c2 = c2
  c3 = c3
  Cells = {c1, c2, c3}
  Null = Null
  Overlaps = {TRUE, FALSE}
  Middles = {TRUE, FALSE}
SPECIFICATION Spec
INVARIANT TypeOK
INVARIANT ClosedBeforeFreed
SYMMETRY Symmetry
CHECK_DEADLOCK FALSE
