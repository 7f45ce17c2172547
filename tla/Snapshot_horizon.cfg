SPECIFICATION Spec
CONSTANTS
  p1 = p1
  p2 = p2
  Writers = {p1, p2}
  Readers = {p1, p2}
  Vacuums = {p1, p2}
  MaxXid = 2
  XidsPerPage = 4
  MaxCachedSubxids = 1
SYMMETRY Symmetry
CHECK_DEADLOCK FALSE
INVARIANTS
  HorizonIsSafe
