SPECIFICATION Spec
CONSTANTS
  p1 = p1
  p2 = p2
  r1 = r1
  Writers = {p1, p2}
  Readers = {r1}
  Vacuums = {}
  MaxXid = 3
  XidsPerPage = 2
  MaxCachedSubxids = 0
SYMMETRY Symmetry
CHECK_DEADLOCK FALSE
INVARIANT CommittedHintsWait
