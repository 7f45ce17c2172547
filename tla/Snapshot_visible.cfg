SPECIFICATION Spec
CONSTANTS
  p1 = p1
  p2 = p2
  r1 = r1
  Writers = {p1, p2}
  Readers = {r1}
  Vacuums = {r1}
  MaxXid = 4
  XidsPerPage = 2
  MaxCachedSubxids = 1
SYMMETRY Symmetry
CHECK_DEADLOCK FALSE
INVARIANTS
  SnapshotIsExact
  HintsAreFinal
  TreeCommitsAtOnce
  HorizonIsSafe
