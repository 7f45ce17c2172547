SPECIFICATION FairSpec
CONSTANTS
  Procs = {p1, p2, p3}
  Locks = {l1, l2}
  Modes = {"S", "X"}
  Conflicts <- ShareExclusive
  MaxCancels = 0
CHECK_DEADLOCK FALSE
PROPERTIES
  WaitsEnd
