SPECIFICATION Spec
CONSTANTS
  Procs = {p1, p2, p3}
  Locks = {l1, l2}
  Modes = {"S", "X"}
  Conflicts <- ShareExclusive
  MaxCancels = 1
CHECK_DEADLOCK FALSE
SYMMETRY Symmetry
INVARIANTS
  LockTablesSound
  NobodyGrantable
  SleepersWakeable
  CyclesWillBeFound
PROPERTIES
  DeadlocksAreReal
