SPECIFICATION Spec
CONSTANTS
  b1 = b1
  b2 = b2
  b3 = b3
  Backends = {b1, b2, b3}
  NoBackend = NoBackend
  Channels = {c1}
  Database <- TwoDatabases
  QueueSize = 3
  Kinds = {"LISTEN"}
  MaxActions = 1
  MaxNotifies = 1
  MaxCommands = 1
  MaxXacts = 3
  MaxErrors = 0
  MaxSendErrors = 0
  MaxExits = 0
CHECK_DEADLOCK FALSE
SYMMETRY SymmetryTwo
INVARIANTS
  TailBehindReaders
