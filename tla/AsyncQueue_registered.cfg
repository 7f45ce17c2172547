SPECIFICATION Spec
CONSTANTS
  b1 = b1
  b2 = b2
  b3 = b3
  Backends = {b1, b2}
  NoBackend = NoBackend
  Channels = {c1, c2}
  Database <- OneDatabase
  QueueSize = 3
  Kinds = {"LISTEN", "UNLISTEN", "UNLISTEN_ALL"}
  MaxActions = 2
  MaxNotifies = 0
  MaxCommands = 2
  MaxXacts = 2
  MaxErrors = 0
  MaxSendErrors = 0
  MaxExits = 0
CHECK_DEADLOCK FALSE
SYMMETRY Symmetry
INVARIANTS
  ListenersRegistered
