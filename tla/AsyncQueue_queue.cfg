SPECIFICATION Spec
CONSTANTS
  b1 = b1
  b2 = b2
  b3 = b3
  Backends = {b1, b2}
  NoBackend = NoBackend
  Channels = {c1}
  Database <- OneDatabase
  QueueSize = 2
  Kinds = {"LISTEN", "UNLISTEN", "UNLISTEN_ALL"}
  MaxActions = 1
  MaxNotifies = 1
  MaxCommands = 2
  MaxXacts = 3
  MaxErrors = 1
  MaxSendErrors = 1
  MaxExits = 1
CHECK_DEADLOCK FALSE
SYMMETRY Symmetry
INVARIANTS
  NoMissedNotification
  DeliveredOnceInOrder
  QueueReadable
  NoForgottenListener
  TailNotForgotten
