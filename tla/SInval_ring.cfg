SPECIFICATION Spec
CONSTANTS
  MaxBackends = 2
  NoSlot = NoSlot
  MAXNUMMESSAGES = 3
  MSGNUMWRAPAROUND = 3
  CLEANUP_MIN = 2
  CLEANUP_QUANTUM = 1
  SIG_THRESHOLD = 1
  WRITE_QUANTUM = 3
  MAXINVALMSGS = 2
  LXIDModulus = 3
  MaxInsert = 3
  MaxMessages = 4
  MaxDepth = 2
  MaxLXIDs = 0
INVARIANTS
  TypeOK
  UnreadMessagesIntact
  DeliveryInOrder
  CaughtUpOnReturn
  CountersBounded
PROPERTIES
  CleanupMakesRoom
  ImplementsInvalBus
