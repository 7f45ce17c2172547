SPECIFICATION Spec
CONSTANTS
  MaxBackends = 2
  NoSlot = NoSlot
  MAXNUMMESSAGES = 2
  MSGNUMWRAPAROUND = 2
  CLEANUP_MIN = 2
  CLEANUP_QUANTUM = 1
  SIG_THRESHOLD = 0
  WRITE_QUANTUM = 2
  MAXINVALMSGS = 1
  LXIDModulus = 3
  MaxInsert = 2
  MaxMessages = 3
  MaxDepth = 2
  MaxLXIDs = 2
INVARIANTS
  UnreadMessagesIntact
  CaughtUpOnReturn
PROPERTIES
  ImplementsInvalBus
  LXIDsSuccessive
