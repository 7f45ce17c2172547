SPECIFICATION Spec
CONSTANTS
  MaxBackends = 3
  NoSlot = NoSlot
  MAXNUMMESSAGES = 2
  MSGNUMWRAPAROUND = 2
  CLEANUP_MIN = 1
  CLEANUP_QUANTUM = 1
  SIG_THRESHOLD = 1
  WRITE_QUANTUM = 1
  MAXINVALMSGS = 2
  LXIDModulus = 3
  MaxInsert = 1
  MaxMessages = 1
  MaxDepth = 1
  MaxLXIDs = 3
INVARIANTS
  ActiveBackendsSeen
PROPERTIES
  LXIDsSuccessive
