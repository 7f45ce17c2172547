SPECIFICATION IdleSpec
CONSTANTS
  MaxCancels = 0
  MaxErrors = 1
INVARIANTS
  NoSignalLeftBehind
