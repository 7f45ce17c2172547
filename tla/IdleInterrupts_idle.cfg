SPECIFICATION IdleFairSpec
CONSTANTS
  MaxCancels = 2
  MaxErrors = 2
INVARIANTS
  ServicedOneByOne
PROPERTIES
  SignalsServiced
