SPECIFICATION FairSpec
CONSTANTS
  Procs = {p1, p2, p3}
  NoProc = NoProc
  Locks = {1}
  MaxHeld = 1
  MaxSignals = 1
INVARIANTS
  NoWaiterForgotten
  CountersMatchHolders
  SignalsConserved
  InterruptsHeldOff
PROPERTIES
  ImplementsRWLock
  SleepersWoken
