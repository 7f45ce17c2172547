SPECIFICATION Spec
CONSTANTS
  b1 = b1
  b2 = b2
  Backends = {b1, b2}
  s1 = s1
  s2 = s2
  Standbys = {s1, s2}
  AnyName = AnyName
  Nobody = Nobody
  MaxWalSenders = 2
  Configs <- NoneOrTwo
  FirstConfig <- FirstThenSecond
  MaxLSN = 2
  MaxEvents = 2
CHECK_DEADLOCK FALSE
SYMMETRY Symmetry
INVARIANTS
  WaitersQueued
  NoLostWakeup
PROPERTIES
  AckedIsReplicated
