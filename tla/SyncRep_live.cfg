SPECIFICATION FairSpec
CONSTANTS
  b1 = b1
  b2 = b2
  Backends = {b1}
  s1 = s1
  s2 = s2
  Standbys = {s1, s2}
  AnyName = AnyName
  Nobody = Nobody
  MaxWalSenders = 2
  Configs <- NoneOrTwo
  FirstConfig <- FirstThenSecond
  MaxLSN = 1
  MaxEvents = 3
CHECK_DEADLOCK FALSE
PROPERTIES
  WaitEnds
  UnsetReleasesAll
