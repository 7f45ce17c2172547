SPECIFICATION Spec
CONSTANTS
  b1 = b1
  b2 = b2
  Backends = {b1}
  s1 = s1
  s2 = s2
  Standbys = {s1}
  AnyName = AnyName
  Nobody = Nobody
  MaxWalSenders = 1
  Configs <- NamedOrNot
  FirstConfig <- OnlyFirst
  MaxLSN = 1
  MaxEvents = 3
CHECK_DEADLOCK FALSE
INVARIANTS
  DetachedOnReturn
