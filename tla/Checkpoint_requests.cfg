SPECIFICATION FairSpec
CONSTANTS
  Rels = {r1}
  Forked = {}
  Unlogged = {}
  ShortLived = {}
  Requesters = {q1}
  MaxRequests = 1
  CycleModulus = 2
  CounterModulus = 4
CHECK_DEADLOCK FALSE
PROPERTIES
  RequestServed
  RequestsReturn
