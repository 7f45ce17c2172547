SPECIFICATION Spec
CONSTANTS
  Rels = {r1, r2}
  Forked = {}
  Unlogged = {r1}
  ShortLived = {}
  Requesters = {}
  MaxRequests = 1
  CycleModulus = 2
  CounterModulus = 1
CHECK_DEADLOCK FALSE
PROPERTIES
  OnlyPermanentMarked
