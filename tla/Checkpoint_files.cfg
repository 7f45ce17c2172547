SPECIFICATION Spec
CONSTANTS
  Rels = {r1}
  Forked = {r1}
  Unlogged = {}
  ShortLived = {r1}
  Requesters = {}
  MaxRequests = 2
  CycleModulus = 2
  CounterModulus = 1
CHECK_DEADLOCK FALSE
INVARIANTS
  NothingForgotten
  ReuseNotReplayed
  DropDoesNotFail
PROPERTIES
  CheckpointDurable
