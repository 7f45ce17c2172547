SPECIFICATION FairSpec
CONSTANTS
    Outers = 2
    Inners = 2
    JoinTypes = {"INNER", "LEFT", "SEMI", "ANTI"}
    MaxRescans = 1
CHECK_DEADLOCK FALSE
INVARIANTS
  ResultIsJoin
PROPERTIES
  JoinEnds
