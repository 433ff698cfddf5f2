SPECIFICATION FairSpec
CONSTANTS
  Pods = {"a1", "a2", "x"}
  Groups = {"a"}
  group <- GroupOf
  minMember <- PairOf
  MinResources = {"a"}
  Capacity = 2
  MaxFaults = 2
INVARIANTS TypeOK GangTogether NoLostWakeup OnePlace
PROPERTIES WaitsEnd GroupsGetThrough
CHECK_DEADLOCK FALSE
