SPECIFICATION Spec
CONSTANTS
  Pods = {"a1", "a2", "a3"}
  Groups = {"a"}
  group <- GroupOf
  minMember <- TripleOf
  MinResources = {}
  Capacity = 3
  MaxFaults = 1
INVARIANT GangAlways
CHECK_DEADLOCK FALSE
