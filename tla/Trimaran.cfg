SPECIFICATION Spec
CONSTANTS
  p1 = p1  p2 = p2  n1 = n1  n2 = n2
  None = None
  Pods = {p1, p2}
  Nodes = {n1, n2}
  Containers <- MCContainers
  Overhead <- MCOverhead
  Capacity <- MCCapacity
  Targets = {40, 100, 120}
  Multiplier = 150
  Default = 1
  Interval = 2
  Cleanup = 2
  MaxTime = 4
  MaxUids = 2
  MaxFaults = 1
INVARIANTS TypeOK CacheHonest NeverOverloads
CHECK_DEADLOCK FALSE
