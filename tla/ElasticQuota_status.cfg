SPECIFICATION Spec
CONSTANTS
  p1 = p1
  p2 = p2
  Pods = {p1, p2}
  Containers <- MCContainers
  Inits <- MCInits
  Overhead <- NoOverhead
  Names = {{"cpu"}, {"cpu", "gpu"}}
  MaxOps = 3
  MaxFaults = 1
INVARIANTS
  TypeOK
  StatusSettles
PROPERTIES
  ComesToRest
CHECK_DEADLOCK FALSE
