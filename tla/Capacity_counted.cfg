SPECIFICATION Spec
CONSTANTS
  Res = {"gpu"}
  Scalars = {"gpu"}
  a1 = a1
  a2 = a2
  b1 = b1
  Pods = {a1, a2, b1}
  Obj <- MCObj
  Namespaces = {"a", "b"}
  Specs <- MCSpecs
  Initial <- MCInitial
  Capacity <- MCCapacity
  MaxOps = 1
  MaxFaults = 0
INVARIANTS
  ScheduledIsCounted
CHECK_DEADLOCK FALSE
