SPECIFICATION Spec
CONSTANTS
  Pods = {p1, p2}
  Foreign = {}
  MinMember = 2
  MaxFaults = 1
SYMMETRY Symmetry
INVARIANTS TypeOK CountHonest PhaseHonest SettledFinished
CHECK_DEADLOCK FALSE
