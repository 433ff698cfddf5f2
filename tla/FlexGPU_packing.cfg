CONSTANTS
  g1 = g1  m1 = m1  m2 = m2  m3 = m3  z = z  n1 = n1  n2 = n2
  Pods = {m1, m2, m3}
  GpuPods = {}
  MemPods = {m1, m2, m3}
  gpuLimit <- GpuLimits
  memLimit <- MixedMemLimits
  Nodes = {n1}
  Allocs <- ShrinkingNode
  OtherScores <- NoOtherScores
  MaxFaults = 0
SPECIFICATION Spec
INVARIANTS MemoryFits HostStaysUsable CycleSound
SYMMETRY MemSymmetry
CHECK_DEADLOCK FALSE
