CONSTANTS
  g1 = g1  m1 = m1  m2 = m2  m3 = m3  z = z  n1 = n1  n2 = n2
  Pods = {g1, m1, z}
  GpuPods = {g1}
  MemPods = {m1}
  gpuLimit <- GpuLimits
  memLimit <- UnitMemLimits
  Nodes = {n1, n2}
  Allocs <- OneOfTwoHasAGPU
  OtherScores <- FavourFirst
  MaxFaults = 1
SPECIFICATION FairSpec
INVARIANTS TypeOK GPUExclusive CacheTracksClaims SnapshotTracksClaims ObjectsAgree
PROPERTIES ImplementsAllocation PodsGetBound
CHECK_DEADLOCK FALSE
