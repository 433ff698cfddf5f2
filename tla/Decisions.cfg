SPECIFICATION Spec
CONSTANTS
  Res = {"cpu", "gpu"}
  Scalars = {"gpu"}
  None = None
  Bad = Bad
  DurationLimit = 8
  BadName = BadName
  MaxNUMA = 3
  Parts = 2
  Native = {"cpu", "mem"}
  Measured = {"cpu", "mem"}
  QuotaInputs <- MCQuotaInputs
  TolerationInputs <- MCTolerationInputs
  GPUInputs <- MCGPUInputs
  PodStateInputs <- MCPodStateInputs
  AllocatableInputs <- MCAllocatableInputs
  RiskInputs <- MCRiskInputs
  TopologyInputs <- MCTopologyInputs
  QueueInputs <- MCQueueInputs
  ArgsInputs <- MCArgsInputs
  NodeCounts <- MCNodeCounts
INVARIANTS
  VictimsNeeded
  GuaranteeKept
  TolerationHonoured
  RoomFound
  ScoresRank
  RiskSound
  NumaSound
  QueueOrdered
  ArgsSurvive
