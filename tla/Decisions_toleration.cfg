SPECIFICATION Spec
CONSTANTS
  Res = {"cpu", "gpu"}
  Scalars = {"gpu"}
  None = None
  Bad = Bad
  DurationLimit = 8
  BadName = BadName
  MaxNUMA = 3
  Parts = 2
  Native = {"cpu", "mem"}
  Measured = {"cpu", "mem"}
  QuotaInputs = {}
  TolerationInputs <- MCTolerationInputs
  GPUInputs = {}
  PodStateInputs = {}
  AllocatableInputs = {}
  RiskInputs = {}
  TopologyInputs = {}
  QueueInputs = {}
  ArgsInputs = {}
  NodeCounts <- MCNodeCounts
INVARIANT AnyTolerationHonoured
