SPECIFICATION Spec
CONSTANTS
  None = None
  n1 = n1
  p1 = p1
  rs = rs
  dp = dp
  s1 = s1
  Nodes <- MCNodes
  Pods <- MCPods
  Owners <- MCOwners
  KindOf <- MCKindOf
  OwnerRefs <- MCOwnerRefs
  RelatedPods <- MCRelatedPods
  Subs <- MCSubs
  NodeOf <- MCNodeOf
  KindsOf <- MCKindsOf
  Quitters <- MCQuitters
  Slices <- MCSlices
  ServiceOf <- MCServiceOf
  SharedNames = {}
  Initial <- OnlyDeployment
  Deletable <- Lasting
  MaxInc <- MCMaxInc
  MaxVer <- MCMaxVer
  FaultSites = {}
  MaxFaults = 0
  QueueLen = 1
  SourceLen = 1
INVARIANT RefsResolve
CHECK_DEADLOCK FALSE
