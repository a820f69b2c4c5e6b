SPECIFICATION Spec
CONSTANTS
  None = None
  n1 = n1
  p1 = p1
  ns = ns
  s1 = s1
  Nodes <- MCNodes
  Pods <- MCPods
  Owners <- MCOwners
  KindOf <- MCKindOf
  OwnerRefs <- MCOwnerRefs
  RelatedPods <- MCRelatedPods
  Subs <- MCSubs
  NodeOf <- MCNodeOf
  KindsOf <- MCKindsOf
  Quitters <- MCQuitters
  Slices <- MCSlices
  ServiceOf <- MCServiceOf
  SharedNames = {}
  Initial <- MCInitial
  Deletable <- MCDeletable
  MaxInc <- MCMaxInc
  MaxVer <- Unchanging
  FaultSites = {}
  MaxFaults = 0
  QueueLen = 1
  SourceLen = 1
INVARIANT AllInSync
CHECK_DEADLOCK FALSE
