SPECIFICATION Spec
CONSTANTS
  None = None
  n1 = n1
  p1 = p1
  svc = svc
  e1 = e1
  s1 = s1
  Nodes <- MCNodes
  Pods <- MCPods
  Owners <- MCOwners
  KindOf <- MCKindOf
  OwnerRefs <- MCOwnerRefs
  RelatedPods <- MCRelatedPods
  Subs <- MCSubs
  NodeOf <- MCNodeOf
  KindsOf <- MCKindsOf
  Quitters <- MCQuitters
  Slices <- MCSlices
  ServiceOf <- MCServiceOf
  SharedNames <- MCSharedNames
  Initial <- MCInitial
  Deletable <- Lasting
  MaxInc <- MCMaxInc
  MaxVer <- MCMaxVer
  FaultSites = {}
  MaxFaults = 0
  QueueLen = 1
  SourceLen = 1
INVARIANT ServicesInSync
CHECK_DEADLOCK FALSE
