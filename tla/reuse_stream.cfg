SPECIFICATION Spec
CONSTANTS
  None = None
  n1 = n1
  p1 = p1
  s1 = s1
  s2 = s2
  Nodes <- MCNodes
  Pods <- MCPods
  Owners <- MCOwners
  KindOf <- MCKindOf
  OwnerRefs <- MCOwnerRefs
  RelatedPods <- MCRelatedPods
  Subs <- OneSub
  NodeOf <- OneNodeOf
  KindsOf <- OneKindsOf
  Quitters <- NoQuitters
  Slices <- MCSlices
  ServiceOf <- MCServiceOf
  SharedNames = {}
  Initial <- MCInitial
  Deletable <- MCDeletable
  MaxInc <- Reused
  MaxVer <- Unchanging
  FaultSites = {}
  MaxFaults = 0
  QueueLen = 1
  SourceLen = 1
INVARIANT StreamProtocol
CHECK_DEADLOCK FALSE
