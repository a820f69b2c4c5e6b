SPECIFICATION Spec
CONSTANTS
  None = None
  n1 = n1
  p1 = p1
  s1 = s1
  s2 = s2
  Nodes <- MCNodes
  Pods <- MCPods
  Owners <- MCOwners
  KindOf <- MCKindOf
  OwnerRefs <- MCOwnerRefs
  RelatedPods <- MCRelatedPods
  Subs <- MCSubs
  NodeOf <- MCNodeOf
  KindsOf <- MCKindsOf
  Quitters <- MCQuitters
  Slices <- MCSlices
  ServiceOf <- MCServiceOf
  SharedNames = {}
  Initial <- MCInitial
  Deletable <- MCDeletable
  MaxInc <- MCMaxInc
  MaxVer <- MCMaxVer
  FaultSites = {"reconcile", "send"}
  MaxFaults = 2
  QueueLen = 1
  SourceLen = 1
INVARIANTS TypeOK RegisteredHasConnection CloseNeverBlocks PodsInSync
PROPERTIES DroppedIsDeleted ImplementsFeed
CHECK_DEADLOCK FALSE
SYMMETRY MCSymmetry
