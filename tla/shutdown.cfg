SPECIFICATION Spec
CONSTANTS
  None = None
  s1 = s1
  Kinds <- MCKinds
  OwnersSources <- MCOwnersSources
  SliceTargets <- MCSliceTargets
  Subs <- MCSubs
  QueueLen = 1
  SourceLen = 1
  MaxEvents = 1
INVARIANTS TypeOK HandlersReturned
PROPERTY Terminates
CHECK_DEADLOCK FALSE
