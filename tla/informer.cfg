SPECIFICATION Spec
CONSTANTS
  None = None
  Timeout = 2
  Interval = 1
  MaxRV = 2
  MaxStalls = 2
INVARIANT TypeOK
PROPERTIES UpdatesAreNews HealthyStreamKept TimeoutReported Converges
