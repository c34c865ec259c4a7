CONSTANTS
  Timeout = 2
  FirstDelay = 1
  CapDelay = 2
  Reads = 2
  ProbeTimeout = 1
  GenFloor = 1
  GenCap = 2
  DeepTimeout = 1
SPECIFICATION Spec
INVARIANT HealthyIsOurs
