CONSTANTS
  heartbeatIntervalMs = 3
  heartbeatTimeoutMs = 11
  MaxSafeInteger = 7
  WriteTicks = 1
  AckAfter = 0
  AckTicks = 2
  AckEvery = 2
SPECIFICATION Spec
INVARIANTS TypeOK SilenceNoticed TimersKept HealthyEngineTrusted HealthyEngineKept
CHECK_DEADLOCK FALSE
