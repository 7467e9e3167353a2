SPECIFICATION Spec
CONSTANTS
  Streams = {"stdout"}
  Configs <- MCConfigs
  MaxMessages = 3
  MaxCalls = 2
  MaxQueue = 2
  MaxWrites = 2
INVARIANTS ResultNotLost InputInOrder HoldsNothing
PROPERTIES ImplementsEvents Settles
CHECK_DEADLOCK FALSE
