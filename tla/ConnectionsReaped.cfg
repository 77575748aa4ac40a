SPECIFICATION Spec
CONSTANTS
  None = None
  Alice = Alice
  Bob = Bob
  Addr <- OneClient
  MaxConnections = 2
  MaxQueued = 1
CHECK_DEADLOCK FALSE
PROPERTY OnlyDeadRemoved
