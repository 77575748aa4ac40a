SPECIFICATION Spec
CONSTANTS
  None = None
  Alice = Alice
  Bob = Bob
  Addr <- TwoClients
  MaxConnections = 2
  MaxQueued = 2
CHECK_DEADLOCK FALSE
INVARIANT TypeOK
INVARIANT EntryIsNewest
INVARIANT RoutedUntilReaped
INVARIANT AtMostOneLatePacket
PROPERTY ImplementsMap
PROPERTY WorkersEnd
PROPERTY CancelledLeaveMap
