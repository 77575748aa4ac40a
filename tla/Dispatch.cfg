SPECIFICATION Spec
CONSTANTS
  None = None
  alice = alice
  bob = bob
  Conn <- Clients
  Batch <- Batches
  MaxPackets = 1
  Number <- Numerals
  Address <- Addresses
  SchemaFile <- Schemas
  ServerListFile <- Lists
CHECK_DEADLOCK FALSE
INVARIANT TypeOK
INVARIANT SearchInBounds
PROPERTY Matches
PROPERTY SignonAnswered
PROPERTY ListCatchesUp
