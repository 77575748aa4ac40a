SPECIFICATION Spec
CONSTANTS
  None = None
  Client = Client
  Server = Server
  Peer <- MCPeer
  Challenge = 7
  MAX_SUBCHANNELS = 2
  FRAGMENT_SIZE = 2
  max_reliable_packet_size = 4
  max_packets_dropped = 100
  TransferBytes = {3}
  MessageCounts = {1, 3}
  UnreliableCounts = {0}
  MaxTransfers <- OneSmall
  MaxSequence <- Seqs53
  RecoveryExchanges = 8
CHECK_DEADLOCK FALSE
INVARIANT NoAckedLoss
