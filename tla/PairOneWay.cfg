SPECIFICATION Spec
CONSTANTS
  None = None
  Client = Client
  Server = Server
  Peer <- MCPeer
  Challenge = 7
  MAX_SUBCHANNELS = 2
  FRAGMENT_SIZE = 2
  max_reliable_packet_size = 2
  max_packets_dropped = 1
  TransferBytes = {1, 2, 7}
  MessageCounts = {1}
  UnreliableCounts = {0}
  MaxTransfers <- OneWay
  MaxSequence <- Seqs53
  RecoveryExchanges = 8
CHECK_DEADLOCK FALSE
INVARIANT TypeOK
INVARIANT NoInvalidAck
INVARIANT SubchannelAgreement
INVARIANT FragmentAccounting
INVARIANT EachFragmentOnce
PROPERTY InOrderDelivery
