SPECIFICATION Spec
CONSTANTS
  None = None
  Challenge = 7
  MAX_SUBCHANNELS = 1
  FRAGMENT_SIZE = 2
  max_reliable_packet_size = 4
  max_packets_dropped = 100
  TransferBytes <- OneByte
  MaxAttempts = 2
  MaxConnections = 2
  MaxTransfers = 2
  MaxClientSequence = 2
  MaxServerSequence = 2
CHECK_DEADLOCK FALSE
INVARIANT AckedIsReceived
