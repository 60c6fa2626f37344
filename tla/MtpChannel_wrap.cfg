SPECIFICATION Spec
CONSTANTS
  SEQNUM_MAX = 9
  SEQNUM_INITIAL = 8
  MAX_RELIABLE_WINDOW_SIZE = 5
  MAX_RELIABLE_WINDOW_SIZE_SEND = 2
  START_RELIABLE_WINDOW_SIZE = 2
  MIN_RELIABLE_WINDOW_SIZE = 2
  WindowSteps <- Steps
  m_max_packets_requeued = 1
  MaxChunks = 1
  MaxData = 11
  MaxInFlight = 2
  DataLifetime = 5
  AckLifetime = 10
INVARIANTS InOrderDelivery AckNamesItsPacket OldAndNewAreToldApart
CHECK_DEADLOCK FALSE
