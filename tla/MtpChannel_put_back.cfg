CONSTANTS
  SEQNUM_MAX = 15
  SEQNUM_INITIAL = 13
  MAX_RELIABLE_WINDOW_SIZE = 8
  MAX_RELIABLE_WINDOW_SIZE_SEND = 4
  START_RELIABLE_WINDOW_SIZE = 4
  MIN_RELIABLE_WINDOW_SIZE = 2
  WindowSteps <- Steps
  m_max_packets_requeued = 1
  MaxChunks = 3
  MaxData = 7
  MaxInFlight = 1
  DataLifetime = 8
  AckLifetime = 16
SPECIFICATION Spec
INVARIANT IInv
CHECK_DEADLOCK FALSE
