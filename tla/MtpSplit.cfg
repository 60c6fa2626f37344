SPECIFICATION LiveSpec
CONSTANTS
  SEQNUM_MAX = 2
  SEQNUM_INITIAL = 2
  MAX_RELIABLE_WINDOW_SIZE = 1
  MaxChunks = 2
  MaxReliable = 2
  MaxUnreliable = 2
  MaxRefused = 2
  ChunkLifetime = 2
  SplitTimeout = 1
INVARIANTS WholeMessages NothingStuck
PROPERTIES MessageSpec IncompleteIsDiscarded
CHECK_DEADLOCK FALSE
