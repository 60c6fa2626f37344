SPECIFICATION Spec
CONSTANTS
  SEQNUM_MAX = 15
  SEQNUM_INITIAL = 13
  MAX_RELIABLE_WINDOW_SIZE = 8
  START_RELIABLE_WINDOW_SIZE = 5
  MIN_RELIABLE_WINDOW_SIZE = 3
  MAX_RELIABLE_WINDOW_SIZE_SEND = 14
  LargeStep = 5
  HalfStep = 2
  SmallStep = 1
  MaxResends = 3
  MaxSeconds = 3
  MaxCount = 8
INVARIANT InsertIsSound
PROPERTIES BufferSpec ResizesWithReason
