SPECIFICATION LiveSpec
CONSTANTS
  p1 = p1
  p2 = p2
  p3 = p3
  p4 = p4
  c1 = c1
  c2 = c2
  Threads = {1, 2}
  Positions = {p1, p2, p3, p4}
  Peers = {player}
  NoPeer = NoPeer
  None = None
  Chunk <- ChunkOf
  Area <- AreaOf
  database <- Database
  OverMaxLimit = {p4}
  OverMapgenLimit = {c2}
  m_qlimit_total = 2
  m_qlimit_diskonly = 2
  m_qlimit_generate = 1
  LuaEmerges = TRUE
  Failures = TRUE
  MaxRequests = 2
INVARIANTS QueueIsConsistent MarksAreRight CallbacksOnce StoppedMeansFinished NoLostWakeup
PROPERTIES StopReturnsUnlessLockedOut EveryCallbackIsCalled
CHECK_DEADLOCK FALSE
