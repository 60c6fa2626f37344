SPECIFICATION LiveSpec
CONSTANTS
  b1 = b1
  b2 = b2
  Blocks = {b1, b2}
  Neighbors <- NeighborsOf
  Workers = {1, 2}
  MaxWrites = 2
  MaxUnloads = 1
INVARIANTS BlocksAreCounted OneUpdateAtATime AckedAfterUpdate MeshesAreCurrentUnlessOvertaken
PROPERTY EventuallyDone
CHECK_DEADLOCK FALSE
