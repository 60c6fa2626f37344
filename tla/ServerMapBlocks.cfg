SPECIFICATION MCSpec
CONSTANTS
  p = p
  q = q
  c1 = c1
  c2 = c2
  s1 = s1
  Blocks = {p, q}
  t1 = t1
  t2 = t2
  Threads = {t1, t2}
  Sector <- SectorOf
  Chunk <- ChunkOf
  Area <- AreaOf
  Database <- InitialDatabase
  None = None
  MaxEdits = 1
  MaxUnloads = 2
  MaxFailures = 1
INVARIANTS NoOtherChangeLost CleanIsStored GenerationIsSafe
SYMMETRY Symmetry
CHECK_DEADLOCK FALSE
