SPECIFICATION LiveSpec
CONSTANTS
  b1 = b1
  b2 = b2
  Blocks = {b1, b2}
  ScanOrder <- ScanOrderOf
  Dist <- DistOf
  CenterDist <- CenterDistOf
  Beside <- BesideOf
  full_d_max = 3
  m_max_simul_sends = 1
  max_blocks_to_send = 1
  EmergeLimit = 1
  NoBlock = NoBlock
  MaxEdits = 1
  MaxEvents = 2
INVARIANTS TypeOK SlotsComeBack ClientAgreesUnlessMistaken
PROPERTY EventuallyUpToDate
