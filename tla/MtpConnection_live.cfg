\* The set-up of one peer under fair threads and a network that stops losing.
SPECIFICATION LiveSpec
CONSTANTS
  MaxPeers = 1
  MaxPackets = 2
  MaxFaults = 1
  MaxOnWay = 1
  MaxCommands = 1
PROPERTIES Established GoneIsRemoved
CHECK_DEADLOCK FALSE
