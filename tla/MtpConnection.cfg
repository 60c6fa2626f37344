\* Two peers in a row for one client; a datagram lost or repeated.
SPECIFICATION Spec
CONSTANTS
  MaxPeers = 2
  MaxPackets = 2
  MaxFaults = 1
  MaxOnWay = 1
  MaxCommands = 1
INVARIANTS OnePeerPerAddress NoDanglingPeer EventsInOrder FullyOpenIsKnown AckedIsReceived
\* The client may leave.
CHECK_DEADLOCK FALSE
