SPECIFICATION Spec
CONSTANTS
  NumHubs = 3
  attachedNodes <- Nodes
  RxDepth = 1
  TxDepth = 2
  ToTileDepth = 1
  FromTileDepth = 1
  Policies = {"TOKEN_PACKET", "TOKEN_HOLD", "TOKEN_MAX_HOLD"}
  Latencies = {1, 2}
  MaxHold = 3
  NumPackets = 3
  Dst <- PacketDst
  Size <- PacketSize
  Traffic <- MCTraffic
  SlowTile = {2}
INVARIANTS
  PacketsWhole
  OneTransmitter
PROPERTIES
  EveryPacketArrives
