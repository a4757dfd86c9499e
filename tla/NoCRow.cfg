SPECIFICATION Spec
CONSTANTS
  DimX = 3
  DimY = 1
  RoutingAlgorithms = {"XY"}
  BufferDepth = 2
  RouterCycle = 2
  NumPackets = 4
  Src <- RowSrc
  Dst <- RowDst
  Size <- RowSize
  Times = {0, 1}
  InitLevels = {0}
  ProcessOrder = "either"
INVARIANTS
  TypeOK
  FlitConservation
  PacketsIntact
  Wormhole
  BuffersInOrder
PROPERTIES
  NoOverwrite
  ImplementsPacketNet
