SPECIFICATION Spec
CONSTANTS
  DimX = 2
  DimY = 2
  RoutingAlgorithms = {"XY", "WEST_FIRST", "NORTH_LAST", "NEGATIVE_FIRST", "ODD_EVEN"}
  BufferDepth = 1
  RouterCycle = 2
  NumPackets = 4
  Src <- DiagonalSrc
  Dst <- DiagonalDst
  Size <- DiagonalSize
  Times = {0, 1}
  InitLevels = {0}
  ProcessOrder = "rxFirst"
INVARIANTS
  NeverThrows
PROPERTIES
  EveryPacketArrives
