SPECIFICATION Spec
CONSTANTS
  DimX = 2
  DimY = 1
  RoutingAlgorithms = {"XY"}
  BufferDepth = 1
  RouterCycle = 2
  NumPackets = 1
  Src <- PairSrc
  Dst <- PairDst
  Size <- PairSize
  Times = {0}
  InitLevels = {0, 1}
  ProcessOrder = "either"
INVARIANTS
  NoPhantomFlit
