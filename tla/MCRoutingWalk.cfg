SPECIFICATION Spec
CONSTANTS
  DimX = 4
  DimY = 3
  Algorithms = {"XY", "WEST_FIRST", "NORTH_LAST", "NEGATIVE_FIRST", "ODD_EVEN", "DYAD"}
INVARIANTS
  RouteIsValid
  Minimal
PROPERTIES
  ChannelOrder
  OddEvenTurns
CHECK_DEADLOCK FALSE
