SPECIFICATION Spec
CONSTANTS
  Group = {0, 1, 2}
  Nodes = {0, 1, 2, 3}
  RoutOnly = {}
  NodeMaps <- PlacerMaps
  Connections <- AllConnections
  Traces <- PlacerTraces
  StepCycles = 1
INVARIANTS
  EveryDestinationOnce
