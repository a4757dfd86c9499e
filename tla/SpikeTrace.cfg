SPECIFICATION Spec
CONSTANTS
  Group = {0, 1, 2}
  Nodes = {0, 1, 2, 3}
  RoutOnly = {3}
  NodeMaps <- AliasFreeMaps
  Connections <- AllConnections
  Traces <- PlacerTraces
  StepCycles = 1
INVARIANTS
  EveryDestinationOnce
  LeaveInTimeOrder
PROPERTIES
  InUseFirst
  EverySpikeLeaves
