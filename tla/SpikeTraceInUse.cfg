SPECIFICATION Spec
CONSTANTS
  Group = {0, 1, 2, 3}
  Nodes = {0, 1, 2}
  RoutOnly = {}
  NodeMaps <- ShortMaps
  Connections <- ShortConnections
  Traces <- ShortTraces
  StepCycles = 1
PROPERTIES
  InUseFirst
