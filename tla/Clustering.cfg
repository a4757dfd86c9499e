SPECIFICATION Spec
CONSTANTS
  NumNeurons = 6
  Connections <- Applications
  Spikes <- SomeSpikes
  Fanins <- AllFanins
  CrossbarSizes = {2, 3, 4}
  Modes = {"min-clusters", "min-comm", "random"}
INVARIANTS
  FaninBounded
  EdgesAgree
  SameNetwork
  SpikesKept
  CrossbarLimits
  MapsAnswer
  EveryInputGathered
  OneCluster
  AddedNeuronsSilent
  ConnectedIfSinks
PROPERTIES
  Terminates
CHECK_DEADLOCK FALSE
