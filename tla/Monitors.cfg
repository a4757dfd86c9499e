SPECIFICATION SpecAll
CONSTANTS
  MsPerSec = 3
  Durations = {0, 2, 4}
  TimeBound = 6
  Files = {f1, f2}
  Null = Null
  Kinds = {"spike", "neuron", "group", "connection"}
  Intervals <- TheIntervals
  WeightBound = 2
INVARIANTS
  RecordingWhole
  LogsWhole
  RatesFresh
  WeightsOverTime
CHECK_DEADLOCK FALSE
