SPECIFICATION Spec
CONSTANTS
  Part = {0, 1}
  Group = {0, 1, 2}
  netId <- TheNetId
  numN <- TheNumN
  SpikeGen = {2}
  Connection = {1, 2, 3, 4, 5}
  grpSrc <- TheSrc
  grpDest <- TheDest
  delay <- TheDelay
  MsPerSec = 3
  MaxRate = 2
  Durations = {2, 3}
  GenTimes <- Trains
  TimeBound = 5
  SpikeBound = 3
INVARIANTS
  ShiftKeepsLatest
CHECK_DEADLOCK FALSE
