SPECIFICATION Spec
CONSTANTS
  l1 = l1  l2 = l2  h1 = h1  h2 = h2  s1 = s1
  Top = Top
  Line = {l1, l2}
  Device = {1, 2}
  Handler = {h1}
  DeviceOf <- Devices2
  Sweeper = {}
  Crashing = {}
  Owner = 0
  MaxLinesPerNote = 2
  Selections <- DistinctBlocks
  MaxClock = 2
  MaxTime = 2
  MaxBatch = 2
INVARIANTS TypeOK OrderIsExactlyRows AppliedIsStored
