SPECIFICATION Spec
CONSTANTS
  l1 = l1  l2 = l2  h1 = h1  h2 = h2  s1 = s1
  Top = Top
  Line = {l1, l2}
  Device = {1, 2}
  Handler = {h1, h2}
  DeviceOf <- Devices2
  Sweeper = {s1}
  Crashing = {s1}
  Owner = 0
  MaxLinesPerNote = 2
  Selections <- DistinctBlocks
  MaxClock = 2
  MaxTime = 1
  MaxBatch = 1
SYMMETRY Interchangeable
INVARIANTS RowsInOrder OrderIsDistinct OnlyTombstoneEditsLost
PROPERTIES EditsAreVersioned
