SPECIFICATION FairSpec
CONSTANTS
  i1 = i1  i2 = i2  a = a  b = b  z = z
  Free = Free
  Instance = {i1, i2}
  Conn = {a, z}
  InstanceOf <- Placement
  Failing = {i1}
  Capacity = 1
  MaxSessions = 2
  MaxBatches = 1
INVARIANTS TypeOK SessionGapFree CrossInstanceGapFree
PROPERTIES BatchesReachSiblings HandlersFinish
CHECK_DEADLOCK FALSE
