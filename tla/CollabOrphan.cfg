SPECIFICATION Spec
CONSTANTS
  i1 = i1  i2 = i2  a = a  b = b  z = z
  Free = Free
  Instance = {i1}
  Conn = {a, b}
  InstanceOf <- Placement
  Failing = {}
  Capacity = 2
  MaxSessions = 2
  MaxBatches = 1
INVARIANTS LocalPeersHear
CHECK_DEADLOCK FALSE
