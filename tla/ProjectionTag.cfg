SPECIFICATION Spec
CONSTANTS
  c1 = c1  c2 = c2  c3 = c3
  w1 = w1  w2 = w2  i1 = i1
  Absent = Absent  Foreign = Foreign  None = None
  Device = {1, 2}
  Change = {c1, c2, c3}
  Stamp <- ThreeVersions
  Op <- ThreeOps
  HasData = {c1, c3}
  Kinds = {"tag"}
  Worker = {w1, w2}
  Instance = {i1}
  InstanceOf <- OnePlace
  PoolSizes = {2, 4}
  MaxAttempts = 2
  MaxTries = 2
  MaxAppends = 3
  MaxFailures = 1
INVARIANTS AllProjected
CHECK_DEADLOCK FALSE
