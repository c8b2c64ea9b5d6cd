SPECIFICATION Spec
CONSTANTS
  i1 = i1  i2 = i2  laptop = laptop  phone = phone
  w = w  p = p  q = q  b1 = b1  b2 = b2
  Rescan = Rescan  None = None
  Device = {laptop, phone}
  DeviceOf <- Owner
  InstanceOf <- Placement
  Instance = {i1, i2}
  Conn = {w, p, q}
  Batch = {b1, b2}
  Author <- LaptopWrites
  Writers = {w}
  Synced = {laptop, phone}
  Failing = {i1, i2}
  ChunkSize = 1
  Capacity = 1
  MaxSeq = 3
SYMMETRY Interchangeable
INVARIANTS TypeOK NeverLost
CHECK_DEADLOCK FALSE
