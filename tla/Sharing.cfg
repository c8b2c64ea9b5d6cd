SPECIFICATION Spec
CONSTANTS
  u1 = u1  u2 = u2  n1 = n1  b1 = b1  b2 = b2  h1 = h1  h2 = h2
  Inbox = Inbox
  User = {u1, u2}
  Note = {n1}
  Notebook = {b1, b2}
  Handler = {h1, h2}
  Grants <- SomeGrants
  EjectionAllowed = TRUE
  MaxNotesPerNotebook = 1
  MaxAttempts = 2
  MaxRequests = 3
SYMMETRY Interchangeable
INVARIANTS TypeOK OwnersHoldNoShares ListedIsReadable
PROPERTIES DelegationNeverAmplifies MovesAreGuarded
CHECK_DEADLOCK FALSE
