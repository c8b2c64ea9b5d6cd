SPECIFICATION ServicesSpec
CONSTANTS
  r1 = r1  r2 = r2  d1 = d1  d2 = d2  a1 = a1  a2 = a2  a3 = a3
  k1 = k1  k2 = k2  ip1 = ip1  ip2 = ip2  u1 = u1  u2 = u2
  c1 = c1  c2 = c2  c3 = c3  p1 = p1  p2 = p2  b1 = b1  b2 = b2
  i1 = i1  i2 = i2  w1 = w1  t1 = t1  t2 = t2  none = none
  Request = {r1, r2}
  Device = {d1, d2}
  VerificationRequired = TRUE
  MaxLiveEmailTokens = 1
  MaxHashes = 3
  Attempt = {a1, a2, a3}
  MaxFailures = 2
  LockoutTime = 2
  PruneAge = 3
  MaxTime = 6
  Call = {k1, k2}
  Address = {ip1, ip2}
  NoAddress = none
  Capacity = 4
  Cost = 2
  SweepInterval = 4
  Slack = 1
  MaxClock = 8
  User = {u1, u2}
  Creation = {c1, c2, c3}
  NoCreation = none
  NoUser = none
  NoteLimit = 2
  MaxTransfers = 2
  Upload = {p1, p2}
  NoUpload = none
  Resource = {b1, b2}
  NoResource = none
  StorageLimit = 3
  MaxSize = 2
  MaxArrived = 3
  Instance = {i1, i2}
  Connection = {w1}
  Home <- MCHome
  PresenceTick = 4
  PresenceTtl = 10
  MaxSkew = 1
  MaxRetention = 1
  MaxMissed = 1
  Rows = 3
  Text = {t1, t2}
  NoText = none
  BatchSize = 2
SYMMETRY Interchangeable
INVARIANTS
  AccountsTypeOK ResetEndsOldLogins DevicesHaveAccounts VerifiedByMail TokensNearCap
  FailuresPerWindow IdleBucketsGo StorageWithinLimit
  JoinedArePresent GhostsAreBrief PassClobbersNothing PassEncryptsAll
PROPERTIES KeepsPromise BooksNotes
CHECK_DEADLOCK FALSE
