SPECIFICATION ProxySpec
CONSTANTS
  i1 = i1
  i2 = i2
  k1 = k1
  Instance = {i1, i2}
  Key = {k1}
  Serves <- Asked
  SizeOf <- Sizes
  MaxResponse = 2
  MaxEntries = 2
  MaxMemory = 2
  TTL = 1
  Token = {1, 2, 3}
  NoToken = 0
  LockTimeout = 2
  LambdaTimeout = 1
  MaxLate <- LatePolls
  MaxAge = 0
  s1 = s1
  s2 = s2
  m1 = m1
  Signer = {s1, s2, m1}
  Malformed = {m1}
  Execution = {1}
  MaxBatches = 4
  MaxFailures = 2
INVARIANTS
  OneHolder
  LocalAnswersYoung
  MemoryWithinLimits
  AcceptedIsPublished
PROPERTIES
  LockPassesOn
  EverySignerAdmitted
CHECK_DEADLOCK FALSE
