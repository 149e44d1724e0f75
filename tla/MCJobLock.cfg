SPECIFICATION FairSpec
CONSTANTS
  Worker = {w1, w2}
  Timeout = 2
  LambdaTimeout = 2
  Period = 2
  MaxPending = 1
  MaxTime = 4
INVARIANTS
  LockFieldsAgree
  SingleThreadUnlessOverlap
PROPERTY JobRunsAgain
CHECK_DEADLOCK FALSE
