SPECIFICATION Spec
CONSTANTS
  Worker = {w1, w2}
  Timeout = 2
  LambdaTimeout = 2
  Period = 1
  MaxPending = 1
  MaxTime = 3
INVARIANT SingleThread
CHECK_DEADLOCK FALSE
