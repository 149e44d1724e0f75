SPECIFICATION FairSpec
CONSTANTS
  u1 = u1
  u2 = u2
  p1 = p1
  p2 = p2
  User = {u1, u2}
  Proposal = {p1, p2}
  Author <- OneEach
  None = None
  Request = {r1, r2}
  VoteInput = {"up"}
  MaxRounds = 3
  MaxFailures = 1
INVARIANTS
  RewardedOnce
  EditedUnvotedUnlessOverlap
PROPERTIES
  RoundsFinished
CHECK_DEADLOCK FALSE
