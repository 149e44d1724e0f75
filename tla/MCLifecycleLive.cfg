SPECIFICATION FairSpec
CONSTANTS
  Outcome = {o1}
  NoOutcome = NoOutcome
  Request = {r1}
  Creator = {c1}
  ApiOp = {"process"}
  FormStatus = {}
  ForcedVoting = TRUE
  Fragile = {c1, "finalizer"}
  MaxMessages = 1
  MaxFundings = 1
  MaxVotes = 2
  MaxCrashes = 1
PROPERTIES
  PendingAnswered
  DecidingVoteCounts
CHECK_DEADLOCK FALSE
