SPECIFICATION Spec
CONSTANTS
  Outcome = {o1, o2}
  NoOutcome = NoOutcome
  Request = {r1}
  Creator = {c1}
  ApiOp = {"process", "update", "hide", "delete"}
  FormStatus = {"ACTIVE", "FINALIZED"}
  ForcedVoting = TRUE
  Fragile = {"database"}
  MaxMessages = 1
  MaxFundings = 1
  MaxVotes = 1
  MaxCrashes = 1
SYMMETRY Interchangeable
INVARIANTS
  MarketBehindStatus
  OracleBehindStatus
CHECK_DEADLOCK FALSE
