SPECIFICATION FairSpec
CONSTANTS
  u1 = u1
  u2 = u2
  r1 = r1
  r2 = r2
  User = {u1, u2}
  NoUser = NoUser
  Outcome = {0, 1, 2}
  Unit = 2
  DefaultLimit = 3
  Market <- Markets
  Refresher = {r1, r2}
  Scale = 10
  Reserves <- Pools
  Endowment = 2
  MaxMoves = 2
  MaxMessages = 3
  MaxDeaths = 1
  m1 = m1
  m2 = m2
  v1 = v1
  v2 = v2
  s1 = s1
  s2 = s2
  Member = {m1, m2}
  Admin = {m2}
  Entity = {s1, s2}
  Visit = {v1, v2}
  Caller <- Callers
  Acts <- Asked
  MaxComments = 3
  MaxWatches = 4
  SetId = {1, 2, 3, 4}
  Shelf <- Sets
  Request <- Requests
  MaxSetSteps = 3
INVARIANTS
  CostIsFifo
  PositionsAgree
  VolumesReconcile
  ListsComplete
  ChancesConsistent
  ThreadsComplete
  WatchAnswersHold
PROPERTIES
  ChancesCatchUp
  DeletedUnlessOverlap
CHECK_DEADLOCK FALSE
