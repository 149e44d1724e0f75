SPECIFICATION FairSpec
CONSTANTS
  w1 = w1
  w2 = w2
  n1 = n1
  n2 = n2
  n3 = n3
  e1 = e1
  e2 = e2
  r1 = r1
  r2 = r2
  Request = {r1, r2}
  Wallet = {w1, w2}
  Name = {n1, n2, n3}
  Abbr <- Abbreviated
  Email = {e1, e2}
  NoEmail = NoEmail
  NoUser = 0
  UserId = {1, 2}
  MaxUsers = 2
  Scene <- Scenes
  Blocks = 4
  ParseSize = 1
  Confirmations = 0
INVARIANTS
  DailyOnceUnlessOverlap
  VerifiedEmailWasMailed
  ClaimsPaidOnce
PROPERTY ClaimsParsed
