SPECIFICATION AttestationsFairSpec
CONSTANTS
  s1 = s1
  s2 = s2
  r1 = r1
  r2 = r2
  Source = {s1, s2}
  Requester = {r1, r2}
  MaxRows = 2
  MaxPaid = 2
INVARIANTS
  EvidenceComplete
PROPERTIES
  PaidOnce
  ProofFetched
  Resolved
CHECK_DEADLOCK FALSE
