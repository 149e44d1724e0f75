SPECIFICATION DatabaseSpec
CONSTANTS
  Request = {creator, editor, reader}
  Conn = {c1, c2}
  Does <- Assigned
  QueueLimit = 1
  MaxPools = 2
  MaxCopies = 2
  creator = creator
  editor = editor
INVARIANTS
  SeededOnce
  LentOnce
PROPERTY
  ServedUnlessStarved
CHECK_DEADLOCK FALSE
