SPECIFICATION Spec
CONSTANTS
  Child = {c1, c2}
  Executor = {e1}
  None = None
  BlockSize = 1
  MaxBlocks = 3
  MaxMessages = 1
  MaxChanges = 1
  MaxFailures = 1
SYMMETRY Interchangeable
INVARIANTS
  AtLeastOnce
PROPERTIES
  ImplementsLedger
