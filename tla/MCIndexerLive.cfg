SPECIFICATION FairSpec
CONSTANTS
  Child = {c1}
  Executor = {e1}
  None = None
  BlockSize = 1
  MaxBlocks = 3
  MaxMessages = 1
  MaxChanges = 1
  MaxFailures = 1
PROPERTIES
  OpenSetIndexed
  FinalizedSetParsed
