SPECIFICATION FairSpec
CONSTANTS
  None = None
  DataSets <- Sets
  MaxVersions = 3
INVARIANTS TypeOK StillFileIsRead
PROPERTIES ReaderReturns
CHECK_DEADLOCK FALSE
