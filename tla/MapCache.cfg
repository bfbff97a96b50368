CONSTANTS
  Files <- TwoFiles
  Size <- FullFiles
  HashOf <- SomeCollide
  Holders <- TwoHolders
  Structs <- TwoStructs
  INITIAL_HASH_SIZE = 2
  DEFAULT_EXPIRE_AGE = 10
  DESIRED_FREE_COUNT = 1
  DESIRED_MAX_MAPPED_FILES = 2
  DESIRED_MAX_MAPPED_BYTES = 2
  TimeStep = 10
SPECIFICATION FairSpec
CHECK_DEADLOCK FALSE
INVARIANTS TableMatchesMaps HeldFilesStayMapped
PROPERTY UnusedFilesLeave
