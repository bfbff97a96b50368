CONSTANTS
  nfiles = 3
  someone = someone
  Client <- MCClient
SPECIFICATION FdSpec
INVARIANTS
  ArraysInverse
PROPERTIES
  ImplementsWatchList
