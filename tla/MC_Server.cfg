CONSTANTS
  p1 = p1
  p2 = p2
  h1 = h1
  h2 = h2
  Paths <- MCPaths
  Handlers <- MCHandlers
  MaxPosts = 5
  MaxRestarts = 2
  ReadErrors = TRUE
SPECIFICATION FairSpec
\* the server may stop receiving requests: every handler idle is a final state
CHECK_DEADLOCK FALSE
INVARIANTS
  StoredIdsIndexed
  AckedNewIdsDistinct
PROPERTY
  RequestsComplete
  AbstractServerSpec
