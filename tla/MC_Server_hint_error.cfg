CONSTANTS
  p1 = p1
  p2 = p2
  h1 = h1
  h2 = h2
  Paths <- MCOnePath
  Handlers <- MCHandlers
  MaxPosts = 2
  MaxRestarts = 0
  ReadErrors = TRUE
INIT Init
NEXT Next
CHECK_DEADLOCK FALSE
INVARIANT NoZeroId
