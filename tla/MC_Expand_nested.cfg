CONSTANTS
  ExpandPaths <- MCExpandPaths
  Videos <- MCQueryVideos
  Durations <- MCDurations
  MaxExpands = 2
  FrameStepMs = 1000
  KeyEvery = 2
  DecodeErrors = TRUE
INIT InitAll
NEXT NextAll
\* a client may stop sending Expand requests
CHECK_DEADLOCK FALSE
INVARIANT
  SelfGetResolves
