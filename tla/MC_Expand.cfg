CONSTANTS
  ExpandPaths <- MCExpandPaths
  Videos <- MCVideos
  Durations <- MCDurations
  MaxExpands = 2
  \* one frame a second, a keyframe every two seconds
  FrameStepMs = 1000
  KeyEvery = 2
  DecodeErrors = TRUE
INIT InitAll
NEXT NextAll
\* a client may stop sending Expand requests
CHECK_DEADLOCK FALSE
INVARIANTS
  FrameKeysOrdered
  SelfGetResolves
  FrameIsFirstAtOrAfter
