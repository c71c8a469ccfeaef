\* Can frame serve every key expand writes, when libav does not fail?
CONSTANTS
  ExpandPaths <- MCExpandPaths
  Videos <- MCVideos
  Durations <- MCDurations
  MaxExpands = 2
  \* one frame a second, a keyframe every two seconds
  FrameStepMs = 1000
  KeyEvery = 2
  DecodeErrors = FALSE
INIT InitAll
NEXT NextAll
\* a client may stop sending Expand requests
CHECK_DEADLOCK FALSE
INVARIANT
  KeysServed
