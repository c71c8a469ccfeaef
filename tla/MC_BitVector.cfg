\* BitVector operations that return, over every Set/Unset sequence.
CONSTANTS
  Sizes <- MCSizes
  Texts <- MCTexts
SPECIFICATION Spec
\* A panic ends the program, and a size-0 vector has no index to set.
CHECK_DEADLOCK FALSE
INVARIANTS
  GetReflectsWrites
  StringRoundTrip
  HammingMatchesBits
  Uint64MatchesBits
  LessIsTrichotomous
