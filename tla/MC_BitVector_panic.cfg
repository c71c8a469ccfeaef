\* Do valid calls panic?  (New allocates size >> 3 bytes)
CONSTANTS
  Sizes <- MCOddSizes
  Texts <- MCOddTexts
SPECIFICATION Spec
CHECK_DEADLOCK FALSE
INVARIANT
  NoPanicOnValidCalls
