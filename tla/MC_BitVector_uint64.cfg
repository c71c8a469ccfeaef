\* Does Uint64 return the first 64 bits, as its comment says?
CONSTANTS
  Sizes = {}
  Texts <- MCWideTexts
SPECIFICATION Spec
CHECK_DEADLOCK FALSE
INVARIANT
  Uint64FirstBitsPerComment
