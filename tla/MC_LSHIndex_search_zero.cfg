\* Search with limit 0: does it return only what the limit needs?
CONSTANTS
  Capacity = 2
  Hyperplane <- MCHyperplane
  Vectors <- MCVectors
  MaxAdds = 5
  SearchLimits = {0}
SPECIFICATION Spec
CHECK_DEADLOCK FALSE
INVARIANTS
  SearchNearestTiers
