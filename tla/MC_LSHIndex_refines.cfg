\* Does every bucket's chain keep every id added to it?  (spec section 8)
CONSTANTS
  Capacity = 2
  Hyperplane <- MCHyperplane
  Vectors <- MCVectors
  MaxAdds = 6
  SearchLimits = {1}
SPECIFICATION Spec
CHECK_DEADLOCK FALSE
PROPERTIES
  AbstractSpec
