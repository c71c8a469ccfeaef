\* Storage and lookup invariants over every sequence of up to 6 Adds, and
\* Search against its reference in every reached state, for every query
\* quadrant, limits 1..7 and every drain order the sort allows.
CONSTANTS
  Capacity = 2
  Hyperplane <- MCHyperplane
  Vectors <- MCVectors
  MaxAdds = 6
  SearchLimits <- MCSearchLimits
SPECIFICATION Spec
\* The caller may stop calling Add: the model stops at MaxAdds.
CHECK_DEADLOCK FALSE
INVARIANTS
  TypeOK
  ChainsWellFormed
  OnlyTailHasRoom
  ItemsConserved
  ChainsHoldOwnItems
  

