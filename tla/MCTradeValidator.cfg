SPECIFICATION Spec
CONSTANTS
  Others = {b1, b2, b3}
  Own = own
  BinanceIds = {b1, b2, b3}
  Prices = {3, 4, 6, 9}
  Quantities = {0, 3, 4, 7}
  Late <- LateOrders
  Depth = 2
  Resolution = 3
SYMMETRY Symmetry
INVARIANT
  PredictsEachLevel
PROPERTY
  FailuresAreExplained
CHECK_DEADLOCK FALSE
