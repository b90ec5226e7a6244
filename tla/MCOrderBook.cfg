SPECIFICATION Spec
CONSTANTS
  OrderIds = {u1, u2, b1, b2}
  BinanceIds = {b1, b2}
  Prices = {1, 2, 3}
  Quantities = {0, 1, 2}
  NoOrder = NoOrder
SYMMETRY Symmetry
INVARIANTS
  TypeOK
  IndexConsistent
  SweepPosition
  TotalsExact
  UsersNeverCross
  SweepIsComplete
  UserFokFills
  OnlyLimitOrdersRest
PROPERTIES
  PriceTimePriority
  QueuesAreFifo
  RestingOrdersOnlyShrink
