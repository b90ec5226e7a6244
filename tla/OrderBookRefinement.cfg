SPECIFICATION FairSpec
CONSTANTS
  OrderIds = {u1, b1, b2}
  BinanceIds = {b1, b2}
  Prices = {1, 2}
  Quantities = {0, 1, 3}
  NoOrder = NoOrder
PROPERTIES
  ImplementsPriorityBook
  CallsReturn
