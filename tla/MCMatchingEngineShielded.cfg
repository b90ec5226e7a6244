SPECIFICATION Spec
CONSTANTS
  Symbols = {btc}
  OrderIds = {u1, b1, b2, b3}
  BinanceIds = {b1, b2, b3}
  Prices = {3, 6, 9}
  Quantities = {1}
  Depth = 2
  Resolution = 3
SYMMETRY Symmetry
PROPERTY DepthMissesOnlyOneOrder
