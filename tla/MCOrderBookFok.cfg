SPECIFICATION Spec
CONSTANTS
  OrderIds = {b1, b2, u1}
  BinanceIds = {b1, b2}
  Prices = {1, 2}
  Quantities = {1, 2}
  NoOrder = NoOrder
INVARIANT FokFillsOrKills
