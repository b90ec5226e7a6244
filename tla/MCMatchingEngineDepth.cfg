SPECIFICATION Spec
CONSTANTS
  Symbols = {btc}
  OrderIds = {u1, u2}
  BinanceIds = {}
  Prices = {3, 6}
  Quantities = {3}
  Depth = 2
  Resolution = 3
PROPERTY DepthSentOnEveryChange
