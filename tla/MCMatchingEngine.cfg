SPECIFICATION Spec
CONSTANTS
  Symbols = {btc}
  OrderIds = {u1, u2, b1}
  BinanceIds = {b1}
  Prices = {3, 6, 9}
  Quantities = {0, 1, 2}
  Depth = 2
  Resolution = 3
SYMMETRY Symmetry
INVARIANTS
  TypeOK
  BboFeedIsCurrent
  FeedsAgree
PROPERTIES
  OnlyResetIsSilent
  DepthMissesOnlyOneOrder
  TradeFeedAccounts
