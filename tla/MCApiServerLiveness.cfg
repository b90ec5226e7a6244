SPECIFICATION FairSpec
CONSTANTS
  btc = btc
  Symbols = {btc}
  Prices = {1}
  Quantities = {1}
  Depth = 1
  Resolution = 1
  BinanceIds = {}
  Names = {1}
  OrderIds = {1}
  Readings = {}
  Connections = {c1}
  Submissions <- MCNamed
  Failures = {"bad", "other", "unprintable"}
  MaxAsked = 1
  Signals = TRUE
  NoId = NoId
PROPERTIES
  RequestsAreAnswered
  EndsOnSignal
CHECK_DEADLOCK FALSE
