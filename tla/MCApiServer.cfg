SPECIFICATION ServerSpec
CONSTANTS
  btc = btc
  Symbols = {btc}
  Prices = {0, 1}
  Quantities = {1}
  Depth = 2
  Resolution = 2
  BinanceIds = {}
  Names = {1}
  OrderIds = {1, 2}
  Readings = {1, 2}
  Connections = {c1, c2}
  Submissions <- MCSubmissions
  Failures = {"bad"}
  MaxAsked = 1
  Signals = FALSE
  NoId = NoId
SYMMETRY Symmetry
INVARIANTS
  ServerTypeOK
  ListenersAreCurrent
PROPERTIES
  TradesReachListeners
  AnswersTellFills
  OrdersAreKept
CHECK_DEADLOCK FALSE
