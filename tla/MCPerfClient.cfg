SPECIFICATION FairSpec
CONSTANTS
  NumOrders = 7
  Window = 3
INVARIANTS
  WindowIsKept
  ReportIsComplete
PROPERTY EndsUnlessStuck
CHECK_DEADLOCK FALSE
