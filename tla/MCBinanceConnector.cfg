SPECIFICATION FairSpec
CONSTANTS
  Prices = {1, 2, 3}
  ExchangeBooks <- MCExchangeBooks
  SnapshotDepth = 1
  FrameDepth = 2
  MaxFrames = 2
  MaxWire = 3
  MaxLate = 1
INVARIANTS
  TypeOK
  WireMirrorsLastRead
  NothingBeyondLastRead
  UntrackedAreCancelled
PROPERTIES
  CatchesUp
  LossIsNoticed
