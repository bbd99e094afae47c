SPECIFICATION Spec
CONSTANTS
  s1 = s1
  s2 = s2
  b1 = b1
  b2 = b2
  Sessions <- MCSessions
  Bins <- MCBins
  Products <- MCProducts
  OpeningCapacity <- MCCapacity
  OpeningStock <- MCStockTwo
  OpeningBins <- MCOpeningTwo
  MaxQty = 1
  MaxUnits = 2
  MaxCapacity = 2
  MaxRequests = 3
  NoSession = NoSession
INVARIANTS
  TypeOK
  AuditExplainsBins
  OnlyTransfersDeadlock
  BalancesSound
PROPERTIES
  CommitsKeepBins
