SPECIFICATION FairSpec
CONSTANTS
  s1 = s1
  s2 = s2
  Sessions <- MCSessions
  Keys <- MCKeys3
  Opening <- MCOpening
  MaxQty = 1
  MaxLines = 2
  MaxRequests = 3
  Absent = Absent
  NoSession = NoSession
INVARIANTS
  TypeOK
  StockNeverNegative
  MovementsExplainStock
  WaitsUpward
PROPERTIES
  ImplementsAtomicStock
  RequestsFinish
