SPECIFICATION Spec
CONSTANTS
  s1 = s1
  s2 = s2
  Sessions <- MCSessions
  Products <- MCProducts
  MaxQty = 2
  MaxLines = 2
  MaxRequests = 6
INVARIANTS
  TypeOK
  ReceiptsAddUp
PROPERTIES
  LifeCycle
