SPECIFICATION Spec
CONSTANTS
  s1 = s1
  s2 = s2
  o1 = o1
  o2 = o2
  Sessions <- MCSessions
  Orders <- MCOrders
  Products <- MCOneProduct
  OpeningStock <- MCStock
  Handlers <- MCCancelAndPick
  MaxQty = 2
  MaxRequests = 5
  Absent = Absent
  NoSession = NoSession
  NoOrder = NoOrder
INVARIANTS
  StockCoversPromises
