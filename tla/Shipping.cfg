SPECIFICATION ShippingSpec
CONSTANTS
  s1 = s1
  s2 = s2
  p1 = p1
  Sessions <- MCSessions
  Items <- MCItems
  Required <- MCRequired
  Packages <- MCOnePackage
  Handlers <- MCPackAndShip
  MaxLines = 2
  MaxRequests = 10
  NoSession = NoSession
  NoPackage = NoPackage
  NoPacker = NoPacker
  Manager = Manager
  Staff = {}
INVARIANTS
  ShippingTypeOK
  ShippedComplete
  OrderFollowsShipment
PROPERTIES
  ShipmentLifeCycle
