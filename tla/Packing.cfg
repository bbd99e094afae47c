SPECIFICATION Spec
CONSTANTS
  s1 = s1
  s2 = s2
  w1 = w1
  w2 = w2
  p1 = p1
  p2 = p2
  Sessions <- MCSessions
  Items <- MCItems
  Required <- MCRequired
  Packages <- MCPackages
  Handlers <- MCEverything
  MaxLines = 2
  MaxRequests = 6
  NoSession = NoSession
  NoPackage = NoPackage
  NoPacker = NoPacker
  Manager = Manager
  Staff <- MCStaff
SYMMETRY MCSymmetry
INVARIANTS
  TypeOK
  QuantitiesAgree
  StatusTellsProgress
  WaitsUpward
PROPERTIES
  ClosedStaysClosed
