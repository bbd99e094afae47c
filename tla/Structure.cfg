SPECIFICATION Spec
CONSTANTS
  s1 = s1
  s2 = s2
  w1 = w1
  w2 = w2
  z1 = z1
  z2 = z2
  z3 = z3
  a1 = a1
  a2 = a2
  a3 = a3
  h1 = h1
  h2 = h2
  h3 = h3
  b1 = b1
  b2 = b2
  Sessions <- MCSessions
  Warehouses <- MCWarehouses
  Zones <- MCZones
  Aisles <- MCAisles
  Shelves <- MCShelves
  Bins <- MCBins
  Code <- MCCode
  OpeningUp <- MCOpeningUp
  Requests <- MCRequests
  MaxRequests = 4
  Nowhere = Nowhere
SYMMETRY MCSymmetry
INVARIANTS
  TypeOK
  TreeSound
PROPERTIES
  WritesSound
