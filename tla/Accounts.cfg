SPECIFICATION Spec
CONSTANTS
  s1 = s1
  s2 = s2
  admin = admin
  clerk = clerk
  w1 = w1
  w2 = w2
  Sessions <- MCSessions
  Emails <- MCEmails
  SeedEmail = admin
  Warehouses <- MCWarehouses
  Nobody = Nobody
  MaxRequests = 4
SYMMETRY MCSymmetry
INVARIANTS
  TypeOK
  RowsAccountedFor
PROPERTIES
  RowsChangeByRule
