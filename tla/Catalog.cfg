SPECIFICATION CatalogSpec
CONSTANTS
  s1 = s1
  s2 = s2
  p1 = p1
  p2 = p2
  p3 = p3
  food = food
  acme = acme
  Clients <- MCClients
  Products <- MCProducts
  Categories = {food}
  Brands = {acme}
  Seeded = {p1, food}
  Names <- MCNames
  Bodies <- MCBodies
  MaxRetries = 2
  MaxBegun = 3
  Same = Same
  Nothing = Nothing
SYMMETRY MCSymmetry
INVARIANTS
  CatalogTypeOK
  CatalogSound
PROPERTIES
  RowsChangeByRule
