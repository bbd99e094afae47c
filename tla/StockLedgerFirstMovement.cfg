SPECIFICATION Spec
CONSTANTS
  s1 = s1
  s2 = s2
  Sessions <- MCSessions
  Keys <- MCKeys
  Opening <- MCOpeningNew
  MaxQty = 1
  MaxLines = 2
  MaxRequests = 2
  Absent = Absent
  NoSession = NoSession
INVARIANTS
  MovementsExplainNewStock
