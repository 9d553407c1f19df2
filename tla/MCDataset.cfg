SPECIFICATION Spec
CONSTANTS
  VUs = {v1, v2, v3}
  Keys = {k1, k2}
  Size = 3
  Orders <- MCOrders
  Indexes <- MCIndexes
  MaxDraws = 5
  Nobody = Nobody
INVARIANTS TypeOK DrawnEvenly DrawnInOrder AtIsPeriodic OnlyValidCached
PROPERTY SharesOneCursor
