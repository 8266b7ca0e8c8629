SPECIFICATION Spec
CONSTANTS
  a = a
  b = b
  Cart = {a, b}
  Order = {}
  Row = {r1, r2, r3}
  Worker = {w1, w2}
  CartOf <- MCCartOf
  NoCart = NoCart
  NoOrder = NoOrder
  NoRow = NoRow
  Initial = 2
  MaxQty = 2
  MaxTruth = 2
  Clears = FALSE
  Recounts = TRUE
SYMMETRY Symmetry
INVARIANTS
  StockTypeOK
  RaceIsNoError
  ReservedIsSum
PROPERTIES
  HoldsAreKept
  SoldOutIsHonest
CHECK_DEADLOCK FALSE
