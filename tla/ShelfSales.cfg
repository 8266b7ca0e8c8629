SPECIFICATION Spec
CONSTANTS
  a = a
  b = b
  Cart = {a, b}
  Order = {o1}
  Row = {r1, r2, r3}
  Worker = {w1, w2}
  CartOf <- MCCartOf
  NoCart = NoCart
  NoOrder = NoOrder
  NoRow = NoRow
  Initial = 2
  MaxQty = 2
  MaxTruth = 0
  Clears = TRUE
  Recounts = FALSE
SYMMETRY Symmetry
INVARIANTS
  LedgerBalances
PROPERTIES
  StockTakenOnce
CHECK_DEADLOCK FALSE
