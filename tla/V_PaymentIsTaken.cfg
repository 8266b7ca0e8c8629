SPECIFICATION Spec
CONSTANTS
  a = a
  b = b
  Cart = {a, b}
  Order = {o1}
  Row = {r1, r2}
  Worker = {w1}
  CartOf <- MCCartOf
  NoCart = NoCart
  NoOrder = NoOrder
  NoRow = NoRow
  Initial = 1
  MaxQty = 1
  MaxTruth = 0
  Clears = FALSE
  Recounts = FALSE
SYMMETRY Symmetry
INVARIANTS
  PaymentIsTaken
CHECK_DEADLOCK FALSE
