SPECIFICATION Spec
CONSTANTS
  o1 = o1
  Order = {o1}
  Payment = {c1, h1, t1}
  Card = {c1}
  Hosted = {h1}
  Worker = {w1, w2}
  OrderOf <- MCOrderOf
  NoOrder = NoOrder
  NoPayment = NoPayment
  MaxCost = 1
  MaxEvents = 3
  MaxCrashes = 0
SYMMETRY Symmetry
INVARIANTS
  PayTypeOK
  MoneyIsOnRecord
  SucceededIsApplied
PROPERTIES
  DisputeIsSeen
  OrderBookKept
CHECK_DEADLOCK FALSE
