SPECIFICATION FairSpec
CONSTANTS
  o1 = o1
  Order = {o1}
  Payment = {h1}
  Card = {}
  Hosted = {h1}
  Worker = {w1, w2}
  OrderOf <- MCOrderOf
  NoOrder = NoOrder
  NoPayment = NoPayment
  MaxCost = 2
  MaxEvents = 2
  MaxCrashes = 1
INVARIANTS
  ClosedOrderIsFlagged
PROPERTIES
  CapturedIsApplied
CHECK_DEADLOCK FALSE
