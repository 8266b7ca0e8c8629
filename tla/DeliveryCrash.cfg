SPECIFICATION Spec
CONSTANTS
  Key = {k1}
  Line = {l1, l2}
  NoLine = NoLine
  Perishable = {}
  Order = {o1}
  OrderOf <- MCOrderOf
  Stocked = {l1}
  HandLines = {l1, l2}
  Worker = {w1, w2}
  Sweep = w1
  NoWorker = NoWorker
  NoOrder = NoOrder
  NoKey = NoKey
  AutoDelivery = TRUE
  LockOverruns = TRUE
  MaxCrashes = 1
INVARIANTS
  NoKeyBeforeMoney
  AssignedHoldsKey
PROPERTIES
  DeliveryKept
CHECK_DEADLOCK FALSE
