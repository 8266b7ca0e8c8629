SPECIFICATION Spec
CONSTANTS
  Key = {k1}
  Line = {l1, l2}
  NoLine = NoLine
  Perishable = {k1}
  Order = {o1}
  OrderOf <- MCOrderOf
  Stocked = {l1, l2}
  HandLines = {}
  Worker = {w1, w2}
  Sweep = w1
  NoWorker = NoWorker
  NoOrder = NoOrder
  NoKey = NoKey
  AutoDelivery = TRUE
  LockOverruns = FALSE
  MaxCrashes = 0
INVARIANTS
  TypeOK
  FulfilledSentAll
  SentOnce
PROPERTIES
  DeliveryMovesItsOwn
CHECK_DEADLOCK FALSE
