SPECIFICATION FairSpec
CONSTANTS
  Key = {k1}
  Line = {l1}
  NoLine = NoLine
  Perishable = {}
  Order = {o1}
  OrderOf <- MCOrderOf
  Stocked = {l1}
  HandLines = {}
  Worker = {w1, w2}
  Sweep = w1
  NoWorker = NoWorker
  NoOrder = NoOrder
  NoKey = NoKey
  AutoDelivery = TRUE
  LockOverruns = FALSE
  MaxCrashes = 1
PROPERTIES
  PaidLineIsWorked
  LockIsReleased
  NoSendAfterRecord
CHECK_DEADLOCK FALSE
