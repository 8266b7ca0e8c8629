SPECIFICATION Spec
CONSTANTS
  Refund = {r1, r2}
  Worker = {w1, w2}
  Paid = 2
  NoRefund = NoRefund
  MaxCrashes = 1
SYMMETRY Symmetry
INVARIANTS
  RefundTypeOK
  NotOverRefunded
  BooksAgree
PROPERTIES
  LedgerKept
CHECK_DEADLOCK FALSE
