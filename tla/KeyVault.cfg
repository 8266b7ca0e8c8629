SPECIFICATION VaultSpec
CONSTANTS
  Key = {k1, k2, k3}
  Line = {l1, l2}
  NoLine = NoLine
  Perishable = {k3}
INVARIANTS
  VaultTypeOK
  StockIsUntouched
PROPERTIES
  SoldAtMostOnce
CHECK_DEADLOCK FALSE
