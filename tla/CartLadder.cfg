SPECIFICATION Spec
CONSTANTS
  Cart = {k1}
  Worker = {w1, w2}
  NoCart = NoCart
  Rungs = 2
  WithCode = {2}
  MaxClock = 2
  MaxFaults = 1
SYMMETRY Symmetry
INVARIANTS
  LadderTypeOK
  RungIsSentOnce
  PaidIsLeftAlone
PROPERTY
  LadderIsClimbed
