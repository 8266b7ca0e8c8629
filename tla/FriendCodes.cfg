SPECIFICATION Spec
CONSTANTS
  Code = {c1}
  Cart = {k1, k2}
  Worker = {w1, w2}
  NoCode = NoCode
  NoCart = NoCart
  MaxCrashes = 1
SYMMETRY Symmetry
INVARIANTS
  ReferralTypeOK
  RewardIsEarned
PROPERTY
  ReferralIsKept
