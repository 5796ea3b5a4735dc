CONSTANTS
  Buyers = {b1}
  Sellers = {s1}
  Treasury = treasury
  Linked = {b1, s1}
  Workers = {w1, w2}
  Pollers = {p1}
  Approvals = {4}
  MaxRaw = 7
  EarnRaw = 1
  FeeRaw = 1
  MaxLeg = 2
  LegLimit = 2
  FeeModes = {FALSE}
  MaxSlot = 2
  Nobody = Nobody
SPECIFICATION Spec
CHECK_DEADLOCK FALSE
INVARIANT
  ConcurrentClaimHarmless
