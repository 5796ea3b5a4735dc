CONSTANTS
  Buyers = {b1, b2}
  Sellers = {s1, s2}
  Treasury = treasury
  Linked = {b1, b2, s1}
  Workers = {w1, w2}
  Pollers = {p1, p2}
  Approvals = {4, 15}
  MaxRaw = 7
  EarnRaw = 1
  FeeRaw = 1
  MaxLeg = 2
  LegLimit = 2
  FeeModes = {TRUE, FALSE}
  MaxSlot = 3
  Nobody = Nobody
  Owners = {o1, o2}
  NoOwner = NoOwner
  Routes = {r1}
  Prices = {b1, b2}
  AskTTL = 2
  MaxRevision = 2
  LedgerIds = {1, 2, 3, 4, 5}
  PageLimit = 2
  Pieces = {"Lead", "Open", "Close", "Sep", "Gt", "Word"}
  MaxBlocks = 2
  MaxPieces = 6
  MaxDelta = 2
SPECIFICATION MarketSpec
SYMMETRY Symmetry
CONSTRAINT Bounded
CHECK_DEADLOCK FALSE
INVARIANTS
  AllowanceAccounted
  LegPaidOnce
  StalePricesExpire
  ServedAnswersVerify
  PathBindsLeafAndRank
  StreamRepaired
