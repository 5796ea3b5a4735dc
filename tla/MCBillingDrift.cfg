CONSTANTS
  Million = 2
  BasisPoints = 2
  MaxInt = 31
  alice = alice
  bob = bob
  treasury = treasury
  p1 = p1
  p2 = p2
  p3 = p3
  d1 = d1
  d2 = d2
  Accounts <- MCAccounts
  Treasury = treasury
  Requests = {r1, r2}
  Finalizers = {f1}
  Sweepers = {s1}
  Offers <- MCOffers
  Reports <- MCReports
  Deposits <- MCDeposits
  FeeBps = 1
  AllowSum <- NoDelegation
  SweepLimit = 2
  MaxFaults = 1
  AgeExceedsLifetime = FALSE
  Nobody = Nobody
SPECIFICATION Spec
CHECK_DEADLOCK FALSE
INVARIANTS
  ReservedMatchesOpen
