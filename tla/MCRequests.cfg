CONSTANTS
  Million = 2
  BasisPoints = 2
  MaxInt = 31
  alice = alice
  bob = bob
  treasury = treasury
  p1 = p1
  p2 = p2
  p3 = p3
  d1 = d1
  d2 = d2
  Accounts <- MCAccounts
  Treasury = treasury
  Requests = {r1, r2}
  Finalizers = {f1, f2}
  Sweepers = {s1, s2}
  Offers <- AliceOffers
  Reports <- FewReports
  Deposits <- OneDeposit
  FeeBps = 1
  AllowSum <- AliceDelegates
  SweepLimit = 2
  MaxFaults = 1
  AgeExceedsLifetime = FALSE
  Nobody = Nobody
  Absent = Absent
  Other = Other
  InspectCap = 1
  MaxBody = 3
  Sizes = {1, 2, 3, 4}
  Bounds = {0, 1, 12}
  OutputMaxes = {0, 2}
  Providers = {p1, p2}
  AskRates = {1, 3}
  MaxPrice = 2
  MaxAllowedPeers = 1
  Callers = {c1, c2}
  SnapTTL = 2
  ViewTTL = 2
  FetchTime = 1
  GpuTTL = 3
  RetryFloor = 2
  GpuTimeout = 2
  QueueSize = 3
  BatchSize = 2
  MaxSamples = 6
  MaxRows = 8
SPECIFICATION RequestSpec
SYMMETRY Symmetry
CHECK_DEADLOCK FALSE
INVARIANTS
  TypeOK
  CreditMatchesLedger
  ReservedBacked
  ChargedOnce
  OutputBounded
  NeverServedFree
  HiddenServicesLeave
  RefreshesNeverOverlap
  SamplesAccounted
