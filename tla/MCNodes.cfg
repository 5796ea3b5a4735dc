CONSTANTS
  ChallengeIds = {1, 2, 3}
  Peers = {p1}
  MaxPending = 2
  ChallengeTTL = 1
  MaxNow = 2
  DKeys = {k1}
  Accounts = {u1}
  NoAccount = NoAccount
  Linkers = {h1, h2}
  Minters = {m1}
  MaxUsesValues = {1}
  TTLs = {1}
  Never = Never
  MaxDeployKeys = 1
  RegionIds = {g1, g2}
  NoRegion = NoRegion
  NodePeer = p1
  Roles = {"worker"}
  InviteTTL = 1
  InviteExpiries = {0}
  MemberTTLs = {}
  TokenTTL = 2
  OwnershipMaxAge = 1
  MaxInvites = 2
  MaxWrites = 3
  Providers = {v1, v2}
  NoProvider = NoProvider
  Managers = {h1, h2}
  MaxClaims = 3
  AclPeers = {v1, v2}
  AclRegions = {"eu"}
  AclServices = {g1, g2}
  AclModes = {"inherit", "restricted"}
  MaxEdits = 2
  RateCallers = {h1, h2}
  Rate = 2
  CallCost = 3
  Burst = 2
  SweepInterval = 1
  IdleTTL = 3
  MaxTicks = 5
SPECIFICATION NodesSpec
SYMMETRY Symmetry
CONSTRAINT Bounded
CHECK_DEADLOCK FALSE
INVARIANTS
  GrantsBounded
  MembershipGoverns
  OwnerInCharge
  DecisionsFailClosed
  RateKept
