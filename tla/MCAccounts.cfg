CONSTANTS
  Million = 3
  BasisPoints = 4
  MaxInt = 11
  RateChoices = {0, 1, 9}
  TokenChoices = {0, 1, 3}
  CapChoices <- MCCapChoices
  FeeChoices = {0, 1, 4, 9}
  MaxQuotes = 2
  Keys = {k1, k2}
  Users = {u1}
  KeyReplicas = {w1, w2}
  Lookups = {l1}
  Creators = {a1, a2}
  MaxPerUser = 1
  PosTTL = 1
  NegTTL = 0
  MaxLookup = 1
  MaxClock = 2
  EnforceAccount = FALSE
  NoOwner = NoOwner
  Claimants = {f1}
  Handlers = {w1, w2}
  MaxAttempts = 3
  MaxTime = 5
  Funds = 3
  PendingTTL = 2
  SendTimeout = 1
  BlockhashLife = 1
  StoreTimeout = 1
  NoClaimant = NoClaimant
  Wallets = {x1}
  Accounts = {a1, a2}
  Watchers = {w1, w2}
  PageLimit = 2
  MaxChain = 3
  InUse = {}
  a1 = a1
  a2 = a2
  w1 = w1
  w2 = w2
  Nobody = Nobody
  NoWallet = NoWallet
SPECIFICATION AccountsSpec
SYMMETRY Symmetry
CHECK_DEADLOCK FALSE
INVARIANTS
  ChargeWithinReserve
  ChargeExact
  ChargeWithinCaps
  CreditedOnce
  NoneLost
  RevokedKeysStop
  FaucetPaysOnce
