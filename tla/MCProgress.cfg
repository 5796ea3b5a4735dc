CONSTANTS
  Wallets = {x1}
  Accounts = {a1}
  Watchers = {w1}
  PageLimit = 1
  MaxChain = 3
  InUse = {x1}
  Nobody = Nobody
  NoWallet = NoWallet
  k1 = k1
  alice = alice
  w1 = w1
  h1 = h1
  h2 = h2
  h3 = h3
  NoHash = NoHash
  NoTx = NoTx
  treasury = treasury
  b1 = b1
  s1 = s1
SPECIFICATION ProgressSpec
CHECK_DEADLOCK FALSE
PROPERTIES
  EventuallyCredited
  EventuallyDecided
  RegistryCatchesUp
