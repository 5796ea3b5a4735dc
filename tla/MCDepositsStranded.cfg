CONSTANTS
  Wallets = {x1}
  Accounts = {a1}
  Watchers = {w1}
  PageLimit = 1
  MaxChain = 2
  InUse = {x1}
  Nobody = Nobody
  NoWallet = NoWallet
SPECIFICATION FairSpec
PROPERTIES
  LeftoversPickedUp
