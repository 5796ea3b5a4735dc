CONSTANTS
  Keys = {k1, k2}
  Accounts = {alice}
  Amounts = {1}
  Opening <- MCOpening
  Locked <- MCLocked
  Workers = {w1}
  BatchLimit = 2
  Hashes = {h1, h2}
  Paces = {TRUE}
  NoHash = NoHash
  NoTx = NoTx
  Nobody = Nobody
SPECIFICATION Spec
INVARIANTS
  FinalizedPaid
