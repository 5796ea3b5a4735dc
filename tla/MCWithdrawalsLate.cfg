CONSTANTS
  Keys = {k1}
  Accounts = {alice}
  Amounts = {1}
  Opening <- MCOpening
  Locked <- MCLocked
  Workers = {w1}
  BatchLimit = 1
  Hashes = {h1, h2, h3}
  Paces = {FALSE}
  NoHash = NoHash
  NoTx = NoTx
  Nobody = Nobody
SPECIFICATION Spec
INVARIANTS
  RestoreProvesDead
