CONSTANTS
  Keys = {k1, k2}
  Accounts = {alice, bob}
  Amounts = {1}
  Opening <- OnePayment
  Locked <- MCLocked
  Workers = {w1, w2}
  BatchLimit = 2
  Hashes = {h1, h2, h3}
  Paces = {TRUE, FALSE}
  NoHash = NoHash
  NoTx = NoTx
  Nobody = Nobody
SYMMETRY Symmetry
SPECIFICATION Spec
INVARIANTS
  CreditConserved
  OnlyPersistedWires
  OutcomeMatchesChain
PROPERTIES
  OutcomesStay
