----------------------------- MODULE MCDeposits -----------------------------
(* Model-checking instances of Deposits.                                   *)
EXTENDS Deposits, TLC

\* Accounts, wallets and replicas are interchangeable.
Symmetry == Permutations(Accounts) \cup Permutations(Wallets) \cup Permutations(Watchers)
=============================================================================
