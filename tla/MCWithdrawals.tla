---------------------------- MODULE MCWithdrawals ----------------------------
(* Model-checking instances of Withdrawals.                                *)
EXTENDS Withdrawals, TLC

\* Every account has a unit held by open inference requests.
MCLocked == [a \in Accounts |-> 1]

\* Everybody can pay two small withdrawals or a large one.
MCOpening == [a \in Accounts |-> 4]

\* Everybody can pay for one withdrawal of one unit at a time, so that no two
\* open withdrawals ask for the same transfer.
OnePayment == [a \in Accounts |-> MCLocked[a] + 1]

\* Blockhashes, keys, accounts and workers are interchangeable.
Symmetry == Permutations(Hashes) \cup Permutations(Keys)
              \cup Permutations(Accounts) \cup Permutations(Workers)
=============================================================================
