--------------------------- MODULE BillingEscrow ---------------------------
(***************************************************************************)
(* The billing store implements Escrow.  reserved_raw and the ledger have  *)
(* no counterpart there: what is held is the sum over the open requests.   *)
(***************************************************************************)
EXTENDS Billing

E == INSTANCE Escrow WITH Parties <- Accounts, Jobs <- Requests,
                          balance <- credit, stage <- state,
                          holder <- buyer, amount <- held

\* Statements, row locks, sweeps of several requests, crashes and deadlocks of the
\* store amount to an escrow: every commit is one step of it or none.
ImplementsEscrow == E!EscrowSpec
=============================================================================
