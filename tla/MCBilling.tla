------------------------------ MODULE MCBilling ------------------------------
(* Model-checking instances of Billing.  Two accounts sell to each other,  *)
(* so settlements can lock the same rows in opposite orders.               *)
EXTENDS BillingEscrow

CONSTANTS alice, bob, treasury, p1, p2, p3, d1, d2

MCAccounts == {alice, bob, treasury}

Rate(p, seller) == [peer |-> p, seller |-> seller, input |-> 2, cached |-> 1, output |-> 2]

\* A reservation of two base units, for a snapshot of one peer.
AliceBuys == [buyer |-> alice, quotes |-> {Rate(p1, bob)}, inputCeil |-> 1, outputCeil |-> 1]
BobBuys == [buyer |-> bob, quotes |-> {Rate(p2, alice)}, inputCeil |-> 1, outputCeil |-> 1]
MCOffers == {AliceBuys, BobBuys}

\* A free peer: the reservation is of nothing.
FreeRide == [buyer |-> alice, inputCeil |-> 1, outputCeil |-> 1,
             quotes |-> {[Rate(p2, bob) EXCEPT !.input = 0, !.cached = 0, !.output = 0]}]
AliceOffers == {AliceBuys, FreeRide}

Served(p, i, c, o) == [peer |-> p, input |-> i, cached |-> c, output |-> o]

\* The full reservation, part of it, more than it, nothing, an unknown peer.
MCReports == {Served(p1, 1, 0, 1), Served(p2, 0, 1, 0), Served(p1, 2, 0, 1),
              Served(p2, 0, 0, 0), Served(p3, 1, 0, 0)}
FewReports == {Served(p1, 1, 0, 1), Served(p3, 1, 0, 0)}

Transfer(id, a, n) == [id |-> id, account |-> a, amount |-> n]
MCDeposits == {Transfer(d1, alice, 4), Transfer(d2, bob, 2)}
OneDeposit == {Transfer(d1, alice, 4)}

\* Alice's delegations bound one reservation below her free credit.
AliceDelegates == [a \in MCAccounts |-> IF a = alice THEN 3 ELSE 0]
NoDelegation == [a \in MCAccounts |-> 0]
=============================================================================
