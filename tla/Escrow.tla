------------------------------- MODULE Escrow -------------------------------
(***************************************************************************)
(* What the billing store promises, without its tables and transactions:   *)
(* accounts have balances, a job puts an amount of its holder's balance    *)
(* aside, and ends once, either paid or given back.                        *)
(***************************************************************************)
EXTENDS Totals

CONSTANTS Parties, Jobs

VARIABLES balance,   \* of each party
          stage,     \* "none", "reserved", "settled" or "released"
          holder,    \* the party whose balance a job holds
          amount     \* how much of it

escrowVars == <<balance, stage, holder, amount>>

HeldFrom(a) == {j \in Jobs : stage[j] = "reserved" /\ holder[j] = a}

\* Nobody's holds exceed the balance.
Covered == \A a \in Parties : Total(amount, HeldFrom(a)) <= balance[a]

EscrowInit ==
  /\ balance = [a \in Parties |-> 0]
  /\ stage = [j \in Jobs |-> "none"]
  /\ amount = [j \in Jobs |-> 0]

\* Money enters for one party.
Fund(a) ==
  /\ balance'[a] > balance[a]
  /\ balance' = [balance EXCEPT ![a] = balance'[a]]
  /\ UNCHANGED <<stage, holder, amount>>

Hold(j) ==
  /\ stage[j] = "none"
  /\ stage' = [stage EXCEPT ![j] = "reserved"]
  /\ holder'[j] \in Parties
  /\ holder' = [holder EXCEPT ![j] = holder'[j]]
  /\ amount' = [amount EXCEPT ![j] = amount'[j]]
  /\ Covered'
  /\ UNCHANGED balance

\* The holder pays other parties; no money is made or lost, and what is held for
\* other jobs stays covered.
Pay(j) ==
  /\ stage[j] = "reserved"
  /\ stage' = [stage EXCEPT ![j] = "settled"]
  /\ \A a \in Parties \ {holder[j]} : balance'[a] >= balance[a]
  /\ Total(balance', Parties) = Total(balance, Parties)
  /\ Covered'
  /\ UNCHANGED <<holder, amount>>

\* Holds are given back, several at once.
GiveBack(js) ==
  /\ js # {} /\ \A j \in js : stage[j] = "reserved"
  /\ stage' = [j \in Jobs |-> IF j \in js THEN "released" ELSE stage[j]]
  /\ UNCHANGED <<balance, holder, amount>>

EscrowNext ==
  \/ \E a \in Parties : Fund(a)
  \/ \E j \in Jobs : Hold(j) \/ Pay(j)
  \/ \E js \in SUBSET Jobs : GiveBack(js)

EscrowSpec == EscrowInit /\ [][EscrowNext]_escrowVars
=============================================================================
