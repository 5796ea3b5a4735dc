----------------------------- MODULE MCAccounts -----------------------------
(* Safety of what an account is charged, credited and given: prices,       *)
(* deposits, API keys and the faucet.  They share no state, so one         *)
(* behaviour runs one of them; the others rest in their initial states.    *)
EXTENDS PricingFlow, Deposits, ApiKeys, Faucet, TLC

VARIABLE part

CONSTANTS a1, a2, w1, w2

accountVars == <<part, flowVars, keyVars, faucetVars, vars>>

\* An integer width at which reservations, charges and fee splits overflow for
\* some of the inputs.
Uncapped == [t \in Tiers |-> NoCap]
AllOne == [t \in Tiers |-> 1]
FreeOutput == [Uncapped EXCEPT !["output"] = 0]
AllNine == [t \in Tiers |-> 9]
MCCapChoices == {Uncapped, AllOne, AllNine, FreeOutput}

\* The choices of the pricing flow's initial state matter to that flow only.
AccountsInit ==
  /\ part \in {"pricing", "keys", "faucet", "deposits"}
  /\ FlowInit /\ KeyInit /\ FaucetInit /\ Init
  /\ part # "pricing" => limits = CHOOSE l \in Limits : TRUE

AccountsNext ==
  \/ part = "pricing" /\ FlowNext /\ UNCHANGED <<part, keyVars, faucetVars, vars>>
  \/ part = "keys" /\ KeyNext /\ UNCHANGED <<part, flowVars, faucetVars, vars>>
  \/ part = "faucet" /\ FaucetNext /\ UNCHANGED <<part, flowVars, keyVars, vars>>
  \/ part = "deposits" /\ Next /\ UNCHANGED <<part, flowVars, keyVars, faucetVars>>

AccountsSpec == AccountsInit /\ [][AccountsNext]_accountVars

\* Replicas (watchers, key caches, creators of keys) are interchangeable, and
\* so are accounts (of wallets, of the faucet).
Symmetry == Permutations({w1, w2}) \cup Permutations({a1, a2})
=============================================================================
