----------------------------- MODULE DeployKeys -----------------------------
(***************************************************************************)
(* Deploy keys and the link flow (internal/deploykeys).  A user mints keys *)
(* with a budget of links; a node that holds one proves its libp2p key     *)
(* with a challenge and is bound to the user's account.  The handler reads *)
(* the key, consumes the challenge, looks at the instance, spends a use    *)
(* and inserts the instance in five statements of their own, next to other *)
(* link requests, revocations, and claims through the wallet flow.         *)
(***************************************************************************)
EXTENDS Challenges

CONSTANTS DKeys,            \* tokens
          Accounts,
          NoAccount,
          Linkers,          \* link requests
          Minters,          \* create requests
          MaxUsesValues,    \* budgets asked for; 0 is unlimited
          TTLs,             \* lifetimes asked for; Never is none
          Never,
          MaxDeployKeys     \* the soft cap

ASSUME DeployKeysAssumption ==
  /\ IsFiniteSet(Linkers)
  /\ NoAccount \notin Accounts
  /\ MaxUsesValues \subseteq Nat
  /\ TTLs \subseteq (Nat \ {0}) \cup {Never} /\ Never \notin Nat
  /\ MaxDeployKeys \in Nat \ {0}

VARIABLES dkey,       \* deploy_keys
          claimed,    \* instances: the account of each peer
          linking,    \* the link requests
          minting,    \* the account a create request counted under the cap for
          links       \* instances each key has created

linkVars == <<dkey, claimed, linking, minting, links>>
deployVars == <<challengeVars, linkVars>>

NoKey == [state |-> "none", user |-> NoAccount, maxUses |-> 0, uses |-> 0, expires |-> Never]
IdleLink == [at |-> "idle"]

DeployInit ==
  /\ ChallengeInit
  /\ dkey = [k \in DKeys |-> NoKey]
  /\ claimed = [p \in Peers |-> NoAccount]
  /\ linking = [l \in Linkers |-> IdleLink]
  /\ minting = [m \in Minters |-> NoAccount]
  /\ links = [k \in DKeys |-> 0]

-----------------------------------------------------------------------------
(* The console: Service.Create and Revoke.                                 *)

OpenKeys(u) == {k \in DKeys : dkey[k].state = "active" /\ dkey[k].user = u}

MintCount(m, u) ==
  /\ minting[m] = NoAccount
  /\ Cardinality(OpenKeys(u)) < MaxDeployKeys
  /\ minting' = [minting EXCEPT ![m] = u]
  /\ UNCHANGED <<challengeVars, dkey, claimed, linking, links>>

\* InsertDeployKey, or the error of the store.
MintInsert(m, k, uses, ttl) ==
  /\ minting[m] # NoAccount
  /\ dkey[k].state = "none"
  /\ dkey' = [dkey EXCEPT ![k] =
                [state |-> "active", user |-> minting[m], maxUses |-> uses, uses |-> 0,
                 expires |-> IF ttl = Never THEN Never ELSE now + ttl]]
  /\ minting' = [minting EXCEPT ![m] = NoAccount]
  /\ UNCHANGED <<challengeVars, claimed, linking, links>>

MintFails(m) ==
  /\ minting[m] # NoAccount
  /\ minting' = [minting EXCEPT ![m] = NoAccount]
  /\ UNCHANGED <<challengeVars, dkey, claimed, linking, links>>

RevokeDeployKey(k) ==
  /\ dkey[k].state = "active"
  /\ dkey' = [dkey EXCEPT ![k].state = "revoked"]
  /\ UNCHANGED <<challengeVars, claimed, linking, minting, links>>

-----------------------------------------------------------------------------
(* The node.                                                               *)

\* DeployKeyInfo.Expired compares with After.
Expired(row, t) == row.expires # Never /\ t > row.expires

FindActiveDeployKey(k) == dkey[k].state = "active" /\ ~Expired(dkey[k], now)

Usable(row, t) ==
  row.state = "active" /\ ~Expired(row, t) /\ (row.maxUses = 0 \/ row.uses < row.maxUses)

\* POST .../link/challenge by the bearer of an active key, for any peer.
LinkChallenge(i, k, p) ==
  /\ FindActiveDeployKey(k)
  /\ CreateChallenge(i, p, "link")
  /\ UNCHANGED <<now, granted, linkVars>>

\* POST .../link: the row of the key as the request found it.
LinkAuthorize(l, k) ==
  /\ linking[l].at = "idle"
  /\ FindActiveDeployKey(k)
  /\ linking' = [linking EXCEPT ![l] = [at |-> "authorized", key |-> k, row |-> dkey[k]]]
  /\ UNCHANGED <<challengeVars, dkey, claimed, minting, links>>

\* The challenge is consumed before the proof is checked; a request with a
\* wrong proof ends here.
LinkConsume(l, i, p, proof) ==
  /\ linking[l].at = "authorized"
  /\ ConsumeChallenge(i, p, "link")
  /\ granted' = [granted EXCEPT ![i] = @ + 1]
  /\ linking' = [linking EXCEPT ![l] =
       IF proof THEN [at |-> "proved", key |-> @.key, row |-> @.row, peer |-> p, when |-> now]
       ELSE IdleLink]
  /\ UNCHANGED <<now, dkey, claimed, minting, links>>

\* GetInstanceByPeerID.  An instance of the account is linked again without a
\* use; one of another account, a key that was not usable when it was read,
\* an account without a wallet and a fresh observation of another wallet are
\* refused (the last two by LinkFails).
LinkLookup(l) ==
  /\ linking[l].at = "proved"
  /\ linking' = [linking EXCEPT ![l] =
       IF claimed[@.peer] = NoAccount /\ Usable(@.row, @.when) THEN [@ EXCEPT !.at = "fresh"]
       ELSE IdleLink]
  /\ UNCHANGED <<challengeVars, dkey, claimed, minting, links>>

\* Mutant: the budget read with the key is trusted.
Spendable_AsRead(k, t) ==
  dkey[k].state = "active" /\ ~(dkey[k].expires # Never /\ dkey[k].expires <= t)

\* The WHERE of ConsumeDeployKeyUse.
Spendable(k, t) ==
  /\ dkey[k].state = "active"
  /\ ~(dkey[k].expires # Never /\ dkey[k].expires <= t)
  /\ dkey[k].maxUses = 0 \/ dkey[k].uses < dkey[k].maxUses

ConsumeDeployKeyUse(l) ==
  /\ linking[l].at = "fresh"
  /\ LET k == linking[l].key IN
       /\ Spendable(k, linking[l].when)
       /\ dkey' = [dkey EXCEPT ![k].uses = @ + 1]
  /\ linking' = [linking EXCEPT ![l].at = "spent"]
  /\ UNCHANGED <<challengeVars, claimed, minting, links>>

\* CreateInstance; peer_id is unique, and the use stays spent on a conflict.
LinkCreate(l) ==
  /\ linking[l].at = "spent"
  /\ LET p == linking[l].peer
         k == linking[l].key IN
       IF claimed[p] = NoAccount
         THEN /\ claimed' = [claimed EXCEPT ![p] = dkey[k].user]
              /\ links' = [links EXCEPT ![k] = @ + 1]
         ELSE UNCHANGED <<claimed, links>>
  /\ linking' = [linking EXCEPT ![l] = IdleLink]
  /\ UNCHANGED <<challengeVars, dkey, minting>>

\* Any later step fails or refuses, or the replica crashes.
LinkFails(l) ==
  /\ linking[l].at # "idle"
  /\ linking' = [linking EXCEPT ![l] = IdleLink]
  /\ UNCHANGED <<challengeVars, dkey, claimed, minting, links>>

-----------------------------------------------------------------------------
(* The instances API and the other users of the challenges.                *)

WalletClaim(p, u) ==
  /\ claimed[p] = NoAccount
  /\ claimed' = [claimed EXCEPT ![p] = u]
  /\ UNCHANGED <<challengeVars, dkey, linking, minting, links>>

DeleteInstance(p) ==
  /\ claimed[p] # NoAccount
  /\ claimed' = [claimed EXCEPT ![p] = NoAccount]
  /\ UNCHANGED <<challengeVars, dkey, linking, minting, links>>

\* The credential flows: a challenge, and its consumption.
CredentialChallenge(i, p, a) ==
  /\ claimed[p] # NoAccount
  /\ CreateChallenge(i, p, a)
  /\ UNCHANGED <<now, granted, linkVars>>

CredentialConsume(i, p, a) ==
  /\ ConsumeChallenge(i, p, a)
  /\ granted' = [granted EXCEPT ![i] = @ + 1]
  /\ UNCHANGED <<now, linkVars>>

DeployTick == ChallengeTick /\ UNCHANGED <<challenge, granted, linkVars>>

DeployNext ==
  \/ DeployTick
  \/ \E m \in Minters :
       \/ \E u \in Accounts : MintCount(m, u)
       \/ \E k \in DKeys, uses \in MaxUsesValues, ttl \in TTLs : MintInsert(m, k, uses, ttl)
       \/ MintFails(m)
  \/ \E k \in DKeys : RevokeDeployKey(k)
  \/ \E i \in ChallengeIds, p \in Peers :
       \/ \E k \in DKeys : LinkChallenge(i, k, p)
       \/ \E l \in Linkers, proof \in BOOLEAN : LinkConsume(l, i, p, proof)
       \/ \E a \in CredentialAudiences : CredentialChallenge(i, p, a) \/ CredentialConsume(i, p, a)
  \/ \E l \in Linkers :
       \/ \E k \in DKeys : LinkAuthorize(l, k)
       \/ LinkLookup(l)
       \/ ConsumeDeployKeyUse(l)
       \/ LinkCreate(l)
       \/ LinkFails(l)
  \/ \E p \in Peers : DeleteInstance(p) \/ \E u \in Accounts : WalletClaim(p, u)

DeploySpec == DeployInit /\ [][DeployNext]_deployVars

-----------------------------------------------------------------------------
(* Properties.                                                             *)

\* Two links that race for the last use cannot both win: a key creates at
\* most as many instances as uses it has spent, and spends no more than its
\* budget, whatever the requests had read.
BudgetKept ==
  \A k \in DKeys : /\ links[k] <= dkey[k].uses
                   /\ dkey[k].maxUses > 0 => dkey[k].uses <= dkey[k].maxUses

\* Whatever handlers race for them: a challenge is granted once at most, and
\* the links made with a deploy key stay within its spent uses and its budget.
GrantsBounded == ChallengeGrantsOnce /\ BudgetKept
=============================================================================
