----------------------------- MODULE NodesProofs -----------------------------
(***************************************************************************)
(* The nodes' control plane, for any number of requests in flight: deploy  *)
(* keys and challenges grant no more than they should, the owner of an     *)
(* instance is in charge of it, memberships of trusted regions govern what *)
(* a node is given, the access evaluator fails closed, and its rate        *)
(* limiter grants the configured rate, no more and no less.                *)
(***************************************************************************)
EXTENDS MCNodes, AmountsProofs

-----------------------------------------------------------------------------
(* Challenges.                                                             *)

\* A challenge that has let a request through is not pending any more.
UngrantedWhilePending ==
  \A i \in ChallengeIds : /\ granted[i] <= 1
                          /\ challenge[i].state \in {"none", "pending"} => granted[i] = 0

ChallengesInv == ChallengeTypeOK /\ UngrantedWhilePending

LEMMA ChallengesInit == ChallengeInit => ChallengesInv
  <1> SUFFICES ASSUME ChallengeInit PROVE ChallengesInv
    OBVIOUS
  <1>1. (CHOOSE p \in Peers : TRUE) \in Peers
    BY ChallengesAssumption
  <1>2. ChallengeTypeOK
    BY <1>1, ChallengesAssumption DEF ChallengeInit, ChallengeTypeOK, Audiences
  <1>3. UngrantedWhilePending
    BY DEF ChallengeInit, UngrantedWhilePending
  <1>4. QED
    BY <1>2, <1>3 DEF ChallengesInv

\* Of a creation, with the pruning it does.
LEMMA CreateKeeps ==
  ASSUME ChallengesInv, NEW i \in ChallengeIds, NEW p \in Peers, NEW a \in Audiences,
         CreateChallenge(i, p, a), UNCHANGED <<now, granted>>
  PROVE  ChallengesInv'
  <1>1. now + ChallengeTTL \in 0 .. MaxNow + ChallengeTTL
    BY ChallengesAssumption DEF ChallengesInv, ChallengeTypeOK
  <1>2. ASSUME NEW j \in ChallengeIds
        PROVE  /\ challenge'[j] \in [state : {"none", "pending", "consumed", "pruned"}, peer : Peers,
                                     audience : Audiences, expires : 0 .. MaxNow + ChallengeTTL]
               /\ challenge'[j].state \in {"none", "pending"} =>
                    challenge[j].state \in {"none", "pending"}
    BY <1>1 DEF CreateChallenge, ChallengesInv, ChallengeTypeOK
  <1>3. challenge' \in [ChallengeIds ->
          [state : {"none", "pending", "consumed", "pruned"}, peer : Peers,
           audience : Audiences, expires : 0 .. MaxNow + ChallengeTTL]]
    BY <1>2 DEF CreateChallenge
  <1>4. QED
    BY <1>2, <1>3 DEF ChallengesInv, ChallengeTypeOK, UngrantedWhilePending

\* A consumption lets one request through and ends the challenge.
LEMMA ConsumeKeeps ==
  ASSUME ChallengesInv, NEW i \in ChallengeIds, NEW p \in Peers, NEW a \in Audiences,
         ConsumeChallenge(i, p, a), granted' = [granted EXCEPT ![i] = @ + 1], UNCHANGED now
  PROVE  ChallengesInv'
  BY DEF ConsumeChallenge, Consumable, ChallengesInv, ChallengeTypeOK, UngrantedWhilePending

LEMMA TickKeeps ==
  ASSUME ChallengesInv, ChallengeTick, UNCHANGED <<challenge, granted>>
  PROVE  ChallengesInv'
  BY ChallengesAssumption
  DEF ChallengeTick, ChallengesInv, ChallengeTypeOK, UngrantedWhilePending

LEMMA ChallengesSame ==
  ASSUME ChallengesInv, UNCHANGED challengeVars
  PROVE  ChallengesInv'
  BY DEF challengeVars, ChallengesInv, ChallengeTypeOK, UngrantedWhilePending

-----------------------------------------------------------------------------
(* Deploy keys.                                                            *)

KeyRows == [state : {"none", "active", "revoked"}, user : Accounts \cup {NoAccount},
            maxUses : Nat, uses : Nat, expires : Nat \cup {Never}]

LinkRequests ==
  [at : {"idle"}]
    \cup [at : {"authorized"}, key : DKeys, row : KeyRows]
    \cup [at : {"proved", "fresh", "spent"}, key : DKeys, row : KeyRows, peer : Peers, when : Nat]

DeployTypes ==
  /\ dkey \in [DKeys -> KeyRows]
  /\ claimed \in [Peers -> Accounts \cup {NoAccount}]
  /\ linking \in [Linkers -> LinkRequests]
  /\ minting \in [Minters -> Accounts \cup {NoAccount}]
  /\ links \in [DKeys -> Nat]

\* Requests that have spent a use of key k and not yet created the instance.
Spent(k) == {l \in Linkers : linking[l].at = "spent" /\ linking[l].key = k}

\* Every use that was spent has created an instance, is about to, or was lost;
\* the budget is kept; a key that was not minted has no use.
KeySound(k) ==
  /\ links[k] + Cardinality(Spent(k)) <= dkey[k].uses
  /\ dkey[k].maxUses > 0 => dkey[k].uses <= dkey[k].maxUses
  /\ dkey[k].state = "none" => dkey[k].uses = 0

DeployInv ==
  /\ ChallengesInv
  /\ DeployTypes
  /\ \A k \in DKeys : KeySound(k)

LEMMA SpentFinite ==
  ASSUME NEW k
  PROVE  IsFiniteSet(Spent(k)) /\ Cardinality(Spent(k)) \in Nat
  <1>1. IsFiniteSet(Spent(k))
    BY DeployKeysAssumption, FS_Subset DEF Spent
  <1>2. QED
    BY <1>1, FS_CardinalityType

\* Neither the key nor the requests that spent a use of it change.
LEMMA KeyKeeps ==
  ASSUME NEW k \in DKeys, KeySound(k), Spent(k)' \subseteq Spent(k), links[k] \in Nat, dkey[k].uses \in Nat,
         links'[k] = links[k], dkey'[k].uses = dkey[k].uses, dkey'[k].maxUses = dkey[k].maxUses,
         dkey'[k].state = "none" => dkey[k].state = "none"
  PROVE  KeySound(k)'
  <1>1. /\ IsFiniteSet(Spent(k)) /\ Cardinality(Spent(k)) \in Nat
        /\ Spent(k)' \in SUBSET Spent(k)
    BY SpentFinite
  <1>2. Cardinality(Spent(k)') <= Cardinality(Spent(k)) /\ Cardinality(Spent(k)') \in Nat
    BY <1>1, FS_Subset, FS_CardinalityType
  <1>3. QED
    BY <1>1, <1>2 DEF KeySound

\* A step of a request that spends nothing.
LEMMA RequestMoves ==
  ASSUME DeployInv, NEW l \in Linkers, NEW r \in LinkRequests, r.at # "spent",
         linking' = [linking EXCEPT ![l] = r], ChallengesInv',
         UNCHANGED <<dkey, claimed, minting, links>>
  PROVE  DeployInv'
  <1>1. DeployTypes'
    BY DEF DeployInv, DeployTypes
  <1>2. \A k \in DKeys : Spent(k)' \subseteq Spent(k)
    BY DEF DeployInv, DeployTypes, Spent
  <1>3. \A k \in DKeys : KeySound(k)'
    BY <1>2, KeyKeeps DEF DeployInv, DeployTypes, KeyRows
  <1>4. QED
    BY <1>1, <1>3 DEF DeployInv

\* A step that leaves the requests, the spent uses and the links alone.
LEMMA KeysMove ==
  ASSUME DeployInv, DeployTypes', ChallengesInv', UNCHANGED <<linking, links>>,
         \A k \in DKeys : /\ dkey'[k].uses = dkey[k].uses /\ dkey'[k].maxUses = dkey[k].maxUses
                          /\ dkey'[k].state = "none" => dkey[k].state = "none"
  PROVE  DeployInv'
  <1>1. \A k \in DKeys : Spent(k)' \subseteq Spent(k)
    BY DEF Spent
  <1>2. \A k \in DKeys : KeySound(k)'
    BY <1>1, KeyKeeps DEF DeployInv, DeployTypes, KeyRows
  <1>3. QED
    BY <1>2 DEF DeployInv

LEMMA DeployStarts == DeployInit => DeployInv
  <1> SUFFICES ASSUME DeployInit PROVE DeployInv
    OBVIOUS
  <1>1. ChallengesInv
    BY ChallengesInit DEF DeployInit
  <1>2. DeployTypes
    BY DEF DeployInit, DeployTypes, KeyRows, NoKey, LinkRequests, IdleLink
  <1>3. \A k \in DKeys : Spent(k) = {}
    BY DEF DeployInit, Spent, IdleLink
  <1>4. \A k \in DKeys : KeySound(k)
    BY <1>3, FS_EmptySet DEF DeployInit, KeySound, NoKey
  <1>5. QED
    BY <1>1, <1>2, <1>4 DEF DeployInv

\* The console.
LEMMA MintKeeps ==
  ASSUME DeployInv, NEW m \in Minters, NEW k \in DKeys, NEW uses \in MaxUsesValues, NEW ttl \in TTLs,
         MintInsert(m, k, uses, ttl)
  PROVE  DeployInv'
  <1>1. now \in Nat /\ uses \in Nat /\ (ttl = Never \/ ttl \in Nat)
    BY ChallengesAssumption, DeployKeysAssumption DEF DeployInv, ChallengesInv, ChallengeTypeOK
  <1>2. (IF ttl = Never THEN Never ELSE now + ttl) \in Nat \cup {Never}
    BY <1>1
  <1>3. DeployTypes'
    BY <1>1, <1>2 DEF MintInsert, DeployInv, DeployTypes, KeyRows
  <1>4. ChallengesInv'
    BY ChallengesSame DEF MintInsert, DeployInv
  <1>5. \A j \in DKeys : Spent(j)' = Spent(j)
    BY DEF MintInsert, Spent
  <1>6. ASSUME NEW j \in DKeys PROVE KeySound(j)'
    <2>1. CASE j = k
      <3>1. Cardinality(Spent(j)) \in Nat /\ links[j] \in Nat /\ dkey[j].uses = 0
        BY <2>1, SpentFinite DEF MintInsert, DeployInv, DeployTypes, KeySound
      <3>2. links[j] + Cardinality(Spent(j)) <= 0
        BY <3>1 DEF DeployInv, KeySound
      <3>3. dkey'[j].uses = 0 /\ dkey'[j].maxUses = uses /\ links'[j] = links[j]
        BY <2>1 DEF MintInsert, DeployInv, DeployTypes
      <3>4. QED
        BY <3>1, <3>2, <3>3, <1>1, <1>5 DEF KeySound
    <2>2. CASE j # k
      BY <2>2, <1>5, KeyKeeps DEF MintInsert, DeployInv, DeployTypes, KeyRows
    <2>3. QED
      BY <2>1, <2>2
  <1>7. QED
    BY <1>3, <1>4, <1>6 DEF DeployInv

\* A request spends a use: the budget is compared in the same statement.
LEMMA UseKeeps ==
  ASSUME DeployInv, NEW l \in Linkers, ConsumeDeployKeyUse(l)
  PROVE  DeployInv'
  <1> DEFINE k == linking[l].key
  <1>1. k \in DKeys
    BY DEF ConsumeDeployKeyUse, DeployInv, DeployTypes, LinkRequests
  <1>2. DeployTypes'
    <2>1. dkey' \in [DKeys -> KeyRows]
      <3>1. dkey[k] \in KeyRows
        BY <1>1 DEF DeployInv, DeployTypes
      <3>2. [dkey[k] EXCEPT !.uses = @ + 1] \in KeyRows
        BY <3>1 DEF KeyRows
      <3>3. dkey' = [dkey EXCEPT ![k] = [dkey[k] EXCEPT !.uses = @ + 1]]
        BY DEF ConsumeDeployKeyUse
      <3>4. QED
        BY <1>1, <3>2, <3>3 DEF DeployInv, DeployTypes
    <2>2. linking[l] \in [at : {"proved", "fresh", "spent"}, key : DKeys, row : KeyRows,
                          peer : Peers, when : Nat]
      BY DEF ConsumeDeployKeyUse, DeployInv, DeployTypes, LinkRequests
    <2>3. [linking[l] EXCEPT !.at = "spent"] \in LinkRequests
      BY <2>2 DEF LinkRequests
    <2>4. QED
      BY <2>1, <2>3 DEF ConsumeDeployKeyUse, DeployInv, DeployTypes
  <1>3. ChallengesInv'
    BY ChallengesSame DEF ConsumeDeployKeyUse, DeployInv
  <1>4. ASSUME NEW j \in DKeys PROVE KeySound(j)'
    <2>1. CASE j = k
      <3>1. Spent(j)' = Spent(j) \cup {l} /\ l \notin Spent(j)
        BY <2>1 DEF ConsumeDeployKeyUse, DeployInv, DeployTypes, LinkRequests, Spent
      <3>2. IsFiniteSet(Spent(j)) /\ Cardinality(Spent(j)) \in Nat
        BY SpentFinite
      <3>3. Cardinality(Spent(j)') = Cardinality(Spent(j)) + 1
        BY <3>1, <3>2, FS_AddElement
      <3>4. dkey'[j].uses = dkey[j].uses + 1 /\ dkey'[j].maxUses = dkey[j].maxUses
              /\ dkey'[j].state = "active" /\ links'[j] = links[j]
        BY <2>1 DEF ConsumeDeployKeyUse, Spendable, DeployInv, DeployTypes, KeyRows
      <3>5. dkey[j].maxUses = 0 \/ dkey[j].uses < dkey[j].maxUses
        BY <2>1 DEF ConsumeDeployKeyUse, Spendable
      <3>6. dkey[j].uses \in Nat /\ dkey[j].maxUses \in Nat /\ links[j] \in Nat /\ KeySound(j)
        BY DEF DeployInv, DeployTypes, KeyRows
      <3>7. QED
        BY <3>2, <3>3, <3>4, <3>5, <3>6 DEF KeySound
    <2>2. CASE j # k
      <3>1. Spent(j)' \subseteq Spent(j)
        BY <2>2 DEF ConsumeDeployKeyUse, DeployInv, DeployTypes, LinkRequests, Spent
      <3>2. dkey'[j] = dkey[j] /\ links'[j] = links[j]
        BY <2>2 DEF ConsumeDeployKeyUse, DeployInv, DeployTypes
      <3>3. QED
        BY <3>1, <3>2, KeyKeeps DEF DeployInv, DeployTypes, KeyRows
    <2>3. QED
      BY <2>1, <2>2
  <1>5. QED
    BY <1>2, <1>3, <1>4 DEF DeployInv

\* The instance takes the place of the use that was spent.
LEMMA LinkKeeps ==
  ASSUME DeployInv, NEW l \in Linkers, LinkCreate(l)
  PROVE  DeployInv'
  <1> DEFINE k == linking[l].key
             p == linking[l].peer
  <1>1. k \in DKeys /\ p \in Peers
    BY DEF LinkCreate, DeployInv, DeployTypes, LinkRequests
  <1>2. DeployTypes'
    BY <1>1 DEF LinkCreate, DeployInv, DeployTypes, LinkRequests, IdleLink, KeyRows
  <1>3. ChallengesInv'
    BY ChallengesSame DEF LinkCreate, DeployInv
  <1>4. ASSUME NEW j \in DKeys PROVE KeySound(j)'
    <2>1. CASE j = k
      <3>1. Spent(j)' = Spent(j) \ {l} /\ l \in Spent(j)
        BY <2>1 DEF LinkCreate, DeployInv, DeployTypes, IdleLink, Spent
      <3>2. IsFiniteSet(Spent(j)) /\ Cardinality(Spent(j)) \in Nat
        BY SpentFinite
      <3>3. Cardinality(Spent(j)') = Cardinality(Spent(j)) - 1
        BY <3>1, <3>2, FS_RemoveElement
      <3>4. links'[j] \in {links[j], links[j] + 1} /\ links[j] \in Nat
        BY <2>1 DEF LinkCreate, DeployInv, DeployTypes
      <3>5. dkey[j].uses \in Nat /\ KeySound(j) /\ dkey' = dkey
        BY DEF LinkCreate, DeployInv, DeployTypes, KeyRows
      <3>6. QED
        BY <3>2, <3>3, <3>4, <3>5 DEF KeySound
    <2>2. CASE j # k
      <3>1. Spent(j)' \subseteq Spent(j)
        BY DEF LinkCreate, DeployInv, DeployTypes, IdleLink, Spent
      <3>2. dkey'[j] = dkey[j] /\ links'[j] = links[j]
        BY <2>2 DEF LinkCreate, DeployInv, DeployTypes
      <3>3. QED
        BY <3>1, <3>2, KeyKeeps DEF DeployInv, DeployTypes, KeyRows
    <2>3. QED
      BY <2>1, <2>2
  <1>5. QED
    BY <1>2, <1>3, <1>4 DEF DeployInv

LEMMA DeployStep == DeployInv /\ [DeployNext]_deployVars => DeployInv'
  <1> SUFFICES ASSUME DeployInv, [DeployNext]_deployVars PROVE DeployInv'
    OBVIOUS
  <1>0. ASSUME UNCHANGED linkVars, ChallengesInv' PROVE DeployInv'
    BY <1>0, KeysMove DEF linkVars, DeployInv, DeployTypes
  <1>1. CASE UNCHANGED deployVars
    BY <1>0, <1>1, ChallengesSame DEF deployVars, DeployInv
  <1>2. CASE DeployTick
    BY <1>0, <1>2, TickKeeps DEF DeployTick, DeployInv
  <1>3. ASSUME NEW m \in Minters, NEW u \in Accounts, MintCount(m, u) PROVE DeployInv'
    BY <1>3, ChallengesSame, KeysMove DEF MintCount, DeployInv, DeployTypes
  <1>4. ASSUME NEW m \in Minters, MintFails(m) PROVE DeployInv'
    BY <1>4, ChallengesSame, KeysMove DEF MintFails, DeployInv, DeployTypes
  <1>5. ASSUME NEW k \in DKeys, RevokeDeployKey(k) PROVE DeployInv'
    BY <1>5, ChallengesSame, KeysMove DEF RevokeDeployKey, DeployInv, DeployTypes, KeyRows
  <1>6. ASSUME NEW i \in ChallengeIds, NEW p \in Peers, NEW k \in DKeys, LinkChallenge(i, k, p)
        PROVE  DeployInv'
    BY <1>0, <1>6, CreateKeeps DEF LinkChallenge, DeployInv, Audiences
  <1>7. ASSUME NEW i \in ChallengeIds, NEW p \in Peers, NEW l \in Linkers, NEW proof \in BOOLEAN,
               LinkConsume(l, i, p, proof)
        PROVE  DeployInv'
    <2>1. ChallengesInv'
      BY <1>7, ConsumeKeeps DEF LinkConsume, DeployInv, Audiences
    <2>2. now \in Nat
      BY ChallengesAssumption DEF DeployInv, ChallengesInv, ChallengeTypeOK
    <2>3. linking[l] \in [at : {"authorized"}, key : DKeys, row : KeyRows]
      BY <1>7 DEF LinkConsume, DeployInv, DeployTypes, LinkRequests
    <2>4. [at |-> "proved", key |-> linking[l].key, row |-> linking[l].row, peer |-> p, when |-> now]
            \in LinkRequests /\ IdleLink \in LinkRequests
      BY <2>2, <2>3 DEF LinkRequests, IdleLink
    <2>5. PICK r \in LinkRequests : r.at # "spent" /\ linking' = [linking EXCEPT ![l] = r]
      BY <1>7, <2>4 DEF LinkConsume, IdleLink, DeployInv, DeployTypes
    <2>6. QED
      BY <1>7, <2>1, <2>5, RequestMoves DEF LinkConsume
  <1>8. ASSUME NEW i \in ChallengeIds, NEW p \in Peers, NEW a \in CredentialAudiences,
               CredentialChallenge(i, p, a) \/ CredentialConsume(i, p, a)
        PROVE  DeployInv'
    BY <1>0, <1>8, CreateKeeps, ConsumeKeeps
    DEF CredentialChallenge, CredentialConsume, DeployInv, Audiences
  <1>9. ASSUME NEW l \in Linkers, NEW k \in DKeys, LinkAuthorize(l, k) PROVE DeployInv'
    <2>1. [at |-> "authorized", key |-> k, row |-> dkey[k]] \in LinkRequests
      BY DEF LinkRequests, DeployInv, DeployTypes
    <2>2. QED
      BY <1>9, <2>1, ChallengesSame, RequestMoves DEF LinkAuthorize, DeployInv
  <1>10. ASSUME NEW l \in Linkers, LinkLookup(l) PROVE DeployInv'
    <2>1. linking[l] \in [at : {"proved", "fresh", "spent"}, key : DKeys, row : KeyRows,
                          peer : Peers, when : Nat]
      BY <1>10 DEF LinkLookup, DeployInv, DeployTypes, LinkRequests
    <2>2. [linking[l] EXCEPT !.at = "fresh"] \in LinkRequests /\ IdleLink \in LinkRequests
      BY <2>1 DEF LinkRequests, IdleLink
    <2>3. [linking[l] EXCEPT !.at = "fresh"].at # "spent" /\ IdleLink.at # "spent"
      BY <2>1 DEF IdleLink
    <2>4. PICK r \in LinkRequests : r.at # "spent" /\ linking' = [linking EXCEPT ![l] = r]
      BY <1>10, <2>2, <2>3 DEF LinkLookup, DeployInv, DeployTypes
    <2>5. QED
      BY <1>10, <2>4, ChallengesSame, RequestMoves DEF LinkLookup, DeployInv
  <1>11. ASSUME NEW l \in Linkers, LinkFails(l) PROVE DeployInv'
    BY <1>11, ChallengesSame, RequestMoves DEF LinkFails, DeployInv, LinkRequests, IdleLink
  <1>12. ASSUME NEW p \in Peers, DeleteInstance(p) PROVE DeployInv'
    BY <1>12, ChallengesSame, KeysMove DEF DeleteInstance, DeployInv, DeployTypes
  <1>13. ASSUME NEW p \in Peers, NEW u \in Accounts, WalletClaim(p, u) PROVE DeployInv'
    BY <1>13, ChallengesSame, KeysMove DEF WalletClaim, DeployInv, DeployTypes
  <1>14. QED
    BY <1>1, <1>2, <1>3, <1>4, <1>5, <1>6, <1>7, <1>8, <1>9, <1>10, <1>11, <1>12, <1>13,
       MintKeeps, UseKeeps, LinkKeeps DEF DeployNext

\* However many link requests race for the last use of a deploy key or for the
\* same challenge, a key creates no more instances than the uses it has spent,
\* spends no more than its budget, and a challenge lets one request through:
\* uses are spent in the statement that compares the budget, and challenges
\* are consumed under their row lock.
THEOREM GrantsStayBounded == DeploySpec => []GrantsBounded
  <1>1. DeployInv => GrantsBounded
    <2> SUFFICES ASSUME DeployInv PROVE GrantsBounded
      OBVIOUS
    <2>1. ChallengeGrantsOnce
      BY DEF DeployInv, ChallengesInv, UngrantedWhilePending, ChallengeGrantsOnce
    <2>2. ASSUME NEW k \in DKeys
          PROVE  links[k] <= dkey[k].uses /\ (dkey[k].maxUses > 0 => dkey[k].uses <= dkey[k].maxUses)
      BY SpentFinite DEF DeployInv, DeployTypes, KeyRows, KeySound
    <2>3. QED
      BY <2>1, <2>2 DEF GrantsBounded, BudgetKept
  <1>2. QED
    BY <1>1, DeployStarts, DeployStep, PTL DEF DeploySpec

-----------------------------------------------------------------------------
(* Instances.                                                              *)

InstanceRows ==
  [id : Nat \ {0}, account : Providers, wallet : Providers, mode : Modes, rules : AclRules,
   status : {"active", "unavailable", "mismatch"}, observed : Providers \cup {NoProvider}]

Managements == [at : {"check", "pass"}, user : Providers, copy : InstanceRows, verified : BOOLEAN,
                byLink : BOOLEAN]

InstanceRequests ==
  [at : {"idle"}] \cup [at : {"observed", "create"}, user : Providers]
    \cup [at : {"reclaim"}, user : Providers, id : Nat \ {0}]
    \cup [at : {"deleted"}, user : Providers, id : Nat \ {0}, left : AclRules] \cup Managements

InstanceTypes ==
  /\ row \in InstanceRows \cup {NoRow}
  /\ managing \in [Managers -> InstanceRequests]
  /\ claims \in Nat
  /\ linked \in BOOLEAN /\ raced \in BOOLEAN
  /\ failed \in BOOLEAN /\ outlived \in BOOLEAN /\ unverified \in BOOLEAN

\* The owner set mode and rules, unless a reclaim was raced; a row without an
\* observed wallet is one of the link flow, or one whose lookup has failed, or
\* one that a request of the link flow wrote after a reclaim.
RowSound ==
  /\ row.id <= claims
  /\ row # NoRow => modeBy = row.account /\ (rulesBy = row.account \/ raced)
  /\ row # NoRow /\ row.observed = NoProvider => linked \/ failed \/ outlived

\* A request that was let through without a check had read such a row: linked,
\* or, with the id of the row of today, after a failure or such a write.
ManagementSound(m) ==
  /\ m.copy.id <= claims
  /\ m.at = "pass" => IF m.verified THEN m.copy.observed \in Providers
                      ELSE m.byLink \/ (m.copy.id = row.id => failed \/ outlived)

InstanceInv ==
  /\ InstanceTypes
  /\ RowSound
  /\ UncheckedOnlyAfterFailure
  /\ \A h \in Managers : managing[h].at \in {"check", "pass"} => ManagementSound(managing[h])

LEMMA InstanceStarts == InstanceInit => InstanceInv
  <1> SUFFICES ASSUME InstanceInit PROVE InstanceInv
    OBVIOUS
  <1>1. IdleManage \in InstanceRequests /\ IdleManage.at = "idle"
    BY DEF IdleManage, InstanceRequests
  <1>2. InstanceTypes
    BY <1>1 DEF InstanceInit, InstanceTypes
  <1>3. RowSound /\ UncheckedOnlyAfterFailure
    BY DEF InstanceInit, RowSound, UncheckedOnlyAfterFailure, NoRow
  <1>4. QED
    BY <1>1, <1>2, <1>3 DEF InstanceInit, InstanceInv

\* A request moves on, the row stays.
LEMMA RequestGoes ==
  ASSUME InstanceInv, NEW h \in Managers, NEW m \in InstanceRequests,
         managing' = [managing EXCEPT ![h] = m],
         m.at \in {"check", "pass"} => ManagementSound(m),
         UNCHANGED <<row, claims, linked, policyVars, checkVars>>
  PROVE  InstanceInv'
  <1>1. InstanceTypes' /\ RowSound' /\ UncheckedOnlyAfterFailure'
    BY DEF InstanceInv, InstanceTypes, RowSound, UncheckedOnlyAfterFailure, policyVars, checkVars
  <1>2. ASSUME NEW j \in Managers, managing'[j].at \in {"check", "pass"}
        PROVE  ManagementSound(managing[j])'
    BY <1>2 DEF InstanceInv, InstanceTypes, ManagementSound, checkVars
  <1>3. QED
    BY <1>1, <1>2 DEF InstanceInv

\* The requests after one of them has ended: no other has changed, but for what
\* a reclaim finds left.
Quiet == /\ managing' \in [Managers -> InstanceRequests]
         /\ \A j \in Managers : managing'[j].at \in {"check", "pass"} => managing'[j] = managing[j]

LEMMA EndsQuietly ==
  ASSUME InstanceInv, NEW h \in Managers, NEW rules \in AclRules,
         \/ managing' = [managing EXCEPT ![h] = IdleManage]
         \/ managing' = EndedWith(h, rules)
  PROVE  Quiet
  <1>1. IdleManage \in InstanceRequests /\ IdleManage.at \notin {"check", "pass"}
    BY DEF IdleManage, InstanceRequests
  <1>2. managing \in [Managers -> InstanceRequests]
    BY DEF InstanceInv, InstanceTypes
  <1>3. CASE managing' = [managing EXCEPT ![h] = IdleManage]
    BY <1>1, <1>2, <1>3 DEF Quiet
  <1>4. CASE managing' = EndedWith(h, rules)
    <2>1. ASSUME NEW g \in Managers
          PROVE  /\ managing'[g] \in InstanceRequests
                 /\ managing'[g].at \in {"check", "pass"} => managing'[g] = managing[g]
      <3>1. CASE g = h
        BY <1>1, <1>4, <3>1 DEF EndedWith
      <3>2. CASE g # h /\ managing[g].at = "deleted" /\ managing[g].id = row.id
        <4>1. managing'[g] = [managing[g] EXCEPT !.left = rules]
          BY <1>4, <3>2 DEF EndedWith
        <4>2. managing[g] \in [at : {"deleted"}, user : Providers, id : Nat \ {0}, left : AclRules]
          BY <1>2, <3>2 DEF InstanceRequests, Managements
        <4>3. /\ managing'[g] \in [at : {"deleted"}, user : Providers, id : Nat \ {0}, left : AclRules]
              /\ managing'[g].at = "deleted"
          BY <4>1, <4>2
        <4>4. QED
          BY <4>3 DEF InstanceRequests
      <3>3. CASE g # h /\ ~(managing[g].at = "deleted" /\ managing[g].id = row.id)
        <4>1. managing'[g] = managing[g]
          BY <1>4, <3>3 DEF EndedWith
        <4>2. QED
          BY <1>2, <4>1
      <3>4. QED
        BY <3>1, <3>2, <3>3
    <2>2. QED
      BY <1>4, <2>1 DEF Quiet, EndedWith
  <1>5. QED
    BY <1>3, <1>4

\* A request ends that writes the row it read, or nothing.
LEMMA RowWritten ==
  ASSUME InstanceInv, Quiet,
         row' \in InstanceRows \cup {NoRow}, row'.id = row.id, RowSound',
         claims' \in Nat, claims <= claims', linked' \in BOOLEAN, raced' \in BOOLEAN,
         failed' \in BOOLEAN, outlived' \in BOOLEAN, failed => failed', outlived => outlived',
         unverified' \in BOOLEAN, UncheckedOnlyAfterFailure'
  PROVE  InstanceInv'
  <1>2. InstanceTypes'
    BY DEF Quiet, InstanceTypes
  <1>3. ASSUME NEW j \in Managers, managing'[j].at \in {"check", "pass"}
        PROVE  ManagementSound(managing[j])'
    <2>1. managing'[j] = managing[j] /\ managing[j].at \in {"check", "pass"}
      BY <1>3 DEF Quiet
    <2>2. managing[j].copy.id \in Nat /\ claims \in Nat /\ ManagementSound(managing[j])
      BY <2>1 DEF InstanceInv, InstanceTypes, InstanceRequests, Managements, InstanceRows
    <2>3. QED
      BY <2>1, <2>2 DEF ManagementSound
  <1>4. QED
    BY <1>2, <1>3 DEF InstanceInv

\* A row is inserted, with an id nobody has read.
LEMMA RowInserted ==
  ASSUME InstanceInv, NEW u \in Providers, NEW r \in InstanceRows, NEW link \in BOOLEAN,
         NewRow(u, r, link), r.id = claims + 1, r.account = u,
         r.observed = NoProvider => link,
         managing' \in [Managers -> InstanceRequests],
         \A j \in Managers : managing'[j] = managing[j] \/ managing'[j] = IdleManage
  PROVE  InstanceInv'
  <1>1. claims \in Nat /\ claims' = claims + 1
    BY DEF NewRow, InstanceInv, InstanceTypes
  <1>2. InstanceTypes' /\ RowSound' /\ UncheckedOnlyAfterFailure'
    <2>1. /\ row' = r /\ linked' = link /\ modeBy' = u /\ rulesBy' = u /\ raced' = FALSE
          /\ failed' = FALSE /\ outlived' = FALSE /\ unverified' = FALSE
      BY DEF NewRow
    <2>2. InstanceTypes'
      <3>1. claims' \in Nat
        BY <1>1
      <3>2. QED
        BY <2>1, <3>1, Zenon DEF InstanceTypes
    <2>3. RowSound'
      BY <1>1, <2>1 DEF RowSound
    <2>4. QED
      BY <2>1, <2>2, <2>3 DEF UncheckedOnlyAfterFailure
  <1>3. ASSUME NEW j \in Managers, managing'[j].at \in {"check", "pass"}
        PROVE  ManagementSound(managing[j])'
    <2>1. managing'[j] = managing[j] /\ managing[j].at \in {"check", "pass"}
      BY <1>3 DEF IdleManage
    <2>2. managing[j].copy.id \in Nat /\ ManagementSound(managing[j])
      BY <2>1 DEF InstanceInv, InstanceTypes, InstanceRequests, Managements, InstanceRows
    <2>3. managing'[j].copy.id <= claims /\ row'.id = claims + 1 /\ managing'[j].copy.id # row'.id
      BY <1>1, <2>1, <2>2 DEF ManagementSound, NewRow
    <2>4. managing'[j].verified /\ managing'[j].at = "pass" => managing'[j].copy.observed \in Providers
      BY <2>1, <2>2 DEF ManagementSound
    <2>5. QED
      BY <2>1, <2>2, <2>3, <2>4, <1>1 DEF ManagementSound
  <1>4. QED
    BY <1>2, <1>3 DEF InstanceInv

LEMMA ClaimedRowType ==
  ASSUME NEW i \in Nat \ {0}, NEW u \in Providers
  PROVE  /\ ClaimedRow(i, u) \in InstanceRows
         /\ [ClaimedRow(i, u) EXCEPT !.observed = NoProvider] \in InstanceRows
         /\ ClaimedRow(i, u).id = i /\ ClaimedRow(i, u).account = u
         /\ ClaimedRow(i, u).observed = u /\ ClaimedRow(i, u).rules = "none"
         /\ [ClaimedRow(i, u) EXCEPT !.observed = NoProvider].id = i
         /\ [ClaimedRow(i, u) EXCEPT !.observed = NoProvider].account = u
  BY DEF ClaimedRow, InstanceRows, Modes, AclRules

\* A request that manages an instance, and the row it would write.
LEMMA ManagementType ==
  ASSUME InstanceInv, NEW h \in Managers, managing[h].at \in {"check", "pass"}
  PROVE  managing[h] \in Managements /\ ManagementSound(managing[h])
  BY DEF InstanceInv, InstanceTypes, InstanceRequests

LEMMA MineType ==
  ASSUME InstanceInv, NEW h \in Managers, managing[h].at \in {"check", "pass"}, Mine(h)
  PROVE  row \in InstanceRows /\ row # NoRow
  BY ManagementType DEF Mine, InstanceInv, InstanceTypes, Managements, InstanceRows, NoRow

\* Refusing lookups: the wallet that was seen is written back.
LEMMA RefusalKeeps ==
  ASSUME InstanceInv, NEW h \in Managers, managing[h].at = "check",
         NEW status \in {"unavailable", "mismatch"}, NEW w \in Providers \cup {NoProvider},
         OwnershipRefused(h, status, w)
  PROVE  InstanceInv'
  <1>1. managing[h] \in Managements
    BY ManagementType
  <1>2. row' \in InstanceRows \cup {NoRow} /\ row'.id = row.id /\ (row' # NoRow => row # NoRow)
          /\ row'.account = row.account
    <2>1. CASE Mine(h)
      <3>1. row \in InstanceRows
        BY <2>1, MineType
      <3>2. row' = [row EXCEPT !.mode = managing[h].copy.mode, !.status = status, !.observed = w]
        BY <2>1 DEF OwnershipRefused, UpdateMetadata
      <3>3. QED
        BY <1>1, <2>1, <3>1, <3>2, MineType DEF Managements, InstanceRows
    <2>2. CASE ~Mine(h)
      BY <2>2 DEF OwnershipRefused, UpdateMetadata, InstanceInv, InstanceTypes
    <2>3. QED
      BY <2>1, <2>2
  <1>3. /\ UNCHANGED <<claims, linked, modeBy, rulesBy, raced, outlived, unverified>>
        /\ failed' = (failed \/ (w = NoProvider /\ Mine(h)))
    BY DEF OwnershipRefused, policyVars
  <1>4. row' # NoRow /\ row'.observed = NoProvider => linked' \/ failed' \/ outlived'
    <2>1. CASE Mine(h)
      <3>1. row \in InstanceRows
        BY <2>1, MineType
      <3>2. row'.observed = w
        BY <2>1, <3>1 DEF OwnershipRefused, UpdateMetadata, InstanceRows
      <3>3. QED
        BY <1>3, <2>1, <3>2
    <2>2. CASE ~Mine(h)
      <3>1. row' = row /\ (row # NoRow /\ row.observed = NoProvider => linked \/ failed \/ outlived)
        BY <2>2 DEF OwnershipRefused, UpdateMetadata, InstanceInv, RowSound
      <3>2. QED
        BY <1>3, <3>1, Zenon
    <2>3. QED
      BY <2>1, <2>2
  <1>5. RowSound'
    BY <1>2, <1>3, <1>4 DEF RowSound, InstanceInv
  <1>6. /\ failed' \in BOOLEAN /\ (failed => failed') /\ unverified' \in BOOLEAN
        /\ outlived' \in BOOLEAN /\ (outlived => outlived')
        /\ linked' \in BOOLEAN /\ raced' \in BOOLEAN /\ UncheckedOnlyAfterFailure'
    BY <1>3 DEF InstanceInv, InstanceTypes, UncheckedOnlyAfterFailure
  <1>7. claims' \in Nat /\ claims <= claims' /\ Quiet
    <2>1. managing' = [managing EXCEPT ![h] = IdleManage]
      BY DEF OwnershipRefused
    <2>2. "none" \in AclRules
      BY DEF AclRules
    <2>3. Quiet
      BY <2>1, <2>2, EndsQuietly
    <2>4. QED
      BY <1>3, <2>3 DEF InstanceInv, InstanceTypes
  <1>8. QED
    BY <1>2, <1>3, <1>5, <1>6, <1>7, RowWritten, Zenon

\* PATCH and PUT acl: the row is written by its owner.
LEMMA ManageKeeps ==
  ASSUME InstanceInv, NEW h \in Managers, managing[h].at = "pass", Mine(h),
         NEW mode \in Modes, NEW rules \in AclRules, Wrote(h), Quiet,
         row' = [row EXCEPT !.mode = mode, !.rules = rules,
                            !.status = managing[h].copy.status,
                            !.observed = managing[h].copy.observed],
         raced' \in BOOLEAN, rulesBy' = row.account \/ raced'
  PROVE  InstanceInv'
  <1>1. managing[h] \in Managements /\ ManagementSound(managing[h])
    BY ManagementType
  <1> DEFINE unchecked == ~linked /\ ~managing[h].verified
  <1>2. /\ modeBy' = managing[h].user
        /\ outlived' = (outlived \/ (unchecked /\ managing[h].byLink))
        /\ unverified' = (unverified \/ unchecked)
        /\ claims' = claims /\ linked' = linked /\ failed' = failed
    BY DEF Wrote
  <1>3. row \in InstanceRows /\ row # NoRow
    BY MineType
  <1>4. /\ row' \in InstanceRows /\ row'.id = row.id /\ row'.account = row.account
        /\ row'.observed = managing[h].copy.observed
    BY <1>1, <1>3 DEF Managements, InstanceRows
  <1>5. unchecked => failed' \/ outlived'
    BY <1>1, <1>2 DEF ManagementSound, Mine
  <1>6. managing[h].verified => row'.observed # NoProvider
    BY <1>1, <1>4, InstancesAssumption DEF ManagementSound
  <1>7. row'.id <= claims' /\ modeBy' = row'.account
    BY <1>2, <1>4 DEF InstanceInv, RowSound, Mine
  <1>8. RowSound'
    BY <1>2, <1>4, <1>5, <1>6, <1>7 DEF RowSound
  <1>9. /\ linked' \in BOOLEAN /\ failed' \in BOOLEAN /\ outlived' \in BOOLEAN /\ unverified' \in BOOLEAN
        /\ (failed => failed') /\ (outlived => outlived')
    BY <1>2 DEF InstanceInv, InstanceTypes
  <1>10. UncheckedOnlyAfterFailure'
    BY <1>2, <1>5 DEF InstanceInv, UncheckedOnlyAfterFailure
  <1>11. claims' \in Nat /\ claims <= claims' /\ row' \in InstanceRows \cup {NoRow}
    BY <1>2, <1>4 DEF InstanceInv, InstanceTypes
  <1>12. QED
    BY <1>4, <1>8, <1>9, <1>10, <1>11, RowWritten, Zenon

\* The row is gone or of somebody else: nothing is written.
LEMMA NothingWritten ==
  ASSUME InstanceInv, NEW h \in Managers, ~Mine(h), Wrote(h),
         managing' = [managing EXCEPT ![h] = IdleManage], UNCHANGED <<row, rulesBy, raced>>
  PROVE  InstanceInv'
  <1>1. UNCHANGED <<claims, linked, modeBy, outlived, unverified, failed>>
    BY DEF Wrote, InstanceInv, InstanceTypes
  <1>2. IdleManage \in InstanceRequests /\ IdleManage.at \notin {"check", "pass"}
    BY DEF IdleManage, InstanceRequests
  <1>3. UNCHANGED <<row, claims, linked, policyVars, checkVars>>
    BY <1>1 DEF policyVars, checkVars
  <1>4. QED
    BY <1>2, <1>3, RequestGoes

LEMMA ReclaimKeeps ==
  ASSUME InstanceInv, NEW h \in Managers, Reclaim(h)
  PROVE  InstanceInv'
  <1> DEFINE u == managing[h].user
             left == managing[h].left
  <1>1. u \in Providers /\ managing[h].id \in Nat \ {0} /\ row.id = managing[h].id /\ left \in AclRules
    BY DEF Reclaim, InstanceInv, InstanceTypes, InstanceRequests, Managements
  <1>2. row' = [ClaimedRow(row.id, u) EXCEPT !.rules = left]
    BY DEF Reclaim, ReclaimedRow
  <1>3. /\ row' \in InstanceRows /\ row'.id = row.id /\ row'.account = u /\ row'.observed = u
        /\ row'.mode = "restricted"
    BY <1>1, <1>2 DEF ClaimedRow, InstanceRows, Modes, AclRules
  <1>4. /\ modeBy' = u /\ rulesBy' = (IF left = "none" THEN u ELSE rulesBy) /\ raced' = (left = "some")
        /\ linked' = FALSE /\ UNCHANGED <<failed, outlived, unverified>>
    BY <1>2, <1>3 DEF Reclaim, ReclaimedRow, checkVars
  <1>5. rulesBy' = u \/ raced'
    BY <1>1, <1>4 DEF AclRules
  <1>6. claims' \in Nat /\ claims <= claims' /\ row'.id <= claims'
    BY <1>1, <1>3 DEF Reclaim, InstanceInv, InstanceTypes, RowSound
  <1>7. RowSound'
    BY <1>1, <1>3, <1>4, <1>5, <1>6, InstancesAssumption DEF RowSound
  <1>8. Quiet
    <2>1. managing' = EndedWith(h, "none") \/ managing' = [managing EXCEPT ![h] = IdleManage]
      BY DEF Reclaim
    <2>2. "none" \in AclRules
      BY DEF AclRules
    <2>3. QED
      BY <2>1, <2>2, EndsQuietly
  <1>9. /\ failed' \in BOOLEAN /\ outlived' \in BOOLEAN /\ unverified' \in BOOLEAN
        /\ (failed => failed') /\ (outlived => outlived') /\ UncheckedOnlyAfterFailure'
    BY <1>4 DEF InstanceInv, InstanceTypes, UncheckedOnlyAfterFailure
  <1>10. linked' \in BOOLEAN /\ raced' \in BOOLEAN /\ row' \in InstanceRows \cup {NoRow}
    BY <1>3, <1>4
  <1>11. QED
    BY <1>3, <1>6, <1>7, <1>8, <1>9, <1>10, RowWritten, Zenon

LEMMA InstanceStep == InstanceInv /\ [InstanceNext]_instanceVars => InstanceInv'
  <1> SUFFICES ASSUME InstanceInv, [InstanceNext]_instanceVars PROVE InstanceInv'
    OBVIOUS
  <1>0. IdleManage \in InstanceRequests /\ IdleManage.at \notin {"check", "pass"}
    BY DEF IdleManage, InstanceRequests
  <1>1. CASE UNCHANGED instanceVars
    BY <1>1 DEF instanceVars, policyVars, checkVars, InstanceInv, InstanceTypes, RowSound,
                UncheckedOnlyAfterFailure, ManagementSound
  <1>2. ASSUME NEW u \in Providers, LinkInstance(u) PROVE InstanceInv'
    <2>1. claims + 1 \in Nat \ {0}
      BY DEF InstanceInv, InstanceTypes
    <2>2. managing' \in [Managers -> InstanceRequests] /\ managing' = managing
      BY <1>2 DEF LinkInstance, InstanceInv, InstanceTypes
    <2>3. NewRow(u, [ClaimedRow(claims + 1, u) EXCEPT !.observed = NoProvider], TRUE)
      BY <1>2 DEF LinkInstance
    <2>4. QED
      BY <2>1, <2>2, <2>3, ClaimedRowType, RowInserted
  <1>3. ASSUME NEW u \in Providers, DeleteRow(u) PROVE InstanceInv'
    <2>1. /\ row' = NoRow
          /\ UNCHANGED <<managing, claims, linked, raced, failed, outlived, unverified>>
      BY <1>3 DEF DeleteRow, policyVars, checkVars
    <2>2. InstanceTypes' /\ UncheckedOnlyAfterFailure'
      BY <2>1 DEF InstanceInv, InstanceTypes, UncheckedOnlyAfterFailure
    <2>3. RowSound'
      BY <2>1 DEF InstanceInv, InstanceTypes, RowSound, NoRow
    <2>4. ASSUME NEW j \in Managers, managing'[j].at \in {"check", "pass"}
          PROVE  ManagementSound(managing[j])'
      <3>1. managing[j] \in Managements /\ ManagementSound(managing[j])
        BY <2>1, <2>4, ManagementType
      <3>2. managing[j].copy.id # row'.id
        BY <2>1, <3>1 DEF Managements, InstanceRows, NoRow
      <3>3. QED
        BY <2>1, <3>1, <3>2 DEF ManagementSound
    <2>5. QED
      BY <2>2, <2>3, <2>4 DEF InstanceInv
  <1>4. ASSUME NEW u \in Providers, NEW h \in Managers, ClaimLookup(h, u) PROVE InstanceInv'
    <2>1. [at |-> "observed", user |-> u] \in InstanceRequests
      BY DEF InstanceRequests
    <2>2. QED
      BY <1>4, <2>1, RequestGoes DEF ClaimLookup
  <1>5. ASSUME NEW u \in Providers, NEW h \in Managers, ManageRead(h, u) PROVE InstanceInv'
    <2> DEFINE m == [at |-> IF row.observed = NoProvider THEN "pass" ELSE "check",
                     user |-> u, copy |-> row, verified |-> FALSE, byLink |-> linked]
    <2>1. row \in InstanceRows /\ row # NoRow
      BY <1>5, InstancesAssumption DEF ManageRead, InstanceInv, InstanceTypes, NoRow, InstanceRows
    <2>2. m \in InstanceRequests
      BY <2>1 DEF InstanceRequests, Managements, InstanceInv, InstanceTypes
    <2>3. ManagementSound(m)
      BY <2>1 DEF ManagementSound, InstanceInv, RowSound
    <2>4. QED
      BY <1>5, <2>2, <2>3, RequestGoes DEF ManageRead
  <1>6. ASSUME NEW u \in Providers, NEW h \in Managers, LookupMismatch(h, u) PROVE InstanceInv'
    BY <1>6, RefusalKeeps DEF LookupMismatch
  <1>7. ASSUME NEW h \in Managers, ClaimRead(h) PROVE InstanceInv'
    <2>1. managing[h].user \in Providers
      BY <1>7 DEF ClaimRead, InstanceInv, InstanceTypes, InstanceRequests, Managements
    <2>2. [at |-> "create", user |-> managing[h].user] \in InstanceRequests
      BY <2>1 DEF InstanceRequests
    <2>3. row # NoRow => [at |-> "reclaim", user |-> managing[h].user, id |-> row.id] \in InstanceRequests
      BY <2>1 DEF InstanceRequests, InstanceInv, InstanceTypes, InstanceRows
    <2>4. PICK m \in InstanceRequests : /\ managing' = [managing EXCEPT ![h] = m]
                                        /\ m.at \notin {"check", "pass"}
      BY <1>0, <1>7, <2>2, <2>3 DEF ClaimRead
    <2>5. QED
      BY <1>7, <2>4, RequestGoes DEF ClaimRead
  <1>8. ASSUME NEW h \in Managers, ClaimCreate(h) PROVE InstanceInv'
    <2>1. managing[h].user \in Providers /\ claims + 1 \in Nat \ {0}
      BY <1>8 DEF ClaimCreate, InstanceInv, InstanceTypes, InstanceRequests, Managements
    <2>2. managing' = [managing EXCEPT ![h] = IdleManage]
      BY <1>8 DEF ClaimCreate
    <2>3. managing' \in [Managers -> InstanceRequests]
      BY <1>0, <2>2 DEF InstanceInv, InstanceTypes
    <2>4. \A j \in Managers : managing'[j] = managing[j] \/ managing'[j] = IdleManage
      BY <2>2 DEF InstanceInv, InstanceTypes
    <2>5. CASE row = NoRow
      <3>1. NewRow(managing[h].user, ClaimedRow(claims + 1, managing[h].user), FALSE)
        BY <1>8, <2>5 DEF ClaimCreate
      <3>2. ClaimedRow(claims + 1, managing[h].user).observed # NoProvider
        BY <2>1, InstancesAssumption DEF ClaimedRow
      <3>3. QED
        BY <2>1, <2>3, <2>4, <3>1, <3>2, ClaimedRowType, RowInserted
    <2>6. CASE row # NoRow
      BY <1>0, <1>8, <2>2, <2>6, RequestGoes DEF ClaimCreate
    <2>7. QED
      BY <2>5, <2>6
  <1>9. ASSUME NEW h \in Managers, LookupError(h) PROVE InstanceInv'
    BY <1>9, RefusalKeeps DEF LookupError
  <1>10. ASSUME NEW h \in Managers, LookupStale(h) PROVE InstanceInv'
    BY <1>10, RefusalKeeps, ManagementType DEF LookupStale, Managements, InstanceRows
  <1>11. ASSUME NEW h \in Managers, LookupMatches(h) PROVE InstanceInv'
    <2> DEFINE c == [managing[h].copy EXCEPT !.status = "active", !.observed = managing[h].copy.wallet]
               m == [at |-> "pass", user |-> managing[h].user, copy |-> c, verified |-> TRUE,
                     byLink |-> managing[h].byLink]
    <2>1. managing[h] \in Managements /\ ManagementSound(managing[h])
      BY <1>11, ManagementType DEF LookupMatches
    <2>2. managing' = [managing EXCEPT ![h] = m]
      BY <1>11 DEF LookupMatches
    <2>3. m \in InstanceRequests
      BY <2>1 DEF InstanceRequests, Managements, InstanceRows
    <2>4. ManagementSound(m)
      BY <2>1 DEF ManagementSound, Managements, InstanceRows
    <2>5. QED
      BY <1>11, <2>2, <2>3, <2>4, RequestGoes DEF LookupMatches
  <1>12. ASSUME NEW h \in Managers, NEW mode \in Modes, Patch(h, mode) PROVE InstanceInv'
    <2>1. /\ managing[h].at = "pass" /\ Wrote(h) /\ UNCHANGED <<rulesBy, raced>>
          /\ managing' = [managing EXCEPT ![h] = IdleManage]
      BY <1>12 DEF Patch
    <2>2. CASE Mine(h)
      <3>1. row \in InstanceRows /\ row # NoRow
        BY <2>1, <2>2, MineType
      <3>2. row' = [row EXCEPT !.mode = mode, !.status = managing[h].copy.status,
                               !.observed = managing[h].copy.observed]
        BY <1>12, <2>2 DEF Patch, UpdateMetadata
      <3>3. row' = [row EXCEPT !.mode = mode, !.rules = row.rules,
                               !.status = managing[h].copy.status,
                               !.observed = managing[h].copy.observed]
        BY <3>1, <3>2 DEF InstanceRows
      <3>4. row.rules \in AclRules
        BY <3>1 DEF InstanceRows
      <3>5. raced' \in BOOLEAN /\ (rulesBy' = row.account \/ raced')
        BY <2>1, <3>1 DEF InstanceInv, InstanceTypes, RowSound
      <3>6. Quiet
        BY <2>1, <3>4, EndsQuietly
      <3>7. QED
        BY <2>1, <2>2, <3>3, <3>4, <3>5, <3>6, ManageKeeps
    <2>3. CASE ~Mine(h)
      <3>1. row' = row
        BY <1>12, <2>3 DEF Patch, UpdateMetadata
      <3>2. QED
        BY <2>1, <2>3, <3>1, NothingWritten
    <2>4. QED
      BY <2>2, <2>3
  <1>13. ASSUME NEW h \in Managers, PatchLabel(h) PROVE InstanceInv'
    BY <1>12, <1>13, ManagementType DEF PatchLabel, Managements, InstanceRows
  <1>14. ASSUME NEW h \in Managers, NEW mode \in Modes, NEW rules \in AclRules,
                ReplaceACL(h, mode, rules)
         PROVE  InstanceInv'
    <2>1. managing[h].at = "pass" /\ Wrote(h)
      BY <1>14 DEF ReplaceACL
    <2>2. CASE Mine(h)
      <3>1. /\ row' = [row EXCEPT !.mode = mode, !.rules = rules,
                                  !.status = managing[h].copy.status,
                                  !.observed = managing[h].copy.observed]
            /\ rulesBy' = managing[h].user /\ raced' = FALSE
            /\ managing' = EndedWith(h, rules)
        BY <1>14, <2>2 DEF ReplaceACL
      <3>2. raced' \in BOOLEAN /\ rulesBy' = row.account
        BY <2>2, <3>1 DEF Mine
      <3>3. Quiet
        BY <3>1, EndsQuietly
      <3>4. QED
        BY <2>1, <2>2, <3>1, <3>2, <3>3, ManageKeeps
    <2>3. CASE ~Mine(h)
      <3>1. UNCHANGED <<row, rulesBy, raced>> /\ managing' = [managing EXCEPT ![h] = IdleManage]
        BY <1>14, <2>3 DEF ReplaceACL
      <3>2. QED
        BY <2>1, <2>3, <3>1, NothingWritten
    <2>4. QED
      BY <2>2, <2>3
  <1>15. ASSUME NEW h \in Managers, ManageFails(h) PROVE InstanceInv'
    BY <1>0, <1>15, RequestGoes DEF ManageFails
  <1>16. ASSUME NEW h \in Managers, ReclaimDelete(h) PROVE InstanceInv'
    <2> DEFINE m == [at |-> "deleted", user |-> managing[h].user, id |-> managing[h].id, left |-> "none"]
    <2>1. managing[h].user \in Providers /\ managing[h].id \in Nat \ {0}
      BY <1>16 DEF ReclaimDelete, InstanceInv, InstanceTypes, InstanceRequests, Managements
    <2>2. m \in InstanceRequests /\ m.at \notin {"check", "pass"}
      BY <2>1 DEF InstanceRequests, AclRules
    <2>3. /\ managing' = [managing EXCEPT ![h] = m]
          /\ UNCHANGED <<row, claims, linked, policyVars, checkVars>>
      BY <1>16 DEF ReclaimDelete
    <2> HIDE DEF m
    <2>4. QED
      BY <2>2, <2>3, RequestGoes
  <1>17. QED
    BY <1>1, <1>2, <1>3, <1>4, <1>5, <1>6, <1>7, <1>8, <1>9, <1>10, <1>11, <1>12, <1>13, <1>14,
       <1>15, <1>16, ReclaimKeeps DEF InstanceNext

\* Whatever requests of former owners are still in flight, and however many:
\* the mode and the rules of an instance were set by the account that owns it
\* now, but for rules that were committed between the two statements of the
\* reclaim that made it the owner; and a claimed instance is changed without a
\* mesh check only once a lookup of it has failed, or once a request that had
\* read it while it was linked has written it after reclaims.
THEOREM OwnersStayInCharge == InstanceSpec => []OwnerInCharge
  <1>1. InstanceInv => OwnerInCharge
    BY DEF InstanceInv, RowSound, OwnerInCharge, PolicyOfOwner
  <1>2. QED
    BY <1>1, InstanceStarts, InstanceStep, PTL DEF InstanceSpec

-----------------------------------------------------------------------------
(* Regions.                                                                *)

MemberStatuses == {"active", "suspended", "revoked"}
MemberRows ==
  [region : RegionIds, role : Roles, status : MemberStatuses, expires : Nat, revision : Nat]
InviteRows == [ticket : Nat \ {0}, role : Roles, expires : Nat]
PatchRequests == [region : RegionIds, role : Roles, status : MemberStatuses, expires : Nat]
AcceptRequests == [region : RegionIds, ticket : Nat \ {0}, at : Nat]
ReadRequests ==
  [region : RegionIds, role : Roles, at : {"read"}, when : Nat, revision : Nat, writes : Nat, lives : Nat]
IssueRequests ==
  [region : RegionIds, role : Roles, at : {"open"}]
    \cup [region : RegionIds, role : Roles, at : {"proved"}, when : Nat] \cup ReadRequests
Credentials ==
  [role : Roles, region : RegionIds, revision : Nat, expires : Nat, writes : Nat, lives : Nat]

RegionTypes ==
  /\ region \in [RegionIds -> {"absent", "active", "disabled"}]
  /\ invite \in [RegionIds -> InviteRows \cup {NoInvite}]
  /\ member \in MemberRows \cup {NoMember}
  /\ binding \in RegionIds \cup {NoRegion}
  /\ patching \in PatchRequests \cup {NoRequest}
  /\ accepting \in AcceptRequests \cup {NoRequest}
  /\ issuing \in [ChallengeIds -> IssueRequests \cup {NoRequest}]
  /\ credential \subseteq Credentials
  /\ tickets \in Nat /\ writes \in Nat /\ lives \in Nat /\ lateness \in Int

\* What was read of a membership: of a former one, of an earlier revision, or
\* of the revision of today, which nobody has written since.
Stamped(r) ==
  /\ r.lives <= lives
  /\ r.lives = lives => /\ member # NoMember
                        /\ r.revision <= member.revision
                        /\ r.revision = member.revision => r.writes = writes

Stamps ==
  /\ \A c \in credential : Stamped(c)
  /\ \A i \in ChallengeIds : issuing[i] \in ReadRequests => Stamped(issuing[i])

\* An acceptance in flight holds an observation that is still fresh.
AcceptsFresh == accepting # NoRequest => Fresh(accepting.at)

RegionInv ==
  /\ ChallengesInv /\ RegionTypes
  /\ Stamps /\ BindingsGoverned
  /\ AcceptsFresh /\ AcceptedInTime

LEMMA RegionStarts == RegionInit => RegionInv
  <1> SUFFICES ASSUME RegionInit PROVE RegionInv
    OBVIOUS
  <1>1. ChallengesInv
    BY ChallengesInit DEF RegionInit
  <1>2. RegionTypes
    BY DEF RegionInit, RegionTypes
  <1>3. NoRequest \notin ReadRequests
    BY RegionsAssumption DEF NoRequest, ReadRequests
  <1>4. Stamps /\ BindingsGoverned
    BY <1>3 DEF RegionInit, Stamps, BindingsGoverned
  <1>5. AcceptsFresh /\ AcceptedInTime
    BY RegionsAssumption DEF RegionInit, AcceptsFresh, AcceptedInTime
  <1>6. QED
    BY <1>1, <1>2, <1>4, <1>5 DEF RegionInv

\* A step that leaves the membership and what was read of it alone.
LEMMA MembershipStays ==
  ASSUME RegionInv, ChallengesInv', RegionTypes', AcceptsFresh',
         UNCHANGED <<member, binding, issuing, credential, writes, lives, lateness>>
  PROVE  RegionInv'
  <1>1. Stamps'
    BY DEF RegionInv, Stamps, Stamped
  <1>2. BindingsGoverned' /\ AcceptedInTime'
    BY DEF RegionInv, BindingsGoverned, AcceptedInTime
  <1>3. QED
    BY <1>1, <1>2 DEF RegionInv

\* A step of a credential request.
LEMMA IssueMoves ==
  ASSUME RegionInv, ChallengesInv', NEW i \in ChallengeIds,
         NEW r \in IssueRequests \cup {NoRequest}, issuing' = [issuing EXCEPT ![i] = r],
         r \in ReadRequests => Stamped(r),
         UNCHANGED <<now, region, invite, member, binding, patching, accepting,
                     tickets, writes, lives, lateness>>,
         credential' \subseteq Credentials,
         \A c \in credential' : c \in credential \/ Stamped(c)
  PROVE  RegionInv'
  <1>1. RegionTypes'
    BY DEF RegionInv, RegionTypes
  <1>2. ASSUME NEW c \in credential' PROVE Stamped(c)'
    BY <1>2 DEF RegionInv, Stamps, Stamped
  <1>3. ASSUME NEW j \in ChallengeIds, issuing'[j] \in ReadRequests PROVE Stamped(issuing[j])'
    BY <1>3 DEF RegionInv, RegionTypes, Stamps, Stamped
  <1>4. BindingsGoverned' /\ AcceptsFresh' /\ AcceptedInTime'
    BY DEF RegionInv, BindingsGoverned, AcceptsFresh, Fresh, AcceptedInTime
  <1>5. QED
    BY <1>1, <1>2, <1>3, <1>4 DEF RegionInv, Stamps

\* What was read of the membership ages with every write of it.
LEMMA StampsAge ==
  ASSUME RegionInv, UNCHANGED <<issuing, credential>>,
         \/ /\ lives' = lives /\ member' # NoMember
            /\ member # NoMember =>
                 member.revision \in Nat /\ member'.revision = member.revision + 1
         \/ lives' = lives + 1
  PROVE  Stamps'
  <1>1. ASSUME NEW r, Stamped(r), r.lives \in Nat, r.revision \in Nat PROVE Stamped(r)'
    BY <1>1 DEF Stamped, RegionInv, RegionTypes
  <1>2. ASSUME NEW c \in credential PROVE Stamped(c)'
    BY <1>1 DEF RegionInv, RegionTypes, Credentials, Stamps
  <1>3. ASSUME NEW i \in ChallengeIds, issuing[i] \in ReadRequests PROVE Stamped(issuing[i])'
    BY <1>1, <1>3 DEF RegionInv, RegionTypes, ReadRequests, Stamps, Stamped
  <1>4. QED
    BY <1>2, <1>3 DEF Stamps

\* An acceptance with an observation that is fresh.
LEMMA AcceptKeeps ==
  ASSUME RegionInv, NEW g \in RegionIds, NEW t \in Nat \ {0}, NEW at \in Nat, Fresh(at),
         AcceptInvitation(g, t, at), accepting' \in {accepting, NoRequest},
         UNCHANGED <<challengeVars, region, binding, patching, issuing, credential, tickets, lives>>
  PROVE  RegionInv'
  <1>1. invite[g] \in InviteRows
    BY DEF AcceptInvitation, RegionInv, RegionTypes, NoInvite
  <1>2. Forever \in Nat
    BY ChallengesAssumption DEF Forever
  <1>3. member' = [region |-> g, role |-> invite[g].role, status |-> "active",
                   expires |-> IF member = NoMember THEN Forever ELSE member.expires,
                   revision |-> IF member = NoMember THEN 1 ELSE NextRevision]
    BY DEF AcceptInvitation
  <1>4. member' \in MemberRows /\ member'.region = g
    BY <1>1, <1>2, <1>3 DEF RegionInv, RegionTypes, MemberRows, InviteRows, MemberStatuses, NextRevision
  <1>5. member' # NoMember
    BY <1>4, RegionsAssumption DEF NoMember
  <1>6. member # NoMember => member.revision \in Nat /\ member'.revision = member.revision + 1
    BY <1>3 DEF RegionInv, RegionTypes, MemberRows, NextRevision
  <1>7. Stamps'
    BY <1>5, <1>6, StampsAge
  <1>8. BindingsGoverned'
    BY <1>4 DEF AcceptInvitation, Migratable, BindingsGoverned
  <1>9. /\ now \in Nat /\ invite[g].expires \in Nat /\ at <= invite[g].expires
        /\ lateness' = IF now - invite[g].expires > lateness THEN now - invite[g].expires ELSE lateness
        /\ lateness \in Int /\ writes' \in Nat /\ invite' \in [RegionIds -> InviteRows \cup {NoInvite}]
    BY <1>1, ChallengesAssumption
    DEF AcceptInvitation, RegionInv, RegionTypes, InviteRows, ChallengesInv, ChallengeTypeOK
  <1>10. lateness' \in Int /\ AcceptedInTime'
    BY <1>9, RegionsAssumption DEF Fresh, RegionInv, AcceptedInTime
  <1>11. RegionTypes'
    BY <1>4, <1>9, <1>10 DEF RegionInv, RegionTypes
  <1>12. AcceptsFresh'
    BY DEF RegionInv, AcceptsFresh, Fresh, challengeVars
  <1>13. ChallengesInv'
    BY ChallengesSame DEF RegionInv
  <1>14. QED
    BY <1>7, <1>8, <1>10, <1>11, <1>12, <1>13 DEF RegionInv

\* A PATCH overwrites the membership, whatever changed since it was read.
LEMMA PatchKeeps ==
  ASSUME RegionInv, PatchWrite
  PROVE  RegionInv'
  <1>1. patching \in PatchRequests
    BY DEF PatchWrite, RegionInv, RegionTypes
  <1>2. member \in MemberRows
    BY <1>1, RegionsAssumption DEF PatchWrite, RegionInv, RegionTypes, PatchRequests, NoMember
  <1>3. member' \in MemberRows /\ member'.region = member.region
          /\ member'.revision = member.revision + 1 /\ member.revision \in Nat
    <2> DEFINE n == NextRevision
    <2>1. n \in Nat /\ n = member.revision + 1 /\ member.revision \in Nat
      BY <1>2 DEF NextRevision, MemberRows
    <2>2. /\ patching.role \in Roles /\ patching.status \in MemberStatuses
          /\ patching.expires \in Nat
      BY <1>1 DEF PatchRequests
    <2>3. member' = [member EXCEPT !.role = patching.role, !.status = patching.status,
                                   !.expires = patching.expires, !.revision = n]
      BY DEF PatchWrite
    <2> HIDE DEF n
    <2>4. member' \in MemberRows
      BY <1>2, <2>1, <2>2, <2>3 DEF MemberRows
    <2>5. member'.region = member.region /\ member'.revision = n
      BY <1>2, <2>3 DEF MemberRows
    <2>6. QED
      BY <2>1, <2>4, <2>5
  <1>4. member' # NoMember
    BY <1>3, RegionsAssumption DEF NoMember, MemberRows
  <1>5. Stamps'
    BY <1>3, <1>4, StampsAge DEF PatchWrite
  <1>6. BindingsGoverned' /\ AcceptedInTime' /\ AcceptsFresh'
    BY <1>3 DEF PatchWrite, RegionInv, BindingsGoverned, AcceptedInTime, AcceptsFresh, Fresh,
                challengeVars
  <1>7. RegionTypes'
    BY <1>3 DEF PatchWrite, RegionInv, RegionTypes
  <1>8. ChallengesInv'
    BY ChallengesSame DEF RegionInv, PatchWrite
  <1>9. QED
    BY <1>5, <1>6, <1>7, <1>8 DEF RegionInv

LEMMA ReleaseKeeps ==
  ASSUME RegionInv, Release
  PROVE  RegionInv'
  <1>1. Stamps'
    BY StampsAge DEF Release
  <1>2. BindingsGoverned' /\ AcceptedInTime' /\ AcceptsFresh'
    BY DEF Release, RegionInv, BindingsGoverned, AcceptedInTime, AcceptsFresh, Fresh, challengeVars
  <1>3. RegionTypes'
    BY DEF Release, RegionInv, RegionTypes
  <1>4. ChallengesInv'
    BY ChallengesSame DEF RegionInv, Release
  <1>5. QED
    BY <1>1, <1>2, <1>3, <1>4 DEF RegionInv

LEMMA RegionStep == RegionInv /\ [RegionNext]_trustVars => RegionInv'
  <1> SUFFICES ASSUME RegionInv, [RegionNext]_trustVars PROVE RegionInv'
    OBVIOUS
  <1>0. /\ now \in Nat /\ NoRequest \notin ReadRequests
        /\ Observation \subseteq Nat /\ \A at \in Observation : Fresh(at)
    BY ChallengesAssumption, RegionsAssumption
    DEF RegionInv, ChallengesInv, ChallengeTypeOK, Observation, NoRequest, ReadRequests
  <1>1. CASE UNCHANGED trustVars
    <2>1. UNCHANGED challengeVars /\ UNCHANGED regionVars
      BY <1>1 DEF trustVars
    <2>2. RegionTypes' /\ AcceptsFresh'
      BY <2>1 DEF regionVars, challengeVars, RegionInv, RegionTypes, AcceptsFresh, Fresh
    <2>3. QED
      BY <2>1, <2>2, ChallengesSame, MembershipStays DEF regionVars, RegionInv
  <1>2. CASE RegionTick
    <2>1. ChallengesInv'
      BY <1>2, TickKeeps DEF RegionTick, RegionInv
    <2>2. RegionTypes' /\ AcceptsFresh'
      BY <1>2 DEF RegionTick, regionVars, RegionInv, RegionTypes, AcceptsFresh
    <2>3. QED
      BY <1>2, <2>1, <2>2, MembershipStays DEF RegionTick, regionVars
  <1>3. ASSUME NEW g \in RegionIds, \/ CreateRegion(g)
                                    \/ \E status \in {"active", "disabled"} : UpdateRegion(g, status)
                                    \/ DeleteRegion(g)
                                    \/ CancelInvitation(g)
        PROVE  RegionInv'
    <2>1. ChallengesInv' /\ AcceptsFresh'
      BY <1>3, ChallengesSame DEF CreateRegion, UpdateRegion, DeleteRegion, CancelInvitation,
                                  RegionInv, AcceptsFresh, Fresh, challengeVars
    <2>2. RegionTypes'
      BY <1>3 DEF CreateRegion, UpdateRegion, DeleteRegion, CancelInvitation, RegionInv, RegionTypes
    <2>3. QED
      BY <1>3, <2>1, <2>2, MembershipStays
      DEF CreateRegion, UpdateRegion, DeleteRegion, CancelInvitation
  <1>4. ASSUME NEW g \in RegionIds, NEW role \in Roles, Invite(g, role)
        PROVE  tickets' \in Nat /\ invite' \in [RegionIds -> InviteRows \cup {NoInvite}]
    <2>1. PICK expires \in {now + InviteTTL} \cup InviteExpiries :
            invite' = [invite EXCEPT ![g] =
                        [ticket |-> tickets + 1, role |-> role, expires |-> expires]]
      BY <1>4 DEF Invite
    <2>2. [ticket |-> tickets + 1, role |-> role, expires |-> expires] \in InviteRows
      BY <1>0, RegionsAssumption DEF InviteRows, RegionInv, RegionTypes
    <2>3. QED
      BY <1>4, <2>1, <2>2 DEF Invite, RegionInv, RegionTypes
  <1>5. ASSUME NEW g \in RegionIds, NEW role \in Roles, CreateMember(g, role) PROVE RegionInv'
    <2>1. ChallengesInv' /\ AcceptsFresh'
      BY <1>5, ChallengesSame DEF CreateMember, RegionInv, AcceptsFresh, Fresh, challengeVars
    <2>2. RegionTypes'
      BY <1>4, <1>5 DEF CreateMember, RegionInv, RegionTypes
    <2>3. QED
      BY <1>5, <2>1, <2>2, MembershipStays DEF CreateMember
  <1>6. ASSUME NEW g \in RegionIds, NEW role \in Roles, AutoInvite(g, role) PROVE RegionInv'
    <2>1. PICK at \in Observation : accepting' = [region |-> g, ticket |-> tickets + 1, at |-> at]
      BY <1>6 DEF AutoInvite
    <2>2. accepting' \in AcceptRequests /\ accepting'.at = at
      BY <1>0, <2>1 DEF AcceptRequests, RegionInv, RegionTypes
    <2>3. ChallengesInv' /\ AcceptsFresh'
      BY <1>0, <1>6, <2>2, ChallengesSame DEF AutoInvite, RegionInv, AcceptsFresh, Fresh, challengeVars
    <2>4. RegionTypes'
      BY <1>4, <1>6, <2>2 DEF AutoInvite, RegionInv, RegionTypes
    <2>5. QED
      BY <1>6, <2>3, <2>4, MembershipStays DEF AutoInvite
  <1>7. ASSUME NEW g \in RegionIds, Accept(g) PROVE RegionInv'
    <2>1. invite[g].ticket \in Nat \ {0}
      BY <1>7 DEF Accept, RegionInv, RegionTypes, InviteRows
    <2>2. PICK at \in Observation : AcceptInvitation(g, invite[g].ticket, at)
      BY <1>7 DEF Accept
    <2>3. QED
      BY <1>0, <1>7, <2>1, <2>2, AcceptKeeps DEF Accept
  <1>8. CASE AutoAccept
    <2>1. accepting \in AcceptRequests /\ Fresh(accepting.at)
      BY <1>8 DEF AutoAccept, RegionInv, RegionTypes, AcceptsFresh
    <2>2. /\ accepting.region \in RegionIds /\ accepting.ticket \in Nat \ {0} /\ accepting.at \in Nat
      BY <2>1 DEF AcceptRequests
    <2>3. QED
      BY <1>8, <2>1, <2>2, AcceptKeeps DEF AutoAccept
  <1>9. CASE AutoAcceptFails
    <2>1. ChallengesInv' /\ AcceptsFresh'
      BY <1>9, ChallengesSame DEF AutoAcceptFails, RegionInv, AcceptsFresh
    <2>2. RegionTypes'
      BY <1>9 DEF AutoAcceptFails, RegionInv, RegionTypes
    <2>3. QED
      BY <1>9, <2>1, <2>2, MembershipStays DEF AutoAcceptFails
  <1>10. ASSUME NEW g \in RegionIds, NEW role \in Roles, NEW status \in MemberStatuses,
                NEW expires \in {m.expires : m \in {member} \ {NoMember}}
                                  \cup {now + t : t \in MemberTTLs},
                PatchRead(g, role, status, expires)
         PROVE  RegionInv'
    <2>1. expires \in Nat
      <3>1. \A m \in {member} \ {NoMember} : m \in MemberRows
        BY DEF RegionInv, RegionTypes
      <3>2. \A m \in {member} \ {NoMember} : m.expires \in Nat
        BY <3>1 DEF MemberRows
      <3>3. \A t \in MemberTTLs : now + t \in Nat
        BY <1>0, RegionsAssumption
      <3>4. QED
        BY <3>2, <3>3
    <2>2. ChallengesInv' /\ AcceptsFresh'
      BY <1>10, ChallengesSame DEF PatchRead, RegionInv, AcceptsFresh, Fresh, challengeVars
    <2>3. patching' \in PatchRequests
      BY <1>10, <2>1 DEF PatchRead, PatchRequests
    <2>4. RegionTypes'
      BY <1>10, <2>3 DEF PatchRead, RegionInv, RegionTypes
    <2>5. QED
      BY <1>10, <2>2, <2>4, MembershipStays DEF PatchRead
  <1>11. CASE PatchFails
    <2>1. ChallengesInv' /\ AcceptsFresh'
      BY <1>11, ChallengesSame DEF PatchFails, RegionInv, AcceptsFresh, Fresh, challengeVars
    <2>2. RegionTypes'
      BY <1>11 DEF PatchFails, RegionInv, RegionTypes
    <2>3. QED
      BY <1>11, <2>1, <2>2, MembershipStays DEF PatchFails
  <1>12. ASSUME NEW g \in RegionIds \cup {NoRegion}, ReplaceServicePolicy(g) PROVE RegionInv'
    <2>1. ChallengesInv' /\ AcceptsFresh'
      BY <1>12, ChallengesSame DEF ReplaceServicePolicy, RegionInv, AcceptsFresh, Fresh, challengeVars
    <2>2. RegionTypes' /\ BindingsGoverned' /\ AcceptedInTime'
      BY <1>12 DEF ReplaceServicePolicy, RegionInv, RegionTypes, BindingsGoverned, AcceptedInTime
    <2>3. Stamps'
      BY <1>12 DEF ReplaceServicePolicy, RegionInv, Stamps, Stamped
    <2>4. QED
      BY <2>1, <2>2, <2>3 DEF RegionInv
  <1>13. ASSUME NEW i \in ChallengeIds, AclChallenge(i) PROVE RegionInv'
    <2> DEFINE r == [region |-> member.region, role |-> member.role, at |-> "open"]
    <2>1. ChallengesInv'
      BY <1>13, RegionsAssumption, CreateKeeps DEF AclChallenge, RegionInv, Audiences, CredentialAudiences
    <2>2. member \in MemberRows
      BY <1>13 DEF AclChallenge, MembershipActive, RegionInv, RegionTypes, NoMember
    <2>3. r \in IssueRequests /\ r \notin ReadRequests
      BY <2>2 DEF IssueRequests, ReadRequests, MemberRows
    <2>4. credential' \subseteq Credentials /\ credential' = credential
      BY <1>13 DEF AclChallenge, RegionInv, RegionTypes
    <2>5. QED
      BY <1>13, <2>1, <2>3, <2>4, IssueMoves DEF AclChallenge
  <1>14. ASSUME NEW i \in ChallengeIds, NEW proof \in BOOLEAN, IssueConsume(i, proof) PROVE RegionInv'
    <2> DEFINE r == IF proof THEN [region |-> issuing[i].region, role |-> issuing[i].role,
                                   at |-> "proved", when |-> now]
                    ELSE NoRequest
    <2>1. ChallengesInv'
      BY <1>14, RegionsAssumption, ConsumeKeeps DEF IssueConsume, RegionInv, Audiences, CredentialAudiences
    <2>2. issuing[i] \in IssueRequests
      BY <1>14 DEF IssueConsume, RegionInv, RegionTypes
    <2>3. r \in IssueRequests \cup {NoRequest} /\ r \notin ReadRequests
      BY <1>0, <2>2 DEF IssueRequests, ReadRequests
    <2>4. credential' \subseteq Credentials /\ credential' = credential
      BY <1>14 DEF IssueConsume, RegionInv, RegionTypes
    <2>5. QED
      BY <1>14, <2>1, <2>3, <2>4, IssueMoves DEF IssueConsume
  <1>15. ASSUME NEW i \in ChallengeIds, IssueRead(i) PROVE RegionInv'
    <2> DEFINE r == [region |-> member.region, role |-> member.role, at |-> "read",
                     when |-> issuing[i].when, revision |-> member.revision,
                     writes |-> writes, lives |-> lives]
    <2>1. ChallengesInv'
      BY <1>15, ChallengesSame DEF IssueRead, RegionInv
    <2>2. member \in MemberRows /\ member # NoMember
      BY <1>15, RegionsAssumption DEF IssueRead, MembershipActive, RegionInv, RegionTypes, NoMember, MemberRows
    <2>3. issuing[i].when \in Nat
      BY <1>15 DEF IssueRead, RegionInv, RegionTypes, IssueRequests, ReadRequests
    <2>4. r \in ReadRequests /\ Stamped(r)
      BY <2>2, <2>3 DEF ReadRequests, Stamped, RegionInv, RegionTypes, MemberRows
    <2>5. r \in IssueRequests /\ credential' \subseteq Credentials /\ credential' = credential
      BY <1>15, <2>4 DEF IssueRead, RegionInv, RegionTypes, IssueRequests
    <2>6. QED
      BY <1>15, <2>1, <2>4, <2>5, IssueMoves DEF IssueRead, challengeVars
  <1>16. ASSUME NEW i \in ChallengeIds, IssueSign(i) PROVE RegionInv'
    <2>1. ChallengesInv'
      BY <1>16, ChallengesSame DEF IssueSign, RegionInv
    <2>2. issuing[i] \in ReadRequests
      BY <1>16 DEF IssueSign, RegionInv, RegionTypes, IssueRequests, ReadRequests
    <2>3. Claims(issuing[i]) \in Credentials
      BY <2>2, RegionsAssumption DEF Claims, ReadRequests, Credentials
    <2>4. Stamped(Claims(issuing[i]))
      <3>1. Stamped(issuing[i])
        BY <2>2 DEF RegionInv, Stamps
      <3>2. QED
        BY <3>1 DEF Stamped, Claims
    <2>5. credential' \subseteq Credentials /\ \A c \in credential' : c \in credential \/ Stamped(c)
      BY <1>16, <2>3, <2>4 DEF IssueSign, RegionInv, RegionTypes
    <2>6. QED
      BY <1>0, <1>16, <2>1, <2>5, IssueMoves DEF IssueSign, challengeVars
  <1>17. ASSUME NEW i \in ChallengeIds, IssueFails(i) PROVE RegionInv'
    <2>1. ChallengesInv'
      BY <1>17, ChallengesSame DEF IssueFails, RegionInv
    <2>2. credential' \subseteq Credentials /\ credential' = credential
      BY <1>17 DEF IssueFails, RegionInv, RegionTypes
    <2>3. QED
      BY <1>0, <1>17, <2>1, <2>2, IssueMoves DEF IssueFails, challengeVars
  <1>18. QED
    BY <1>1, <1>2, <1>3, <1>5, <1>6, <1>7, <1>8, <1>9, <1>10, <1>11, <1>12, <1>13, <1>14, <1>15,
       <1>16, <1>17, PatchKeeps, ReleaseKeeps DEF RegionNext, MemberStatuses

\* However many credential requests are in flight while the membership is
\* suspended, changed, migrated or released: a credential is honoured only
\* while nobody has written the membership it was read from, or a membership
\* was released since; services are bound to the member's region; and an
\* invitation is accepted at most as late as its observation is old.
THEOREM MembershipsGovern == RegionSpec => []MembershipGoverns
  <1>1. RegionInv => MembershipGoverns
    <2> SUFFICES ASSUME RegionInv PROVE MembershipGoverns
      OBVIOUS
    <2>1. HonouredAsIssued
      BY DEF RegionInv, Stamps, Stamped, HonouredAsIssued, Honoured
    <2>2. QED
      BY <2>1 DEF RegionInv, MembershipGoverns
  <1>2. QED
    BY <1>1, RegionStarts, RegionStep, PTL DEF RegionSpec

-----------------------------------------------------------------------------
(* The access evaluator.                                                   *)

Memberships == [status : {"active", "suspended"}, slug : AclRegions, regionActive : BOOLEAN,
                expired : BOOLEAN, role : AclRoles, revision : Nat]
AclCredentials == [slug : AclRegions, role : AclRoles, revision : Nat]
ServiceRows == [exposure : Exposures, mode : AccessModes, rules : SUBSET RuleKinds]
AclRows == [scope : {"peer", "service"}, mode : {"public", "restricted"}, rules : SUBSET RuleKinds,
            services : [AclServices -> ServiceRows], member : Memberships \cup {NoMembership}]

\* The rows that the evaluator reads are rows of the store.
AclInv ==
  /\ inst \in [AclPeers -> AclRows \cup {Unmanaged}]
  /\ cred \in [AclPeers -> AclCredentials]

LEMMA RowsDistinct ==
  /\ \A m \in Memberships : m # NoMembership
  /\ \A i \in AclRows : i # Unmanaged
  BY DEF Memberships, NoMembership, AclRows, Unmanaged

LEMMA MemberTyped ==
  ASSUME NEW g \in AclRegions, NEW role \in AclRoles
  PROVE  Member(g, role) \in Memberships
  BY DEF Member, Memberships

\* A write of the row: status, role and the next revision.
LEMMA MembershipUpdated ==
  ASSUME NEW m \in Memberships, NEW status \in {"active", "suspended"}, NEW role \in AclRoles
  PROVE  [m EXCEPT !.status = status, !.role = role, !.revision = @ + 1] \in Memberships
  <1> DEFINE m1 == [m EXCEPT !.status = status]
             m2 == [m1 EXCEPT !.role = role]
  <1>1. m1 \in Memberships
    BY DEF Memberships
  <1>2. m2 \in Memberships
    <2> HIDE DEF m1
    <2>1. QED
      BY <1>1 DEF Memberships
  <1>3. [m2 EXCEPT !.revision = @ + 1] \in Memberships
    <2> HIDE DEF m2
    <2>1. QED
      BY <1>2 DEF Memberships
  <1>4. QED
    BY <1>3

LEMMA CredentialTyped ==
  ASSUME NEW m \in Memberships
  PROVE  Credential(m) \in AclCredentials
  BY DEF Credential, AclCredentials, Memberships

LEMMA NothingDeclared == [s \in AclServices |-> Undeclared] \in [AclServices -> ServiceRows]
  <1>1. Undeclared \in ServiceRows
    BY DEF Undeclared, ServiceRows, Exposures, AccessModes
  <1>2. QED
    BY <1>1

LEMMA AclStarts == AclInit => AclInv
  <1> SUFFICES ASSUME AclInit PROVE AclInv
    OBVIOUS
  <1>1. PICK g \in AclRegions, role \in [AclPeers -> AclRoles] :
          /\ inst = [p \in AclPeers |->
                      [scope |-> "peer", mode |-> "restricted", rules |-> RuleKinds,
                       services |-> [s \in AclServices |-> Undeclared],
                       member |-> Member(g, role[p])]]
          /\ cred = [p \in AclPeers |-> Credential(Member(g, role[p]))]
    BY DEF AclInit
  <1>2. \A p \in AclPeers : Member(g, role[p]) \in Memberships
    BY MemberTyped
  <1>3. \A p \in AclPeers : inst[p] \in AclRows /\ cred[p] \in AclCredentials
    BY <1>1, <1>2, NothingDeclared, CredentialTyped DEF AclRows
  <1>4. QED
    BY <1>1, <1>3 DEF AclInv

LEMMA RowSet ==
  ASSUME AclInv, NEW p \in AclPeers, NEW r \in AclRows \cup {Unmanaged}, SetRow(p, r)
  PROVE  AclInv'
  BY DEF AclInv, SetRow

LEMMA AclSteps ==
  ASSUME AclInv, [AclNext]_aclVars
  PROVE  AclInv'
  <1>1. ASSUME NEW p \in AclPeers,
               \/ RowDeleted(p) \/ RowACL(p) \/ RowServices(p) \/ RowScopeReset(p) \/ RowReclaimed(p)
               \/ RowServiceACL(p) \/ RowJoins(p) \/ RowMember(p) \/ RowReleased(p)
               \/ RowExpires(p) \/ PeerSeen(p) \/ NodeRenews(p)
        PROVE  AclInv'
    <2>0. Managed(p) => inst[p] \in AclRows
      BY DEF AclInv, Managed
    <2>m. Managed(p) /\ inst[p].member # NoMembership => inst[p].member \in Memberships
      BY <2>0 DEF AclRows
    <2>1. CASE RowDeleted(p)
      BY <2>1, RowSet DEF RowDeleted
    <2>2. CASE RowACL(p)
      <3>1. PICK rules \in {{k} : k \in RuleKinds} \cup {{"wallet", "email_domain"}},
                 md \in {"public", "restricted"} :
                   SetRow(p, [inst[p] EXCEPT !.mode = md, !.rules = rules])
        BY <2>2 DEF RowACL
      <3>2. [inst[p] EXCEPT !.mode = md, !.rules = rules] \in AclRows
        BY <2>0, <2>2 DEF RowACL, AclRows, RuleKinds
      <3>3. QED
        BY <3>1, <3>2, RowSet
    <2>3. CASE RowServices(p)
      <3> DEFINE new(e, md) == [s \in AclServices |->
                                 IF e[s] = "undeclared" THEN Undeclared
                                 ELSE [exposure |-> e[s], mode |-> md, rules |-> {}]]
      <3>1. PICK e \in [AclServices -> Exposures], md \in AclModes :
              SetRow(p, [inst[p] EXCEPT !.scope = "service", !.services = new(e, md)])
        BY <2>3 DEF RowServices
      <3>2. ASSUME NEW s \in AclServices
            PROVE  (IF e[s] = "undeclared" THEN Undeclared
                    ELSE [exposure |-> e[s], mode |-> md, rules |-> {}]) \in ServiceRows
        BY AclAssumption DEF ServiceRows, Undeclared, Exposures, AccessModes
      <3> DEFINE services == new(e, md)
      <3>3. services \in [AclServices -> ServiceRows]
        BY <3>2
      <3> HIDE DEF new, services
      <3>4. [inst[p] EXCEPT !.scope = "service", !.services = services] \in AclRows
        BY <2>0, <2>3, <3>3 DEF RowServices, AclRows
      <3>5. QED
        BY <3>1, <3>4, RowSet DEF services
    <2>3a. CASE RowScopeReset(p)
      <3> DEFINE services == [s \in AclServices |-> Undeclared]
      <3>1. services \in [AclServices -> ServiceRows]
        BY NothingDeclared
      <3>2. SetRow(p, [inst[p] EXCEPT !.scope = "peer", !.services = services])
        BY <2>3a DEF RowScopeReset
      <3> HIDE DEF services
      <3>3. [inst[p] EXCEPT !.scope = "peer", !.services = services] \in AclRows
        BY <2>0, <2>3a, <3>1 DEF RowScopeReset, AclRows
      <3>4. QED
        BY <3>2, <3>3, RowSet
    <2>3c. CASE RowReclaimed(p)
      <3>1. [inst[p] EXCEPT !.scope = "peer", !.mode = "restricted", !.rules = {}] \in AclRows
        BY <2>0, <2>3c DEF RowReclaimed, AclRows
      <3>2. QED
        BY <2>3c, <3>1, RowSet DEF RowReclaimed
    <2>3b. CASE RowServiceACL(p)
      <3>1. PICK s \in AclServices, md \in AclModes, rules \in {{k} : k \in RuleKinds} :
              SetRow(p, [inst[p] EXCEPT !.services[s].mode = md, !.services[s].rules = rules])
        BY <2>3b DEF RowServiceACL
      <3>2. inst[p] \in AclRows
        BY <2>0, <2>3b DEF RowServiceACL
      <3> DEFINE old == inst[p].services[s]
                 new == [old EXCEPT !.mode = md, !.rules = rules]
                 services == [inst[p].services EXCEPT ![s] = new]
      <3>3. old \in ServiceRows
        BY <3>2 DEF AclRows
      <3>4. new \in ServiceRows
        BY <3>3, AclAssumption DEF ServiceRows
      <3>5. [inst[p] EXCEPT !.services[s].mode = md, !.services[s].rules = rules]
              = [inst[p] EXCEPT !.services = services]
        BY <3>2 DEF AclRows, ServiceRows
      <3> HIDE DEF new
      <3>6. services \in [AclServices -> ServiceRows]
        BY <3>2, <3>4 DEF AclRows
      <3> HIDE DEF services
      <3>7. [inst[p] EXCEPT !.services = services] \in AclRows
        BY <3>2, <3>6 DEF AclRows
      <3>8. QED
        BY <3>1, <3>5, <3>7, RowSet
    <2>4. CASE RowJoins(p)
      <3>1. PICK g \in AclRegions, role \in AclRoles :
              SetRow(p, [inst[p] EXCEPT !.member = Member(g, role)])
        BY <2>4 DEF RowJoins
      <3>2. [inst[p] EXCEPT !.member = Member(g, role)] \in AclRows
        BY <2>0, <2>4, MemberTyped DEF RowJoins, AclRows
      <3>3. QED
        BY <3>1, <3>2, RowSet
    <2>5. CASE RowMember(p)
      <3>1. PICK status \in {"active", "suspended"}, role \in AclRoles :
              SetRow(p, [inst[p] EXCEPT !.member.status = status, !.member.role = role,
                                        !.member.revision = @ + 1])
        BY <2>5 DEF RowMember
      <3>2. inst[p] \in AclRows /\ inst[p].member \in Memberships
        BY <2>0, <2>m, <2>5 DEF RowMember
      <3> DEFINE m == inst[p].member
                 new == [m EXCEPT !.status = status, !.role = role, !.revision = @ + 1]
      <3>3. new \in Memberships
        BY <3>2, MembershipUpdated
      <3>4. [inst[p] EXCEPT !.member.status = status, !.member.role = role, !.member.revision = @ + 1]
              = [inst[p] EXCEPT !.member = new]
        BY <3>2 DEF AclRows, Memberships
      <3> HIDE DEF new
      <3>5. [inst[p] EXCEPT !.member = new] \in AclRows
        BY <3>2, <3>3 DEF AclRows
      <3>6. QED
        BY <3>1, <3>4, <3>5, RowSet
    <2>6. CASE RowReleased(p)
      <3>1. [inst[p] EXCEPT !.member = NoMembership] \in AclRows
        BY <2>0, <2>6 DEF RowReleased, AclRows
      <3>2. QED
        BY <2>6, <3>1, RowSet DEF RowReleased
    <2>7. CASE RowExpires(p)
      <3>1. inst[p] \in AclRows /\ inst[p].member \in Memberships
        BY <2>0, <2>m, <2>7 DEF RowExpires
      <3> DEFINE m == inst[p].member
                 new == [m EXCEPT !.expired = TRUE]
      <3>2. new \in Memberships
        BY <3>1 DEF Memberships
      <3>3. [inst[p] EXCEPT !.member.expired = TRUE] = [inst[p] EXCEPT !.member = new]
        BY <3>1 DEF AclRows, Memberships
      <3> HIDE DEF new
      <3>4. [inst[p] EXCEPT !.member = new] \in AclRows
        BY <3>1, <3>2 DEF AclRows
      <3>5. QED
        BY <2>7, <3>3, <3>4, RowSet DEF RowExpires
    <2>8. CASE PeerSeen(p)
      BY <2>8 DEF PeerSeen, AclInv
    <2>9. CASE NodeRenews(p)
      <3>1. Credential(inst[p].member) \in AclCredentials
        BY <2>m, <2>9, CredentialTyped DEF NodeRenews
      <3>2. QED
        BY <2>9, <3>1 DEF NodeRenews, AclInv
    <2>10. QED
      BY <1>1, <2>1, <2>2, <2>3, <2>3a, <2>3b, <2>3c, <2>4, <2>5, <2>6, <2>7, <2>8, <2>9
  <1>2. ASSUME NEW g \in AclRegions, RegionDisabled(g) PROVE AclInv'
    <2>1. ASSUME NEW p \in AclPeers, Managed(p), inst[p].member # NoMembership
          PROVE  [inst[p] EXCEPT !.member.regionActive = FALSE] \in AclRows
      <3>1. inst[p] \in AclRows /\ inst[p].member \in Memberships
        BY <2>1 DEF AclInv, Managed, AclRows
      <3> DEFINE m == inst[p].member
                 new == [m EXCEPT !.regionActive = FALSE]
      <3>2. new \in Memberships
        BY <3>1 DEF Memberships
      <3>3. [inst[p] EXCEPT !.member.regionActive = FALSE] = [inst[p] EXCEPT !.member = new]
        BY <3>1 DEF AclRows, Memberships
      <3> HIDE DEF new
      <3>4. [inst[p] EXCEPT !.member = new] \in AclRows
        BY <3>1, <3>2 DEF AclRows
      <3>5. QED
        BY <3>3, <3>4
    <2>2. QED
      BY <1>2, <2>1 DEF RegionDisabled, AclInv
  <1>3. CASE UNCHANGED aclVars
    BY <1>3 DEF aclVars, AclInv
  <1>4. QED
    BY <1>1, <1>2, <1>3 DEF AclNext

\* A region has a name, so nobody is a member of the empty one.
LEMMA NobodyInNone ==
  ASSUME AclInv, NEW p \in AclPeers, Managed(p)
  PROVE  ~MemberOf(p, "")
  <1>1. inst[p] \in AclRows
    BY DEF AclInv, Managed
  <1>2. inst[p].member # NoMembership => inst[p].member.slug \in AclRegions
    BY <1>1 DEF AclRows, Memberships
  <1>3. QED
    BY <1>2, AclAssumption DEF MemberOf

\* What an answer to a permissionless request, in any spelling, requires.
LEMMA AllowedOpen ==
  ASSUME AclInv, NEW r \in OpenRequests, NEW p \in AclPeers, EvaluateV2(r, p) # {}, Managed(p)
  PROVE  IF inst[p].scope = "service"
           THEN inst[p].services[r.service].exposure # "trusted_region"
           ELSE r.partition = "permissionless" /\ inst[p].member = NoMembership
  <1>1. r.partition # "trusted_region" /\ r.region = ""
    BY DEF OpenRequests, HasClaims, Admissible
  <1>2. ~MemberOf(p, r.region)
    BY <1>1, NobodyInNone
  <1>3. CASE inst[p].scope = "service"
    BY <1>1, <1>2, <1>3 DEF EvaluateV2, ServiceScopedDecision, ServicePolicy, EvaluateTrustedBinding
  <1>4. CASE inst[p].scope # "service"
    BY <1>1, <1>2, <1>4 DEF EvaluateV2, PeerScopedDecision, EvaluatePeerScoped
  <1>5. QED
    BY <1>3, <1>4

\* What an answer to a trusted request, in any spelling, requires of the target.
LEMMA AllowedRegion ==
  ASSUME AclInv, NEW r \in RegionRequests, NEW p \in AclPeers, EvaluateV2(r, p) # {}
  PROVE  /\ Managed(p)
         /\ PermissionlessService(p, r.service) \/ (MemberOf(p, r.region) /\ OwnerSeen(p))
         /\ inst[p].scope = "service" /\ ~PermissionlessService(p, r.service)
              => TrustedRoute(r, p)
  <1>1. r.partition # "permissionless" /\ r.service \in AclServices
    BY DEF RegionRequests, HasClaims, AclRequests
  <1>2. Managed(p)
    BY <1>1 DEF EvaluateV2
  <1>3. inst[p] \in AclRows
    BY <1>2 DEF AclInv, Managed
  <1>4. CASE inst[p].scope = "service"
    <2>1. ServiceScopedDecision(r, p) # {}
      BY <1>2, <1>4 DEF EvaluateV2
    <2>2. inst[p].services[r.service].exposure \in Exposures
      BY <1>1, <1>3 DEF AclRows, ServiceRows
    <2>3. inst[p].services[r.service].exposure \in {"permissionless", "trusted_region"}
      BY <2>1, <2>2 DEF ServiceScopedDecision, ServicePolicy, Exposures
    <2>4. QED
      BY <1>2, <1>4, <2>1, <2>3
      DEF ServiceScopedDecision, ServicePolicy, EvaluateTrustedBinding, PermissionlessService
  <1>5. CASE inst[p].scope # "service"
    <2>1. PeerScopedDecision(r, p) # {}
      BY <1>2, <1>5 DEF EvaluateV2
    <2>2. QED
      BY <1>1, <1>2, <1>5, <2>1 DEF PeerScopedDecision, EvaluatePeerScoped
  <1>6. QED
    BY <1>4, <1>5

\* What the canonical spelling adds: the requester, the route and the partition.
LEMMA AllowedTrusted ==
  ASSUME AclInv, NEW r \in TrustedRequests, NEW p \in AclPeers, EvaluateV2(r, p) # {}
  PROVE  /\ Managed(p) /\ RequesterAuthorized(r) /\ TrustedRoute(r, p)
         /\ ~PermissionlessService(p, r.service) /\ MemberOf(p, r.region)
  <1>1. r \in RegionRequests /\ r.partition = "trusted_region"
    BY DEF TrustedRequests
  <1>2. /\ Managed(p)
        /\ PermissionlessService(p, r.service) \/ MemberOf(p, r.region)
    BY <1>1, AllowedRegion
  <1>3. RequesterAuthorized(r)
    BY <1>1 DEF EvaluateV2
  <1>4. CASE inst[p].scope = "service"
    <2>1. ServiceScopedDecision(r, p) # {}
      BY <1>2, <1>3, <1>4 DEF EvaluateV2
    <2>2. ~PermissionlessService(p, r.service)
      BY <1>1, <2>1 DEF ServiceScopedDecision, ServicePolicy, PermissionlessService
    <2>3. TrustedRoute(r, p)
      BY <1>1, <1>4, <2>2, AllowedRegion
    <2>4. QED
      BY <1>2, <1>3, <2>2, <2>3
  <1>5. CASE inst[p].scope # "service"
    <2>1. PeerScopedDecision(r, p) # {}
      BY <1>2, <1>3, <1>5 DEF EvaluateV2
    <2>2. QED
      BY <1>1, <1>2, <1>3, <1>5, <2>1 DEF PeerScopedDecision, PermissionlessService
  <1>6. QED
    BY <1>4, <1>5

LEMMA DisjointNow == AclInv => PartitionsDisjoint
  <1> SUFFICES ASSUME AclInv, NEW p \in AclPeers
               PROVE  /\ Served(p, OpenRequests) \cap Served(p, TrustedRequests) = {}
                      /\ \/ inst[p].scope = "service"
                         \/ Served(p, OpenRequests) = {} \/ Served(p, TrustedRequests) = {}
    BY DEF PartitionsDisjoint
  <1>1. ASSUME NEW s \in Served(p, OpenRequests), NEW t \in Served(p, TrustedRequests)
        PROVE  s # t /\ inst[p].scope = "service"
    <2>1. PICK q \in OpenRequests : q.service = s /\ EvaluateV2(q, p) # {}
      BY <1>1 DEF Served
    <2>2. PICK r \in TrustedRequests : r.service = t /\ EvaluateV2(r, p) # {}
      BY <1>1 DEF Served
    <2>3. /\ Managed(p) /\ ~PermissionlessService(p, t) /\ MemberOf(p, r.region)
          /\ TrustedRoute(r, p)
      BY <2>2, AllowedTrusted
    <2>4. IF inst[p].scope = "service"
            THEN inst[p].services[s].exposure # "trusted_region"
            ELSE inst[p].member = NoMembership
      BY <2>1, <2>3, AllowedOpen
    <2>5. inst[p].scope = "service"
      BY <2>3, <2>4 DEF MemberOf
    <2>6. inst[p].services[t].exposure = "trusted_region"
      <3>1. ServiceScopedDecision(r, p) # {} /\ r.partition = "trusted_region"
        BY <2>2, <2>3, <2>5 DEF EvaluateV2, TrustedRequests
      <3>2. inst[p].services[t].exposure \in Exposures
        BY <1>1, <2>3 DEF AclInv, Managed, AclRows, ServiceRows, Served
      <3>3. QED
        BY <2>2, <3>1, <3>2 DEF ServiceScopedDecision, ServicePolicy, Exposures
    <2>7. QED
      BY <2>4, <2>5, <2>6
  <1>2. QED
    BY <1>1

\* Another spelling of a permissionless request only reaches permissionless services,
\* and those the canonical one reaches too.
LEMMA SpellingNow == AclInv => SpellingOpensNothing
  <1> SUFFICES ASSUME AclInv, NEW r \in OpenRequests, NEW p \in r.peers, EvaluateV2(r, p) # {}
               PROVE  EvaluateV2(r, p)
                        \subseteq EvaluateV2([r EXCEPT !.partition = "permissionless"], p)
    BY DEF SpellingOpensNothing
  <1>1. r \in AclRequests /\ p \in AclPeers /\ r.partition \in {"permissionless", "Permissionless"}
    BY DEF OpenRequests, AclRequests, HasClaims, Partitions
  <1> DEFINE q == [r EXCEPT !.partition = "permissionless"]
  <1>2. /\ q.partition = "permissionless" /\ q.region = r.region /\ q.service = r.service
        /\ q.route = r.route
    BY <1>1 DEF AclRequests
  <1> HIDE DEF q
  <1>3. CASE ~Managed(p)
    BY <1>1, <1>2, <1>3 DEF EvaluateV2
  <1>4. CASE Managed(p) /\ inst[p].scope = "service"
    <2>1. inst[p].services[r.service].exposure # "trusted_region"
      BY <1>1, <1>4, AllowedOpen
    <2>2. EvaluateV2(r, p) = ServiceScopedDecision(r, p) /\ EvaluateV2(q, p) = ServiceScopedDecision(q, p)
      BY <1>1, <1>2, <1>4 DEF EvaluateV2
    <2>3. ServiceScopedDecision(r, p) = ServiceScopedDecision(q, p)
      BY <1>1, <1>2, <2>1 DEF ServiceScopedDecision, ServicePolicy
    <2>4. QED
      BY <2>2, <2>3 DEF q
  <1>5. CASE Managed(p) /\ inst[p].scope # "service"
    <2>1. r.partition = "permissionless"
      BY <1>1, <1>5, AllowedOpen
    <2>2. q = r
      BY <1>1, <2>1 DEF AclRequests, q
    <2>3. QED
      BY <2>2 DEF q
  <1>6. QED
    BY <1>3, <1>4, <1>5

LEMMA ClosedNow == AclInv => TrustedFailsClosed
  <1> SUFFICES ASSUME AclInv, NEW r \in RegionRequests, NEW p \in r.peers, EvaluateV2(r, p) # {}
               PROVE  /\ inst[p] # Unmanaged
                      /\ PermissionlessService(p, r.service) \/ LiveMember(p, r.region)
                      /\ inst[p].scope = "service" /\ ~PermissionlessService(p, r.service)
                           => inst[p].member.role # "head"
                      /\ r.partition = "trusted_region" =>
                           /\ ~PermissionlessService(p, r.service) /\ inst[p].member.role # "head"
                           /\ LiveMember(r.subject, r.region)
                           /\ cred[r.subject] = Credential(inst[r.subject].member)
                           /\ IF r.route = "worker"
                                THEN /\ p = r.subject /\ inst[r.upstream] # Unmanaged
                                     /\ MemberOf(r.upstream, r.region)
                                     /\ inst[r.upstream].member.role # "worker"
                                ELSE cred[r.subject].role # "worker"
    BY DEF TrustedFailsClosed
  <1>1. p \in AclPeers /\ r \in AclRequests /\ r.subject \in AclPeers
    BY DEF RegionRequests, AclRequests, Admissible
  <1>2. /\ Managed(p)
        /\ PermissionlessService(p, r.service) \/ (MemberOf(p, r.region) /\ OwnerSeen(p))
        /\ inst[p].scope = "service" /\ ~PermissionlessService(p, r.service)
             => TrustedRoute(r, p)
    BY <1>1, AllowedRegion
  <1>3. inst[p] # Unmanaged
    BY <1>2 DEF Managed
  <1>4. \A q \in AclPeers : Managed(q) /\ MemberOf(q, r.region) /\ OwnerSeen(q) => LiveMember(q, r.region)
    BY DEF LiveMember, Managed, MemberOf, RowActive, OwnerSeen
  <1>5. PermissionlessService(p, r.service) \/ LiveMember(p, r.region)
    BY <1>1, <1>2, <1>4
  <1>6. TrustedRoute(r, p) => inst[p].member.role # "head"
    BY DEF TrustedRoute, TrustedTargetRole
  <1>7. ASSUME r.partition = "trusted_region"
        PROVE  /\ ~PermissionlessService(p, r.service) /\ inst[p].member.role # "head"
               /\ LiveMember(r.subject, r.region)
               /\ cred[r.subject] = Credential(inst[r.subject].member)
               /\ IF r.route = "worker"
                    THEN /\ p = r.subject /\ inst[r.upstream] # Unmanaged
                         /\ MemberOf(r.upstream, r.region)
                         /\ inst[r.upstream].member.role # "worker"
                    ELSE cred[r.subject].role # "worker"
    <2>1. /\ RequesterAuthorized(r) /\ TrustedRoute(r, p)
          /\ ~PermissionlessService(p, r.service)
      BY <1>1, <1>7, AllowedTrusted DEF TrustedRequests
    <2> DEFINE s == r.subject
    <2>2. /\ Managed(s) /\ MemberOf(s, r.region) /\ OwnerSeen(s)
          /\ cred[s].slug = r.region /\ cred[s].revision = inst[s].member.revision
          /\ cred[s].role = inst[s].member.role
          /\ IF r.route = "worker"
               THEN r.peers = {s} /\ cred[s].role \in {"worker", "combined"}
               ELSE cred[s].role \in {"head", "combined"}
      BY <2>1 DEF RequesterAuthorized
    <2>3. LiveMember(s, r.region)
      BY <1>1, <1>4, <2>2
    <2>4. cred[s] = Credential(inst[s].member)
      <3>1. cred[s] \in AclCredentials
        BY <1>1 DEF AclInv
      <3>2. QED
        BY <3>1, <2>2, <2>3 DEF AclCredentials, Credential, LiveMember
    <2>5. CASE r.route = "worker"
      <3>1. p = s
        BY <2>2, <2>5
      <3>2. UpstreamAllowed(r)
        BY <1>7, <2>1, <2>5 DEF TrustedRoute, WorkerUpstreamAllowed
      <3>3. /\ inst[r.upstream] # Unmanaged /\ MemberOf(r.upstream, r.region)
            /\ inst[r.upstream].member.role # "worker"
        BY <3>2 DEF UpstreamAllowed, RowLoaded, Managed
      <3>4. QED
        BY <1>6, <2>1, <2>3, <2>4, <2>5, <3>1, <3>3
    <2>6. CASE r.route # "worker"
      <3>1. cred[s].role # "worker"
        BY <2>2, <2>6
      <3>2. QED
        BY <1>6, <2>1, <2>3, <2>4, <2>6, <3>1
    <2>7. QED
      BY <2>5, <2>6
  <1>8. QED
    BY <1>2, <1>3, <1>5, <1>6, <1>7

LEMMA AgreeNow == AclInv => V1AgreesV2
  <1> SUFFICES ASSUME NEW r \in OpenRequests, NEW p \in r.peers, r.partition = "permissionless"
               PROVE  EvaluateV1(p) \subseteq EvaluateV2(r, p)
    BY DEF V1AgreesV2
  <1>1. CASE ~Managed(p)
    BY <1>1 DEF EvaluateV1, EvaluateV2
  <1>2. CASE Managed(p) /\ inst[p].scope = "peer"
    BY <1>2 DEF EvaluateV1, EvaluateV2, PeerScopedDecision, EvaluatePeerScoped
  <1>3. CASE Managed(p) /\ inst[p].scope # "peer"
    BY <1>3 DEF EvaluateV1
  <1>4. QED
    BY <1>1, <1>2, <1>3

(* evaluateV2, evaluateV1 and authorizeTrustedRequester: for any peers,     *)
(* regions, services and number of writes between two answers, and for      *)
(* every request that the handler admits, in whatever spelling: no service  *)
(* is open in both partitions; the spelling of a permissionless request     *)
(* opens nothing; a trusted answer rests on a live member of the region     *)
(* and, in the canonical spelling, on a live requester with a credential    *)
(* equal to the membership it was issued for and on the route; and the      *)
(* first protocol allows nothing that the second denies.                    *)
THEOREM EvaluatorFailsClosed ==
  AclSpec => [](PartitionsDisjoint /\ SpellingOpensNothing /\ TrustedFailsClosed /\ V1AgreesV2)
  <1>1. AclInv => PartitionsDisjoint /\ SpellingOpensNothing /\ TrustedFailsClosed /\ V1AgreesV2
    BY DisjointNow, SpellingNow, ClosedNow, AgreeNow
  <1>2. QED
    BY <1>1, AclStarts, AclSteps, PTL DEF AclSpec

(* The same of the run's specification, in which the evaluator is one of    *)
(* several components that take turns: a behaviour of another component     *)
(* leaves what the evaluator reads as it was.                               *)
THEOREM NodesFailClosed == NodesSpec => []DecisionsFailClosed
  <1>1. NodesInit => AclInv
    BY AclStarts DEF NodesInit
  <1>2. AclInv /\ [NodesNext]_nodeVars => AclInv'
    <2>1. [NodesNext]_nodeVars => [AclNext]_aclVars
      BY DEF NodesNext, nodeVars
    <2>2. QED
      BY <2>1, AclSteps
  <1>3. AclInv => DecisionsFailClosed
    BY DisjointNow, SpellingNow, ClosedNow, AgreeNow DEF DecisionsFailClosed
  <1>4. QED
    BY <1>1, <1>2, <1>3, PTL DEF NodesSpec

-----------------------------------------------------------------------------
(* The rate limiter.                                                       *)

Full == Burst * CallCost

\* What a caller's bucket is worth now, whether or not it was reaped meanwhile.
Level(c) ==
  IF bucket[c] = NoBucket THEN Full ELSE Refilled(bucket[c].tokens, ticks - bucket[c].last)

RateTypes ==
  /\ ticks \in 0 .. MaxTicks /\ lastSweep \in 0 .. ticks
  /\ bucket \in [RateCallers -> [last : 0 .. ticks, tokens : 0 .. Full] \cup {NoBucket}]
  /\ grants \in [RateCallers -> [0 .. MaxTicks -> Nat]]
  /\ retryAt \in [RateCallers -> Nat]

\* No call was let through at a time that has not come.
FutureFree == \A c \in RateCallers : \A u \in 0 .. MaxTicks : u > ticks => grants[c][u] = 0

\* In every window, what was granted and what is still in the bucket are no more
\* than the burst and the refill.
WindowKept ==
  \A c \in RateCallers : \A t \in 0 .. ticks :
    Total(grants[c], t .. ticks) * CallCost + Level(c) <= Full + (ticks - t) * Rate

\* The refill until the Retry-After of a caller runs out buys the call.
WaitKept ==
  \A c \in RateCallers :
    /\ ticks >= retryAt[c] => Level(c) >= CallCost
    /\ ticks < retryAt[c] /\ retryAt[c] <= MaxTicks =>
         Level(c) + (retryAt[c] - ticks) * Rate >= CallCost

RateInv == RateTypes /\ FutureFree /\ WindowKept /\ WaitKept

LEMMA FullType == Full \in Nat \ {0} /\ CallCost \in Nat \ {0} /\ Rate \in Nat \ {0} /\ CallCost <= Full
  <1>1. Burst \in Nat \ {0} /\ CallCost \in Nat \ {0} /\ Rate \in Nat \ {0}
    BY RateAssumption
  <1>2. CallCost <= Burst * CallCost
    BY <1>1, FactorBound
  <1>3. QED
    BY <1>1, <1>2 DEF Full

\* A refill is a number of parts, at most the burst; it takes nothing away and
\* a refill in two steps is one refill.
LEMMA RefillSound ==
  ASSUME NEW x \in 0 .. Full, NEW e \in Nat
  PROVE  /\ e * Rate \in Nat
         /\ Refilled(x, e) \in 0 .. Full
         /\ Refilled(x, 0) = x
         /\ Refilled(x, e + 1) =
              IF Refilled(x, e) + Rate > Full THEN Full ELSE Refilled(x, e) + Rate
         /\ e >= IdleTTL => Refilled(x, e) = Full
  <1>1. Full \in Nat /\ Rate \in Nat /\ e * Rate \in Nat
    BY FullType
  <1>2. 0 * Rate = 0 /\ (e + 1) * Rate = e * Rate + Rate
    BY <1>1
  <1>3. Refilled(x, e) \in 0 .. Full /\ Refilled(x, 0) = x
    BY <1>1, <1>2 DEF Refilled, Full
  <1>4. Refilled(x, e + 1) = IF Refilled(x, e) + Rate > Full THEN Full ELSE Refilled(x, e) + Rate
    BY <1>1, <1>2 DEF Refilled, Full
  <1>5. ASSUME e >= IdleTTL PROVE Refilled(x, e) = Full
    <2>1. IdleTTL \in Nat /\ IdleTTL * Rate \in Nat /\ IdleTTL * Rate >= Full
      BY RateAssumption DEF Full
    <2>2. IdleTTL * Rate <= e * Rate
      BY <1>1, <1>5, <2>1, ProductMonotone
    <2>3. e * Rate >= Full
      BY <1>1, <2>1, <2>2
    <2>4. QED
      BY <1>1, <2>3 DEF Refilled, Full
  <1>6. QED
    BY <1>1, <1>3, <1>4, <1>5

\* A bucket in the map is not the absence of one.
LEMMA BucketDistinct ==
  ASSUME RateTypes, NEW c \in RateCallers, bucket[c] # NoBucket
  PROVE  /\ bucket[c].last \in 0 .. ticks /\ bucket[c].tokens \in 0 .. Full
         /\ ticks - bucket[c].last \in Nat
  <1>1. bucket[c] \in [last : 0 .. ticks, tokens : 0 .. Full] /\ ticks \in Nat
    BY DEF RateTypes
  <1>2. QED
    BY <1>1

LEMMA LevelType ==
  ASSUME RateTypes, NEW c \in RateCallers
  PROVE  Level(c) \in 0 .. Full
  <1>1. CASE bucket[c] = NoBucket
    BY <1>1, FullType DEF Level
  <1>2. CASE bucket[c] # NoBucket
    <2>1. Refilled(bucket[c].tokens, ticks - bucket[c].last) \in 0 .. Full
      BY <1>2, BucketDistinct, RefillSound
    <2>2. QED
      BY <1>2, <2>1 DEF Level
  <1>3. QED
    BY <1>1, <1>2

\* Reaping changes nothing for the caller: an idle bucket is full, as a new one.
LEMMA ReapingIsHarmless ==
  ASSUME RateTypes, NEW c \in RateCallers
  PROVE  Tokens(c) = Level(c)
  <1>1. CASE Swept[c] = bucket[c]
    BY <1>1 DEF Tokens, Level, Full
  <1>2. CASE Swept[c] # bucket[c]
    <2>1. Swept[c] = NoBucket /\ bucket[c] # NoBucket /\ ticks - bucket[c].last >= IdleTTL
      BY <1>2 DEF Swept
    <2>2. Level(c) = Full
      BY <2>1, BucketDistinct, RefillSound DEF Level
    <2>3. QED
      BY <2>1, <2>2 DEF Tokens, Full
  <1>3. QED
    BY <1>1, <1>2

LEMMA RateStarts == RateInit => RateInv
  <1> SUFFICES ASSUME RateInit PROVE RateInv
    OBVIOUS
  <1>1. MaxTicks \in Nat /\ ticks = 0 /\ lastSweep = 0
    BY RateAssumption DEF RateInit
  <1>2. RateTypes /\ FutureFree
    BY <1>1 DEF RateInit, RateTypes, FutureFree
  <1>3. \A c \in RateCallers : Level(c) = Full /\ retryAt[c] = MaxTicks + 1
    BY DEF RateInit, Level
  <1>4. WaitKept
    BY <1>1, <1>3 DEF WaitKept
  <1>5. ASSUME NEW c \in RateCallers, NEW t \in 0 .. ticks
        PROVE  Total(grants[c], t .. ticks) * CallCost + Level(c) <= Full + (ticks - t) * Rate
    <2>1. t = 0 /\ t .. ticks = {0} /\ grants[c][0] = 0 /\ 0 \in Nat
      BY <1>1 DEF RateInit
    <2>2. Total(grants[c], {0}) = 0
      BY <2>1, TotalSingleton
    <2>3. QED
      BY <1>1, <1>3, <2>1, <2>2, FullType
  <1>6. QED
    BY <1>2, <1>4, <1>5 DEF RateInv, WindowKept

\* The calls of a window, when one more is let through now or when none is.
LEMMA WindowSums ==
  ASSUME NEW g \in [0 .. MaxTicks -> Nat], NEW n \in 0 .. MaxTicks, NEW t \in 0 .. n,
         MaxTicks \in Nat
  PROVE  /\ Total(g, t .. n) \in Nat
         /\ Total([g EXCEPT ![n] = @ + 1], t .. n) = Total(g, t .. n) + 1
         /\ n < MaxTicks /\ g[n + 1] = 0 => Total(g, t .. (n + 1)) = Total(g, t .. n)
         /\ n < MaxTicks /\ g[n + 1] = 0 => Total(g, (n + 1) .. (n + 1)) = 0
  <1> DEFINE h == [g EXCEPT ![n] = @ + 1]
             S == t .. (n - 1)
  <1>0. t \in Int /\ n \in Int /\ n - 1 \in Int
    OBVIOUS
  <1>1. IsFiniteSet(t .. n) /\ IsFiniteSet(S)
    BY <1>0, FS_Interval
  <1>2. /\ t .. n = S \cup {n} /\ n \notin S
        /\ t .. (n + 1) = (t .. n) \cup {n + 1} /\ n + 1 \notin t .. n
        /\ (n + 1) .. (n + 1) = {n + 1}
    OBVIOUS
  <1>3. /\ \A u \in t .. n : g[u] \in Nat
        /\ \A u \in S \cup {n} : g[u] \in Nat /\ h[u] \in Nat
        /\ \A u \in S : g[u] = h[u]
        /\ h[n] = g[n] + 1
    OBVIOUS
  <1> HIDE DEF h, S
  <1>4. Total(g, t .. n) \in Nat /\ Total(g, S) \in Nat
    BY <1>1, <1>2, <1>3, TotalType
  <1>5. Total(g, t .. n) = Total(g, S) + g[n]
    <2>1. Total(g, S \cup {n}) = Total(g, S) + g[n]
      BY <1>1, <1>2, <1>3, TotalAdd
    <2>2. QED
      BY <1>2, <2>1
  <1>6. Total(h, t .. n) = Total(h, S) + h[n]
    <2>1. Total(h, S \cup {n}) = Total(h, S) + h[n]
      BY <1>1, <1>2, <1>3, TotalAdd
    <2>2. QED
      BY <1>2, <2>1
  <1>7. Total(h, S) = Total(g, S)
    BY <1>3, TotalSame
  <1>8. Total(h, t .. n) = Total(g, t .. n) + 1
    BY <1>3, <1>4, <1>5, <1>6, <1>7
  <1>9. ASSUME n < MaxTicks, g[n + 1] = 0
        PROVE  Total(g, t .. (n + 1)) = Total(g, t .. n) /\ Total(g, (n + 1) .. (n + 1)) = 0
    <2>1. \A u \in (t .. n) \cup {n + 1} : g[u] \in Nat
      BY <1>9
    <2>2. Total(g, t .. (n + 1)) = Total(g, t .. n) + g[n + 1]
      <3>1. Total(g, (t .. n) \cup {n + 1}) = Total(g, t .. n) + g[n + 1]
        BY <1>1, <1>2, <2>1, TotalAdd
      <3>2. QED
        BY <1>2, <3>1
    <2>3. Total(g, {n + 1}) = 0
      BY <1>9, <2>1, TotalSingleton
    <2>4. QED
      BY <1>2, <1>4, <1>9, <2>2, <2>3
  <1>10. QED
    BY <1>4, <1>8, <1>9 DEF h

\* The refill of the ticks that the Retry-After counts buys the missing parts.
LEMMA RetryAfterBuys ==
  ASSUME NEW x \in 0 .. Full, x < CallCost
  PROVE  /\ RetryAfter(x) \in Nat \ {0}
         /\ x + RetryAfter(x) * Rate >= CallCost
  <1> DEFINE n == CallCost - x + Rate - 1
             w == n \div Rate
  <1>1. n \in Nat /\ Rate \in Nat \ {0} /\ CallCost \in Nat /\ x \in Nat
    BY FullType
  <1>2. w \in Nat /\ n < Rate * w + Rate
    BY <1>1, DivBounds
  <1>3. Rate * w \in Nat /\ Rate * w >= CallCost - x
    BY <1>1, <1>2
  <1>4. w # 0
    BY <1>1, <1>3
  <1>5. RetryAfter(x) = w
    BY <1>2, <1>4 DEF RetryAfter
  <1>6. w * Rate = Rate * w
    BY <1>1, <1>2
  <1> HIDE DEF n, w
  <1>7. QED
    BY <1>1, <1>2, <1>3, <1>4, <1>5, <1>6

\* What a call does to the buckets: the caller's is charged when it was let
\* through, the others are worth what they were worth.
LEMMA AllowLevels ==
  ASSUME RateTypes, NEW c \in RateCallers, Allow(c)
  PROVE  /\ RateTypes' /\ ticks' = ticks
         /\ \A d \in RateCallers \ {c} :
              Level(d)' = Level(d) /\ grants'[d] = grants[d] /\ retryAt'[d] = retryAt[d]
         /\ Level(c) >= CallCost =>
              /\ Level(c)' = Level(c) - CallCost /\ retryAt'[c] = MaxTicks + 1
              /\ grants'[c] = [grants[c] EXCEPT ![ticks] = @ + 1]
         /\ Level(c) < CallCost =>
              /\ Level(c)' = Level(c) /\ retryAt'[c] = ticks + RetryAfter(Level(c))
              /\ grants'[c] = grants[c]
  <1> DEFINE ok == Level(c) >= CallCost
             left == IF ok THEN Level(c) - CallCost ELSE Level(c)
  <1>1. /\ ticks' = ticks
        /\ lastSweep' = IF ticks - lastSweep >= SweepInterval THEN ticks ELSE lastSweep
        /\ bucket' = [Swept EXCEPT ![c] = [last |-> ticks, tokens |-> left]]
        /\ grants' = IF ok THEN [grants EXCEPT ![c][ticks] = @ + 1] ELSE grants
        /\ retryAt' = [retryAt EXCEPT ![c] =
                        IF ok THEN MaxTicks + 1 ELSE ticks + RetryAfter(Level(c))]
    BY ReapingIsHarmless DEF Allow
  <1>2. /\ ticks \in 0 .. MaxTicks /\ MaxTicks \in Nat /\ lastSweep \in 0 .. ticks
        /\ bucket \in [RateCallers -> [last : 0 .. ticks, tokens : 0 .. Full] \cup {NoBucket}]
        /\ grants \in [RateCallers -> [0 .. MaxTicks -> Nat]]
        /\ retryAt \in [RateCallers -> Nat]
    BY RateAssumption DEF RateTypes
  <1>3. Swept \in [RateCallers -> [last : 0 .. ticks, tokens : 0 .. Full] \cup {NoBucket}]
    BY <1>2 DEF Swept
  <1>4. Level(c) \in 0 .. Full /\ left \in 0 .. Full /\ CallCost \in Nat /\ Full \in Nat
    BY LevelType, FullType
  <1>5. ~ok => RetryAfter(Level(c)) \in Nat
    BY <1>4, RetryAfterBuys
  <1>6. /\ bucket'[c] = [last |-> ticks, tokens |-> left]
        /\ \A d \in RateCallers \ {c} : bucket'[d] = Swept[d]
    BY <1>1, <1>3
  <1>7. RateTypes'
    <2>1. bucket' \in [RateCallers -> [last : 0 .. ticks, tokens : 0 .. Full] \cup {NoBucket}]
      <3>1. [last |-> ticks, tokens |-> left] \in [last : 0 .. ticks, tokens : 0 .. Full]
        BY <1>2, <1>4
      <3>2. QED
        BY <1>1, <1>3, <3>1
    <2>2. grants' \in [RateCallers -> [0 .. MaxTicks -> Nat]]
      <3>1. [grants[c] EXCEPT ![ticks] = @ + 1] \in [0 .. MaxTicks -> Nat]
        BY <1>2
      <3>2. QED
        BY <1>1, <1>2, <3>1
    <2>3. retryAt' \in [RateCallers -> Nat]
      BY <1>1, <1>2, <1>5
    <2>4. ticks' \in 0 .. MaxTicks /\ lastSweep' \in 0 .. ticks
      BY <1>1, <1>2
    <2>5. QED
      BY <1>1, <2>1, <2>2, <2>3, <2>4 DEF RateTypes, Full
  <1>8. ASSUME NEW d \in RateCallers \ {c}
        PROVE  Level(d)' = Level(d) /\ grants'[d] = grants[d] /\ retryAt'[d] = retryAt[d]
    <2>1. Level(d)' = Tokens(d)
      BY <1>1, <1>6 DEF Level, Tokens, Full, Refilled, NoBucket
    <2>2. grants'[d] = grants[d] /\ retryAt'[d] = retryAt[d]
      BY <1>1, <1>2
    <2>3. QED
      BY <2>1, <2>2, ReapingIsHarmless
  <1>9. Level(c)' = left
    <2>1. bucket'[c] # NoBucket
      BY <1>2, <1>6 DEF NoBucket
    <2>2. bucket'[c].tokens = left /\ ticks - bucket'[c].last = 0
      BY <1>2, <1>6
    <2>3. Level(c)' = Refilled(left, 0)
      BY <1>1, <2>1, <2>2 DEF Level, Full, Refilled, NoBucket
    <2>4. QED
      BY <1>4, <2>3, RefillSound
  <1>10. /\ ok => grants'[c] = [grants[c] EXCEPT ![ticks] = @ + 1] /\ retryAt'[c] = MaxTicks + 1
         /\ ~ok => grants'[c] = grants[c] /\ retryAt'[c] = ticks + RetryAfter(Level(c))
    BY <1>1, <1>2
  <1>11. QED
    BY <1>1, <1>4, <1>7, <1>8, <1>9, <1>10

LEMMA AllowKeeps ==
  ASSUME RateInv, NEW c \in RateCallers, Allow(c)
  PROVE  RateInv'
  <1>1. RateTypes /\ RateTypes' /\ ticks' = ticks /\ ticks \in 0 .. MaxTicks /\ MaxTicks \in Nat
    BY AllowLevels, RateAssumption DEF RateInv, RateTypes
  <1>2. /\ Level(c) \in 0 .. Full /\ Full \in Nat /\ CallCost \in Nat /\ Rate \in Nat
        /\ grants[c] \in [0 .. MaxTicks -> Nat]
    BY <1>1, LevelType, FullType DEF RateTypes
  <1>3. \A d \in RateCallers \ {c} :
           Level(d)' = Level(d) /\ grants'[d] = grants[d] /\ retryAt'[d] = retryAt[d]
    BY <1>1, AllowLevels
  <1>4. FutureFree'
    <2>1. ASSUME NEW d \in RateCallers, NEW u \in 0 .. MaxTicks, u > ticks
          PROVE  grants'[d][u] = 0
      <3>1. grants[d][u] = 0
        BY <2>1 DEF RateInv, FutureFree
      <3>2. CASE d # c
        BY <1>3, <3>1, <3>2
      <3>3. CASE d = c
        <4>1. grants'[c] = grants[c] \/ grants'[c] = [grants[c] EXCEPT ![ticks] = @ + 1]
          BY <1>1, <1>2, AllowLevels
        <4>2. QED
          BY <1>1, <1>2, <2>1, <3>1, <3>3, <4>1
      <3>4. QED
        BY <3>2, <3>3
    <2>2. QED
      BY <1>1, <2>1 DEF FutureFree
  <1>5. ASSUME NEW d \in RateCallers, NEW t \in 0 .. ticks
        PROVE  Total(grants'[d], t .. ticks) * CallCost + Level(d)' <= Full + (ticks - t) * Rate
    <2>1. Total(grants[d], t .. ticks) * CallCost + Level(d) <= Full + (ticks - t) * Rate
      BY DEF RateInv, WindowKept
    <2>2. CASE d # c
      BY <1>3, <2>1, <2>2
    <2>3. CASE d = c /\ Level(c) < CallCost
      BY <1>1, <2>1, <2>3, AllowLevels
    <2>4. CASE d = c /\ Level(c) >= CallCost
      <3> DEFINE T == Total(grants[c], t .. ticks)
      <3>1. T \in Nat /\ Total(grants'[c], t .. ticks) = T + 1 /\ Level(c)' = Level(c) - CallCost
        <4>1. /\ Level(c)' = Level(c) - CallCost
              /\ grants'[c] = [grants[c] EXCEPT ![ticks] = @ + 1]
          BY <1>1, <2>4, AllowLevels
        <4>2. T \in Nat /\ Total([grants[c] EXCEPT ![ticks] = @ + 1], t .. ticks) = T + 1
          BY <1>1, <1>2, WindowSums
        <4>3. QED
          BY <4>1, <4>2
      <3>2. T * CallCost + Level(c) <= Full + (ticks - t) * Rate
        BY <2>1, <2>4
      <3>3. (ticks - t) * Rate \in Nat
        BY <1>1, <1>2
      <3> HIDE DEF T
      <3>4. (T + 1) * CallCost = T * CallCost + CallCost /\ T * CallCost \in Nat
        BY <1>2, <3>1
      <3>5. (T + 1) * CallCost + (Level(c) - CallCost) <= Full + (ticks - t) * Rate
        BY <1>2, <3>2, <3>3, <3>4
      <3>6. QED
        BY <2>4, <3>1, <3>5
    <2>5. QED
      BY <1>2, <2>2, <2>3, <2>4
  <1>6. WindowKept'
    BY <1>1, <1>5 DEF WindowKept, Full
  <1>7. WaitKept'
    <2>1. ASSUME NEW d \in RateCallers
          PROVE  /\ ticks >= retryAt'[d] => Level(d)' >= CallCost
                 /\ ticks < retryAt'[d] /\ retryAt'[d] <= MaxTicks =>
                      Level(d)' + (retryAt'[d] - ticks) * Rate >= CallCost
      <3>1. CASE d # c
        BY <1>3, <3>1 DEF RateInv, WaitKept
      <3>2. CASE d = c /\ Level(c) >= CallCost
        <4>1. retryAt'[d] = MaxTicks + 1
          BY <1>1, <3>2, AllowLevels
        <4>2. QED
          BY <1>1, <4>1
      <3>3. CASE d = c /\ Level(c) < CallCost
        <4>1. Level(c)' = Level(c) /\ retryAt'[c] = ticks + RetryAfter(Level(c))
          BY <1>1, <3>3, AllowLevels
        <4>2. /\ RetryAfter(Level(c)) \in Nat \ {0}
              /\ Level(c) + RetryAfter(Level(c)) * Rate >= CallCost
          BY <1>2, <3>3, RetryAfterBuys
        <4>3. retryAt'[c] - ticks = RetryAfter(Level(c)) /\ ticks < retryAt'[c]
          BY <1>1, <4>1, <4>2
        <4>4. QED
          BY <1>1, <3>3, <4>1, <4>2, <4>3
      <3>4. QED
        BY <1>2, <3>1, <3>2, <3>3
    <2>2. QED
      BY <1>1, <2>1 DEF WaitKept
  <1>8. QED
    BY <1>1, <1>4, <1>6, <1>7 DEF RateInv

\* A tick of time refills every bucket, up to the burst.
LEMMA TickLevels ==
  ASSUME RateTypes, RateTick, NEW c \in RateCallers
  PROVE  Level(c)' = IF Level(c) + Rate > Full THEN Full ELSE Level(c) + Rate
  <1>1. ticks' = ticks + 1 /\ bucket' = bucket /\ ticks \in Nat
    BY DEF RateTick, RateTypes
  <1>2. Full \in Nat /\ Rate \in Nat \ {0}
    BY FullType
  <1>3. CASE bucket[c] = NoBucket
    <2>1. Level(c) = Full /\ Level(c)' = Full
      BY <1>1, <1>3 DEF Level, Full, NoBucket
    <2>2. QED
      BY <1>2, <2>1
  <1>4. CASE bucket[c] # NoBucket
    <2> DEFINE x == bucket[c].tokens
               e == ticks - bucket[c].last
    <2>1. x \in 0 .. Full /\ e \in Nat /\ (ticks + 1) - bucket[c].last = e + 1
      BY <1>1, <1>4, BucketDistinct
    <2>2. Level(c) = Refilled(x, e)
      BY <1>4 DEF Level
    <2>3. Level(c)' = Refilled(x, (ticks + 1) - bucket[c].last)
      <3>1. Level(c)' = Refilled(bucket'[c].tokens, ticks' - bucket'[c].last)
        BY <1>1, <1>4 DEF Level, Refilled, NoBucket
      <3>2. bucket'[c] = bucket[c] /\ ticks' = ticks + 1
        BY <1>1
      <3>3. bucket'[c].tokens = x /\ ticks' - bucket'[c].last = (ticks + 1) - bucket[c].last
        BY <3>2
      <3>4. QED
        BY <3>1, <3>3
    <2> HIDE DEF x, e
    <2>4. Refilled(x, e + 1) = IF Refilled(x, e) + Rate > Full THEN Full ELSE Refilled(x, e) + Rate
      BY <2>1, RefillSound
    <2>5. QED
      BY <2>1, <2>2, <2>3, <2>4
  <1>5. QED
    BY <1>3, <1>4

LEMMA RateTickKeeps ==
  ASSUME RateInv, RateTick
  PROVE  RateInv'
  <1>1. /\ ticks' = ticks + 1 /\ ticks < MaxTicks /\ ticks \in 0 .. MaxTicks /\ MaxTicks \in Nat
        /\ UNCHANGED <<bucket, lastSweep, grants, retryAt>>
    BY RateAssumption DEF RateTick, RateInv, RateTypes
  <1>2. RateTypes'
    <2>1. ticks' \in 0 .. MaxTicks /\ lastSweep' \in 0 .. ticks'
      BY <1>1 DEF RateInv, RateTypes
    <2>2. \A c \in RateCallers :
             bucket'[c] \in [last : 0 .. ticks', tokens : 0 .. Full] \cup {NoBucket}
      <3> SUFFICES ASSUME NEW c \in RateCallers, bucket[c] # NoBucket
                   PROVE  bucket[c] \in [last : 0 .. ticks', tokens : 0 .. Full]
        BY <1>1
      <3>1. bucket[c] \in [last : 0 .. ticks, tokens : 0 .. Full]
        BY DEF RateInv, RateTypes
      <3>2. 0 .. ticks \subseteq 0 .. ticks'
        BY <1>1
      <3>3. QED
        BY <3>1, <3>2
    <2>3. bucket' \in [RateCallers -> [last : 0 .. ticks', tokens : 0 .. Full] \cup {NoBucket}]
      BY <1>1, <2>2 DEF RateInv, RateTypes
    <2>4. QED
      BY <1>1, <2>1, <2>3 DEF RateInv, RateTypes, Full, NoBucket
  <1>3. FutureFree'
    BY <1>1 DEF RateInv, FutureFree
  <1>4. ASSUME NEW c \in RateCallers
        PROVE  /\ Level(c)' = IF Level(c) + Rate > Full THEN Full ELSE Level(c) + Rate
               /\ Level(c) \in 0 .. Full /\ Full \in Nat /\ Rate \in Nat /\ CallCost \in Nat
               /\ CallCost <= Full
               /\ grants[c] \in [0 .. MaxTicks -> Nat] /\ grants[c][ticks + 1] = 0
               /\ retryAt[c] \in Nat
    <2>1. Level(c)' = IF Level(c) + Rate > Full THEN Full ELSE Level(c) + Rate
      BY TickLevels DEF RateInv
    <2>2. /\ Level(c) \in 0 .. Full /\ Full \in Nat /\ Rate \in Nat /\ CallCost \in Nat
          /\ CallCost <= Full
      BY LevelType, FullType DEF RateInv
    <2>3. grants[c] \in [0 .. MaxTicks -> Nat] /\ retryAt[c] \in Nat
      BY DEF RateInv, RateTypes
    <2>4. grants[c][ticks + 1] = 0
      BY <1>1 DEF RateInv, FutureFree
    <2>5. QED
      BY <2>1, <2>2, <2>3, <2>4
  <1>5. ASSUME NEW c \in RateCallers, NEW t \in 0 .. (ticks + 1)
        PROVE  Total(grants[c], t .. (ticks + 1)) * CallCost + Level(c)'
                 <= Full + (ticks + 1 - t) * Rate
    <2>1. CASE t = ticks + 1
      <3>1. ticks \in 0 .. ticks
        BY <1>1
      <3>2. Total(grants[c], (ticks + 1) .. (ticks + 1)) = 0
        BY <1>1, <1>4, <3>1, WindowSums
      <3>3. 0 * CallCost = 0 /\ (ticks + 1 - t) * Rate = 0 /\ Level(c)' <= Full
        BY <1>1, <1>4, <2>1
      <3>4. QED
        BY <1>1, <1>4, <2>1, <3>2, <3>3
    <2>2. CASE t # ticks + 1
      <3>1. t \in 0 .. ticks
        BY <1>1, <2>2
      <3> DEFINE T == Total(grants[c], t .. ticks)
      <3>2. T \in Nat /\ Total(grants[c], t .. (ticks + 1)) = T
        BY <1>1, <1>4, <3>1, WindowSums
      <3>3. T * CallCost + Level(c) <= Full + (ticks - t) * Rate
        BY <3>1 DEF RateInv, WindowKept
      <3> HIDE DEF T
      <3>4. /\ (ticks + 1 - t) * Rate = (ticks - t) * Rate + Rate
            /\ (ticks - t) * Rate \in Nat /\ T * CallCost \in Nat
        <4> DEFINE k == ticks - t
        <4>1. k \in Nat /\ ticks + 1 - t = k + 1
          BY <1>1, <3>1
        <4> HIDE DEF k
        <4>2. (k + 1) * Rate = k * Rate + Rate /\ k * Rate \in Nat
          BY <1>4, <4>1
        <4>3. T * CallCost \in Nat
          BY <1>4, <3>2
        <4>4. QED
          BY <4>1, <4>2, <4>3 DEF k
      <3>5. Level(c)' <= Level(c) + Rate
        BY <1>4
      <3>6. T * CallCost + Level(c)' <= Full + ((ticks - t) * Rate + Rate)
        BY <1>4, <3>3, <3>4, <3>5
      <3>7. QED
        BY <3>2, <3>4, <3>6
    <2>3. QED
      BY <2>1, <2>2
  <1>6. WindowKept'
    BY <1>1, <1>5 DEF WindowKept, Full
  <1>7. ASSUME NEW c \in RateCallers
        PROVE  /\ ticks + 1 >= retryAt[c] => Level(c)' >= CallCost
               /\ ticks + 1 < retryAt[c] /\ retryAt[c] <= MaxTicks =>
                    Level(c)' + (retryAt[c] - (ticks + 1)) * Rate >= CallCost
    <2>1. /\ ticks >= retryAt[c] => Level(c) >= CallCost
          /\ ticks < retryAt[c] /\ retryAt[c] <= MaxTicks =>
               Level(c) + (retryAt[c] - ticks) * Rate >= CallCost
      BY DEF RateInv, WaitKept
    <2>2. ASSUME ticks + 1 >= retryAt[c] PROVE Level(c)' >= CallCost
      <3>1. CASE ticks >= retryAt[c]
        BY <1>4, <2>1, <3>1
      <3>2. CASE retryAt[c] = ticks + 1
        <4>1. (retryAt[c] - ticks) * Rate = Rate
          BY <1>1, <1>4, <3>2
        <4>2. Level(c) + Rate >= CallCost
          BY <1>1, <2>1, <3>2, <4>1
        <4>3. QED
          BY <1>4, <4>2
      <3>3. QED
        BY <1>1, <1>4, <2>2, <3>1, <3>2
    <2>3. ASSUME ticks + 1 < retryAt[c], retryAt[c] <= MaxTicks
          PROVE  Level(c)' + (retryAt[c] - (ticks + 1)) * Rate >= CallCost
      <3> DEFINE k == retryAt[c] - (ticks + 1)
      <3>1. k \in Nat /\ retryAt[c] - ticks = k + 1 /\ ticks < retryAt[c]
        BY <1>1, <1>4, <2>3
      <3>2. Level(c) + (k + 1) * Rate >= CallCost
        BY <2>1, <2>3, <3>1
      <3> HIDE DEF k
      <3>3. (k + 1) * Rate = k * Rate + Rate /\ k * Rate \in Nat
        BY <1>4, <3>1
      <3>4. Level(c)' + k * Rate >= CallCost
        BY <1>4, <3>2, <3>3
      <3>5. QED
        BY <3>4 DEF k
    <2>4. QED
      BY <2>2, <2>3
  <1>8. WaitKept'
    BY <1>1, <1>7 DEF WaitKept
  <1>9. QED
    BY <1>2, <1>3, <1>6, <1>8 DEF RateInv

LEMMA RateStep == RateInv /\ [RateNext]_rateVars => RateInv'
  <1> SUFFICES ASSUME RateInv, [RateNext]_rateVars PROVE RateInv'
    OBVIOUS
  <1>1. CASE UNCHANGED rateVars
    BY <1>1 DEF rateVars, RateInv, RateTypes, FutureFree, WindowKept, WaitKept, Level, Refilled,
                Full, NoBucket
  <1>2. QED
    BY <1>1, AllowKeeps, RateTickKeeps DEF RateNext

\* The limiter keeps its rate in every state that the invariant allows.
LEMMA RateKeptNow == RateInv => RateKept
  <1> SUFFICES ASSUME RateInv PROVE RateKept
    OBVIOUS
  <1>1. ASSUME NEW c \in RateCallers PROVE Tokens(c) = Level(c) /\ Level(c) \in 0 .. Full
    BY ReapingIsHarmless, LevelType DEF RateInv
  <1>2. RetryAfterHonoured
    BY <1>1 DEF RetryAfterHonoured, RateInv, WaitKept
  <1>3. ASSUME NEW c \in RateCallers, NEW t \in 0 .. ticks
        PROVE  Total(grants[c], t .. ticks) * CallCost <= Burst * CallCost + (ticks - t) * Rate
    <2> DEFINE T == Total(grants[c], t .. ticks)
    <2>1. /\ ticks \in 0 .. MaxTicks /\ MaxTicks \in Nat /\ grants[c] \in [0 .. MaxTicks -> Nat]
      BY RateAssumption DEF RateInv, RateTypes
    <2>2. T \in Nat
      BY <2>1, WindowSums
    <2>3. T * CallCost \in Nat /\ (ticks - t) * Rate \in Nat
      BY <2>1, <2>2, FullType
    <2>4. T * CallCost + Level(c) <= Full + (ticks - t) * Rate
      BY DEF RateInv, WindowKept
    <2> HIDE DEF T
    <2>5. T * CallCost <= Full + (ticks - t) * Rate
      BY <1>1, <2>3, <2>4, FullType
    <2>6. QED
      BY <2>5 DEF T, Full
  <1>4. QED
    BY <1>2, <1>3 DEF RateKept, RateBounded

(* rateLimiter.allow: for any number of callers, any rate, burst, cost and  *)
(* sweep interval with which an idle bucket is full, and any length of the  *)
(* run, no window of time lets a caller through more often than the burst   *)
(* and the refill allow, though buckets are reaped in between; and a        *)
(* caller that waited as long as its Retry-After said is let through.       *)
THEOREM RateStaysKept == RateSpec => []RateKept
  BY RateStarts, RateStep, RateKeptNow, PTL DEF RateSpec
=============================================================================
