----------------------------- MODULE Instances -----------------------------
(***************************************************************************)
(* Instances of providers (internal/instancesapi, the instances table).  A *)
(* provider claims a peer whose wallet on the mesh is his, or reclaims one *)
(* whose wallet changed; later requests that manage the instance first     *)
(* check that the mesh still shows the wallet, with the row they read, and *)
(* write the observation back with it.  Instances linked with a deploy key *)
(* have no observed wallet and skip the check.                             *)
(*                                                                         *)
(* One peer.  An account has one wallet, so a provider stands for both.    *)
(* A request is a copy of the row between statements of its own; the mesh  *)
(* answers what it likes.                                                  *)
(***************************************************************************)
EXTENDS Integers, FiniteSets

CONSTANTS Providers,
          NoProvider,
          Managers,        \* management requests in flight
          MaxClaims        \* bound on claims, reclaims and links

ASSUME InstancesAssumption ==
  /\ NoProvider \notin Providers
  /\ MaxClaims \in Nat

Modes == {"public", "restricted"}
AclRules == {"none", "some"}
NoRow == [id |-> 0, account |-> NoProvider]
IdleManage == [at |-> "idle"]

VARIABLES row,         \* the row of the peer
          managing,
          claims,
          linked,      \* the row was created by the link flow
          modeBy,      \* ghost: who set the mode
          rulesBy,     \* ghost: who set the rules
          raced,       \* ghost: the rules were committed during the reclaim of the row
          failed,      \* ghost: a lookup of the row has failed
          outlived,    \* ghost: a request let through for a linked row wrote a claimed one
          unverified   \* ghost: a request changed a claimed row without a check

policyVars == <<modeBy, rulesBy, raced>>
checkVars == <<failed, outlived, unverified>>
instanceVars == <<row, managing, claims, linked, policyVars, checkVars>>

InstanceInit ==
  /\ row = NoRow
  /\ managing = [h \in Managers |-> IdleManage]
  /\ claims = 0
  /\ linked = FALSE
  /\ modeBy = NoProvider /\ rulesBy = NoProvider /\ raced = FALSE
  /\ failed = FALSE /\ outlived = FALSE /\ unverified = FALSE

-----------------------------------------------------------------------------
(* Claims.                                                                 *)

\* handleCreate: the mesh shows the peer, freshly, under the wallet of u.
ClaimLookup(h, u) ==
  /\ managing[h] = IdleManage
  /\ managing' = [managing EXCEPT ![h] = [at |-> "observed", user |-> u]]
  /\ UNCHANGED <<row, claims, linked, policyVars, checkVars>>

\* GetInstanceByPeerID: an instance of the same wallet is a conflict.
ClaimRead(h) ==
  /\ managing[h].at = "observed"
  /\ managing' = [managing EXCEPT ![h] =
       IF row = NoRow THEN [at |-> "create", user |-> @.user]
       ELSE IF row.wallet = @.user THEN IdleManage
       ELSE [at |-> "reclaim", user |-> @.user, id |-> row.id]]
  /\ UNCHANGED <<row, claims, linked, policyVars, checkVars>>

ClaimedRow(i, u) ==
  [id |-> i, account |-> u, wallet |-> u, mode |-> "restricted", rules |-> "none",
   status |-> "active", observed |-> u]

NewRow(u, r, link) ==
  /\ row' = r
  /\ claims' = claims + 1
  /\ linked' = link
  /\ modeBy' = u /\ rulesBy' = u /\ raced' = FALSE
  /\ failed' = FALSE /\ outlived' = FALSE /\ unverified' = FALSE

\* CreateInstance; peer_id is unique.
ClaimCreate(h) ==
  /\ managing[h].at = "create"
  /\ claims < MaxClaims
  /\ IF row = NoRow
       THEN NewRow(managing[h].user, ClaimedRow(claims + 1, managing[h].user), FALSE)
       ELSE UNCHANGED <<row, claims, linked, policyVars, checkVars>>
  /\ managing' = [managing EXCEPT ![h] = IdleManage]

\* Mutant: a reclaim keeps the mode of the previous owner.
ReclaimedRow_KeepsMode(u, rules) ==
  [ClaimedRow(row.id, u) EXCEPT !.mode = row.mode, !.rules = rules]

\* ReclaimInstance: the row of a claim, with the rules that are left.
ReclaimedRow(u, rules) == [ClaimedRow(row.id, u) EXCEPT !.rules = rules]

\* ReclaimInstance, first statement: the rules are deleted.  The row itself is
\* not locked yet, and rules committed from now on stay.
ReclaimDelete(h) ==
  /\ managing[h].at = "reclaim"
  /\ managing' = [managing EXCEPT ![h] =
       [at |-> "deleted", user |-> @.user, id |-> @.id, left |-> "none"]]
  /\ UNCHANGED <<row, claims, linked, policyVars, checkVars>>

\* h ends and has set the rules; a reclaim that had deleted those of this row
\* before finds the new ones when it gets to the row.
EndedWith(h, rules) ==
  [g \in Managers |->
     IF g = h THEN IdleManage
     ELSE IF managing[g].at = "deleted" /\ managing[g].id = row.id
            THEN [managing[g] EXCEPT !.left = rules]
            ELSE managing[g]]

\* ReclaimInstance, second statement and commit.  The row is selected by its
\* id alone, and the rules that were left stay.
Reclaim(h) ==
  /\ managing[h].at = "deleted"
  /\ claims < MaxClaims
  /\ row.id = managing[h].id
  /\ LET u == managing[h].user
         left == managing[h].left
         r == ReclaimedRow(u, left) IN
       /\ row' = r
       /\ modeBy' = IF r.mode = "restricted" THEN u ELSE modeBy
       /\ rulesBy' = IF left = "none" THEN u ELSE rulesBy
       /\ raced' = (left = "some")
       /\ managing' = IF left = "none" THEN EndedWith(h, "none")
                      ELSE [managing EXCEPT ![h] = IdleManage]
  /\ claims' = claims + 1
  /\ linked' = FALSE
  /\ UNCHANGED checkVars

\* CreateInstance of the link flow, which observes no wallet.
LinkInstance(u) ==
  /\ row = NoRow
  /\ claims < MaxClaims
  /\ NewRow(u, [ClaimedRow(claims + 1, u) EXCEPT !.observed = NoProvider], TRUE)
  /\ UNCHANGED managing

\* handleDelete looks at the account only.
DeleteRow(u) ==
  /\ row.account = u
  /\ row' = NoRow
  /\ UNCHANGED <<managing, claims, linked, policyVars, checkVars>>

-----------------------------------------------------------------------------
(* Management: requireCurrentOwnership, then PATCH or PUT acl.             *)

\* GetInstanceByIDForUser.  A row without an observed wallet is taken for one
\* of the link flow and passes.
ManageRead(h, u) ==
  /\ managing[h] = IdleManage
  /\ row.account = u
  /\ managing' = [managing EXCEPT ![h] =
       [at |-> IF row.observed = NoProvider THEN "pass" ELSE "check",
        user |-> u, copy |-> row, verified |-> FALSE, byLink |-> linked]]
  /\ UNCHANGED <<row, claims, linked, policyVars, checkVars>>

\* The WHERE of the writes: the row that was read, still of the account.
Mine(h) == row.id = managing[h].copy.id /\ row.account = managing[h].user

\* UpdateInstanceMetadata; rules and wallet stay.  Without a row of the account
\* the answer is 404.
UpdateMetadata(h, mode, status, observed) ==
  row' = IF Mine(h) THEN [row EXCEPT !.mode = mode, !.status = status, !.observed = observed]
         ELSE row

\* A lookup that fails, shows another wallet or is too old refuses the request
\* and records what it saw, with the mode the request had read.
OwnershipRefused(h, status, observed) ==
  /\ UpdateMetadata(h, managing[h].copy.mode, status, observed)
  /\ failed' = (failed \/ (observed = NoProvider /\ Mine(h)))
  /\ managing' = [managing EXCEPT ![h] = IdleManage]
  /\ UNCHANGED <<claims, linked, policyVars, outlived, unverified>>

LookupError(h) ==
  /\ managing[h].at = "check"
  /\ OwnershipRefused(h, "unavailable", NoProvider)

LookupMismatch(h, w) ==
  /\ managing[h].at = "check" /\ w # managing[h].copy.wallet
  /\ OwnershipRefused(h, "mismatch", w)

LookupStale(h) ==
  /\ managing[h].at = "check"
  /\ OwnershipRefused(h, "unavailable", managing[h].copy.wallet)

LookupMatches(h) ==
  /\ managing[h].at = "check"
  /\ LET seen == managing[h].copy IN
       managing' = [managing EXCEPT ![h] =
         [at |-> "pass", user |-> managing[h].user, verified |-> TRUE, byLink |-> managing[h].byLink,
          copy |-> [seen EXCEPT !.status = "active", !.observed = seen.wallet]]]
  /\ UNCHANGED <<row, claims, linked, policyVars, checkVars>>

\* A request that writes without a mesh check, on a row that is not linked (any
\* more), is one of two kinds: it had read the row after a failed lookup, or
\* while it was linked.
Wrote(h) ==
  LET unchecked == Mine(h) /\ ~linked /\ ~managing[h].verified IN
  /\ modeBy' = IF Mine(h) THEN managing[h].user ELSE modeBy
  /\ outlived' = (outlived \/ (unchecked /\ managing[h].byLink))
  /\ unverified' = (unverified \/ unchecked)
  /\ UNCHANGED <<claims, linked, failed>>

\* handlePatch, with a mode or with the mode that was read.
Patch(h, mode) ==
  /\ managing[h].at = "pass"
  /\ UpdateMetadata(h, mode, managing[h].copy.status, managing[h].copy.observed)
  /\ Wrote(h)
  /\ managing' = [managing EXCEPT ![h] = IdleManage]
  /\ UNCHANGED <<rulesBy, raced>>

PatchLabel(h) ==
  /\ managing[h].at = "pass"
  /\ Patch(h, managing[h].copy.mode)

\* handleReplaceACL: mode and rules in one transaction.
ReplaceACL(h, mode, rules) ==
  /\ managing[h].at = "pass"
  /\ IF Mine(h)
       THEN /\ row' = [row EXCEPT !.mode = mode, !.rules = rules,
                                  !.status = managing[h].copy.status,
                                  !.observed = managing[h].copy.observed]
            /\ rulesBy' = managing[h].user /\ raced' = FALSE
            /\ managing' = EndedWith(h, rules)
       ELSE /\ UNCHANGED <<row, rulesBy, raced>>
            /\ managing' = [managing EXCEPT ![h] = IdleManage]
  /\ Wrote(h)

\* The store fails, or the request is lost.
ManageFails(h) ==
  /\ managing[h] # IdleManage
  /\ managing' = [managing EXCEPT ![h] = IdleManage]
  /\ UNCHANGED <<row, claims, linked, policyVars, checkVars>>

InstanceNext ==
  \/ \E u \in Providers :
       \/ LinkInstance(u)
       \/ DeleteRow(u)
       \/ \E h \in Managers : ClaimLookup(h, u) \/ ManageRead(h, u) \/ LookupMismatch(h, u)
  \/ \E h \in Managers :
       \/ ClaimRead(h)
       \/ ClaimCreate(h)
       \/ ReclaimDelete(h)
       \/ Reclaim(h)
       \/ LookupError(h)
       \/ LookupStale(h)
       \/ LookupMatches(h)
       \/ \E mode \in Modes : Patch(h, mode) \/ \E rules \in AclRules : ReplaceACL(h, mode, rules)
       \/ PatchLabel(h)
       \/ ManageFails(h)

InstanceSpec == InstanceInit /\ [][InstanceNext]_instanceVars

-----------------------------------------------------------------------------
(* Properties.                                                             *)

\* What a previous owner allowed ends with his ownership: the mode and the
\* rules of an instance were set by the account that owns it, through reclaims
\* and with requests of the previous owner still in flight.  The exception is
\* in the code: ReclaimInstance deletes the rules before it has the row, and
\* rules that are committed in between stay until the new owner replaces them.
PolicyOfOwner ==
  row # NoRow =>
    /\ row.mode = "public" => modeBy = row.account
    /\ row.rules = "some" => rulesBy = row.account \/ raced

\* A claimed instance is managed without a mesh check only after a lookup of
\* it has failed (a request that was refused opens the door for the next ones),
\* or once a request that had read the row while it was linked has written it
\* after reclaims.
UncheckedOnlyAfterFailure == unverified => failed \/ outlived

\* The owner of an instance is in charge of it: its mode and its rules were
\* set by whoever owns it now, and nobody manages a claimed instance without a
\* mesh check but for these cases.
OwnerInCharge == PolicyOfOwner /\ UncheckedOnlyAfterFailure
=============================================================================
