-------------------------------- MODULE Asks --------------------------------
(***************************************************************************)
(* The seller's side of the market: the durable price sheet of a peer      *)
(* (peer_ask_config, edited in the console), the market rows with a TTL    *)
(* (peer_asks) that the billing gate reads, and the three writers of the   *)
(* market: the node's own POST /internal/pricing (internal/pricingapi),    *)
(* the console's PUT (internal/billingapi/model_pricing.go) and the        *)
(* refresher (internal/askrefresh).  Each writer reads the instance and    *)
(* the mesh in calls of their own before it replaces the rows, so owner,   *)
(* advertisement and sheet may all have changed when it does.              *)
(*                                                                         *)
(* Both tables are keyed by the peer, and one peer is modelled.  A sheet   *)
(* is a set of <<route, price>>; a route is a service and a model, a price *)
(* its three rates.  Time is counted down: a row has ticks left to live.   *)
(***************************************************************************)
EXTENDS Naturals, FiniteSets

CONSTANTS Owners,        \* accounts, each with the wallet of its instances
          NoOwner,        \* no account: the peer has no instance row
          Routes, Prices,
          AskTTL,        \* askTTL, sellerAskTTLDuration, DefaultTTL
          MaxRevision    \* bound: revisions of one peer

ASSUME AsksAssumption ==
  /\ NoOwner \notin Owners
  /\ AskTTL \in Nat \ {0} /\ MaxRevision \in Nat \ {0}

Sheets == SUBSET (Routes \X Prices)

\* At most one ask for a route (the rates' bounds are abstracted).
validateAsks(sheet) == \A x, y \in sheet : x[1] = y[1] => x = y

\* The sheets that can be on the market.
Priced == {s \in Sheets : s # {} /\ validateAsks(s)}

Publishers == {"node", "console", "refresher"}

IdleTask == [step |-> "idle", sheet |-> {}, owner |-> NoOwner, wallet |-> NoOwner]

VARIABLES askConfig,    \* peer_ask_config: the sheet
          market,       \* peer_asks: the sheet, its revision, the ticks left
          instOwner,    \* the instance row's account (and its wallet)
          mesh,         \* what a lookup of the peer answers
          task,         \* what each writer is doing
          withdrawn,    \* history: ticks since a sheet was configured or carried
          orphaned      \* history: ticks since the owner was the one observed

tableVars == <<askConfig, market, instOwner, mesh, task>>
askVars == <<tableVars, withdrawn, orphaned>>

AskInit ==
  /\ askConfig = {}
  /\ market = [sheet |-> {}, revision |-> 0, left |-> 0]
  /\ instOwner = NoOwner
  /\ mesh \in [wallet : Owners, serves : SUBSET Routes]
  /\ task = [w \in Publishers |-> IdleTask]
  /\ withdrawn = [s \in Priced |-> AskTTL]
  /\ orphaned = AskTTL
----------------------------------------------------------------------------
(* The rules of a sheet.                                                   *)

AdvertisedModelsByService == mesh.serves

ValidateAsksAgainstAdvertisement(sheet) ==
  /\ validateAsks(sheet)
  /\ \A x \in sheet : x[1] \in AdvertisedModelsByService

validateAskConfig(sheet) == validateAsks(sheet)

\* A registered instance has an account and a wallet to pay.
BillableProvider(o) == o # NoOwner

\* Mutant: the refresher trusts the instance row alone.
OwnerObserved_Anyone(o) == TRUE

\* The wallet the mesh observes now is the owner's.  An observation is
\* stamped by the lookup that made it, so it is always fresh here.
OwnerObserved(o) == mesh.wallet = o
----------------------------------------------------------------------------
(* ReplaceAsks: one transaction under the peer's advisory lock.            *)

\* MAX(revision) + 1 over the peer's rows, expired ones included.
NextRevision == market.revision + 1

Replacement(sheet) == [sheet |-> sheet, revision |-> NextRevision, left |-> AskTTL]

ReplaceAsks(sheet) ==
  \/ /\ sheet = {}
     /\ market' = [sheet |-> {}, revision |-> 0, left |-> 0]
  \/ /\ sheet # {} /\ NextRevision <= MaxRevision
     /\ market' = Replacement(sheet)

\* LiveAsks and LiveAsksByPeers: rows with expires_at > now.
LiveAsks == IF market.left > 0 THEN market.sheet ELSE {}
----------------------------------------------------------------------------
(* The writers.  Every refusal and every error ends the task.              *)

Goto(w, s) == task' = [task EXCEPT ![w] = s]

Busy(w, step) == task[w].step = step

\* The node posts its asks with a credential for its own peer.
Handler(sheet) ==
  /\ Busy("node", "idle")
  /\ Goto("node", [IdleTask EXCEPT !.step = "instance", !.sheet = sheet])
  /\ UNCHANGED <<askConfig, market, instOwner, mesh>>

\* PUT: the sheet is valid and the peer is the caller's.
handleAsksConfigPut(a, sheet) ==
  /\ Busy("console", "idle") /\ validateAskConfig(sheet)
  /\ instOwner = a
  /\ Goto("console", [IdleTask EXCEPT !.step = "config", !.sheet = sheet, !.owner = a])
  /\ UNCHANGED <<askConfig, market, instOwner, mesh>>

\* DELETE: the peer is the caller's.
handleAsksConfigDelete(a) ==
  /\ Busy("console", "idle") /\ instOwner = a
  /\ Goto("console", [IdleTask EXCEPT !.step = "config", !.owner = a])
  /\ UNCHANGED <<askConfig, market, instOwner, mesh>>

\* The sheet replaces the durable one; an empty one is not published.
ReplaceAskConfig ==
  /\ Busy("console", "config")
  /\ askConfig' = task["console"].sheet
  /\ Goto("console", IF task["console"].sheet = {} THEN IdleTask
                     ELSE [task["console"] EXCEPT !.step = "instance"])
  /\ UNCHANGED <<market, instOwner, mesh>>

\* The peer's sheet among all of them.
AllAskConfigs == askConfig

\* A pass of the refresher reads the sheets once, and skips an empty one.
refreshOnce ==
  /\ Busy("refresher", "idle") /\ AllAskConfigs # {}
  /\ Goto("refresher", [IdleTask EXCEPT !.step = "instance", !.sheet = AllAskConfigs])
  /\ UNCHANGED <<askConfig, market, instOwner, mesh>>

\* Each writer reads the instance; the console wants its own account there.
GetInstanceByPeerID(w) ==
  /\ Busy(w, "instance") /\ BillableProvider(instOwner)
  /\ w = "console" => instOwner = task[w].owner
  /\ Goto(w, [task[w] EXCEPT !.step = "mesh", !.owner = instOwner])
  /\ UNCHANGED <<askConfig, market, instOwner, mesh>>

\* Then it looks the peer up; the refresher does not ask what it serves.
LookupPeer(w) ==
  /\ Busy(w, "mesh") /\ OwnerObserved(task[w].owner)
  /\ w # "refresher" => ValidateAsksAgainstAdvertisement(task[w].sheet)
  /\ Goto(w, [task[w] EXCEPT !.step = "replace", !.wallet = mesh.wallet])
  /\ UNCHANGED <<askConfig, market, instOwner, mesh>>

\* And it replaces the rows with the sheet it carries.
Publish(w) ==
  /\ Busy(w, "replace") /\ ReplaceAsks(task[w].sheet)
  /\ Goto(w, IdleTask)
  /\ UNCHANGED <<askConfig, instOwner, mesh>>

\* A refusal, an error of the store or the mesh, or a restart.
GiveUp(w) ==
  /\ ~Busy(w, "idle") /\ Goto(w, IdleTask)
  /\ UNCHANGED <<askConfig, market, instOwner, mesh>>
----------------------------------------------------------------------------
(* The instance and the peer change on their own.  Neither deletion nor    *)
(* reclaim touches the two tables: they have no foreign key.               *)

DeleteInstance ==
  /\ instOwner # NoOwner /\ instOwner' = NoOwner
  /\ UNCHANGED <<askConfig, market, mesh, task>>

\* A claim or a reclaim goes to the wallet that the mesh observes.
ClaimInstance ==
  /\ instOwner # mesh.wallet /\ instOwner' = mesh.wallet
  /\ UNCHANGED <<askConfig, market, mesh, task>>

PeerChanges ==
  /\ mesh' \in [wallet : Owners, serves : SUBSET Routes] /\ mesh' # mesh
  /\ UNCHANGED <<askConfig, market, instOwner, task>>

TableStep ==
  \/ \E sheet \in Sheets : Handler(sheet)
  \/ \E a \in Owners, sheet \in Sheets : handleAsksConfigPut(a, sheet)
  \/ \E a \in Owners : handleAsksConfigDelete(a)
  \/ ReplaceAskConfig \/ refreshOnce
  \/ \E w \in Publishers : GetInstanceByPeerID(w) \/ LookupPeer(w) \/ Publish(w) \/ GiveUp(w)
  \/ DeleteInstance \/ ClaimInstance \/ PeerChanges
----------------------------------------------------------------------------
(* The history of a sheet and of the owner, kept along with every step.    *)

\* The sheet is the configured one, or a writer carries it.
Carried(sheet) ==
  \/ askConfig = sheet
  \/ \E w \in Publishers : ~Busy(w, "idle") /\ task[w].sheet = sheet

\* The owner is the one observed, or a writer has found so.
Vouched ==
  \/ BillableProvider(instOwner) /\ mesh.wallet = instOwner
  \/ \E w \in Publishers : Busy(w, "replace") /\ task[w].wallet = task[w].owner

Older(n) == IF n < AskTTL THEN n + 1 ELSE n

AskStep ==
  /\ TableStep
  /\ withdrawn' = [s \in Priced |-> IF Carried(s)' THEN 0 ELSE withdrawn[s]]
  /\ orphaned' = IF Vouched' THEN 0 ELSE orphaned

AskTick ==
  /\ market.left > 0
  /\ market' = [market EXCEPT !.left = @ - 1]
  /\ withdrawn' = [s \in Priced |-> IF Carried(s) THEN 0 ELSE Older(withdrawn[s])]
  /\ orphaned' = IF Vouched THEN 0 ELSE Older(orphaned)
  /\ UNCHANGED <<askConfig, instOwner, mesh, task>>

AskNext == AskStep \/ AskTick

AskSpec == AskInit /\ [][AskNext]_askVars
----------------------------------------------------------------------------
(* Properties.                                                             *)

\* Prices that the seller has withdrawn leave the market within the TTL,
\* counted from the moment when the last writer that still carried them
\* ended: a pass of the refresher that read the sheet before a DELETE
\* publishes it once more, and no later writer prolongs it.
WithdrawnPricesExpire ==
  LiveAsks # {} => market.left + withdrawn[market.sheet] <= AskTTL

\* A peer whose observed wallet is not its owner's, or that has no owner,
\* loses its rows within the TTL, counted from the moment when the last
\* writer that had found them equal ended.
OrphanedPricesExpire ==
  LiveAsks # {} => market.left + orphaned <= AskTTL

\* Prices nobody stands behind expire within the TTL: the ones the seller
\* withdrew, and the ones of a peer that is no longer its owner's.
StalePricesExpire == WithdrawnPricesExpire /\ OrphanedPricesExpire
=============================================================================
