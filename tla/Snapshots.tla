----------------------------- MODULE Snapshots -----------------------------
(***************************************************************************)
(* The views of the mesh that requests share: the policy-filtered node     *)
(* table (peers.Service.Snapshot), the catalogue built on it               *)
(* (catalog.Handler.view) and the GPU inventory (perf.Resolver).  Each     *)
(* checks its age under a lock, fetches without it and stores what it got, *)
(* so that several requests may fetch at once and store in any order.      *)
(*                                                                         *)
(* One service of one peer is followed: whether the node table lists it,   *)
(* and what the instance row says of it.  Times are ages in ticks, which   *)
(* stop at the first age that no comparison tells from an older one.       *)
(***************************************************************************)
EXTENDS Naturals, FiniteSets

CONSTANTS Callers,
          SnapTTL, ViewTTL,   \* catalogCacheTTL for both, in the code
          FetchTime,          \* the longest fetch: 10 s for the node table
          GpuTTL, RetryFloor, \* PERF_PEER_CACHE_TTL; 15 s
          GpuTimeout          \* the longest refresh: 10 s

ASSUME SnapshotsAssumption ==
  /\ SnapTTL \in Nat \ {0} /\ ViewTTL \in Nat \ {0} /\ FetchTime \in Nat /\ GpuTTL \in Nat
  /\ RetryFloor \in Nat /\ GpuTimeout \in 0 .. RetryFloor

\* How the instance row of the peer may stand: there is none; the policy is per
\* service, permissionless or not; it is the peer's, which is in a region or not.
InstanceRows == {"none", "service_permissionless", "service_trusted", "peer_open", "peer_member"}

\* Snapshot's filter, with findPermissionlessService.
Exposed(row) == row \in {"none", "service_permissionless", "peer_open"}

VARIABLES listed,     \* the node table lists the service
          row,        \* the instance row
          gone,       \* history: ticks for which the table has not listed it
          closed,     \* history: ticks for which the row has not exposed it
          snap,       \* peers.Service: what the cached table shows, its age
          view,       \* catalog.Handler: the same
          caller      \* the requests

snapVars == <<listed, row, gone, closed, snap, view, caller>>
worldVars == <<listed, row, gone, closed>>

Horizon == SnapTTL + ViewTTL + FetchTime
NoView == [shows |-> FALSE, age |-> Horizon]
Idle == [step |-> "idle"]
Aged(n) == IF n < Horizon THEN n + 1 ELSE n

SnapInit ==
  /\ listed = TRUE /\ row = "none" /\ gone = 0 /\ closed = 0
  /\ snap = NoView /\ view = NoView
  /\ caller = [c \in Callers |-> Idle]

\* The node comes and goes; the owner and the operator change the row.
MeshChanges(l, r) ==
  /\ listed' = l /\ row' = r
  /\ gone' = IF l THEN 0 ELSE gone
  /\ closed' = IF Exposed(r) THEN 0 ELSE closed
  /\ UNCHANGED <<snap, view, caller>>

FreshSnap_AtTTL(age) == age <= SnapTTL
FreshSnap(age) == age < SnapTTL
FreshView(age) == age < ViewTTL

Goes(c, state) == caller' = [caller EXCEPT ![c] = state]

\* An answer to the gate, or to the catalogue, which stores it and answers.
Delivers(c, shows) ==
  /\ Goes(c, [step |-> "answered", via |-> caller[c].via, shows |-> shows])
  /\ view' = IF caller[c].via = "catalog" THEN [shows |-> shows, age |-> 0] ELSE view

\* A request begins: the catalogue's looks at the view first.
Begin(c, via) ==
  /\ caller[c] = Idle
  /\ IF via = "catalog" /\ FreshView(view.age)
       THEN Goes(c, [step |-> "answered", via |-> via, shows |-> view.shows])
       ELSE Goes(c, [step |-> "snapshot", via |-> via])
  /\ UNCHANGED <<worldVars, snap, view>>

\* Snapshot: the cached table is young enough.
SnapshotHit(c) ==
  /\ caller[c].step = "snapshot" /\ FreshSnap(snap.age)
  /\ Delivers(c, snap.shows)
  /\ UNCHANGED <<worldVars, snap>>

\* It is not: fetchTable reads the node table, some time before it answers.
FetchTable(c) ==
  /\ caller[c].step = "snapshot" /\ ~FreshSnap(snap.age)
  /\ Goes(c, [step |-> "table", via |-> caller[c].via, lists |-> listed, age |-> 0])
  /\ UNCHANGED <<worldVars, snap, view>>

\* ListManagedInstancesByPeerIDs reads the rows of the peers in it.
ListManaged(c) ==
  /\ caller[c].step = "table"
  /\ Goes(c, [step |-> "policy", via |-> caller[c].via,
              shows |-> caller[c].lists /\ Exposed(row), age |-> caller[c].age])
  /\ UNCHANGED <<worldVars, snap, view>>

\* The filtered table is stored, over whatever another request stored meanwhile.
StoreSnapshot(c) ==
  /\ caller[c].step = "policy"
  /\ snap' = [shows |-> caller[c].shows, age |-> 0]
  /\ Delivers(c, caller[c].shows)
  /\ UNCHANGED worldVars

\* The node table or the rows cannot be read: an error, the caches stay.
FetchFails(c) ==
  /\ caller[c].step \in {"table", "policy"}
  /\ Goes(c, Idle)
  /\ UNCHANGED <<worldVars, snap, view>>

Return(c) ==
  /\ caller[c].step = "answered"
  /\ Goes(c, Idle)
  /\ UNCHANGED <<worldVars, snap, view>>

Fetching(c) == caller[c].step \in {"table", "policy"}

\* Time passes.  An answer is looked at in the tick in which it is given.
SnapTick ==
  /\ \A c \in Callers : /\ caller[c].step \notin {"answered", "snapshot"}
                        /\ Fetching(c) => caller[c].age < FetchTime
  /\ gone' = IF listed THEN 0 ELSE Aged(gone)
  /\ closed' = IF Exposed(row) THEN 0 ELSE Aged(closed)
  /\ snap' = [snap EXCEPT !.age = Aged(@)]
  /\ view' = [view EXCEPT !.age = Aged(@)]
  /\ caller' = [c \in Callers |-> IF Fetching(c) THEN [caller[c] EXCEPT !.age = @ + 1] ELSE caller[c]]
  /\ UNCHANGED <<listed, row>>

SnapNext ==
  \/ \E l \in BOOLEAN, r \in InstanceRows : MeshChanges(l, r)
  \/ \E c \in Callers : \/ \E via \in {"gate", "catalog"} : Begin(c, via)
                        \/ SnapshotHit(c) \/ FetchTable(c) \/ ListManaged(c)
                        \/ StoreSnapshot(c) \/ FetchFails(c) \/ Return(c)
  \/ SnapTick

SnapSpec == SnapInit /\ [][SnapNext]_snapVars
-----------------------------------------------------------------------------
(* perf.Resolver                                                           *)

VARIABLES gpuAge,      \* since the inventory was fetched
          attemptAge,  \* since the last refresh began
          refreshing   \* the refreshes under way: caller -> age

gpuVars == <<gpuAge, attemptAge, refreshing>>

GpuHorizon == GpuTTL + RetryFloor + 1
GpuOlder(n) == IF n < GpuHorizon THEN n + 1 ELSE n

GpuInit == gpuAge = GpuHorizon /\ attemptAge = GpuHorizon /\ refreshing = [c \in {} |-> 0]

\* Resolve decides under the lock whether a refresh is due.
Due_TTL == gpuAge > GpuTTL
Due == gpuAge > GpuTTL /\ attemptAge > RetryFloor

Resolve(c) ==
  /\ c \notin DOMAIN refreshing /\ Due
  /\ attemptAge' = 0
  /\ refreshing' = [x \in DOMAIN refreshing \cup {c} |-> IF x = c THEN 0 ELSE refreshing[x]]
  /\ UNCHANGED gpuAge

\* refresh ends: a new inventory, or an error that is logged.
Refresh(c, ok) ==
  /\ c \in DOMAIN refreshing
  /\ gpuAge' = IF ok THEN 0 ELSE gpuAge
  /\ refreshing' = [x \in DOMAIN refreshing \ {c} |-> refreshing[x]]
  /\ UNCHANGED attemptAge

GpuTick ==
  /\ \A c \in DOMAIN refreshing : refreshing[c] < GpuTimeout
  /\ gpuAge' = GpuOlder(gpuAge) /\ attemptAge' = GpuOlder(attemptAge)
  /\ refreshing' = [c \in DOMAIN refreshing |-> refreshing[c] + 1]

GpuNext ==
  \/ \E c \in Callers : Resolve(c) \/ \E ok \in BOOLEAN : Refresh(c, ok)
  \/ GpuTick

GpuSpec == GpuInit /\ [][GpuNext]_gpuVars
-----------------------------------------------------------------------------
\* How old what an answer shows may be: a fetch, and what the caches add.
Staleness(via) ==
  FetchTime + (SnapTTL - 1) + (IF via = "catalog" THEN ViewTTL - 1 ELSE 0)

(* peers.New: the policy store is there "so trusted-region services are     *)
(* never leaked".  A service that left the mesh or was made trusted may     *)
(* still be answered from a cache, but not for longer than a fetch and the  *)
(* TTLs it passes: however fetches overlap and overtake each other, no      *)
(* answer shows a service that was delisted or trusted for longer.          *)
HiddenServicesLeave ==
  \A c \in Callers : (caller[c].step = "answered" /\ caller[c].shows) =>
    gone <= Staleness(caller[c].via) /\ closed <= Staleness(caller[c].via)

(* Resolve: failures "are retried no faster than retryFloor", which is      *)
(* longer than a refresh can last; so refreshes never overlap, whoever      *)
(* calls, and an older inventory never replaces a newer one.                *)
RefreshesNeverOverlap == Cardinality(DOMAIN refreshing) <= 1
=============================================================================
