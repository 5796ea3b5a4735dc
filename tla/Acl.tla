-------------------------------- MODULE Acl --------------------------------
(***************************************************************************)
(* The access evaluator (internal/aclapi): whether the holder of a key may *)
(* use a peer, in the permissionless partition (the caller has the         *)
(* internal token) or in a trusted region (the caller is a node with a     *)
(* credential).  The decisions are operators of the rows of the store, the *)
(* observations of the mesh and the request; the actions are the writes of *)
(* the other components that change what an evaluation reads.              *)
(*                                                                         *)
(* An evaluation reads the rows and then the observations.  Both change    *)
(* independently here, so what it reads is one of the reachable states and *)
(* the decisions are invariants of the state.  A decision on a peer is the *)
(* set of callers that it allows; the reasons of a denial are left out,    *)
(* and a request that is refused as a whole allows nobody.                 *)
(* ownershipMaxAge > 0.  MaxEdits bounds the writes since the initial      *)
(* state.                                                                  *)
(***************************************************************************)
EXTENDS Naturals, FiniteSets

CONSTANTS AclPeers, AclRegions, AclServices,
          AclModes,          \* the modes that services are given
          MaxEdits

AclRoles == {"worker", "head", "combined"}
Exposures == {"undeclared", "disabled", "permissionless", "trusted_region"}
RuleKinds == {"api_key", "wallet", "email_domain"}
AccessModes == {"inherit", "public", "restricted"}
NoMembership == [status |-> "none"]
Undeclared == [exposure |-> "undeclared", mode |-> "inherit", rules |-> {}]
Unmanaged == [scope |-> "none"]
NoPeer == "none"

ASSUME AclAssumption ==
  /\ IsFiniteSet(AclPeers) /\ AclModes \subseteq AccessModes /\ MaxEdits \in Nat
  /\ "" \notin AclRegions /\ NoPeer \notin AclPeers

VARIABLES inst,    \* the managed instances, with services and membership
          seen,    \* the mesh's observation of each peer
          cred,    \* the node credential of each peer
          edits

aclVars == <<inst, seen, cred, edits>>

-----------------------------------------------------------------------------
(* What a request carries and what the caller's key is worth.  The handler *)
(* admits a partition and a route kind in any letter case; it normalises   *)
(* copies of its own, and the evaluation compares them as they were        *)
(* written.  "Permissionless", "Trusted_Region" and "Worker" stand for all *)
(* the spellings that are not canonical, "service_ingress" for the         *)
(* ingress routes.                                                         *)

Facts == {"match", "none", "error"}        \* a stale verification is "none"
OwnerCaller == [owner |-> TRUE, prefix |-> FALSE, wallet |-> "none", domain |-> "none"]
AclCallers ==
  {OwnerCaller} \cup [owner : {FALSE}, prefix : BOOLEAN, wallet : Facts, domain : Facts]

Partitions == {"permissionless", "Permissionless", "trusted_region", "Trusted_Region"}

Routes == {"service_ingress", "worker", "Worker"}

AclRequests ==
  [partition : Partitions, region : AclRegions \cup {""}, route : Routes,
   service : AclServices, peers : SUBSET AclPeers \ {{}},
   subject : AclPeers \cup {NoPeer}, upstream : AclPeers \cup {NoPeer}]

\* The handler admits a trusted request with a verified credential only.
HasClaims(r) == r.partition \in {"trusted_region", "Trusted_Region"}

\* HandlerV2 clears the region of a permissionless request, which has no credential,
\* and asks for an upstream on the worker route; no other route looks at one.
Admissible(r) ==
  /\ HasClaims(r) = (r.region # "") /\ HasClaims(r) = (r.subject # NoPeer)
  /\ (r.route = "service_ingress") = (r.upstream = NoPeer)

Managed(p) == inst[p] # Unmanaged

\* loadEvaluationState: rows of the peers and of the subject, of no other peer.
RowLoaded(r, p) ==
  Managed(p) /\ (p \in r.peers \/ (HasClaims(r) /\ p = r.subject))

-----------------------------------------------------------------------------
(* Ownership and membership.                                               *)

OwnerSeen(p) == seen[p].fresh /\ seen[p].matches

RowActive(m) ==
  m.status = "active" /\ m.regionActive /\ ~m.expired

\* membershipActive, of a row of the region.
MemberOf(p, g) ==
  inst[p].member # NoMembership /\ inst[p].member.slug = g
  /\ RowActive(inst[p].member)

EvaluatePeerScoped(p, partition, g) ==
  /\ OwnerSeen(p)
  /\ IF partition = "permissionless" THEN inst[p].member = NoMembership
                                     ELSE MemberOf(p, g)

EvaluateTrustedBinding(p, g) == MemberOf(p, g) /\ OwnerSeen(p)

-----------------------------------------------------------------------------
(* The access lists.                                                       *)

\* applyRules: a kind is looked at when no kind before it matched, and a failed
\* read refuses whatever a later kind would have matched.
ApplyRules(c, rules) ==
  LET byKey    == "api_key" \in rules /\ c.prefix
      wallets  == "wallet" \in rules /\ ~byKey
      byWallet == wallets /\ c.wallet = "match"
      domains  == "email_domain" \in rules /\ ~byKey /\ ~byWallet
      byDomain == domains /\ c.domain = "match"
      failed   == (wallets /\ c.wallet = "error") \/ (domains /\ c.domain = "error")
  IN IF failed THEN "error"
     ELSE IF byKey \/ byWallet \/ byDomain THEN "allow" ELSE "deny"

ApplyMode(c, mode, rules) ==
  IF mode = "public" \/ c.owner THEN "allow" ELSE ApplyRules(c, rules)

\* The callers that a list lets in; a list that cannot be read lets in nobody.
ApplyInstanceACL(p) ==
  {c \in AclCallers : ApplyMode(c, inst[p].mode, inst[p].rules) = "allow"}

ApplyServiceACL(p, service) ==
  IF service.mode = "inherit" THEN ApplyInstanceACL(p)
  ELSE {c \in AclCallers : ApplyMode(c, service.mode, service.rules) = "allow"}

-----------------------------------------------------------------------------
(* evaluateV2.                                                             *)

TrustedTargetRole(p) == inst[p].member.role \in {"worker", "combined"}

\* trustedUpstreamAllowed looks at the rows that were loaded only.
UpstreamAllowed(r) ==
  /\ RowLoaded(r, r.upstream)
  /\ MemberOf(r.upstream, r.region)
  /\ inst[r.upstream].member.role \in {"head", "combined"}
  /\ seen[r.upstream].matches

\* Mutant: the revision of the credential is not compared.
RequesterAuthorized_AnyRevision(r) ==
  LET s == r.subject
  IN /\ Managed(s) /\ MemberOf(s, r.region)
     /\ cred[s].slug = r.region /\ OwnerSeen(s)
     /\ IF r.route = "worker"
          THEN r.peers = {s} /\ cred[s].role \in {"worker", "combined"}
          ELSE cred[s].role \in {"head", "combined"}

\* authorizeTrustedRequester: the credential is the one of the membership as it is.
RequesterAuthorized(r) ==
  LET s == r.subject
  IN /\ Managed(s) /\ MemberOf(s, r.region)
     /\ cred[s].slug = r.region
     /\ cred[s].revision = inst[s].member.revision
     /\ cred[s].role = inst[s].member.role
     /\ OwnerSeen(s)
     /\ IF r.route = "worker"
          THEN r.peers = {s} /\ cred[s].role \in {"worker", "combined"}
          ELSE cred[s].role \in {"head", "combined"}

\* workerUpstreamAllowed: looked up when both are written canonically, else true.
WorkerUpstreamAllowed(r) ==
  r.partition = "trusted_region" /\ r.route = "worker" => UpstreamAllowed(r)

TrustedRoute(r, p) ==
  (r.route = "worker" => WorkerUpstreamAllowed(r)) /\ TrustedTargetRole(p)

PeerScopedDecision(r, p) ==
  IF /\ EvaluatePeerScoped(p, r.partition, r.region)
     /\ r.partition = "trusted_region" => TrustedRoute(r, p)
    THEN ApplyInstanceACL(p) ELSE {}

\* findServicePolicy: the policy of the service that the request names.
ServicePolicy(p, name) == inst[p].services[name]

\* A permissionless service asks for no ownership.
ServiceScopedDecision(r, p) ==
  LET service == ServicePolicy(p, r.service)
  IN IF /\ r.service \notin seen[p].duplicates
        /\ service.exposure \notin {"undeclared", "disabled"}
        /\ ~(r.partition = "permissionless" /\ service.exposure = "trusted_region")
        /\ ~(r.partition = "trusted_region" /\ service.exposure = "permissionless")
        /\ service.exposure = "trusted_region" =>
             EvaluateTrustedBinding(p, r.region) /\ TrustedRoute(r, p)
       THEN ApplyServiceACL(p, service) ELSE {}

\* The decision on one peer: the callers whose key may use it.
EvaluateV2(r, p) ==
  IF r.partition = "trusted_region" /\ ~RequesterAuthorized(r) THEN {}
  ELSE IF ~Managed(p) THEN IF r.partition = "permissionless" THEN AclCallers ELSE {}
  ELSE IF inst[p].scope = "service" THEN ServiceScopedDecision(r, p)
  ELSE PeerScopedDecision(r, p)

\* evaluateV1: no service in the request, so a service-scoped peer is denied.
EvaluateV1(p) ==
  IF ~Managed(p) THEN AclCallers
  ELSE IF inst[p].scope = "peer" /\ EvaluatePeerScoped(p, "permissionless", "")
    THEN ApplyInstanceACL(p) ELSE {}

-----------------------------------------------------------------------------
(* Writes of the other components.                                         *)

Member(g, role) ==
  [status |-> "active", slug |-> g, regionActive |-> TRUE, expired |-> FALSE,
   role |-> role, revision |-> 1]

Credential(m) == [slug |-> m.slug, role |-> m.role, revision |-> m.revision]

AclInit ==
  /\ \E g \in AclRegions, role \in [AclPeers -> AclRoles] :
       /\ inst = [p \in AclPeers |->
                   [scope |-> "peer", mode |-> "restricted", rules |-> RuleKinds,
                    services |-> [s \in AclServices |-> Undeclared],
                    member |-> Member(g, role[p])]]
       /\ cred = [p \in AclPeers |-> Credential(Member(g, role[p]))]
  /\ seen = [p \in AclPeers |-> [fresh |-> TRUE, matches |-> TRUE, duplicates |-> {}]]
  /\ edits = 0

Edit == edits < MaxEdits /\ edits' = edits + 1

SetRow(p, row) == inst' = [inst EXCEPT ![p] = row] /\ UNCHANGED <<seen, cred>>

\* The instance is deleted, with its rows.
RowDeleted(p) == Edit /\ Managed(p) /\ SetRow(p, Unmanaged)

\* ReplaceInstanceACL.
RowACL(p) ==
  /\ Edit /\ Managed(p)
  /\ \E rules \in {{k} : k \in RuleKinds} \cup {{"wallet", "email_domain"}},
        mode \in {"public", "restricted"} :
       SetRow(p, [inst[p] EXCEPT !.mode = mode, !.rules = rules])

TrustedServices(p) == {s \in AclServices : inst[p].services[s].exposure = "trusted_region"}

\* ReplaceInstanceServicePolicy: all the services at once, each with an exposure of
\* its own; the foreign key asks for a membership when one of them is trusted.  The
\* inventory that it checks for duplicates was read before.
RowServices(p) ==
  /\ Edit /\ Managed(p)
  /\ \E e \in [AclServices -> Exposures], mode \in AclModes :
       /\ (\E s \in AclServices : e[s] = "trusted_region") => inst[p].member # NoMembership
       /\ SetRow(p, [inst[p] EXCEPT !.scope = "service",
                     !.services = [s \in AclServices |->
                                    IF e[s] = "undeclared" THEN Undeclared
                                    ELSE [exposure |-> e[s], mode |-> mode, rules |-> {}]]])

\* ReplaceInstanceServicePolicy, back to one policy of the peer.
RowScopeReset(p) ==
  /\ Edit /\ Managed(p) /\ inst[p].scope = "service" /\ TrustedServices(p) = {}
  /\ SetRow(p, [inst[p] EXCEPT !.scope = "peer", !.services = [s \in AclServices |-> Undeclared]])

\* ReclaimInstance: services and membership of the previous owner stay, but the
\* peer has one policy again.
RowReclaimed(p) ==
  /\ Edit /\ Managed(p)
  /\ SetRow(p, [inst[p] EXCEPT !.scope = "peer", !.mode = "restricted", !.rules = {}])

\* ReplaceInstanceServiceACL.
RowServiceACL(p) ==
  /\ Edit /\ Managed(p)
  /\ \E s \in AclServices, mode \in AclModes, rules \in {{k} : k \in RuleKinds} :
       /\ inst[p].services[s] # Undeclared
       /\ SetRow(p, [inst[p] EXCEPT !.services[s].mode = mode, !.services[s].rules = rules])

\* AcceptRegionInvitation: the member's revision restarts with a new row.
RowJoins(p) ==
  /\ Edit /\ Managed(p) /\ inst[p].member = NoMembership
  /\ \E g \in AclRegions, role \in AclRoles :
       SetRow(p, [inst[p] EXCEPT !.member = Member(g, role)])

\* UpdateMembershipState: every write of the row moves its revision.
RowMember(p) ==
  /\ Edit /\ Managed(p) /\ inst[p].member # NoMembership
  /\ \E status \in {"active", "suspended"}, role \in AclRoles :
       SetRow(p, [inst[p] EXCEPT !.member.status = status, !.member.role = role,
                                 !.member.revision = @ + 1])

\* ReleaseMembership, refused while a service is bound to the region.
RowReleased(p) ==
  /\ Edit /\ Managed(p) /\ inst[p].member # NoMembership /\ TrustedServices(p) = {}
  /\ SetRow(p, [inst[p] EXCEPT !.member = NoMembership])

\* UpdateRegion disables the region of its members; their rows do not change.
RegionDisabled(g) ==
  /\ Edit
  /\ inst' = [p \in AclPeers |->
               IF Managed(p) /\ inst[p].member # NoMembership /\ inst[p].member.slug = g
                 THEN [inst[p] EXCEPT !.member.regionActive = FALSE] ELSE inst[p]]
  /\ UNCHANGED <<seen, cred>>

\* The membership's expiry passes.
RowExpires(p) ==
  /\ Edit /\ Managed(p) /\ inst[p].member # NoMembership
  /\ SetRow(p, [inst[p] EXCEPT !.member.expired = TRUE])

\* The mesh reports something else, or nothing newer.
PeerSeen(p) ==
  /\ Edit
  /\ \E o \in [fresh : BOOLEAN, matches : BOOLEAN, duplicates : SUBSET AclServices] :
       seen' = [seen EXCEPT ![p] = o]
  /\ UNCHANGED <<inst, cred>>

\* The node renews its credential from the membership as it is.
NodeRenews(p) ==
  /\ Managed(p) /\ inst[p].member # NoMembership
  /\ RowActive(inst[p].member)
  /\ cred' = [cred EXCEPT ![p] = Credential(inst[p].member)]
  /\ UNCHANGED <<inst, seen, edits>>

AclNext ==
  \/ \E p \in AclPeers :
       \/ RowDeleted(p) \/ RowACL(p) \/ RowServices(p) \/ RowScopeReset(p) \/ RowServiceACL(p)
       \/ RowReclaimed(p) \/ RowJoins(p) \/ RowMember(p) \/ RowReleased(p) \/ RowExpires(p) \/ PeerSeen(p)
       \/ NodeRenews(p)
  \/ \E g \in AclRegions : RegionDisabled(g)

AclSpec == AclInit /\ [][AclNext]_aclVars

-----------------------------------------------------------------------------
(* Properties.                                                             *)

\* In every spelling that the handler admits.
OpenRequests == {r \in AclRequests : Admissible(r) /\ ~HasClaims(r)}
RegionRequests == {r \in AclRequests : Admissible(r) /\ HasClaims(r)}
TrustedRequests == {r \in RegionRequests : r.partition = "trusted_region"}

\* The services of the peer that some key may use by a request of the set.
Served(p, requests) ==
  {s \in AclServices :
     \E r \in requests : r.service = s /\ p \in r.peers /\ EvaluateV2(r, p) # {}}

\* One peer may serve both partitions, by two services; no service does, and no peer
\* that has one policy for all its services.  A permissionless service also answers
\* a trusted request in another spelling, for which line 455 does not look at the
\* exposure; no spelling opens what "permissionless" does not.
PartitionsDisjoint ==
  \A p \in AclPeers :
    LET open    == Served(p, OpenRequests)
        trusted == Served(p, TrustedRequests)
    IN /\ open \cap trusted = {}
       /\ inst[p].scope = "service" \/ open = {} \/ trusted = {}

SpellingOpensNothing ==
  \A r \in OpenRequests : \A p \in r.peers :
    EvaluateV2(r, p) \subseteq EvaluateV2([r EXCEPT !.partition = "permissionless"], p)

\* The membership, the region and the owner of a peer, as they are now.
LiveMember(p, g) ==
  /\ inst[p] # Unmanaged /\ inst[p].member # NoMembership
  /\ inst[p].member.slug = g /\ inst[p].member.status = "active"
  /\ inst[p].member.regionActive /\ ~inst[p].member.expired
  /\ seen[p].fresh /\ seen[p].matches

PermissionlessService(p, s) ==
  inst[p].scope = "service" /\ inst[p].services[s].exposure = "permissionless"

\* A peer allowed in a region is managed and, unless the service is a permissionless
\* one, a live member of that region.  In the canonical spelling it never is a
\* permissionless service, its role serves, the node that asked is a live member of
\* the region too and as its credential says, and it asked as a head or, on the
\* worker route, for itself behind a head of the region.  In another spelling the
\* code keeps none of that for the requester; the role of the target is then
\* checked for a trusted service only.
TrustedFailsClosed ==
  \A r \in RegionRequests : \A p \in r.peers :
    EvaluateV2(r, p) # {} =>
      /\ inst[p] # Unmanaged
      /\ PermissionlessService(p, r.service) \/ LiveMember(p, r.region)
      /\ inst[p].scope = "service" /\ ~PermissionlessService(p, r.service)
           => inst[p].member.role # "head"
      /\ r.partition = "trusted_region" =>
           /\ ~PermissionlessService(p, r.service) /\ inst[p].member.role # "head"
           /\ LiveMember(r.subject, r.region)
           /\ cred[r.subject] = Credential(inst[r.subject].member)
           /\ IF r.route = "worker"
                THEN /\ p = r.subject /\ inst[r.upstream] # Unmanaged
                     /\ MemberOf(r.upstream, r.region)
                     /\ inst[r.upstream].member.role # "worker"
                ELSE cred[r.subject].role # "worker"

\* The first protocol allows nothing that the second denies in the permissionless
\* partition, as nodes write it.
V1AgreesV2 ==
  \A r \in OpenRequests : \A p \in r.peers :
    r.partition = "permissionless" => EvaluateV1(p) \subseteq EvaluateV2(r, p)
=============================================================================
