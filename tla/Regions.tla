------------------------------ MODULE Regions ------------------------------
(***************************************************************************)
(* Trusted regions (internal/regionsapi, internal/store/policy.go) and the *)
(* credentials of their nodes (internal/nodecred).  A region owner invites *)
(* an instance, its owner accepts while the mesh shows the peer under the  *)
(* owner's wallet, and the node then exchanges a signed challenge for a    *)
(* credential that carries the revision of its membership; the ACL         *)
(* evaluator honours it while the revision still is the member's.          *)
(*                                                                         *)
(* One instance: memberships are keyed by it.  The authorized party makes  *)
(* every request (others get 404).  Transactions are atomic; a member      *)
(* PATCH reads and writes in two of them, and an auto-accept invites and   *)
(* accepts in two.  Time is in ticks; MaxInvites and MaxWrites bound the   *)
(* invitations and the membership writes.                                  *)
(***************************************************************************)
EXTENDS Challenges

CONSTANTS RegionIds,
          NoRegion,
          NodePeer,          \* the peer of the instance
          Roles,
          InviteTTL,
          InviteExpiries,    \* the times that a caller may ask for instead
          MemberTTLs,        \* membership expiries a PATCH may ask for
          TokenTTL,
          OwnershipMaxAge,
          MaxInvites,
          MaxWrites

ASSUME RegionsAssumption ==
  /\ NoRegion \notin RegionIds
  /\ NodePeer \in Peers
  /\ Roles \subseteq {"worker", "head", "combined"}
  /\ InviteTTL \in Nat /\ InviteExpiries \subseteq Nat /\ MemberTTLs \subseteq Nat /\ TokenTTL \in Nat \ {0}
  /\ OwnershipMaxAge \in Nat \ {0} /\ MaxInvites \in Nat /\ MaxWrites \in Nat

Forever == MaxNow + 1000
NoMember == [region |-> NoRegion]
NoInvite == [ticket |-> 0]
NoRequest == [region |-> NoRegion]

VARIABLES region,      \* trusted_regions: status
          invite,      \* the pending invitation of each region
          member,      \* trusted_region_memberships
          binding,     \* the region of the instance's trusted services
          patching,    \* a member PATCH between its read and its write
          accepting,   \* an auto-accept between its invitation and its acceptance
          issuing,     \* credential requests, by challenge
          credential,  \* credentials signed
          tickets,     \* acceptance tokens drawn
          writes,      \* writes of the membership
          lives,       \* memberships released
          lateness     \* the longest acceptance after the expiry

regionVars == <<region, invite, member, binding, patching, accepting, issuing,
                credential, tickets, writes, lives, lateness>>
trustVars == <<challengeVars, regionVars>>

RegionInit ==
  /\ ChallengeInit
  /\ region = [g \in RegionIds |-> "absent"]
  /\ invite = [g \in RegionIds |-> NoInvite]
  /\ member = NoMember
  /\ binding = NoRegion
  /\ patching = NoRequest
  /\ accepting = NoRequest
  /\ issuing = [i \in ChallengeIds |-> NoRequest]
  /\ credential = {}
  /\ tickets = 0 /\ writes = 0 /\ lives = 0 /\ lateness = 0

-----------------------------------------------------------------------------
(* Ownership on the mesh, and membership.                                  *)

\* observationFresh.
Fresh(at) == now - at <= OwnershipMaxAge

\* Observations that show the owner's wallet; the other ones are refused.
Observation == {t \in 0 .. now : Fresh(t)}

\* membershipActive of aclapi and activeMembership of nodecred.
MembershipActive(m, t) ==
  /\ m.region # NoRegion
  /\ m.status = "active" /\ region[m.region] = "active"
  /\ t < m.expires

-----------------------------------------------------------------------------
(* Regions.                                                                *)

CreateRegion(g) ==
  /\ region[g] = "absent"
  /\ region' = [region EXCEPT ![g] = "active"]
  /\ UNCHANGED <<challengeVars, invite, member, binding, patching, accepting, issuing,
                 credential, tickets, writes, lives, lateness>>

UpdateRegion(g, status) ==
  /\ region[g] \notin {"absent", status}
  /\ region' = [region EXCEPT ![g] = status]
  /\ UNCHANGED <<challengeVars, invite, member, binding, patching, accepting, issuing,
                 credential, tickets, writes, lives, lateness>>

\* Memberships and bindings restrict the deletion; invitations go with it.
DeleteRegion(g) ==
  /\ region[g] # "absent"
  /\ member.region # g /\ binding # g
  /\ region' = [region EXCEPT ![g] = "absent"]
  /\ invite' = [invite EXCEPT ![g] = NoInvite]
  /\ UNCHANGED <<challengeVars, member, binding, patching, accepting, issuing,
                 credential, tickets, writes, lives, lateness>>

-----------------------------------------------------------------------------
(* Invitations and admission.                                              *)

\* CreateRegionInvitation: one may be pending for a region and an instance.
Invite(g, role) ==
  /\ region[g] # "absent"
  /\ invite[g] = NoInvite
  /\ tickets < MaxInvites
  /\ tickets' = tickets + 1
  /\ \E expires \in {now + InviteTTL} \cup InviteExpiries :
       invite' = [invite EXCEPT ![g] =
                   [ticket |-> tickets + 1, role |-> role, expires |-> expires]]

CreateMember(g, role) ==
  /\ Invite(g, role)
  /\ UNCHANGED <<challengeVars, region, member, binding, patching, accepting, issuing,
                 credential, writes, lives, lateness>>

CancelInvitation(g) ==
  /\ invite[g] # NoInvite
  /\ invite' = [invite EXCEPT ![g] = NoInvite]
  /\ UNCHANGED <<challengeVars, region, member, binding, patching, accepting, issuing,
                 credential, tickets, writes, lives, lateness>>

\* The migration guard, which the foreign key of instance_services backs.
Migratable(g) == binding \in {NoRegion, g}

\* Mutant: the upsert keeps the revision.
NextRevision_Kept == member.revision

\* membership_revision of a row that is written again.
NextRevision == member.revision + 1

\* AcceptRegionInvitation with the token of a ticket and an observation made
\* at `at`, which stands for the time of the acceptance.  After the expiry the
\* update of the status is rolled back with the rest: the invitation stays.
\* The upsert keeps the expiry of a membership.
AcceptInvitation(g, ticket, at) ==
  /\ invite[g].ticket = ticket
  /\ at <= invite[g].expires
  /\ Migratable(g)
  /\ writes < MaxWrites
  /\ member' = [region |-> g, role |-> invite[g].role, status |-> "active",
                expires |-> IF member = NoMember THEN Forever ELSE member.expires,
                revision |-> IF member = NoMember THEN 1 ELSE NextRevision]
  /\ invite' = [invite EXCEPT ![g] = NoInvite]
  /\ writes' = writes + 1
  /\ lateness' = IF now - invite[g].expires > lateness THEN now - invite[g].expires ELSE lateness

\* PATCH with action accept.
Accept(g) ==
  /\ invite[g] # NoInvite
  /\ \E at \in Observation : AcceptInvitation(g, invite[g].ticket, at)
  /\ UNCHANGED <<challengeVars, region, binding, patching, accepting, issuing,
                 credential, tickets, lives>>

\* acceptMembership: its own invitation, or a token that matches none when
\* another one is pending.
AutoInvite(g, role) ==
  /\ accepting = NoRequest
  /\ \E at \in Observation : accepting' = [region |-> g, ticket |-> tickets + 1, at |-> at]
  /\ Invite(g, role)
  /\ UNCHANGED <<challengeVars, region, member, binding, patching, issuing,
                 credential, writes, lives, lateness>>

AutoAccept ==
  /\ accepting # NoRequest
  /\ AcceptInvitation(accepting.region, accepting.ticket, accepting.at)
  /\ accepting' = NoRequest
  /\ UNCHANGED <<challengeVars, region, binding, patching, issuing, credential, tickets, lives>>

\* The acceptance fails, or the request is lost: the invitation stays.
AutoAcceptFails ==
  /\ accepting # NoRequest
  /\ accepting' = NoRequest
  /\ UNCHANGED <<challengeVars, region, invite, member, binding, patching, issuing,
                 credential, tickets, writes, lives, lateness>>

-----------------------------------------------------------------------------
(* Changes of a membership.                                                *)

\* handlePatchMember up to UpdateMembershipState: every field that the request
\* leaves out is the one read here.  An active membership needs an expiry in
\* the future; a reactivation needs a matching fresh observation, which the
\* mesh may or may not show.
PatchRead(g, role, status, expires) ==
  /\ patching = NoRequest
  /\ member.region = g
  /\ status = "active" => now < expires
  /\ patching' = [region |-> g, role |-> role, status |-> status, expires |-> expires]
  /\ UNCHANGED <<challengeVars, region, invite, member, binding, accepting, issuing,
                 credential, tickets, writes, lives, lateness>>

\* UpdateMembershipState overwrites role, status and expiry.
PatchWrite ==
  /\ patching # NoRequest
  /\ member.region = patching.region
  /\ writes < MaxWrites
  /\ member' = [member EXCEPT !.role = patching.role, !.status = patching.status,
                              !.expires = patching.expires, !.revision = NextRevision]
  /\ writes' = writes + 1
  /\ patching' = NoRequest
  /\ UNCHANGED <<challengeVars, region, invite, binding, accepting, issuing,
                 credential, tickets, lives, lateness>>

\* The membership is gone, the update fails or the request is lost.
PatchFails ==
  /\ patching # NoRequest
  /\ patching' = NoRequest
  /\ UNCHANGED <<challengeVars, region, invite, member, binding, accepting, issuing,
                 credential, tickets, writes, lives, lateness>>

\* ReleaseMembership by the owner of the instance, whatever the region named.
Release ==
  /\ member # NoMember
  /\ binding = NoRegion
  /\ writes < MaxWrites
  /\ member' = NoMember
  /\ writes' = writes + 1
  /\ lives' = lives + 1
  /\ UNCHANGED <<challengeVars, region, invite, binding, patching, accepting, issuing,
                 credential, tickets, lateness>>

\* ReplaceInstanceServicePolicy: the services are deleted and inserted again;
\* the foreign key admits a trusted one only in the member's region.
ReplaceServicePolicy(g) ==
  /\ binding # g
  /\ g # NoRegion => member.region = g
  /\ binding' = g
  /\ UNCHANGED <<challengeVars, region, invite, member, patching, accepting, issuing,
                 credential, tickets, writes, lives, lateness>>

-----------------------------------------------------------------------------
(* Credentials.                                                            *)

\* ChallengeHandler: a challenge of the region and the role of the member.
AclChallenge(i) ==
  /\ MembershipActive(member, now)
  /\ Observation # {}
  /\ CreateChallenge(i, NodePeer, "acl")
  /\ issuing' = [issuing EXCEPT ![i] = [region |-> member.region, role |-> member.role, at |-> "open"]]
  /\ UNCHANGED <<now, granted, region, invite, member, binding, patching, accepting,
                 credential, tickets, writes, lives, lateness>>

\* IssueHandler: the challenge is consumed, then the proof checked.
IssueConsume(i, proof) ==
  /\ issuing[i] # NoRequest
  /\ ConsumeChallenge(i, NodePeer, "acl")
  /\ granted' = [granted EXCEPT ![i] = @ + 1]
  /\ issuing' = [issuing EXCEPT ![i] =
       IF proof THEN [region |-> @.region, role |-> @.role, at |-> "proved", when |-> now]
       ELSE NoRequest]
  /\ UNCHANGED <<now, region, invite, member, binding, patching, accepting,
                 credential, tickets, writes, lives, lateness>>

\* The claims of the membership that was read.
Claims(r) ==
  [role |-> r.role, region |-> r.region, revision |-> r.revision,
   expires |-> r.when + TokenTTL, writes |-> r.writes, lives |-> r.lives]

\* Then the instance is read: region and role as in the challenge, active.
IssueRead(i) ==
  /\ issuing[i] # NoRequest /\ issuing[i].at = "proved"
  /\ member.region = issuing[i].region /\ member.role = issuing[i].role
  /\ MembershipActive(member, issuing[i].when)
  /\ issuing' = [issuing EXCEPT ![i] =
       [region |-> member.region, role |-> member.role, at |-> "read", when |-> @.when,
        revision |-> member.revision, writes |-> writes, lives |-> lives]]
  /\ UNCHANGED <<challengeVars, region, invite, member, binding, patching, accepting,
                 credential, tickets, writes, lives, lateness>>

\* Then the mesh is asked and the credential signed.
IssueSign(i) ==
  /\ issuing[i] # NoRequest /\ issuing[i].at = "read"
  /\ Observation # {}
  /\ credential' = credential \cup {Claims(issuing[i])}
  /\ issuing' = [issuing EXCEPT ![i] = NoRequest]
  /\ UNCHANGED <<challengeVars, region, invite, member, binding, patching, accepting,
                 tickets, writes, lives, lateness>>

IssueFails(i) ==
  /\ issuing[i] # NoRequest /\ issuing[i].at \in {"proved", "read"}
  /\ issuing' = [issuing EXCEPT ![i] = NoRequest]
  /\ UNCHANGED <<challengeVars, region, invite, member, binding, patching, accepting,
                 credential, tickets, writes, lives, lateness>>

\* Verifier.Verify and authorizeTrustedRequester.
Honoured(c) ==
  /\ now < c.expires
  /\ member.region = c.region
  /\ MembershipActive(member, now)
  /\ member.revision = c.revision
  /\ member.role = c.role

-----------------------------------------------------------------------------
\* Requests take less than a tick.
RegionTick ==
  /\ accepting = NoRequest
  /\ ChallengeTick
  /\ UNCHANGED <<challenge, granted, regionVars>>

RegionNext ==
  \/ RegionTick
  \/ \E g \in RegionIds :
       \/ CreateRegion(g)
       \/ \E status \in {"active", "disabled"} : UpdateRegion(g, status)
       \/ DeleteRegion(g)
       \/ \E role \in Roles : CreateMember(g, role) \/ AutoInvite(g, role)
       \/ CancelInvitation(g)
       \/ Accept(g)
       \/ \E role \in Roles, status \in {"active", "suspended", "revoked"},
             expires \in {m.expires : m \in {member} \ {NoMember}}
                           \cup {now + t : t \in MemberTTLs} :
            PatchRead(g, role, status, expires)
  \/ AutoAccept \/ AutoAcceptFails
  \/ PatchWrite \/ PatchFails
  \/ Release
  \/ \E g \in RegionIds \cup {NoRegion} : ReplaceServicePolicy(g)
  \/ \E i \in ChallengeIds :
       \/ AclChallenge(i)
       \/ \E proof \in BOOLEAN : IssueConsume(i, proof)
       \/ IssueRead(i)
       \/ IssueSign(i)
       \/ IssueFails(i)

RegionSpec == RegionInit /\ [][RegionNext]_trustVars

-----------------------------------------------------------------------------
(* Properties.                                                             *)

\* A credential the evaluator honours belongs to the membership it was issued
\* for, unchanged: a suspension, a new role, a migration or a reactivation in
\* between has changed the revision, even while the request was in flight.
\* A release ends this: the revision of the next membership starts at 1 again.
HonouredAsIssued ==
  \A c \in credential : Honoured(c) /\ c.lives = lives => c.writes = writes

\* Trusted services are bound in the region of the membership, through every
\* migration and release.
BindingsGoverned == binding # NoRegion => member.region = binding

\* The acceptance compares the time of the observation, not its own, with the
\* expiry: an invitation is accepted at most OwnershipMaxAge too late.
AcceptedInTime == lateness <= OwnershipMaxAge

\* Membership governs what a node is given: a credential is honoured only
\* for the membership it was issued for, a service is bound only to the
\* region of its instance, and an invitation is accepted at most as late as
\* the observation it is accepted with is old.
MembershipGoverns == HonouredAsIssued /\ BindingsGoverned /\ AcceptedInTime
=============================================================================
