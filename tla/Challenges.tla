----------------------------- MODULE Challenges -----------------------------
(***************************************************************************)
(* Single-use signing challenges (table node_credential_challenges), shared *)
(* by three flows: linking an instance with a deploy key, and the ACL and  *)
(* the pricing credentials of a node.  A challenge is bound to a peer and  *)
(* to the audience of its flow, and is consumed by one request.            *)
(*                                                                         *)
(* Ids are random and never drawn twice.  Handlers and database share one  *)
(* clock, in ticks.  MaxPending is 5 in the code.                          *)
(***************************************************************************)
EXTENDS Integers, FiniteSets

CONSTANTS ChallengeIds,      \* random ids, numbered in the order they are drawn
          Peers,
          MaxPending,
          ChallengeTTL,
          MaxNow            \* bound on the clock

ASSUME ChallengesAssumption ==
  /\ ChallengeIds \subseteq Nat
  /\ Peers # {}
  /\ MaxPending \in Nat \ {0}
  /\ ChallengeTTL \in Nat
  /\ MaxNow \in Nat

CredentialAudiences == {"acl", "pricing"}
Audiences == {"link"} \cup CredentialAudiences

VARIABLES now,
          challenge,
          granted       \* the requests each challenge has let through

challengeVars == <<now, challenge, granted>>

ChallengeTypeOK ==
  /\ now \in 0 .. MaxNow
  /\ challenge \in [ChallengeIds ->
       [state : {"none", "pending", "consumed", "pruned"}, peer : Peers,
        audience : Audiences, expires : 0 .. MaxNow + ChallengeTTL]]
  /\ granted \in [ChallengeIds -> Nat]

ChallengeInit ==
  /\ now = 0
  /\ challenge \in [ChallengeIds -> [state : {"none"}, peer : {CHOOSE p \in Peers : TRUE},
                                     audience : {"link"}, expires : {0}]]
  /\ granted = [i \in ChallengeIds |-> 0]

\* The audiences whose challenges a creation prunes and counts: its own for a
\* link challenge, all of the peer's for a credential challenge.
Scope(a) == IF a = "link" THEN {"link"} ELSE Audiences

OfFlow(i, p, a) == challenge[i].peer = p /\ challenge[i].audience \in Scope(a)

Pending(p, a) ==
  {i \in ChallengeIds : /\ OfFlow(i, p, a)
                        /\ challenge[i].state = "pending" /\ challenge[i].expires > now}

Prunable(i, p, a) ==
  /\ OfFlow(i, p, a)
  /\ \/ challenge[i].state = "consumed"
     \/ challenge[i].state = "pending" /\ challenge[i].expires <= now

\* CreateInstanceLinkChallenge and CreateNodeCredentialChallenge: one
\* transaction under the peer's advisory lock.  With MaxPending challenges
\* pending it rolls back, the pruning included, and the answer is 429.
CreateChallenge(i, p, a) ==
  /\ challenge[i].state = "none"
  /\ \A j \in ChallengeIds : j < i => challenge[j].state # "none"
  /\ Cardinality(Pending(p, a)) < MaxPending
  /\ challenge' = [j \in ChallengeIds |->
       IF j = i THEN [state |-> "pending", peer |-> p, audience |-> a,
                      expires |-> now + ChallengeTTL]
       ELSE IF Prunable(j, p, a) THEN [challenge[j] EXCEPT !.state = "pruned"]
       ELSE challenge[j]]

\* ConsumeNodeCredentialChallenge: id, peer and audience select the row, the
\* expiry is compared with After.  The nonce goes with the id.
Consumable(i, p, a) ==
  /\ challenge[i].state = "pending"
  /\ challenge[i].peer = p /\ challenge[i].audience = a
  /\ now <= challenge[i].expires

ConsumeChallenge(i, p, a) ==
  /\ Consumable(i, p, a)
  /\ challenge' = [challenge EXCEPT ![i].state = "consumed"]

ChallengeTick ==
  /\ now < MaxNow
  /\ now' = now + 1

-----------------------------------------------------------------------------
(* Properties of every flow.                                               *)

\* A challenge lets one request through: requests that present the same
\* challenge at the same time are serialised by its row lock.
ChallengeGrantsOnce == \A i \in ChallengeIds : granted[i] <= 1
=============================================================================
