------------------------------ MODULE MCNodes ------------------------------
(* Safety of the nodes' control plane: deploy keys and node challenges,    *)
(* trusted regions and credentials, instances, the access evaluator and    *)
(* its rate limiter.  One behaviour runs one of them; the others rest in   *)
(* their initial states.  Deploy keys and regions share the challenges.    *)
EXTENDS DeployKeys, Regions, Instances, Acl, RateLimiter, TLC

VARIABLE part

nodeVars == <<part, challengeVars, linkVars, regionVars, instanceVars, aclVars, rateVars>>

NodesInit ==
  /\ part \in {"deploy", "regions", "instances", "acl", "rate"}
  /\ DeployInit /\ RegionInit /\ InstanceInit /\ AclInit /\ RateInit
  /\ part # "acl" => \A p \in AclPeers : cred[p].role = "worker"

NodesNext ==
  \/ /\ part = "deploy" /\ DeployNext
     /\ UNCHANGED <<part, regionVars, instanceVars, aclVars, rateVars>>
  \/ /\ part = "regions" /\ RegionNext
     /\ UNCHANGED <<part, linkVars, instanceVars, aclVars, rateVars>>
  \/ /\ part = "instances" /\ InstanceNext
     /\ UNCHANGED <<part, challengeVars, linkVars, regionVars, aclVars, rateVars>>
  \/ /\ part = "acl" /\ AclNext
     /\ UNCHANGED <<part, challengeVars, linkVars, regionVars, instanceVars, rateVars>>
  \/ /\ part = "rate" /\ RateNext
     /\ UNCHANGED <<part, challengeVars, linkVars, regionVars, instanceVars, aclVars>>

NodesSpec == NodesInit /\ [][NodesNext]_nodeVars

\* One challenge is enough for the regions, and none is left at the second tick
\* where there are two invitations; deploy keys need one tick.
Bounded ==
  /\ part = "regions" =>
       LET used == Cardinality({i \in ChallengeIds : challenge[i].state # "none"})
       IN  used <= 1 /\ (now = 2 /\ tickets = 2 => used = 0)
  /\ part = "deploy" => now <= 1

\* Providers and peers are interchangeable, and so are regions and services.
Symmetry == Permutations(Providers) \cup Permutations(RegionIds)

\* What the evaluator answers fails closed, whatever changes between two
\* answers: no service of a peer is open in both partitions, the spelling of a
\* permissionless request opens nothing, a peer is trusted only with live
\* memberships, fresh observations and a current credential, and the first
\* protocol allows nothing that the second denies.  What a trusted request in a
\* spelling other than the canonical one escapes is named where the parts are.
DecisionsFailClosed ==
  part = "acl" =>
    PartitionsDisjoint /\ SpellingOpensNothing /\ TrustedFailsClosed /\ V1AgreesV2
=============================================================================
