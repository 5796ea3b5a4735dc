------------------------------ MODULE ApiKeys ------------------------------
(***************************************************************************)
(* API keys.  Every replica authenticates requests (internal/auth) against *)
(* the api_keys table through a cache of verdicts of its own               *)
(* (internal/cache); the console creates and revokes keys of a user        *)
(* (internal/keysapi, internal/keysvc) and keyctl keys without an owner.   *)
(* A revocation purges the cache of the replica that served it and of no   *)
(* other.                                                                  *)
(*                                                                         *)
(* A key is known to a client only once its row is committed.  Clocks of   *)
(* replicas and database are one clock, in ticks.  MaxLookup bounds the    *)
(* ticks between the query of a lookup and the write of its verdict.       *)
(***************************************************************************)
EXTENDS Integers, FiniteSets

CONSTANTS Keys,              \* tokens GenerateToken may draw
          Users,
          KeyReplicas,
          Lookups,           \* requests being authenticated
          Creators,          \* create handlers
          MaxPerUser,        \* the soft cap
          PosTTL, NegTTL,    \* lifetimes of cached verdicts
          MaxLookup,
          MaxClock,          \* bound on the clock
          EnforceAccount,    \* BILLING_MODE=enforce
          NoOwner            \* api_keys.user_id IS NULL

ASSUME ApiKeysAssumption ==
  /\ MaxPerUser \in Nat \ {0}
  /\ PosTTL \in Nat /\ NegTTL \in Nat /\ MaxLookup \in Nat /\ MaxClock \in Nat
  /\ EnforceAccount \in BOOLEAN
  /\ NoOwner \notin Users
  /\ IsFiniteSet(Creators)

Owners == Users \cup {NoOwner}
Verdict == [valid : BOOLEAN, owner : Owners]
Refused == [valid |-> FALSE, owner |-> NoOwner]
Absent == [until |-> -1, verdict |-> Refused]

VARIABLES clock,
          key,        \* api_keys: state, owner and revoked_at of each row
          keyCache,   \* the cached verdict of each replica and when it expires
          lookup,     \* a request in Validator.Valid
          creating,   \* the user a creator counted under the cap for
          purging,    \* revocations between the update and the purge
          purged      \* replica and key, purged while no lookup held the key

keyVars == <<clock, key, keyCache, lookup, creating, purging, purged>>

IdleLookup == [at |-> "idle"]

KeyTypeOK ==
  /\ clock \in 0 .. MaxClock
  /\ key \in [Keys -> [state : {"none", "active", "revoked"}, owner : Owners,
                       revokedAt : 0 .. MaxClock]]
  /\ keyCache \in [KeyReplicas -> [Keys -> [until : Int, verdict : Verdict]]]
  /\ lookup \in [Lookups -> {IdleLookup}
                   \cup [at : {"missed"}, replica : KeyReplicas, key : Keys]
                   \cup [at : {"read"}, replica : KeyReplicas, key : Keys,
                         verdict : Verdict, when : 0 .. MaxClock]]
  /\ creating \in [Creators -> Owners]
  /\ purging \subseteq KeyReplicas \X Keys
  /\ purged \subseteq KeyReplicas \X Keys

KeyInit ==
  /\ clock = 0
  /\ key = [k \in Keys |-> [state |-> "none", owner |-> NoOwner, revokedAt |-> 0]]
  /\ keyCache = [r \in KeyReplicas |-> [k \in Keys |-> Absent]]
  /\ lookup = [l \in Lookups |-> IdleLookup]
  /\ creating = [c \in Creators |-> NoOwner]
  /\ purging = {}
  /\ purged = {}

-----------------------------------------------------------------------------
(* The cache.                                                              *)

\* Get: now().After(expiresAt) is strict.
Live(r, k) == keyCache[r][k].until >= clock

\* Mutant: a hit renews the entry.
Hit_Renews(r, k) ==
  keyCache' = [keyCache EXCEPT ![r][k].until = clock + PosTTL]

\* A hit of Get leaves the entry as it is.
Hit(r, k) == UNCHANGED keyCache

\* A miss of Get removes an expired entry.
Miss(r, k) == keyCache' = [keyCache EXCEPT ![r][k] = Absent]

Set(r, k, v) ==
  keyCache' = [keyCache EXCEPT ![r][k] =
                 [until |-> clock + (IF v.valid THEN PosTTL ELSE NegTTL), verdict |-> v]]

\* The janitor.
DeleteExpired(r) ==
  /\ \E k \in Keys : keyCache[r][k] # Absent /\ ~Live(r, k)
  /\ keyCache' = [keyCache EXCEPT ![r] =
                    [k \in Keys |-> IF Live(r, k) THEN keyCache[r][k] ELSE Absent]]
  /\ UNCHANGED <<clock, key, lookup, creating, purging, purged>>

-----------------------------------------------------------------------------
(* A request: auth.Middleware and Validator.Valid.                         *)

\* store.Validate: a row that is not active has no owner in the answer.
Validate(k) ==
  IF key[k].state = "active" THEN [valid |-> TRUE, owner |-> key[k].owner]
  ELSE Refused

\* What the middleware answers to a verdict.
Answer(v) ==
  IF ~v.valid THEN 401
  ELSE IF EnforceAccount /\ v.owner = NoOwner THEN 402
  ELSE 200

\* A request presents k to replica r and finds a live entry: Answer(verdict)
\* is given at once.
LookupHit(r, k) ==
  /\ key[k].state # "none"
  /\ Live(r, k)
  /\ Hit(r, k)
  /\ UNCHANGED <<clock, key, lookup, creating, purging, purged>>

LookupMiss(l, r, k) ==
  /\ lookup[l].at = "idle"
  /\ key[k].state # "none"
  /\ ~Live(r, k)
  /\ Miss(r, k)
  /\ lookup' = [lookup EXCEPT ![l] = [at |-> "missed", replica |-> r, key |-> k]]
  /\ UNCHANGED <<clock, key, creating, purging, purged>>

\* The query of the store.
LookupRead(l) ==
  /\ lookup[l].at = "missed"
  /\ lookup' = [lookup EXCEPT ![l] =
                  [at |-> "read", replica |-> lookup[l].replica, key |-> lookup[l].key,
                   verdict |-> Validate(lookup[l].key), when |-> clock]]
  /\ UNCHANGED <<clock, key, keyCache, creating, purging, purged>>

\* The query fails: 503, and nothing is cached.
LookupFails(l) ==
  /\ lookup[l].at = "missed"
  /\ lookup' = [lookup EXCEPT ![l] = IdleLookup]
  /\ UNCHANGED <<clock, key, keyCache, creating, purging, purged>>

LookupSet(l) ==
  /\ lookup[l].at = "read"
  /\ Set(lookup[l].replica, lookup[l].key, lookup[l].verdict)
  /\ lookup' = [lookup EXCEPT ![l] = IdleLookup]
  /\ UNCHANGED <<clock, key, creating, purging, purged>>

-----------------------------------------------------------------------------
(* The console and keyctl.                                                 *)

ActiveKeys(u) == {k \in Keys : key[k].state = "active" /\ key[k].owner = u}

\* CountActiveByUser and the comparison with the cap; over it, the handler
\* answers 409.
UnderCap(u) == Cardinality(ActiveKeys(u)) < MaxPerUser

CreateCount(c, u) ==
  /\ creating[c] = NoOwner
  /\ UnderCap(u)
  /\ creating' = [creating EXCEPT ![c] = u]
  /\ UNCHANGED <<clock, key, keyCache, lookup, purging, purged>>

InsertKey(k, o) ==
  /\ key[k].state = "none"
  /\ key' = [key EXCEPT ![k].state = "active", ![k].owner = o]

\* InsertUserKey of a token just drawn.
CreateInsert(c, k) ==
  /\ creating[c] # NoOwner
  /\ InsertKey(k, creating[c])
  /\ creating' = [creating EXCEPT ![c] = NoOwner]
  /\ UNCHANGED <<clock, keyCache, lookup, purging, purged>>

\* The insert fails and the handler answers 503.
CreateFails(c) ==
  /\ creating[c] # NoOwner
  /\ creating' = [creating EXCEPT ![c] = NoOwner]
  /\ UNCHANGED <<clock, key, keyCache, lookup, purging, purged>>

\* keyctl add.
CmdAdd(k) ==
  /\ InsertKey(k, NoOwner)
  /\ UNCHANGED <<clock, keyCache, lookup, creating, purging, purged>>

RevokeKey(k) ==
  /\ key[k].state = "active"
  /\ key' = [key EXCEPT ![k].state = "revoked", ![k].revokedAt = clock]

\* Service.Revoke on replica r: the row first.  Keys without an owner match
\* no user.
RevokeByIDForUser(r, k) ==
  /\ key[k].owner # NoOwner
  /\ RevokeKey(k)
  /\ purging' = purging \cup {<<r, k>>}
  /\ UNCHANGED <<clock, keyCache, lookup, creating, purged>>

InFlight(r, k) ==
  \E l \in Lookups : /\ lookup[l].at = "read"
                     /\ lookup[l].replica = r /\ lookup[l].key = k
                     /\ lookup[l].verdict.valid

\* cache.Delete.
Purge(r, k) == keyCache' = [keyCache EXCEPT ![r][k] = Absent]

\* Then the verdict this replica has cached.
RevokePurge(r, k) ==
  /\ <<r, k>> \in purging
  /\ Purge(r, k)
  /\ purging' = purging \ {<<r, k>>}
  /\ purged' = IF InFlight(r, k) THEN purged ELSE purged \cup {<<r, k>>}
  /\ UNCHANGED <<clock, key, lookup, creating>>

\* keyctl revoke knows no cache.
CmdRevoke(k) ==
  /\ RevokeKey(k)
  /\ UNCHANGED <<clock, keyCache, lookup, creating, purging, purged>>

KeyTick ==
  /\ clock < MaxClock
  /\ \A l \in Lookups : lookup[l].at = "read" => clock < lookup[l].when + MaxLookup
  /\ clock' = clock + 1
  /\ UNCHANGED <<key, keyCache, lookup, creating, purging, purged>>

KeyNext ==
  \/ KeyTick
  \/ \E r \in KeyReplicas : DeleteExpired(r)
  \/ \E r \in KeyReplicas, k \in Keys :
       \/ LookupHit(r, k)
       \/ RevokeByIDForUser(r, k)
       \/ RevokePurge(r, k)
       \/ \E l \in Lookups : LookupMiss(l, r, k)
  \/ \E l \in Lookups : LookupRead(l) \/ LookupFails(l) \/ LookupSet(l)
  \/ \E c \in Creators :
       \/ \E u \in Users : CreateCount(c, u)
       \/ \E k \in Keys : CreateInsert(c, k)
       \/ CreateFails(c)
  \/ \E k \in Keys : CmdAdd(k) \/ CmdRevoke(k)

KeySpec == KeyInit /\ [][KeyNext]_keyVars

-----------------------------------------------------------------------------
(* Properties.                                                             *)

Positive(r, k) == keyCache[r][k].verdict.valid
Admits(r, k) == Live(r, k) /\ Answer(keyCache[r][k].verdict) = 200

\* CACHE_TTL bounds how long any replica may go on accepting a revoked key,
\* however the revocation was made: no positive verdict outlives the
\* revocation by more than the positive TTL and the length of a lookup, hits
\* of busy clients included.
RevocationPropagates ==
  \A r \in KeyReplicas, k \in Keys :
    key[k].state = "revoked" /\ Positive(r, k) =>
      keyCache[r][k].until <= key[k].revokedAt + MaxLookup + PosTTL

\* A console revocation stops the key at once on the replica that served it,
\* unless a lookup there had read the row before the revocation: a purge that
\* met no such lookup is final, because every later query sees the revoked row.
PurgeIsFinal ==
  \A r \in KeyReplicas, k \in Keys : <<r, k>> \in purged => ~Admits(r, k)

\* A revoked key stops: on every replica within the lifetime of a cached
\* answer and a lookup, and at once on the replica that purged it, unless a
\* lookup there had read the row before the revocation.
RevokedKeysStop == RevocationPropagates /\ PurgeIsFinal
=============================================================================
