---------------------------- MODULE RateLimiter ----------------------------
(***************************************************************************)
(* The token buckets of the access evaluator (internal/aclapi, rateLimiter *)
(* .allow): one bucket per caller, refilled by the time elapsed and capped *)
(* at the burst, and reaped when it was idle.  allow holds the mutex, so   *)
(* each call is one step.  Tokens are counted in parts: a call costs       *)
(* CallCost parts and a tick of time is worth Rate parts.                  *)
(***************************************************************************)
EXTENDS Totals

CONSTANTS RateCallers,
          Rate,             \* parts per tick: rps
          CallCost,         \* parts per call
          Burst,            \* calls
          SweepInterval,    \* bucketSweepInterval
          IdleTTL,          \* bucketIdleTTL
          MaxTicks

\* An idle bucket is full when it is reaped: 10 minutes at 50 rps, burst 100.
ASSUME RateAssumption ==
  /\ Rate \in Nat \ {0} /\ CallCost \in Nat \ {0} /\ Burst \in Nat \ {0}
  /\ SweepInterval \in Nat /\ MaxTicks \in Nat
  /\ IdleTTL \in Nat /\ IdleTTL * Rate >= Burst * CallCost

NoBucket == [last |-> MaxTicks + 1]

VARIABLES ticks,
          bucket,      \* bkts
          lastSweep,
          grants,      \* calls let through, by caller and tick
          retryAt      \* when the last Retry-After of a caller runs out

rateVars == <<ticks, bucket, lastSweep, grants, retryAt>>

RateInit ==
  /\ ticks = 0 /\ lastSweep = 0
  /\ bucket = [c \in RateCallers |-> NoBucket]
  /\ grants = [c \in RateCallers |-> [t \in 0 .. MaxTicks |-> 0]]
  /\ retryAt = [c \in RateCallers |-> MaxTicks + 1]

\* Mutant: the refill is not capped at the burst.
Refilled_Uncapped(tokens, elapsed) == tokens + elapsed * Rate

Refilled(tokens, elapsed) ==
  IF tokens + elapsed * Rate > Burst * CallCost THEN Burst * CallCost ELSE tokens + elapsed * Rate

\* Whole ticks until the next token, at least one.
RetryAfter(tokens) ==
  LET wait == (CallCost - tokens + Rate - 1) \div Rate IN IF wait < 1 THEN 1 ELSE wait

\* The buckets after the sweep that a call may do first.
Swept ==
  IF ticks - lastSweep >= SweepInterval
    THEN [c \in RateCallers |->
           IF bucket[c] # NoBucket /\ ticks - bucket[c].last >= IdleTTL
             THEN NoBucket ELSE bucket[c]]
    ELSE bucket

\* The tokens the caller finds: a new bucket is full.
Tokens(c) ==
  IF Swept[c] = NoBucket THEN Burst * CallCost
  ELSE Refilled(Swept[c].tokens, ticks - Swept[c].last)

Allow(c) ==
  LET ok == Tokens(c) >= CallCost
  IN /\ lastSweep' = IF ticks - lastSweep >= SweepInterval THEN ticks ELSE lastSweep
     /\ bucket' = [Swept EXCEPT ![c] =
                    [last |-> ticks, tokens |-> IF ok THEN Tokens(c) - CallCost ELSE Tokens(c)]]
     /\ grants' = IF ok THEN [grants EXCEPT ![c][ticks] = @ + 1] ELSE grants
     /\ retryAt' = [retryAt EXCEPT ![c] =
                     IF ok THEN MaxTicks + 1 ELSE ticks + RetryAfter(Tokens(c))]
     /\ UNCHANGED ticks

RateTick ==
  /\ ticks < MaxTicks /\ ticks' = ticks + 1
  /\ UNCHANGED <<bucket, lastSweep, grants, retryAt>>

RateNext == RateTick \/ \E c \in RateCallers : Allow(c)
RateSpec == RateInit /\ [][RateNext]_rateVars

-----------------------------------------------------------------------------
\* In every window of time a caller gets at most the burst and what the rate adds
\* meanwhile, whatever was reaped in between.
RateBounded ==
  \A c \in RateCallers : \A t \in 0 .. ticks :
    Total(grants[c], t .. ticks) * CallCost
      <= Burst * CallCost + (ticks - t) * Rate

\* A caller that waits as long as its Retry-After said is let through, whatever it
\* asked in the meantime.
RetryAfterHonoured ==
  \A c \in RateCallers : ticks >= retryAt[c] => Tokens(c) >= CallCost

\* A caller gets the configured rate: never more than the burst and the
\* refill allow, over forgotten buckets too, and never less to one that
\* waited as long as it was told.
RateKept == RateBounded /\ RetryAfterHonoured
=============================================================================
