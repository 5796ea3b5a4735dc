------------------------------- MODULE Billing -------------------------------
(***************************************************************************)
(* The reserve / settle / release core of the inference market: the        *)
(* account_credits, billing_requests and credit_ledger tables of           *)
(* internal/store, the settlement callback that finalizes a request when   *)
(* its response ends, and the stale-reservation sweeper.                   *)
(*                                                                         *)
(* Database transactions are interleaved statement by statement, wherever  *)
(* a statement reads or locks a row another transaction may change.  A     *)
(* transaction's writes become visible at its commit; until then it owns   *)
(* the account_credits rows it has updated (CallbackOwns, SweepOwns), and  *)
(* a statement that needs a row owned by another transaction waits.        *)
(* ReserveBilling and the deposit credit touch nothing shared before they  *)
(* hold the one account row they need, so each is a single step.           *)
(*                                                                         *)
(* An absent account_credits row and a row of zeros are the same state:    *)
(* every writer first inserts the zero row if it is missing.               *)
(***************************************************************************)
EXTENDS Pricing, Totals

CONSTANTS Accounts,            \* account ids
          Treasury,            \* billing.TreasuryAccountID
          Requests,            \* request ids the gate may stamp
          Finalizers,          \* settlement callbacks a request may get: one in the code
          Sweepers,            \* one recovery loop per API replica
          Offers,              \* reservations the gate may ask for
          Reports,             \* usage a response may report, with the peer that served
          Deposits,            \* confirmed transfers to credit
          FeeBps,              \* BILLING_FEE_BPS
          AllowSum,            \* sum of the account's active SPL delegations
          SweepLimit,          \* rows per sweep: 100 in the code
          MaxFaults,           \* bound on transactions lost to crashes and timeouts
          AgeExceedsLifetime,  \* TRUE: no response outlives BILLING_SWEEP_AGE
          Nobody

Callbacks == Requests \X Finalizers
Quotes == UNION {o.quotes : o \in Offers}

ASSUME BillingAssumption ==
  /\ IsFiniteSet(Accounts) /\ IsFiniteSet(Requests)
  /\ Treasury \in Accounts
  /\ Nobody \notin Accounts \cup Callbacks \cup Sweepers
  /\ Sweepers \cap Callbacks = {}
  /\ \A o \in Offers :
       /\ o.buyer \in Accounts
       /\ IsFiniteSet(o.quotes)
       /\ o.inputCeil \in Amount /\ o.outputCeil \in Amount
  /\ \A q \in Quotes :
       /\ q.seller \in Accounts
       /\ q.input \in Amount /\ q.cached \in Amount /\ q.output \in Amount
  /\ \A u \in Reports : u.input \in Amount /\ u.cached \in Amount /\ u.output \in Amount
  /\ \A d \in Deposits :
       d.account \in Accounts /\ d.amount \in Nat \ {0} /\ d.id \notin Requests
  /\ FeeBps \in Int
  /\ AllowSum \in [Accounts -> Nat]
  /\ SweepLimit \in Nat \ {0}
  /\ MaxFaults \in Nat
  /\ AgeExceedsLifetime \in BOOLEAN

VARIABLES credit,      \* account_credits.credit_raw
          reserved,    \* account_credits.reserved_raw
          ledger,      \* credit_ledger rows
          state,       \* billing_requests.state, "none" before the insert
          buyer,       \* billing_requests.buyer_account_id
          quotes,      \* billing_requests.eligible_peers, the frozen snapshot
          held,        \* billing_requests.reserved_raw
          reservedAt,  \* billing_requests.reserved_at, as a rank
          pc,          \* where each settlement callback is
          report,      \* the usage a callback is settling
          batch,       \* requests a sweep has locked and not yet released
          freed,       \* requests a sweep has released but not committed
          faults       \* transactions lost so far

accountVars == <<credit, reserved, ledger>>
requestVars == <<buyer, quotes, held, reservedAt>>
sweepVars == <<batch, freed>>
vars == <<credit, reserved, ledger, state, buyer, quotes, held, reservedAt,
          pc, report, batch, freed, faults>>

NoReport == [peer |-> Nobody, input |-> 0, cached |-> 0, output |-> 0]

Init ==
  /\ credit = [a \in Accounts |-> 0]
  /\ reserved = [a \in Accounts |-> 0]
  /\ ledger = {}
  /\ state = [r \in Requests |-> "none"]
  /\ buyer = [r \in Requests |-> Nobody]
  /\ quotes = [r \in Requests |-> {}]
  /\ held = [r \in Requests |-> 0]
  /\ reservedAt = [r \in Requests |-> 0]
  /\ pc = [c \in Callbacks |-> "idle"]
  /\ report = [c \in Callbacks |-> NoReport]
  /\ batch = [s \in Sweepers |-> {}]
  /\ freed = [s \in Sweepers |-> {}]
  /\ faults = 0

-----------------------------------------------------------------------------
(* Row locks and constraints.                                              *)

\* Mutant: only the sign of the balance is constrained.
CheckHolds_CreditOnly(c, r) == c >= 0

\* The CHECK constraints of account_credits.
CheckHolds(c, r) == c >= 0 /\ r >= 0 /\ r <= c

\* findQuote against the immutable snapshot.
ServedQuote(r, u) == CHOOSE q \in quotes[r] : q.peer = u.peer
InSnapshot(r, u) == \E q \in quotes[r] : q.peer = u.peer

\* The charge of every report at every quote, and its split.
Charge == [u \in Reports |-> [q \in Quotes |-> Cost(u, q)]]
Split == [u \in Reports |-> [q \in Quotes |-> Fee(Cost(u, q), FeeBps)]]

CostOf(c) == Charge[report[c]][ServedQuote(c[1], report[c])]
SplitOf(c) == Split[report[c]][ServedQuote(c[1], report[c])]
SellerOf(c) == ServedQuote(c[1], report[c]).seller

\* The account rows a settlement callback has updated and not yet committed.
CallbackOwns(c) ==
  CASE pc[c] = "seller"   -> {buyer[c[1]]}
    [] pc[c] = "treasury" -> {buyer[c[1]], SellerOf(c)}
    [] pc[c] = "finalize" ->
         {buyer[c[1]], SellerOf(c)} \cup (IF SplitOf(c).fee > 0 THEN {Treasury} ELSE {})
    [] pc[c] = "release"  -> IF held[c[1]] > 0 THEN {buyer[c[1]]} ELSE {}
    [] OTHER              -> {}

SweepOwns(s) == {buyer[r] : r \in {x \in freed[s] : held[x] > 0}}

\* No transaction but t owns the row of account a.
FreeFor(a, t) ==
  /\ \A c \in Callbacks : c # t => a \notin CallbackOwns(c)
  /\ \A s \in Sweepers : s # t => a \notin SweepOwns(s)

\* SELECT ... FOR UPDATE of a sweep holds the request row until it ends.
SweptBy(r, s) == r \in batch[s] \cup freed[s]
RequestFree(r) == \A s \in Sweepers : ~SweptBy(r, s)

\* A rolled-back callback only logs its error; nothing retries it.
Rollback(c) ==
  /\ pc' = [pc EXCEPT ![c] = "done"]
  /\ report' = [report EXCEPT ![c] = NoReport]
  /\ UNCHANGED <<accountVars, state, requestVars, sweepVars>>

-----------------------------------------------------------------------------
(* Deposits and reservations.                                              *)

\* creditDepositLocked: a confirmed transfer credits its account once.
CreditDeposit(d) ==
  /\ \A l \in ledger : l.ref # d.id
  /\ FreeFor(d.account, Nobody)
  /\ credit' = [credit EXCEPT ![d.account] = @ + d.amount]
  /\ ledger' = ledger \cup {[ref |-> d.id, leg |-> "deposit", by |-> Nobody,
                             account |-> d.account, delta |-> d.amount]}
  /\ UNCHANGED <<reserved, state, requestVars, pc, report, sweepVars, faults>>

\* What a new reservation may take: the unreserved credit, bounded by the
\* active delegations when there are any.
Available(a) ==
  LET unreserved == credit[a] - reserved[a] IN
  IF AllowSum[a] > 0 /\ AllowSum[a] < unreserved THEN AllowSum[a] ELSE unreserved

\* The worst case of every offer.
ReserveOf == [o \in Offers |-> ReserveAmount(o.quotes, o.inputCeil, o.outputCeil)]

\* ReserveBilling; a refusal (insufficient credit, overflow, a request id
\* that exists) changes nothing.
ReserveBilling(r, o) ==
  /\ state[r] = "none"
  /\ o.quotes # {}
  /\ ReserveOf[o] # ErrOverflow
  /\ FreeFor(o.buyer, Nobody)
  /\ Available(o.buyer) >= ReserveOf[o]
  /\ CheckHolds(credit[o.buyer], reserved[o.buyer] + ReserveOf[o])
  /\ state' = [state EXCEPT ![r] = "reserved"]
  /\ buyer' = [buyer EXCEPT ![r] = o.buyer]
  /\ quotes' = [quotes EXCEPT ![r] = o.quotes]
  /\ held' = [held EXCEPT ![r] = ReserveOf[o]]
  /\ reservedAt' = [reservedAt EXCEPT ![r] =
                      1 + Cardinality({x \in Requests : state[x] # "none"})]
  /\ reserved' = [reserved EXCEPT ![o.buyer] = @ + ReserveOf[o]]
  /\ pc' = [c \in Callbacks |-> IF c[1] = r THEN "inflight" ELSE pc[c]]
  /\ UNCHANGED <<credit, ledger, report, sweepVars, faults>>

-----------------------------------------------------------------------------
(* The settlement callback of one response.                                *)

\* The response hook never runs: a crashed proxy, or a response the hook
\* skips because it names no computing node.
LoseResponse(c) ==
  /\ pc[c] = "inflight"
  /\ pc' = [pc EXCEPT ![c] = "done"]
  /\ UNCHANGED <<accountVars, state, requestVars, report, sweepVars, faults>>

\* SettleBilling and ReleaseBilling read the row with a plain SELECT and go
\* on only if it is reserved.
StillReserved(r) == state[r] = "reserved"

\* Callback with complete usage: SettleBilling up to its first update.
BeginSettle(c, u) ==
  LET r == c[1]
      cost == Charge[u][ServedQuote(r, u)] IN
  /\ pc[c] = "inflight"
  /\ pc' = [pc EXCEPT ![c] =
       IF ~StillReserved(r) THEN "done"
       ELSE IF ~InSnapshot(r, u) THEN "unreserve"                     \* unknown_peer
       ELSE IF cost = ErrOverflow THEN "done"
       ELSE IF cost = 0 THEN "unreserve"                              \* zero_price
       ELSE IF Split[u][ServedQuote(r, u)].seller < 0 THEN "done"
       ELSE "buyer"]
  /\ report' = [report EXCEPT ![c] = IF pc'[c] = "buyer" THEN u ELSE NoReport]
  /\ UNCHANGED <<accountVars, state, requestVars, sweepVars, faults>>

\* Callback without complete usage: ReleaseBilling up to its first update.
BeginRelease(c) ==
  /\ pc[c] = "inflight"
  /\ pc' = [pc EXCEPT ![c] = IF StillReserved(c[1]) THEN "unreserve" ELSE "done"]
  /\ UNCHANGED <<accountVars, state, requestVars, report, sweepVars, faults>>

\* releaseLocked, first statement: nothing to update for a zero reservation.
Unreserve(c) ==
  LET r == c[1]
      a == buyer[r] IN
  /\ pc[c] = "unreserve"
  /\ held[r] > 0 => FreeFor(a, c)
  /\ IF held[r] = 0 \/ CheckHolds(credit[a], reserved[a] - held[r])
       THEN /\ pc' = [pc EXCEPT ![c] = "release"]
            /\ UNCHANGED <<accountVars, state, requestVars, report, sweepVars>>
       ELSE Rollback(c)
  /\ UNCHANGED faults

\* releaseLocked, second statement, and the commit.
CommitRelease(c) ==
  LET r == c[1] IN
  /\ pc[c] = "release"
  /\ RequestFree(r)
  /\ reserved' = [reserved EXCEPT ![buyer[r]] = @ - held[r]]
  /\ state' = [state EXCEPT ![r] = "released"]
  /\ pc' = [pc EXCEPT ![c] = "done"]
  /\ UNCHANGED <<credit, ledger, requestVars, report, sweepVars, faults>>

\* applyDelta of the buyer; a CHECK violation rolls the settlement back.
DebitBuyer(c) ==
  LET r == c[1]
      a == buyer[r] IN
  /\ pc[c] = "buyer"
  /\ FreeFor(a, c)
  /\ IF CheckHolds(credit[a] - CostOf(c), reserved[a] - held[r])
       THEN /\ pc' = [pc EXCEPT ![c] = "seller"]
            /\ UNCHANGED <<accountVars, state, requestVars, report, sweepVars>>
       ELSE Rollback(c)
  /\ UNCHANGED faults

\* applyDelta of the seller.
CreditSeller(c) ==
  /\ pc[c] = "seller"
  /\ FreeFor(SellerOf(c), c)
  /\ pc' = [pc EXCEPT ![c] = IF SplitOf(c).fee > 0 THEN "treasury" ELSE "finalize"]
  /\ UNCHANGED <<accountVars, state, requestVars, report, sweepVars, faults>>

\* applyDelta of the treasury, when there is a fee.
CreditTreasury(c) ==
  /\ pc[c] = "treasury"
  /\ FreeFor(Treasury, c)
  /\ pc' = [pc EXCEPT ![c] = "finalize"]
  /\ UNCHANGED <<accountVars, state, requestVars, report, sweepVars, faults>>

\* What the settlement adds to the credit of account a.
SettleDelta(c, a) ==
  (IF a = buyer[c[1]] THEN -CostOf(c) ELSE 0)
  + (IF a = SellerOf(c) THEN SplitOf(c).seller ELSE 0)
  + (IF a = Treasury THEN SplitOf(c).fee ELSE 0)

Leg(c, name, a, amount) ==
  [ref |-> c[1], leg |-> name, by |-> c[2], account |-> a, delta |-> amount]

\* Mutant: the fee leg is not written.
SettleLegs_NoFee(c) ==
  {Leg(c, "buyer", buyer[c[1]], -CostOf(c)), Leg(c, "seller", SellerOf(c), SplitOf(c).seller)}

SettleLegs(c) ==
  {Leg(c, "buyer", buyer[c[1]], -CostOf(c)), Leg(c, "seller", SellerOf(c), SplitOf(c).seller)}
  \cup (IF SplitOf(c).fee > 0 THEN {Leg(c, "fee", Treasury, SplitOf(c).fee)} ELSE {})

\* Mutant: credit_ledger has no unique key on (ref, leg).
LegExists_Never(r) == FALSE

\* UNIQUE (ref, leg): the first leg a second settlement inserts is refused.
LegExists(r) == \E l \in ledger : l.ref = r /\ l.leg = "buyer"

\* The ledger inserts, the request update (which names no state) and the
\* commit.
CommitSettle(c) ==
  LET r == c[1] IN
  /\ pc[c] = "finalize"
  /\ ~LegExists(r)
  /\ RequestFree(r)
  /\ credit' = [a \in Accounts |-> credit[a] + SettleDelta(c, a)]
  /\ reserved' = [reserved EXCEPT ![buyer[r]] = @ - held[r]]
  /\ ledger' = ledger \cup SettleLegs(c)
  /\ state' = [state EXCEPT ![r] = "settled"]
  /\ pc' = [pc EXCEPT ![c] = "done"]
  /\ report' = [report EXCEPT ![c] = NoReport]
  /\ UNCHANGED <<requestVars, sweepVars, faults>>

\* ErrConflict: the charge is already in the ledger.
RefuseSecondCharge(c) ==
  /\ pc[c] = "finalize"
  /\ LegExists(c[1])
  /\ Rollback(c)
  /\ UNCHANGED faults

\* The insert of the buyer's leg decides how the settlement ends.
FinishSettle(c) ==
  IF LegExists(c[1]) THEN RefuseSecondCharge(c) ELSE CommitSettle(c)

-----------------------------------------------------------------------------
(* The stale-reservation sweeper.                                          *)

\* A request no callback will finalize any more.
Abandoned(r) == \A f \in Finalizers : pc[<<r, f>>] = "done"

\* Mutant: FOR UPDATE SKIP LOCKED is dropped.
Sweepable_Unlocked(r, before) == state[r] = "reserved" /\ reservedAt[r] < before

\* Mutant: state = 'reserved' is dropped from the WHERE clause.
Sweepable_AnyState(r, before) ==
  state[r] # "none" /\ reservedAt[r] < before /\ RequestFree(r)

\* Mutant: the comparison with the cut-off is the wrong way round.
Sweepable_Recent(r, before) ==
  state[r] = "reserved" /\ reservedAt[r] > before /\ RequestFree(r)

\* WHERE state = 'reserved' AND reserved_at < before ... FOR UPDATE SKIP LOCKED
Sweepable(r, before) ==
  state[r] = "reserved" /\ reservedAt[r] < before /\ RequestFree(r)

\* The sweep locks the oldest SweepLimit rows reserved before a cut-off.
SweepSelect(s, before) ==
  LET due == {r \in Requests : Sweepable(r, before)} IN
  /\ batch[s] = {} /\ freed[s] = {}
  /\ AgeExceedsLifetime =>
       \A r \in Requests : state[r] # "none" /\ reservedAt[r] < before => Abandoned(r)
  /\ \E b \in SUBSET due :
       /\ b # {}
       /\ Cardinality(b) = Min({SweepLimit, Cardinality(due)})
       /\ \A x \in b, y \in due \ b : reservedAt[x] < reservedAt[y]
       /\ batch' = [batch EXCEPT ![s] = b]
  /\ UNCHANGED <<accountVars, state, requestVars, pc, report, freed, faults>>

\* Mutant: the sweep finalizes the requests and leaves reserved_raw alone.
Freed_Nothing(s, a) == 0

\* What a sweep has taken from the account's reserved_raw so far.
Freed(s, a) == Total(held, {r \in freed[s] : buyer[r] = a})

EndSweep(s) ==
  /\ batch' = [batch EXCEPT ![s] = {}]
  /\ freed' = [freed EXCEPT ![s] = {}]

\* releaseLocked of the oldest row of the batch; a CHECK violation rolls the
\* whole sweep back.
SweepRelease(s) ==
  \E r \in batch[s] :
    /\ \A x \in batch[s] : reservedAt[r] <= reservedAt[x]
    /\ held[r] > 0 => FreeFor(buyer[r], s)
    /\ IF held[r] = 0
          \/ CheckHolds(credit[buyer[r]], reserved[buyer[r]] - Freed(s, buyer[r]) - held[r])
         THEN /\ batch' = [batch EXCEPT ![s] = @ \ {r}]
              /\ freed' = [freed EXCEPT ![s] = @ \cup {r}]
         ELSE EndSweep(s)
    /\ UNCHANGED <<accountVars, state, requestVars, pc, report, faults>>

SweepCommit(s) ==
  /\ batch[s] = {} /\ freed[s] # {}
  /\ reserved' = [a \in Accounts |-> reserved[a] - Freed(s, a)]
  /\ state' = [r \in Requests |-> IF r \in freed[s] THEN "released" ELSE state[r]]
  /\ EndSweep(s)
  /\ UNCHANGED <<credit, ledger, requestVars, pc, report, faults>>

-----------------------------------------------------------------------------
(* Failures: a transaction may be lost at any point, and PostgreSQL aborts *)
(* a transaction that is part of a cycle of waits.                         *)

Transacting == {"unreserve", "release", "buyer", "seller", "treasury", "finalize"}
RunningCallbacks == {c \in Callbacks : pc[c] \in Transacting}
RunningSweeps == {s \in Sweepers : batch[s] \cup freed[s] # {}}

CallbackFails(c) ==
  /\ faults < MaxFaults
  /\ c \in RunningCallbacks
  /\ Rollback(c)
  /\ faults' = faults + 1

SweepFails(s) ==
  /\ faults < MaxFaults
  /\ s \in RunningSweeps
  /\ EndSweep(s)
  /\ faults' = faults + 1
  /\ UNCHANGED <<accountVars, state, requestVars, pc, report>>

\* The account row a transaction is about to update.
WantedBy(c) ==
  CASE pc[c] \in {"unreserve", "buyer"} -> {buyer[c[1]]}
    [] pc[c] = "seller"                 -> {SellerOf(c)}
    [] pc[c] = "treasury"               -> {Treasury}
    [] OTHER                            -> {}

\* The transactions a transaction waits for.
CallbackWaitsFor(c) ==
  {d \in RunningCallbacks : d # c /\ CallbackOwns(d) \cap WantedBy(c) # {}}
  \cup {s \in RunningSweeps : \/ SweepOwns(s) \cap WantedBy(c) # {}
                              \/ pc[c] \in {"release", "finalize"} /\ SweptBy(c[1], s)}
SweepWaitsFor(s) ==
  LET next == {r \in batch[s] : held[r] > 0 /\ \A x \in batch[s] : reservedAt[r] <= reservedAt[x]}
      want == {buyer[r] : r \in next} IN
  {d \in RunningCallbacks : CallbackOwns(d) \cap want # {}}
  \cup {z \in RunningSweeps : z # s /\ SweepOwns(z) \cap want # {}}

\* Every member of the cycle waits for a member of it and is waited for.
WaitCycle(cs, ss) ==
  /\ \A c \in cs : /\ CallbackWaitsFor(c) \cap (cs \cup ss) # {}
                   /\ \/ \E d \in cs : c \in CallbackWaitsFor(d)
                      \/ \E s \in ss : c \in SweepWaitsFor(s)
  /\ \A s \in ss : /\ SweepWaitsFor(s) \cap (cs \cup ss) # {}
                   /\ \/ \E d \in cs : s \in CallbackWaitsFor(d)
                      \/ \E z \in ss : s \in SweepWaitsFor(z)

DeadlockVictim ==
  \E cs \in SUBSET RunningCallbacks, ss \in SUBSET RunningSweeps :
    /\ WaitCycle(cs, ss)
    /\ \/ \E c \in cs : Rollback(c)
       \/ \E s \in ss : /\ EndSweep(s)
                        /\ UNCHANGED <<accountVars, state, requestVars, pc, report>>
    /\ UNCHANGED faults

-----------------------------------------------------------------------------
CallbackStep(c) ==
  \/ \E u \in Reports : BeginSettle(c, u)
  \/ BeginRelease(c)
  \/ Unreserve(c)
  \/ CommitRelease(c)
  \/ DebitBuyer(c)
  \/ CreditSeller(c)
  \/ CreditTreasury(c)
  \/ FinishSettle(c)

SweepStep(s) ==
  \/ \E before \in 1 .. Cardinality(Requests) + 1 : SweepSelect(s, before)
  \/ SweepRelease(s)
  \/ SweepCommit(s)

Next ==
  \/ \E d \in Deposits : CreditDeposit(d)
  \/ \E r \in Requests, o \in Offers : ReserveBilling(r, o)
  \/ \E c \in Callbacks : LoseResponse(c) \/ CallbackStep(c) \/ CallbackFails(c)
  \/ \E s \in Sweepers : SweepStep(s) \/ SweepFails(s)
  \/ DeadlockVictim

Spec == Init /\ [][Next]_vars

\* A begun response ends, a begun transaction runs on, PostgreSQL resolves
\* deadlocks after deadlock_timeout, and the sweep ticker keeps firing.  A
\* callback waiting for a row is first in PostgreSQL's queue for it when the
\* owner ends, so one whose row is freed again and again proceeds.
Fairness ==
  /\ \A c \in Callbacks : SF_vars(CallbackStep(c))
  /\ \A s \in Sweepers : WF_vars(SweepStep(s))
  /\ WF_vars(DeadlockVictim)

FairSpec == Spec /\ Fairness

-----------------------------------------------------------------------------
(* Properties.                                                             *)

LegNames == {"buyer", "seller", "fee", "deposit"}
RequestStates == {"none", "reserved", "settled", "released"}
Places == Transacting \cup {"idle", "inflight", "done"}

(* The types of the tables' columns and of the transactions' progress.     *)
TypeOK ==
  /\ credit \in [Accounts -> Nat]
  /\ reserved \in [Accounts -> Nat]
  /\ \A l \in ledger : /\ l.leg \in LegNames
                       /\ l.account \in Accounts
                       /\ l.delta \in Int
  /\ state \in [Requests -> RequestStates]
  /\ buyer \in [Requests -> Accounts \cup {Nobody}]
  /\ quotes \in [Requests -> SUBSET Quotes]
  /\ held \in [Requests -> Nat]
  /\ reservedAt \in [Requests -> Nat]
  /\ pc \in [Callbacks -> Places]
  /\ report \in [Callbacks -> Reports \cup {NoReport}]
  /\ batch \in [Sweepers -> SUBSET Requests]
  /\ freed \in [Sweepers -> SUBSET Requests]
  /\ faults \in Nat

\* The requests that hold a reservation of account a.
Open(a) == {r \in Requests : state[r] = "reserved" /\ buyer[r] = a}

\* The amounts of ledger rows, and the rows that credit and debit account a.
Magnitude(rows) == [l \in rows |-> IF l.delta < 0 THEN -l.delta ELSE l.delta]
Credits(rows, a) == {l \in rows : l.account = a /\ l.delta >= 0}
Debits(rows, a) == {l \in rows : l.account = a /\ l.delta < 0}

(* ReconcileAccount's DriftCredit is zero: whatever transactions race,     *)
(* abort or repeat, credit_raw is the sum of the account's ledger legs.    *)
CreditMatchesLedger ==
  \A a \in Accounts :
    credit[a] + Total(Magnitude(ledger), Debits(ledger, a))
      = Total(Magnitude(ledger), Credits(ledger, a))

(* ReconcileAccount's DriftReserved is zero: reserved_raw is the sum of    *)
(* the account's open reservations ("account_credits is a transactional    *)
(* projection").                                                           *)
ReservedMatchesOpen ==
  \A a \in Accounts : reserved[a] = Total(held, Open(a))

(* Reservations never leak: no interleaving, crash or retry leaves more    *)
(* credit locked in reserved_raw than open requests account for.           *)
ReservedBacked ==
  \A a \in Accounts : reserved[a] <= Total(held, Open(a))

(* UNIQUE(ref, leg) makes a settlement final: however many callbacks race, *)
(* a request is charged at most once, and what its buyer pays is what its  *)
(* seller and the treasury get.                                            *)
ChargedOnce ==
  \A r \in Requests :
    LET legs == {l \in ledger : l.ref = r}
        paid == {l \in legs : l.leg = "buyer"} IN
    /\ \A l, m \in legs : l.leg = m.leg => l = m
    /\ Total(Magnitude(ledger), paid) = Total(Magnitude(ledger), legs \ paid)

(* A request's state tells whether it was charged: settled requests have   *)
(* their legs, released and open ones have none.                           *)
SettledIffCharged ==
  \A r \in Requests : state[r] = "settled" <=> \E l \in ledger : l.ref = r

(* A reservation guarantees payment: while a settlement within the         *)
(* reserved amount waits for its buyer's row, the account can pay it and   *)
(* give back the reservation without breaking a CHECK constraint, whatever *)
(* else is open on the account.                                            *)
SettlementCovered ==
  \A c \in Callbacks :
    pc[c] = "buyer" /\ CostOf(c) <= held[c[1]] =>
      LET a == buyer[c[1]] IN
      CheckHolds(credit[a] - CostOf(c), reserved[a] - held[c[1]])

(* "settled/released state is terminal" (settlement.Settler): a finalized  *)
(* request never changes state again.                                      *)
FinalIsTerminal ==
  [][\A r \in Requests : state[r] \in {"settled", "released"} => state'[r] = state[r]]_vars

(* Every reservation is eventually settled or released: by its callback    *)
(* or, when that was lost, failed or was chosen as a deadlock victim, by   *)
(* the sweeper.                                                            *)
EventuallyFinal ==
  \A r \in Requests :
    state[r] = "reserved" ~> state[r] \in {"settled", "released"}
=============================================================================
