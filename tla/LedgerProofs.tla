---------------------------- MODULE LedgerProofs ----------------------------
(***************************************************************************)
(* What the balances and the credit_ledger of module Billing mean:         *)
(* reserved_raw against the open requests, the guarantees that rest on it, *)
(* one charge per request and without loss, credit_raw as the sum of the   *)
(* account's legs, a state that tells whether a request was charged, and   *)
(* the billing store as an escrow.  Then the commitments to such a ledger  *)
(* (module Merkle): trees of any size, and the reads they are made of.     *)
(***************************************************************************)
EXTENDS BillingProofs, BillingEscrow, Merkle

-----------------------------------------------------------------------------
(* Sums of reservations.                                                   *)

LEMMA OpenFinite ==
  ASSUME TypeOK, NEW a
  PROVE  /\ IsFiniteSet(Open(a))
         /\ Open(a) \subseteq Requests
         /\ \A r \in Open(a) : held[r] \in Nat
         /\ Total(held, Open(a)) \in Nat
  <1>1. Open(a) \subseteq Requests /\ IsFiniteSet(Requests) /\ held \in [Requests -> Nat]
    BY BillingAssumption DEF Open, TypeOK
  <1>2. IsFiniteSet(Open(a))
    BY <1>1, FS_Subset
  <1>3. QED
    BY <1>1, <1>2, TotalType

\* Taking rows T out of S takes at most their total out of S's.
LEMMA TotalMinus ==
  ASSUME NEW S, IsFiniteSet(S), NEW T, IsFiniteSet(T),
         NEW w, \A x \in S \cup T : w[x] \in Nat
  PROVE  /\ Total(w, S \ T) \in Nat /\ Total(w, S) \in Nat /\ Total(w, T) \in Nat
         /\ Total(w, S) - Total(w, T) <= Total(w, S \ T)
         /\ T \subseteq S => Total(w, S) - Total(w, T) = Total(w, S \ T)
  <1> DEFINE I == S \cap T
  <1>1. I \in SUBSET S /\ I \in SUBSET T /\ S \ T = S \ I /\ IsFiniteSet(S \ T)
    BY FS_Subset
  <1>2. Total(w, S) \in Nat /\ Total(w, T) \in Nat /\ Total(w, S \ T) \in Nat
    BY <1>1, TotalType
  <1>3. Total(w, S \ I) = Total(w, S) - Total(w, I)
    BY <1>1, TotalRemove
  <1>4. Total(w, I) <= Total(w, T)
    BY <1>1, TotalRemove
  <1>5. IsFiniteSet(I)
    BY <1>1, FS_Subset
  <1>6. Total(w, I) \in Nat
    BY <1>1, <1>5, TotalType
  <1>7. T \subseteq S => I = T
    OBVIOUS
  <1>8. QED
    BY <1>1, <1>2, <1>3, <1>4, <1>6, <1>7

\* A commit that finalizes the requests X and gives their reservations back
\* keeps the books: exactly, when they were all open.
LEMMA FinalizeKeeps ==
  ASSUME TypeOK, UNCHANGED <<buyer, held>>, NEW X \in SUBSET Requests,
         \A r \in Requests : r \notin X => state'[r] = state[r],
         \A r \in X : state'[r] # "reserved",
         \A a \in Accounts : reserved'[a] = reserved[a] - Total(held, {r \in X : buyer[r] = a})
  PROVE  /\ ReservedBacked => ReservedBacked'
         /\ ReservedMatchesOpen /\ (\A r \in X : state[r] = "reserved") => ReservedMatchesOpen'
  <1>1. ASSUME NEW a \in Accounts
        PROVE  LET T == {r \in X : buyer[r] = a} IN
               /\ Open(a)' = Open(a) \ T
               /\ Total(held, Open(a)) - Total(held, T) <= Total(held, Open(a) \ T)
               /\ (\A r \in X : state[r] = "reserved") =>
                    Total(held, Open(a)) - Total(held, T) = Total(held, Open(a) \ T)
               /\ Total(held, T) \in Nat /\ Total(held, Open(a) \ T) \in Nat
               /\ Total(held, Open(a)) \in Nat
    <2> DEFINE T == {r \in X : buyer[r] = a}
    <2>1. Open(a)' = Open(a) \ T
      BY DEF Open
    <2>2. T \subseteq Requests /\ IsFiniteSet(Requests)
      BY BillingAssumption
    <2>3. IsFiniteSet(T)
      BY <2>2, FS_Subset
    <2>4. IsFiniteSet(Open(a)) /\ \A r \in Open(a) \cup T : held[r] \in Nat
      BY <2>2, OpenFinite DEF TypeOK
    <2>5. (\A r \in X : state[r] = "reserved") => T \subseteq Open(a)
      BY DEF Open
    <2>6. /\ Total(held, Open(a) \ T) \in Nat /\ Total(held, T) \in Nat /\ Total(held, Open(a)) \in Nat
          /\ Total(held, Open(a)) - Total(held, T) <= Total(held, Open(a) \ T)
          /\ T \subseteq Open(a) =>
               Total(held, Open(a)) - Total(held, T) = Total(held, Open(a) \ T)
      BY <2>3, <2>4, TotalMinus
    <2>7. QED
      BY <2>1, <2>5, <2>6
  <1>2. \A a \in Accounts : reserved[a] \in Nat
    BY DEF TypeOK
  <1>3. ASSUME ReservedBacked PROVE ReservedBacked'
    <2>1. ASSUME NEW a \in Accounts
          PROVE  reserved'[a] <= Total(held, Open(a)')
      <3> DEFINE T == {r \in X : buyer[r] = a}
      <3>1. reserved[a] <= Total(held, Open(a)) /\ reserved[a] \in Nat
        BY <1>2, <1>3 DEF ReservedBacked
      <3>2. reserved'[a] = reserved[a] - Total(held, T)
        OBVIOUS
      <3>3. /\ Open(a)' = Open(a) \ T
            /\ Total(held, Open(a)) - Total(held, T) <= Total(held, Open(a) \ T)
            /\ Total(held, T) \in Nat /\ Total(held, Open(a) \ T) \in Nat
            /\ Total(held, Open(a)) \in Nat
        BY <1>1
      <3> HIDE DEF T
      <3>4. QED
        BY <3>1, <3>2, <3>3
    <2>2. QED
      BY <2>1 DEF ReservedBacked
  <1>4. ASSUME ReservedMatchesOpen, \A r \in X : state[r] = "reserved"
        PROVE  ReservedMatchesOpen'
    BY <1>1, <1>2, <1>4 DEF ReservedMatchesOpen
  <1>5. QED
    BY <1>3, <1>4

\* A commit of one callback gives its request's reservation back.
LEMMA FinalizeOneKeeps ==
  ASSUME BillingInv, UNCHANGED <<buyer, held>>, NEW r \in Requests, buyer[r] \in Accounts,
         NEW final, final # "reserved", state' = [state EXCEPT ![r] = final],
         reserved' = [reserved EXCEPT ![buyer[r]] = @ - held[r]]
  PROVE  /\ ReservedBacked => ReservedBacked'
         /\ ReservedMatchesOpen /\ state[r] = "reserved" => ReservedMatchesOpen'
  <1>1. ASSUME NEW a \in Accounts
        PROVE  reserved'[a] = reserved[a] - Total(held, {x \in {r} : buyer[x] = a})
    <2>1. reserved[a] \in Nat /\ held[r] \in Nat
      BY DEF BillingInv, TypeOK
    <2>2. CASE a = buyer[r]
      <3>1. {x \in {r} : buyer[x] = a} = {r}
        BY <2>2
      <3>2. Total(held, {r}) = held[r]
        BY <2>1, TotalSingleton
      <3>3. reserved'[a] = reserved[a] - held[r]
        BY <2>2 DEF BillingInv, TypeOK
      <3>4. QED
        BY <3>1, <3>2, <3>3
    <2>3. CASE a # buyer[r]
      <3>1. {x \in {r} : buyer[x] = a} = {}
        BY <2>3
      <3>2. reserved'[a] = reserved[a]
        BY <2>3 DEF BillingInv, TypeOK
      <3>3. Total(held, {}) = 0
        BY TotalEmpty
      <3>4. QED
        BY <2>1, <3>1, <3>2, <3>3
    <2>4. QED
      BY <2>2, <2>3
  <1>2. {r} \in SUBSET Requests /\ \A x \in {r} : state'[x] # "reserved"
    BY DEF BillingInv, TypeOK
  <1>3. \A x \in Requests : x \notin {r} => state'[x] = state[x]
    BY DEF BillingInv, TypeOK
  <1>4. QED
    BY <1>1, <1>2, <1>3, FinalizeKeeps DEF BillingInv

\* A new reservation is added on both sides.
LEMMA ReserveKeepsSums ==
  ASSUME BillingInv, NEW r \in Requests, NEW o \in Offers, ReserveBilling(r, o)
  PROVE  /\ ReservedBacked => ReservedBacked'
         /\ ReservedMatchesOpen => ReservedMatchesOpen'
  <1> DEFINE n == ReserveOf[o]
  <1>1. n \in Nat /\ o.buyer \in Accounts
    BY ReserveOfType, BillingAssumption DEF ReserveBilling, Checked, Amount
  <1> HIDE DEF n
  <1>2. /\ state[r] = "none"
        /\ state' = [state EXCEPT ![r] = "reserved"]
        /\ buyer' = [buyer EXCEPT ![r] = o.buyer]
        /\ held' = [held EXCEPT ![r] = n]
        /\ reserved' = [reserved EXCEPT ![o.buyer] = @ + n]
    BY DEF ReserveBilling, n
  <1>3. ASSUME NEW a \in Accounts
        PROVE  /\ reserved'[a] - reserved[a]
                    = Total(held', Open(a)') - Total(held, Open(a))
               /\ reserved[a] \in Int /\ reserved'[a] \in Int
               /\ Total(held', Open(a)') \in Int /\ Total(held, Open(a)) \in Int
    <2>1. /\ IsFiniteSet(Open(a)) /\ Open(a) \subseteq Requests
          /\ \A x \in Open(a) : held[x] \in Nat
          /\ Total(held, Open(a)) \in Nat
      BY OpenFinite DEF BillingInv
    <2>2. r \notin Open(a)
      BY <1>2 DEF Open
    <2>3. \A x \in Open(a) : held'[x] = held[x]
      BY <1>2, <2>1, <2>2 DEF BillingInv, TypeOK
    <2>4. Total(held', Open(a)) = Total(held, Open(a))
      BY <2>3, TotalSame
    <2>5. reserved[a] \in Nat /\ held'[r] = n
      BY <1>2 DEF BillingInv, TypeOK
    <2>6. CASE a = o.buyer
      <3>1. Open(a)' = Open(a) \cup {r}
        BY <1>2, <2>6 DEF Open, BillingInv, TypeOK
      <3>2. \A x \in Open(a) \cup {r} : held'[x] \in Nat
        BY <1>1, <2>1, <2>3, <2>5
      <3>3. Total(held', Open(a) \cup {r}) = Total(held', Open(a)) + held'[r]
        BY <2>1, <2>2, <3>2, TotalAdd
      <3>4. reserved'[a] = reserved[a] + n
        BY <1>2, <2>6 DEF BillingInv, TypeOK
      <3>5. QED
        BY <1>1, <2>1, <2>4, <2>5, <3>1, <3>3, <3>4
    <2>7. CASE a # o.buyer
      <3>1. Open(a)' = Open(a)
        BY <1>2, <2>7 DEF Open, BillingInv, TypeOK
      <3>2. reserved'[a] = reserved[a]
        BY <1>2, <2>7 DEF BillingInv, TypeOK
      <3>3. QED
        BY <2>1, <2>4, <2>5, <3>1, <3>2
    <2>8. QED
      BY <2>6, <2>7
  <1>4. ASSUME ReservedBacked PROVE ReservedBacked'
    BY <1>3, <1>4 DEF ReservedBacked
  <1>5. ASSUME ReservedMatchesOpen PROVE ReservedMatchesOpen'
    BY <1>3, <1>5 DEF ReservedMatchesOpen
  <1>6. QED
    BY <1>4, <1>5

\* A step that leaves the reservations alone leaves their sums alone.
LEMMA SumsFrame ==
  ASSUME UNCHANGED <<reserved, state, buyer, held>>
  PROVE  /\ ReservedBacked => ReservedBacked'
         /\ ReservedMatchesOpen => ReservedMatchesOpen'
  <1>1. \A a : Open(a)' = Open(a)
    BY DEF Open
  <1>2. QED
    BY <1>1 DEF ReservedBacked, ReservedMatchesOpen

\* The only steps that change a reservation or a request's state.
SumSteps ==
  \/ \E r \in Requests, o \in Offers : ReserveBilling(r, o)
  \/ \E c \in Callbacks : CommitRelease(c) \/ CommitSettle(c)
  \/ \E s \in Sweepers : SweepCommit(s)

LEMMA OtherSteps ==
  ASSUME [Next]_vars
  PROVE  SumSteps \/ UNCHANGED <<reserved, state, buyer, held>>
  <1>1. ASSUME NEW d \in Deposits, CreditDeposit(d)
        PROVE  UNCHANGED <<reserved, state, buyer, held>>
    BY <1>1 DEF CreditDeposit, requestVars
  <1>2. ASSUME NEW c, Rollback(c)
        PROVE  UNCHANGED <<reserved, state, buyer, held>>
    BY <1>2 DEF Rollback, accountVars, requestVars
  <1>3. ASSUME NEW c \in Callbacks, LoseResponse(c) \/ CallbackFails(c)
        PROVE  UNCHANGED <<reserved, state, buyer, held>>
    BY <1>2, <1>3 DEF LoseResponse, CallbackFails, accountVars, requestVars
  <1>4. ASSUME NEW c \in Callbacks, CallbackStep(c)
        PROVE  CommitRelease(c) \/ CommitSettle(c) \/ UNCHANGED <<reserved, state, buyer, held>>
    <2>1. ASSUME NEW u \in Reports, BeginSettle(c, u)
          PROVE  UNCHANGED <<reserved, state, buyer, held>>
      BY <2>1 DEF BeginSettle, accountVars, requestVars
    <2>2. CASE BeginRelease(c)
      BY <2>2 DEF BeginRelease, accountVars, requestVars
    <2>3. CASE Unreserve(c)
      BY <1>2, <2>3 DEF Unreserve, accountVars, requestVars
    <2>4. CASE DebitBuyer(c)
      BY <1>2, <2>4 DEF DebitBuyer, accountVars, requestVars
    <2>5. CASE CreditSeller(c)
      BY <2>5 DEF CreditSeller, accountVars, requestVars
    <2>6. CASE CreditTreasury(c)
      BY <2>6 DEF CreditTreasury, accountVars, requestVars
    <2>7. CASE RefuseSecondCharge(c)
      BY <1>2, <2>7 DEF RefuseSecondCharge
    <2>8. QED
      BY <1>4, <2>1, <2>2, <2>3, <2>4, <2>5, <2>6, <2>7 DEF CallbackStep, FinishSettle
  <1>5. ASSUME NEW s \in Sweepers, SweepStep(s) \/ SweepFails(s)
        PROVE  SweepCommit(s) \/ UNCHANGED <<reserved, state, buyer, held>>
    <2>1. ASSUME NEW b, SweepSelect(s, b)
          PROVE  UNCHANGED <<reserved, state, buyer, held>>
      BY <2>1 DEF SweepSelect, accountVars, requestVars
    <2>2. CASE SweepRelease(s)
      BY <2>2 DEF SweepRelease, accountVars, requestVars
    <2>3. CASE SweepFails(s)
      BY <2>3 DEF SweepFails, accountVars, requestVars
    <2>4. QED
      BY <1>5, <2>1, <2>2, <2>3 DEF SweepStep
  <1>6. ASSUME DeadlockVictim
        PROVE  UNCHANGED <<reserved, state, buyer, held>>
    BY <1>2, <1>6 DEF DeadlockVictim, accountVars, requestVars
  <1>7. CASE UNCHANGED vars
    BY <1>7 DEF vars
  <1>8. QED
    BY <1>1, <1>3, <1>4, <1>5, <1>6, <1>7 DEF Next, SumSteps

\* A callback's commit and a sweep's commit, in the terms of the sums.
LEMMA CommitKeepsSums ==
  ASSUME BillingInv, NEW c \in Callbacks, CommitRelease(c) \/ CommitSettle(c)
  PROVE  /\ ReservedBacked => ReservedBacked'
         /\ ReservedMatchesOpen /\ state[c[1]] = "reserved" => ReservedMatchesOpen'
  <1> DEFINE r == c[1]
  <1>1. pc[c] # "idle" /\ r \in Requests
    BY CallbackParts DEF CommitRelease, CommitSettle
  <1>2. buyer[r] \in Accounts
    BY <1>1, InFlightReserved
  <1>3. UNCHANGED <<buyer, held>> /\ reserved' = [reserved EXCEPT ![buyer[r]] = @ - held[r]]
    BY DEF CommitRelease, CommitSettle, requestVars
  <1>4. CASE CommitRelease(c)
    <2>1. state' = [state EXCEPT ![r] = "released"]
      BY <1>4 DEF CommitRelease
    <2>2. QED
      BY <1>1, <1>2, <1>3, <2>1, FinalizeOneKeeps
  <1>5. CASE CommitSettle(c)
    <2>1. state' = [state EXCEPT ![r] = "settled"]
      BY <1>5 DEF CommitSettle
    <2>2. QED
      BY <1>1, <1>2, <1>3, <2>1, FinalizeOneKeeps
  <1>6. QED
    BY <1>4, <1>5

LEMMA SweepCommitKeepsSums ==
  ASSUME BillingInv, NEW s \in Sweepers, SweepCommit(s)
  PROVE  /\ ReservedBacked => ReservedBacked'
         /\ ReservedMatchesOpen /\ (\A r \in freed[s] : state[r] = "reserved") => ReservedMatchesOpen'
  <1>1. /\ reserved' = [a \in Accounts |-> reserved[a] - Freed(s, a)]
        /\ state' = [r \in Requests |-> IF r \in freed[s] THEN "released" ELSE state[r]]
        /\ UNCHANGED <<buyer, held>>
    BY DEF SweepCommit, requestVars
  <1>2. freed[s] \in SUBSET Requests
    BY DEF BillingInv, TypeOK
  <1>3. \A r \in freed[s] : state'[r] # "reserved"
    BY <1>1, <1>2
  <1>4. \A r \in Requests : r \notin freed[s] => state'[r] = state[r]
    BY <1>1
  <1>5. \A a \in Accounts : reserved'[a] = reserved[a] - Total(held, {r \in freed[s] : buyer[r] = a})
    BY <1>1 DEF Freed
  <1>6. QED
    BY <1>1, <1>2, <1>3, <1>4, <1>5, FinalizeKeeps DEF BillingInv

\* Reservations never leak: under every race, crash and deadlock, an
\* account's reserved_raw is at most the sum of its open reservations, so
\* ReconcileAccount never reports locked credit that no request accounts for.
THEOREM ReservationsBacked == Spec => []ReservedBacked
  <1>1. Init => ReservedBacked
    <2> SUFFICES ASSUME Init, NEW a \in Accounts
                 PROVE  reserved[a] <= Total(held, Open(a))
      BY DEF ReservedBacked
    <2>1. Total(held, Open(a)) \in Nat
      BY BillingInvInit, OpenFinite DEF BillingInv
    <2>2. QED
      BY <2>1 DEF Init
  <1>2. BillingInv /\ ReservedBacked /\ [Next]_vars => ReservedBacked'
    <2> SUFFICES ASSUME BillingInv, ReservedBacked, [Next]_vars
                 PROVE  ReservedBacked'
      OBVIOUS
    <2>1. SumSteps \/ UNCHANGED <<reserved, state, buyer, held>>
      BY OtherSteps
    <2>2. CASE SumSteps
      BY <2>2, ReserveKeepsSums, CommitKeepsSums, SweepCommitKeepsSums DEF SumSteps
    <2>3. CASE UNCHANGED <<reserved, state, buyer, held>>
      BY <2>3, SumsFrame
    <2>4. QED
      BY <2>1, <2>2, <2>3
  <1>3. QED
    BY <1>1, <1>2, BillingInvInit, BillingInvStep, PTL DEF Spec

-----------------------------------------------------------------------------
(* When no response outlives the sweep age, and each request has one       *)
(* callback as in the code, the transactions of a request take turns.      *)

BoundedAge == AgeExceedsLifetime /\ \A f, g \in Finalizers : f = g

Swept(s) == batch[s] \cup freed[s]

\* A callback works only on open requests, a sweep only on open requests
\* that no callback will finalize, and no two sweeps on the same request.
TakingTurns ==
  /\ \A c \in Callbacks : pc[c] \in Transacting => state[c[1]] = "reserved"
  /\ \A s \in Sweepers : \A r \in Swept(s) : state[r] = "reserved" /\ Abandoned(r)
  /\ \A s, z \in Sweepers : s # z => Swept(s) \cap Swept(z) = {}

\* A step of one callback on its own open request.
LEMMA TurnOfCallback ==
  ASSUME BillingInv, TakingTurns, BoundedAge, NEW c \in Callbacks, pc[c] # "done",
         state[c[1]] # "none",
         \A d \in Callbacks : d # c => pc'[d] = pc[d],
         \A r \in Requests : r # c[1] => state'[r] = state[r],
         pc'[c] \in Transacting => state'[c[1]] = "reserved",
         UNCHANGED sweepVars
  PROVE  TakingTurns'
  <1>1. \A d \in Callbacks : d # c => d[1] # c[1]
    <2>1. SUFFICES ASSUME NEW d \in Callbacks, d[1] = c[1] PROVE d = c
      OBVIOUS
    <2>2. d[2] = c[2]
      BY CallbackParts DEF BoundedAge
    <2>3. QED
      BY <2>1, <2>2, CallbackParts
  <1>2. \A s \in Sweepers : c[1] \notin Swept(s)
    <2>1. ~Abandoned(c[1])
      BY CallbackParts DEF Abandoned
    <2>2. QED
      BY <2>1 DEF TakingTurns
  <1>3. \A s \in Sweepers : Swept(s)' = Swept(s)
    BY DEF sweepVars, Swept
  <1>4. ASSUME NEW r \in Requests, r # c[1], Abandoned(r)
        PROVE  Abandoned(r)'
    <2>1. \A f \in Finalizers : <<r, f>> \in Callbacks /\ <<r, f>> # c
      BY <1>4 DEF Callbacks
    <2>2. QED
      BY <1>4, <2>1 DEF Abandoned
  <1>5. \A s \in Sweepers : \A r \in Swept(s) : r \in Requests
    BY DEF BillingInv, TypeOK, Swept
  <1>6. \A d \in Callbacks : pc'[d] \in Transacting => state'[d[1]] = "reserved"
    BY <1>1, CallbackParts DEF TakingTurns
  <1>7. \A s \in Sweepers : \A r \in Swept(s)' : state'[r] = "reserved" /\ Abandoned(r)'
    BY <1>2, <1>3, <1>4, <1>5 DEF TakingTurns
  <1>8. QED
    BY <1>3, <1>6, <1>7 DEF TakingTurns

\* A callback that ends lets the others' turns be.
LEMMA TurnEnds ==
  ASSUME BillingInv, TakingTurns, BoundedAge, NEW c \in Callbacks, pc[c] \notin {"idle", "done"},
         pc' = [pc EXCEPT ![c] = "done"],
         \A r \in Requests : r # c[1] => state'[r] = state[r],
         UNCHANGED sweepVars
  PROVE  TakingTurns'
  <1>1. pc'[c] = "done" /\ \A d \in Callbacks : d # c => pc'[d] = pc[d]
    BY DEF BillingInv, TypeOK
  <1>2. state[c[1]] # "none"
    BY InFlightReserved
  <1>3. QED
    BY <1>1, <1>2, TurnOfCallback DEF Transacting

\* A callback that goes on works on the request it found open.
LEMMA TurnGoesOn ==
  ASSUME BillingInv, TakingTurns, BoundedAge, NEW c \in Callbacks, state[c[1]] = "reserved",
         pc[c] # "done", NEW p, pc' = [pc EXCEPT ![c] = p], UNCHANGED <<state, sweepVars>>
  PROVE  TakingTurns'
  <1>1. \A d \in Callbacks : d # c => pc'[d] = pc[d]
    BY DEF BillingInv, TypeOK
  <1>2. QED
    BY <1>1, TurnOfCallback

\* A sweep's own step, on open requests no callback will finalize.
LEMMA TurnOfSweep ==
  ASSUME BillingInv, TakingTurns, NEW s \in Sweepers, UNCHANGED pc,
         \A z \in Sweepers : z # s => batch'[z] = batch[z] /\ freed'[z] = freed[z],
         \A r \in Requests : r \notin Swept(s) => state'[r] = state[r],
         \A r \in Swept(s)' : state'[r] = "reserved" /\ Abandoned(r),
         \A z \in Sweepers : z # s => Swept(s)' \cap Swept(z) = {}
  PROVE  TakingTurns'
  <1>1. \A r \in Requests : Abandoned(r)' = Abandoned(r)
    BY DEF Abandoned
  <1>2. \A z \in Sweepers : z # s => Swept(z)' = Swept(z)
    BY DEF Swept
  <1>3. ASSUME NEW d \in Callbacks, pc'[d] \in Transacting
        PROVE  state'[d[1]] = "reserved"
    <2>1. ~Abandoned(d[1])
      BY <1>3, CallbackParts DEF Abandoned, Transacting
    <2>2. d[1] \notin Swept(s) /\ d[1] \in Requests
      BY <2>1, CallbackParts DEF TakingTurns
    <2>3. QED
      BY <1>3, <2>2 DEF TakingTurns
  <1>4. ASSUME NEW z \in Sweepers, NEW r \in Swept(z)'
        PROVE  state'[r] = "reserved" /\ Abandoned(r)'
    <2>1. CASE z = s
      <3>1. Abandoned(r)' = Abandoned(r)
        BY DEF Abandoned
      <3>2. QED
        BY <2>1, <3>1
    <2>2. CASE z # s
      <3>1. r \in Swept(z) /\ r \in Requests /\ r \notin Swept(s)
        BY <1>2, <2>2 DEF TakingTurns, BillingInv, TypeOK, Swept
      <3>2. QED
        BY <1>1, <3>1 DEF TakingTurns
    <2>3. QED
      BY <2>1, <2>2
  <1>5. \A y, z \in Sweepers : y # z => Swept(y)' \cap Swept(z)' = {}
    BY <1>2 DEF TakingTurns
  <1>6. QED
    BY <1>3, <1>4, <1>5 DEF TakingTurns

LEMMA TurnsOfReserve ==
  ASSUME BillingInv, TakingTurns, NEW r \in Requests, NEW o \in Offers, ReserveBilling(r, o)
  PROVE  TakingTurns'
  <1>1. /\ state[r] = "none"
        /\ state' = [state EXCEPT ![r] = "reserved"]
        /\ pc' = [c \in Callbacks |-> IF c[1] = r THEN "inflight" ELSE pc[c]]
        /\ UNCHANGED <<batch, freed>>
    BY DEF ReserveBilling, sweepVars
  <1>2. \A s \in Sweepers : Swept(s)' = Swept(s) /\ r \notin Swept(s)
    BY <1>1 DEF Swept, BillingInv, Lifecycle
  <1>3. ASSUME NEW x \in Requests, x # r, Abandoned(x)
        PROVE  Abandoned(x)'
    <2>1. \A f \in Finalizers : <<x, f>> \in Callbacks /\ <<x, f>>[1] = x
      BY DEF Callbacks
    <2>2. QED
      BY <1>1, <1>3, <2>1 DEF Abandoned
  <1>4. \A s \in Sweepers : \A x \in Swept(s) : x \in Requests
    BY DEF BillingInv, TypeOK, Swept
  <1>5. \A s \in Sweepers : \A x \in Swept(s)' : state'[x] = "reserved" /\ Abandoned(x)'
    BY <1>1, <1>2, <1>3, <1>4 DEF TakingTurns, BillingInv, TypeOK
  <1>6. \A c \in Callbacks : pc'[c] \in Transacting => state'[c[1]] = "reserved"
    BY <1>1, CallbackParts DEF TakingTurns, BillingInv, TypeOK, Transacting
  <1>7. QED
    BY <1>2, <1>5, <1>6 DEF TakingTurns

LEMMA TurnsOfCallback ==
  ASSUME BillingInv, TakingTurns, BoundedAge, NEW c \in Callbacks,
         LoseResponse(c) \/ CallbackStep(c)
  PROVE  TakingTurns'
  <1>1. pc[c] \in Transacting => state[c[1]] = "reserved" /\ pc[c] \notin {"idle", "done"}
    BY DEF TakingTurns, Transacting
  <1>2. ASSUME Rollback(c), pc[c] \notin {"idle", "done"}
        PROVE  TakingTurns'
    BY <1>2, TurnEnds DEF Rollback
  <1>3. CASE LoseResponse(c)
    BY <1>3, TurnEnds DEF LoseResponse
  <1>4. ASSUME NEW u \in Reports, BeginSettle(c, u)
        PROVE  TakingTurns'
    <2> DEFINE r == c[1]
               q == ServedQuote(r, u)
               p == IF ~StillReserved(r) THEN "done"
                    ELSE IF ~InSnapshot(r, u) THEN "unreserve"
                    ELSE IF Charge[u][q] = ErrOverflow THEN "done"
                    ELSE IF Charge[u][q] = 0 THEN "unreserve"
                    ELSE IF Split[u][q].seller < 0 THEN "done"
                    ELSE "buyer"
    <2>1. pc[c] = "inflight" /\ UNCHANGED <<state, sweepVars>>
      BY <1>4 DEF BeginSettle
    <2>2. pc' = [pc EXCEPT ![c] = p]
      BY <1>4 DEF BeginSettle
    <2>3. ~StillReserved(r) => p = "done"
      OBVIOUS
    <2> HIDE DEF p
    <2>4. CASE StillReserved(r)
      BY <2>1, <2>2, <2>4, TurnGoesOn DEF StillReserved
    <2>5. CASE ~StillReserved(r)
      BY <2>1, <2>2, <2>3, <2>5, TurnEnds
    <2>6. QED
      BY <2>4, <2>5
  <1>5. CASE BeginRelease(c)
    <2>1. pc[c] = "inflight" /\ UNCHANGED <<state, sweepVars>>
      BY <1>5 DEF BeginRelease
    <2>2. CASE StillReserved(c[1])
      BY <1>5, <2>1, <2>2, TurnGoesOn DEF BeginRelease, StillReserved
    <2>3. CASE ~StillReserved(c[1])
      BY <1>5, <2>1, <2>3, TurnEnds DEF BeginRelease
    <2>4. QED
      BY <2>2, <2>3
  <1>6. CASE Unreserve(c)
    <2>1. pc[c] \in Transacting
      BY <1>6 DEF Unreserve, Transacting
    <2>2. Rollback(c) \/ (pc' = [pc EXCEPT ![c] = "release"] /\ UNCHANGED <<state, sweepVars>>)
      BY <1>6 DEF Unreserve
    <2>3. QED
      BY <1>1, <1>2, <2>1, <2>2, TurnGoesOn
  <1>7. CASE DebitBuyer(c)
    <2>1. pc[c] \in Transacting
      BY <1>7 DEF DebitBuyer, Transacting
    <2>2. Rollback(c) \/ (pc' = [pc EXCEPT ![c] = "seller"] /\ UNCHANGED <<state, sweepVars>>)
      BY <1>7 DEF DebitBuyer
    <2>3. QED
      BY <1>1, <1>2, <2>1, <2>2, TurnGoesOn
  <1>8. CASE CreditSeller(c)
    <2>1. pc[c] \in Transacting /\ UNCHANGED <<state, sweepVars>>
      BY <1>8 DEF CreditSeller, Transacting
    <2>2. QED
      BY <1>1, <1>8, <2>1, TurnGoesOn DEF CreditSeller
  <1>9. CASE CreditTreasury(c)
    <2>1. pc[c] \in Transacting /\ UNCHANGED <<state, sweepVars>>
      BY <1>9 DEF CreditTreasury, Transacting
    <2>2. QED
      BY <1>1, <1>9, <2>1, TurnGoesOn DEF CreditTreasury
  <1>10. CASE CommitRelease(c)
    <2>1. /\ pc[c] \in Transacting /\ pc' = [pc EXCEPT ![c] = "done"] /\ UNCHANGED sweepVars
          /\ state' = [state EXCEPT ![c[1]] = "released"]
      BY <1>10 DEF CommitRelease, Transacting
    <2>2. \A r \in Requests : r # c[1] => state'[r] = state[r]
      BY <2>1 DEF BillingInv, TypeOK
    <2>3. QED
      BY <1>1, <2>1, <2>2, TurnEnds
  <1>11. CASE CommitSettle(c)
    <2>1. /\ pc[c] \in Transacting /\ pc' = [pc EXCEPT ![c] = "done"] /\ UNCHANGED sweepVars
          /\ state' = [state EXCEPT ![c[1]] = "settled"]
      BY <1>11 DEF CommitSettle, Transacting
    <2>2. \A r \in Requests : r # c[1] => state'[r] = state[r]
      BY <2>1 DEF BillingInv, TypeOK
    <2>3. QED
      BY <1>1, <2>1, <2>2, TurnEnds
  <1>12. CASE RefuseSecondCharge(c)
    BY <1>2, <1>12 DEF RefuseSecondCharge
  <1>13. QED
    BY <1>3, <1>4, <1>5, <1>6, <1>7, <1>8, <1>9, <1>10, <1>11, <1>12
    DEF CallbackStep, FinishSettle

LEMMA TurnsOfEndSweep ==
  ASSUME BillingInv, TakingTurns, NEW s \in Sweepers, EndSweep(s), UNCHANGED pc,
         \A r \in Requests : r \notin Swept(s) => state'[r] = state[r]
  PROVE  TakingTurns'
  <1>1. \A z \in Sweepers : z # s => batch'[z] = batch[z] /\ freed'[z] = freed[z]
    BY DEF EndSweep, BillingInv, TypeOK
  <1>2. Swept(s)' = {}
    BY DEF EndSweep, BillingInv, TypeOK, Swept
  <1>3. QED
    BY <1>1, <1>2, TurnOfSweep

LEMMA TurnsOfSweep ==
  ASSUME BillingInv, TakingTurns, BoundedAge, NEW s \in Sweepers, SweepStep(s)
  PROVE  TakingTurns'
  <1>1. ASSUME NEW before, SweepSelect(s, before)
        PROVE  TakingTurns'
    <2>1. PICK b \in SUBSET {r \in Requests : Sweepable(r, before)} :
            batch' = [batch EXCEPT ![s] = b]
      BY <1>1 DEF SweepSelect
    <2>2. freed[s] = {} /\ UNCHANGED <<state, pc, freed>>
      BY <1>1 DEF SweepSelect
    <2>3. Swept(s)' = b /\ \A z \in Sweepers : z # s => batch'[z] = batch[z] /\ freed'[z] = freed[z]
      BY <2>1, <2>2 DEF Swept, BillingInv, TypeOK
    <2>4. \A r \in b : state[r] = "reserved" /\ reservedAt[r] < before /\ RequestFree(r) /\ r \in Requests
      BY DEF Sweepable
    <2>5. \A r \in b : Abandoned(r)
      BY <1>1, <2>4 DEF SweepSelect, BoundedAge
    <2>6. \A z \in Sweepers : b \cap Swept(z) = {}
      BY <2>4 DEF RequestFree, SweptBy, Swept
    <2>7. QED
      BY <2>2, <2>3, <2>4, <2>5, <2>6, TurnOfSweep
  <1>2. CASE SweepRelease(s)
    <2>1. PICK r \in batch[s] :
            \/ /\ batch' = [batch EXCEPT ![s] = @ \ {r}]
               /\ freed' = [freed EXCEPT ![s] = @ \cup {r}]
            \/ EndSweep(s)
      BY <1>2 DEF SweepRelease
    <2>2. UNCHANGED <<state, pc>>
      BY <1>2 DEF SweepRelease
    <2>3. CASE EndSweep(s)
      BY <2>2, <2>3, TurnsOfEndSweep
    <2>4. CASE /\ batch' = [batch EXCEPT ![s] = @ \ {r}]
               /\ freed' = [freed EXCEPT ![s] = @ \cup {r}]
      <3>1. \A z \in Sweepers : z # s => batch'[z] = batch[z] /\ freed'[z] = freed[z]
        BY <2>4 DEF BillingInv, TypeOK
      <3>2. Swept(s)' = Swept(s)
        BY <2>4 DEF BillingInv, TypeOK, Swept
      <3>3. \A z \in Sweepers : z # s => Swept(s)' \cap Swept(z) = {}
        BY <3>2 DEF TakingTurns
      <3>4. \A x \in Swept(s)' : state'[x] = "reserved" /\ Abandoned(x)
        BY <2>2, <3>2 DEF TakingTurns
      <3>5. QED
        BY <2>2, <3>1, <3>3, <3>4, TurnOfSweep
    <2>5. QED
      BY <2>1, <2>3, <2>4
  <1>3. CASE SweepCommit(s)
    <2>1. EndSweep(s) /\ UNCHANGED pc
      BY <1>3 DEF SweepCommit
    <2>2. \A r \in Requests : r \notin Swept(s) => state'[r] = state[r]
      BY <1>3 DEF SweepCommit, Swept
    <2>3. QED
      BY <2>1, <2>2, TurnsOfEndSweep
  <1>4. QED
    BY <1>1, <1>2, <1>3 DEF SweepStep

LEMMA TakingTurnsStep ==
  ASSUME BillingInv, TakingTurns, BoundedAge, [Next]_vars
  PROVE  TakingTurns'
  <1>1. ASSUME UNCHANGED <<state, pc, batch, freed>> PROVE TakingTurns'
    BY <1>1 DEF TakingTurns, Swept, Abandoned
  <1>2. ASSUME NEW d \in Deposits, CreditDeposit(d) PROVE TakingTurns'
    BY <1>1, <1>2 DEF CreditDeposit, sweepVars
  <1>3. ASSUME NEW c \in Callbacks, pc[c] \in Transacting, Rollback(c) PROVE TakingTurns'
    BY <1>3, TurnEnds DEF Rollback, Transacting
  <1>4. ASSUME NEW s \in Sweepers, EndSweep(s), UNCHANGED <<state, pc>> PROVE TakingTurns'
    BY <1>4, TurnsOfEndSweep
  <1>5. ASSUME NEW c \in Callbacks, CallbackFails(c) PROVE TakingTurns'
    BY <1>3, <1>5 DEF CallbackFails, RunningCallbacks
  <1>6. ASSUME NEW s \in Sweepers, SweepFails(s) PROVE TakingTurns'
    BY <1>4, <1>6 DEF SweepFails
  <1>7. ASSUME DeadlockVictim PROVE TakingTurns'
    BY <1>3, <1>4, <1>7 DEF DeadlockVictim, RunningCallbacks, RunningSweeps
  <1>8. CASE UNCHANGED vars
    BY <1>1, <1>8 DEF vars
  <1>9. QED
    BY <1>2, <1>5, <1>6, <1>7, <1>8, TurnsOfReserve, TurnsOfCallback, TurnsOfSweep DEF Next

LEMMA TakingTurnsInit == Init => TakingTurns
  BY DEF Init, TakingTurns, Swept, Transacting

\* The invariant of the deployments whose sweep age exceeds every request's
\* lifetime.
BooksInv == BillingInv /\ TakingTurns /\ ReservedMatchesOpen

LEMMA BooksInvInit == Init => BooksInv
  <1> SUFFICES ASSUME Init, NEW a \in Accounts
               PROVE  reserved[a] = Total(held, Open(a))
    BY BillingInvInit, TakingTurnsInit DEF BooksInv, ReservedMatchesOpen
  <1>1. Open(a) = {}
    BY DEF Open, Init
  <1>2. QED
    BY <1>1, TotalEmpty DEF Init

LEMMA BooksInvStep == BoundedAge /\ BooksInv /\ [Next]_vars => BooksInv'
  <1> SUFFICES ASSUME BoundedAge, BooksInv, [Next]_vars
               PROVE  BooksInv'
    OBVIOUS
  <1> USE DEF BooksInv
  <1>1. BillingInv' /\ TakingTurns'
    BY BillingInvStep, TakingTurnsStep
  <1>2. ASSUME NEW c \in Callbacks, CommitRelease(c) \/ CommitSettle(c)
        PROVE  ReservedMatchesOpen'
    <2>1. state[c[1]] = "reserved"
      BY <1>2 DEF CommitRelease, CommitSettle, TakingTurns, Transacting
    <2>2. QED
      BY <1>2, <2>1, CommitKeepsSums
  <1>3. ASSUME NEW s \in Sweepers, SweepCommit(s)
        PROVE  ReservedMatchesOpen'
    BY <1>3, SweepCommitKeepsSums DEF TakingTurns, Swept
  <1>4. QED
    BY <1>1, <1>2, <1>3, OtherSteps, SumsFrame, ReserveKeepsSums DEF SumSteps

\* When no response outlives BILLING_SWEEP_AGE, reserved_raw is exactly the
\* sum of the account's open reservations: account_credits is the
\* transactional projection its comment promises.
THEOREM ReservationsExact ==
  ASSUME BoundedAge
  PROVE  Spec => []ReservedMatchesOpen
  <1>1. BooksInv => ReservedMatchesOpen
    BY DEF BooksInv
  <1>2. BooksInv /\ [Next]_vars => BooksInv'
    BY BooksInvStep
  <1>3. QED
    BY <1>1, <1>2, BooksInvInit, PTL DEF Spec

\* A settlement within the amount its request reserved can always be paid
\* without violating a CHECK constraint, however many reservations the
\* account has open.
THEOREM ReservationsPay ==
  ASSUME BoundedAge
  PROVE  Spec => []SettlementCovered
  <1>1. ASSUME BooksInv PROVE SettlementCovered
    <2> SUFFICES ASSUME NEW c \in Callbacks, pc[c] = "buyer", CostOf(c) <= held[c[1]]
                 PROVE  CheckHolds(credit[buyer[c[1]]] - CostOf(c),
                                   reserved[buyer[c[1]]] - held[c[1]])
      BY DEF SettlementCovered
    <2> DEFINE r == c[1]
               a == buyer[r]
    <2>1. r \in Requests /\ state[r] = "reserved"
      BY <1>1, CallbackParts DEF BooksInv, TakingTurns, Transacting
    <2>2. a \in Accounts
      BY <1>1, <2>1 DEF BooksInv, BillingInv, Lifecycle
    <2>3. r \in Open(a)
      BY <2>1 DEF Open
    <2>4. held[r] <= Total(held, Open(a)) /\ Total(held, Open(a)) \in Nat
      BY <1>1, <2>3, OpenFinite, TotalAtLeast DEF BooksInv, BillingInv
    <2>5. reserved[a] = Total(held, Open(a)) /\ CheckHolds(credit[a], reserved[a])
      BY <1>1, <2>2 DEF BooksInv, BillingInv, RowsSound, ReservedMatchesOpen
    <2>6. CostOf(c) \in Nat /\ held[r] \in Nat /\ credit[a] \in Nat /\ reserved[a] \in Nat
      BY <1>1, <2>1, <2>2
      DEF BooksInv, BillingInv, SettlementsExact, SettlesExactly, Settling, TypeOK
    <2>7. QED
      BY <2>4, <2>5, <2>6 DEF CheckHolds
  <1>2. BooksInv /\ [Next]_vars => BooksInv'
    BY BooksInvStep
  <1>3. QED
    BY <1>1, <1>2, BooksInvInit, PTL DEF Spec

\* When no response outlives BILLING_SWEEP_AGE, a settled or released request
\* never changes state again.
THEOREM FinalStatesStay ==
  ASSUME BoundedAge
  PROVE  Spec => FinalIsTerminal
  <1> DEFINE Stays == \A r \in Requests :
                        state[r] \in {"settled", "released"} => state'[r] = state[r]
  <1>1. ASSUME BooksInv, [Next]_vars PROVE [Stays]_vars
    <2>1. ASSUME NEW r \in Requests, NEW o \in Offers, ReserveBilling(r, o)
          PROVE  Stays
      BY <1>1, <2>1 DEF ReserveBilling, BooksInv, BillingInv, TypeOK
    <2>2. ASSUME NEW c \in Callbacks, CommitRelease(c) \/ CommitSettle(c)
          PROVE  Stays
      <3>1. c[1] \in Requests /\ state[c[1]] = "reserved"
        BY <1>1, <2>2, CallbackParts
        DEF CommitRelease, CommitSettle, BooksInv, TakingTurns, Transacting
      <3>2. \A r \in Requests : r # c[1] => state'[r] = state[r]
        BY <1>1, <2>2 DEF CommitRelease, CommitSettle, BooksInv, BillingInv, TypeOK
      <3>3. QED
        BY <3>1, <3>2
    <2>3. ASSUME NEW s \in Sweepers, SweepCommit(s)
          PROVE  Stays
      <3>1. \A r \in freed[s] : state[r] = "reserved"
        BY <1>1 DEF BooksInv, TakingTurns, Swept
      <3>2. QED
        BY <2>3, <3>1 DEF SweepCommit
    <2>4. CASE UNCHANGED <<reserved, state, buyer, held>>
      BY <2>4
    <2>5. QED
      BY <1>1, <2>1, <2>2, <2>3, <2>4, OtherSteps DEF SumSteps
  <1>2. BooksInv /\ [Next]_vars => BooksInv'
    BY BooksInvStep
  <1>3. QED
    BY <1>1, <1>2, BooksInvInit, PTL DEF Spec, FinalIsTerminal

-----------------------------------------------------------------------------
(* The inductive invariant of the ledger.                                  *)

LegsOf(r) == {l \in ledger : l.ref = r}

\* The legs of one settlement: the buyer's debit is what the seller and,
\* when there is a fee, the treasury are credited.
Receipt(legs) ==
  \E b, s \in legs :
    /\ b.leg = "buyer" /\ s.leg = "seller"
    /\ s.delta \in Nat
    /\ \/ legs = {b, s} /\ b.delta = -s.delta
       \/ \E f \in legs : /\ f.leg = "fee" /\ f.delta \in Nat
                          /\ legs = {b, s, f} /\ b.delta = -(s.delta + f.delta)

\* A request has all the legs of one settlement or none.
LegsTogether == \A r \in Requests : LegsOf(r) = {} \/ Receipt(LegsOf(r))

LedgerInv == IsFiniteSet(ledger) /\ LegsTogether

\* The only steps that write the ledger or a balance.
LEMMA LedgerSteps ==
  ASSUME [Next]_vars
  PROVE  \/ \E d \in Deposits : CreditDeposit(d)
         \/ \E c \in Callbacks : CommitSettle(c)
         \/ UNCHANGED <<credit, ledger>>
  <1>1. ASSUME NEW c, Rollback(c)
        PROVE  UNCHANGED <<credit, ledger>>
    BY <1>1 DEF Rollback, accountVars
  <1>2. ASSUME NEW c \in Callbacks, LoseResponse(c) \/ CallbackFails(c)
        PROVE  UNCHANGED <<credit, ledger>>
    BY <1>1, <1>2 DEF LoseResponse, CallbackFails, accountVars
  <1>3. ASSUME NEW c \in Callbacks, CallbackStep(c)
        PROVE  CommitSettle(c) \/ UNCHANGED <<credit, ledger>>
    <2>1. ASSUME NEW u \in Reports, BeginSettle(c, u)
          PROVE  UNCHANGED <<credit, ledger>>
      BY <2>1 DEF BeginSettle, accountVars
    <2>2. CASE BeginRelease(c) \/ CreditSeller(c) \/ CreditTreasury(c) \/ CommitRelease(c)
      BY <2>2 DEF BeginRelease, CreditSeller, CreditTreasury, CommitRelease, accountVars
    <2>3. CASE Unreserve(c)
      BY <1>1, <2>3 DEF Unreserve, accountVars
    <2>4. CASE DebitBuyer(c)
      BY <1>1, <2>4 DEF DebitBuyer, accountVars
    <2>5. CASE RefuseSecondCharge(c)
      BY <1>1, <2>5 DEF RefuseSecondCharge
    <2>6. QED
      BY <1>3, <2>1, <2>2, <2>3, <2>4, <2>5 DEF CallbackStep, FinishSettle
  <1>4. ASSUME NEW s \in Sweepers, SweepStep(s) \/ SweepFails(s)
        PROVE  UNCHANGED <<credit, ledger>>
    <2>1. ASSUME NEW b, SweepSelect(s, b)
          PROVE  UNCHANGED <<credit, ledger>>
      BY <2>1 DEF SweepSelect, accountVars
    <2>2. CASE SweepRelease(s)
      BY <2>2 DEF SweepRelease, accountVars
    <2>3. CASE SweepCommit(s) \/ SweepFails(s)
      BY <2>3 DEF SweepCommit, SweepFails, accountVars
    <2>4. QED
      BY <1>4, <2>1, <2>2, <2>3 DEF SweepStep
  <1>5. ASSUME NEW r \in Requests, NEW o \in Offers, ReserveBilling(r, o)
        PROVE  UNCHANGED <<credit, ledger>>
    BY <1>5 DEF ReserveBilling
  <1>6. ASSUME DeadlockVictim
        PROVE  UNCHANGED <<credit, ledger>>
    BY <1>1, <1>6 DEF DeadlockVictim, accountVars
  <1>7. CASE UNCHANGED vars
    BY <1>7 DEF vars
  <1>8. QED
    BY <1>2, <1>3, <1>4, <1>5, <1>6, <1>7 DEF Next

\* What a settlement that is about to commit knows.
LEMMA SettleFacts ==
  ASSUME BillingInv, NEW c \in Callbacks, CommitSettle(c)
  PROVE  /\ c[1] \in Requests /\ buyer[c[1]] \in Accounts /\ SellerOf(c) \in Accounts
         /\ CostOf(c) \in Nat /\ SplitOf(c).seller \in Nat /\ SplitOf(c).fee \in Nat
         /\ SplitOf(c).fee + SplitOf(c).seller = CostOf(c)
         /\ ~LegExists(c[1])
  <1>1. pc[c] = "finalize" /\ ~LegExists(c[1])
    BY DEF CommitSettle
  <1>2. SettlesExactly(c)
    BY <1>1 DEF BillingInv, SettlementsExact, Settling
  <1>3. buyer[c[1]] \in Accounts
    BY <1>1, InFlightReserved
  <1>4. SellerOf(c) \in Accounts
    BY <1>2, SellerType DEF BillingInv
  <1>5. QED
    BY <1>1, <1>2, <1>3, <1>4, CallbackParts DEF SettlesExactly

\* A request whose buyer's leg is missing has no leg at all.
LEMMA NoBuyerNoLegs ==
  ASSUME LegsTogether, NEW r \in Requests, ~LegExists(r)
  PROVE  LegsOf(r) = {}
  BY DEF LegsTogether, Receipt, LegsOf, LegExists

\* A settlement writes one receipt.
LEMMA LegsAreReceipt ==
  ASSUME BillingInv, NEW c \in Callbacks, CommitSettle(c)
  PROVE  /\ Receipt(SettleLegs(c))
         /\ \A l \in SettleLegs(c) : l.ref = c[1]
         /\ SettleLegs(c) # {}
  <1> DEFINE cost == CostOf(c)
             sel == SplitOf(c).seller
             fee == SplitOf(c).fee
             b == Leg(c, "buyer", buyer[c[1]], -cost)
             s == Leg(c, "seller", SellerOf(c), sel)
             f == Leg(c, "fee", Treasury, fee)
  <1>1. cost \in Nat /\ sel \in Nat /\ fee \in Nat /\ fee + sel = cost
    BY SettleFacts
  <1>2. SettleLegs(c) = {b, s} \cup (IF fee > 0 THEN {f} ELSE {})
    BY DEF SettleLegs
  <1>3. /\ b.leg = "buyer" /\ s.leg = "seller" /\ f.leg = "fee"
        /\ b.delta = -cost /\ s.delta = sel /\ f.delta = fee
        /\ b.ref = c[1] /\ s.ref = c[1] /\ f.ref = c[1]
    BY DEF Leg
  <1> HIDE DEF b, s, f, cost, sel, fee
  <1>4. CASE fee > 0
    <2>1. SettleLegs(c) = {b, s, f}
      BY <1>2, <1>4
    <2>2. b.delta = -(s.delta + f.delta)
      BY <1>1, <1>3
    <2>3. QED
      BY <1>1, <1>3, <2>1, <2>2 DEF Receipt
  <1>5. CASE ~(fee > 0)
    <2>1. SettleLegs(c) = {b, s}
      BY <1>2, <1>5
    <2>2. b.delta = -s.delta
      BY <1>1, <1>3, <1>5
    <2>3. QED
      BY <1>1, <1>3, <2>1, <2>2 DEF Receipt
  <1>6. QED
    BY <1>4, <1>5

LEMMA SettleLegsFinite ==
  ASSUME NEW c
  PROVE  IsFiniteSet(SettleLegs(c))
  <1> DEFINE b == Leg(c, "buyer", buyer[c[1]], -CostOf(c))
             s == Leg(c, "seller", SellerOf(c), SplitOf(c).seller)
             f == Leg(c, "fee", Treasury, SplitOf(c).fee)
  <1> HIDE DEF b, s, f
  <1>1. IsFiniteSet({b, s}) /\ IsFiniteSet({f}) /\ IsFiniteSet({})
    <2>1. IsFiniteSet({b}) /\ IsFiniteSet({s}) /\ IsFiniteSet({f}) /\ IsFiniteSet({})
      BY FS_Singleton, FS_EmptySet
    <2>2. IsFiniteSet({b} \cup {s})
      BY <2>1, FS_Union
    <2>3. {b} \cup {s} = {b, s}
      OBVIOUS
    <2>4. QED
      BY <2>1, <2>2, <2>3
  <1>2. IsFiniteSet({b, s} \cup {f}) /\ IsFiniteSet({b, s} \cup {})
    BY <1>1, FS_Union
  <1>3. QED
    BY <1>2 DEF SettleLegs, b, s, f

LEMMA LedgerInvStep == BillingInv /\ LedgerInv /\ [Next]_vars => LedgerInv'
  <1> SUFFICES ASSUME BillingInv, LedgerInv, [Next]_vars
               PROVE  LedgerInv'
    OBVIOUS
  <1>1. ASSUME NEW d \in Deposits, CreditDeposit(d)
        PROVE  LedgerInv'
    <2> DEFINE l == [ref |-> d.id, leg |-> "deposit", by |-> Nobody,
                     account |-> d.account, delta |-> d.amount]
    <2>1. ledger' = ledger \cup {l} /\ l.ref \notin Requests
      BY <1>1, BillingAssumption DEF CreditDeposit
    <2> HIDE DEF l
    <2>2. IsFiniteSet(ledger')
      BY <2>1, FS_AddElement DEF LedgerInv
    <2>3. \A r \in Requests : LegsOf(r)' = LegsOf(r)
      BY <2>1 DEF LegsOf
    <2>4. QED
      BY <2>2, <2>3 DEF LedgerInv, LegsTogether
  <1>2. ASSUME NEW c \in Callbacks, CommitSettle(c)
        PROVE  LedgerInv'
    <2>1. ledger' = ledger \cup SettleLegs(c)
      BY <1>2 DEF CommitSettle
    <2>2. IsFiniteSet(ledger')
      BY <2>1, SettleLegsFinite, FS_Union DEF LedgerInv
    <2>3. c[1] \in Requests /\ LegsOf(c[1]) = {}
      BY <1>2, SettleFacts, NoBuyerNoLegs DEF LedgerInv
    <2>4. Receipt(SettleLegs(c)) /\ \A l \in SettleLegs(c) : l.ref = c[1]
      BY <1>2, LegsAreReceipt
    <2>5. LegsOf(c[1])' = SettleLegs(c)
      BY <2>1, <2>3, <2>4 DEF LegsOf
    <2>6. \A r \in Requests : r # c[1] => LegsOf(r)' = LegsOf(r)
      BY <2>1, <2>4 DEF LegsOf
    <2>7. QED
      BY <2>2, <2>4, <2>5, <2>6 DEF LedgerInv, LegsTogether
  <1>3. CASE UNCHANGED <<credit, ledger>>
    BY <1>3 DEF LedgerInv, LegsTogether, LegsOf
  <1>4. QED
    BY <1>1, <1>2, <1>3, LedgerSteps

LEMMA LedgerInvInit == Init => LedgerInv
  BY FS_EmptySet DEF Init, LedgerInv, LegsTogether, LegsOf

-----------------------------------------------------------------------------
(* A request is charged once.                                              *)

LEMMA MagnitudeType ==
  ASSUME NEW rows, \A l \in rows : l.delta \in Int
  PROVE  \A l \in rows : Magnitude(rows)[l] \in Nat
  BY DEF Magnitude

\* The legs of a receipt are of different kinds, and what the buyer pays is
\* what the others get.
LEMMA ReceiptSound ==
  ASSUME NEW rows, \A l \in rows : l.delta \in Int,
         NEW legs \in SUBSET rows, Receipt(legs)
  PROVE  LET paid == {l \in legs : l.leg = "buyer"} IN
         /\ \A l, m \in legs : l.leg = m.leg => l = m
         /\ Total(Magnitude(rows), paid) = Total(Magnitude(rows), legs \ paid)
  <1> DEFINE paid == {l \in legs : l.leg = "buyer"}
             w == Magnitude(rows)
  <1>1. PICK b \in legs, s \in legs :
          /\ b.leg = "buyer" /\ s.leg = "seller" /\ s.delta \in Nat
          /\ \/ legs = {b, s} /\ b.delta = -s.delta
             \/ \E f \in legs : /\ f.leg = "fee" /\ f.delta \in Nat
                                /\ legs = {b, s, f} /\ b.delta = -(s.delta + f.delta)
    BY DEF Receipt
  <1>2. \A l \in legs : w[l] = (IF l.delta < 0 THEN -l.delta ELSE l.delta) /\ w[l] \in Nat
    BY MagnitudeType DEF Magnitude
  <1> HIDE DEF w
  <1>3. Total(w, {b}) = w[b] /\ Total(w, {s}) = w[s]
    BY <1>1, <1>2, TotalSingleton
  <1>4. CASE legs = {b, s} /\ b.delta = -s.delta
    <2>1. \A l, m \in legs : l.leg = m.leg => l = m
      BY <1>1, <1>4
    <2>2. paid = {b} /\ legs \ paid = {s}
      BY <1>1, <1>4
    <2>3. w[b] = w[s]
      BY <1>1, <1>2, <1>4
    <2>4. QED
      BY <1>3, <2>1, <2>2, <2>3 DEF w
  <1>5. ASSUME NEW f \in legs, f.leg = "fee", f.delta \in Nat,
               legs = {b, s, f}, b.delta = -(s.delta + f.delta)
        PROVE  /\ \A l, m \in legs : l.leg = m.leg => l = m
               /\ Total(w, paid) = Total(w, legs \ paid)
    <2>1. \A l, m \in legs : l.leg = m.leg => l = m
      BY <1>1, <1>5
    <2>2. paid = {b} /\ legs \ paid = {s} \cup {f} /\ f \notin {s}
      BY <1>1, <1>5
    <2>3. w[b] = w[s] + w[f]
      BY <1>1, <1>2, <1>5
    <2>4. IsFiniteSet({s}) /\ \A x \in {s} \cup {f} : w[x] \in Nat
      BY <1>1, <1>2, FS_Singleton
    <2>5. Total(w, {s} \cup {f}) = Total(w, {s}) + w[f]
      BY <2>2, <2>4, TotalAdd
    <2>6. QED
      BY <1>3, <2>1, <2>2, <2>3, <2>5
  <1>6. QED
    BY <1>1, <1>4, <1>5 DEF w

\* However many callbacks, sweeps and crashes race, UNIQUE(ref, leg) and the
\* transaction around the legs leave a request charged at most once, and its
\* buyer pays exactly what its seller and the treasury get.
THEOREM OneChargePerRequest == Spec => []ChargedOnce
  <1>1. ASSUME BillingInv, LedgerInv PROVE ChargedOnce
    <2> SUFFICES ASSUME NEW r \in Requests
                 PROVE  LET legs == {l \in ledger : l.ref = r}
                            paid == {l \in legs : l.leg = "buyer"} IN
                        /\ \A l, m \in legs : l.leg = m.leg => l = m
                        /\ Total(Magnitude(ledger), paid) = Total(Magnitude(ledger), legs \ paid)
      BY DEF ChargedOnce
    <2>1. LegsOf(r) \in SUBSET ledger /\ \A l \in ledger : l.delta \in Int
      BY <1>1 DEF LegsOf, BillingInv, TypeOK
    <2>2. CASE LegsOf(r) = {}
      <3>1. {l \in ledger : l.ref = r} = {}
        BY <2>2 DEF LegsOf
      <3>2. QED
        BY <3>1
    <2>3. CASE Receipt(LegsOf(r))
      BY <2>1, <2>3, ReceiptSound DEF LegsOf
    <2>4. QED
      BY <1>1, <2>2, <2>3 DEF LedgerInv, LegsTogether
  <1>2. QED
    BY <1>1, BillingInvInit, BillingInvStep, LedgerInvInit, LedgerInvStep, PTL DEF Spec

-----------------------------------------------------------------------------
(* Balances and legs.                                                      *)

\* SUM(delta_raw) of the account's legs, in the two parts that Totals can sum.
Booked(rows, a) ==
  Total(Magnitude(rows), Credits(rows, a)) - Total(Magnitude(rows), Debits(rows, a))

LEMMA BookedType ==
  ASSUME NEW rows, IsFiniteSet(rows), \A l \in rows : l.delta \in Int, NEW a
  PROVE  /\ Total(Magnitude(rows), Credits(rows, a)) \in Nat
         /\ Total(Magnitude(rows), Debits(rows, a)) \in Nat
         /\ Booked(rows, a) \in Int
  <1>1. Credits(rows, a) \in SUBSET rows /\ Debits(rows, a) \in SUBSET rows
    BY DEF Credits, Debits
  <1>2. IsFiniteSet(Credits(rows, a)) /\ IsFiniteSet(Debits(rows, a))
    BY <1>1, FS_Subset
  <1>3. \A l \in rows : Magnitude(rows)[l] \in Nat
    BY MagnitudeType
  <1>4. /\ Total(Magnitude(rows), Credits(rows, a)) \in Nat
        /\ Total(Magnitude(rows), Debits(rows, a)) \in Nat
    BY <1>1, <1>2, <1>3, TotalType
  <1>5. QED
    BY <1>4 DEF Booked

\* A new leg adds its delta to what is booked for its account, and nothing to
\* the others.
LEMMA BookLeg ==
  ASSUME NEW rows, IsFiniteSet(rows), NEW new, new \notin rows,
         \A l \in rows : l.delta \in Int, new.delta \in Int,
         NEW more, more = rows \cup {new}, NEW a
  PROVE  /\ new.account = a => Booked(more, a) = Booked(rows, a) + new.delta
         /\ new.account # a => Booked(more, a) = Booked(rows, a)
  <1> DEFINE w == Magnitude(more)
             v == Magnitude(rows)
             C == Credits(rows, a)
             D == Debits(rows, a)
  <1>1. C \subseteq rows /\ D \subseteq rows
    BY DEF Credits, Debits
  <1>2. IsFiniteSet(C) /\ IsFiniteSet(D) /\ new \notin C /\ new \notin D
    BY <1>1, FS_Subset
  <1>3. \A l \in rows : w[l] = v[l]
    BY DEF Magnitude
  <1>4. \A l \in more : w[l] \in Nat
    BY MagnitudeType
  <1>5. w[new] = IF new.delta < 0 THEN -new.delta ELSE new.delta
    BY DEF Magnitude
  <1>6. Total(v, C) \in Nat /\ Total(v, D) \in Nat
    BY BookedType
  <1> HIDE DEF w, v
  <1>7. Total(w, C) = Total(v, C) /\ Total(w, D) = Total(v, D)
    BY <1>1, <1>3, TotalSame
  <1>8. Total(w, C \cup {new}) = Total(w, C) + w[new]
    BY <1>1, <1>2, <1>4, TotalAdd
  <1>9. Total(w, D \cup {new}) = Total(w, D) + w[new]
    BY <1>1, <1>2, <1>4, TotalAdd
  <1>10. /\ Booked(more, a) = Total(w, Credits(more, a)) - Total(w, Debits(more, a))
         /\ Booked(rows, a) = Total(v, C) - Total(v, D)
    BY DEF Booked, w, v
  <1>11. CASE new.account # a
    <2>1. Credits(more, a) = C /\ Debits(more, a) = D
      BY <1>11 DEF Credits, Debits
    <2> HIDE DEF C, D
    <2>2. QED
      BY <1>6, <1>7, <1>10, <1>11, <2>1
  <1>12. CASE new.account = a /\ new.delta < 0
    <2>1. Credits(more, a) = C /\ Debits(more, a) = D \cup {new}
      BY <1>12 DEF Credits, Debits
    <2>2. w[new] = -new.delta
      BY <1>5, <1>12
    <2>3. Total(w, Credits(more, a)) = Total(v, C)
      BY <1>7, <2>1
    <2>4. Total(w, Debits(more, a)) = Total(v, D) - new.delta
      BY <1>6, <1>7, <1>9, <2>1, <2>2
    <2>5. Booked(more, a) = Booked(rows, a) + new.delta
      <3> HIDE DEF C, D
      <3>1. QED
        BY <1>6, <1>10, <2>3, <2>4
    <2>6. QED
      BY <1>12, <2>5
  <1>13. CASE new.account = a /\ ~(new.delta < 0)
    <2>1. Credits(more, a) = C \cup {new} /\ Debits(more, a) = D
      BY <1>13 DEF Credits, Debits
    <2>2. w[new] = new.delta
      BY <1>5, <1>13
    <2>3. Total(w, Debits(more, a)) = Total(v, D)
      BY <1>7, <2>1
    <2>4. Total(w, Credits(more, a)) = Total(v, C) + new.delta
      BY <1>7, <1>8, <2>1, <2>2
    <2>5. Booked(more, a) = Booked(rows, a) + new.delta
      <3> HIDE DEF C, D
      <3>1. QED
        BY <1>6, <1>10, <2>3, <2>4
    <2>6. QED
      BY <1>13, <2>5
  <1>14. QED
    BY <1>11, <1>12, <1>13

\* Every balance is what is booked for its account.
CreditBooked == \A a \in Accounts : credit[a] = Booked(ledger, a)

\* A deposit is booked as it is credited.
LEMMA DepositBooked ==
  ASSUME BillingInv, LedgerInv, NEW d \in Deposits, CreditDeposit(d),
         CreditBooked
  PROVE  CreditBooked'
  <1> DEFINE l == [ref |-> d.id, leg |-> "deposit", by |-> Nobody,
                   account |-> d.account, delta |-> d.amount]
  <1>1. /\ ledger' = ledger \cup {l}
        /\ \A x \in ledger : x.ref # d.id
        /\ credit' = [credit EXCEPT ![d.account] = @ + d.amount]
    BY DEF CreditDeposit
  <1>2. l.ref = d.id /\ l.account = d.account /\ l.delta = d.amount /\ d.amount \in Int
    BY BillingAssumption
  <1> HIDE DEF l
  <1>3. /\ l \notin ledger /\ IsFiniteSet(ledger)
        /\ \A x \in ledger : x.delta \in Int
        /\ l.delta \in Int
    BY <1>1, <1>2 DEF LedgerInv, BillingInv, TypeOK
  <1>4. ASSUME NEW a \in Accounts
        PROVE  credit'[a] = Booked(ledger', a)
    <2>1. /\ l.account = a => Booked(ledger', a) = Booked(ledger, a) + l.delta
          /\ l.account # a => Booked(ledger', a) = Booked(ledger, a)
      BY <1>1, <1>3, BookLeg
    <2>2. credit[a] = Booked(ledger, a)
      BY DEF CreditBooked
    <2>3. /\ d.account = a => credit'[a] = credit[a] + d.amount
          /\ d.account # a => credit'[a] = credit[a]
      BY <1>1 DEF BillingInv, TypeOK
    <2>4. QED
      BY <1>2, <2>1, <2>2, <2>3
  <1>5. QED
    BY <1>4 DEF CreditBooked

\* A settlement books on each account what it adds to its balance, whichever
\* of buyer, seller and treasury are the same account.
LEMMA SettlementBooked ==
  ASSUME BillingInv, LedgerInv, NEW c \in Callbacks, CommitSettle(c),
         CreditBooked
  PROVE  CreditBooked'
  <1> DEFINE cost == CostOf(c)
             sel == SplitOf(c).seller
             fee == SplitOf(c).fee
             b == Leg(c, "buyer", buyer[c[1]], -cost)
             s == Leg(c, "seller", SellerOf(c), sel)
             f == Leg(c, "fee", Treasury, fee)
             one == ledger \cup {b}
             two == one \cup {s}
  <1>1. /\ cost \in Nat /\ sel \in Nat /\ fee \in Nat /\ c[1] \in Requests
        /\ -cost \in Int
    BY SettleFacts
  <1>2. LegsOf(c[1]) = {}
    BY SettleFacts, NoBuyerNoLegs DEF LedgerInv
  <1>3. /\ b.ref = c[1] /\ s.ref = c[1] /\ f.ref = c[1]
        /\ b.leg = "buyer" /\ s.leg = "seller" /\ f.leg = "fee"
        /\ b.delta = -cost /\ s.delta = sel /\ f.delta = fee
        /\ b.account = buyer[c[1]] /\ s.account = SellerOf(c) /\ f.account = Treasury
    BY DEF Leg
  <1>4. ledger' = IF fee > 0 THEN two \cup {f} ELSE two
    BY DEF CommitSettle, SettleLegs
  <1>5. \A a \in Accounts : credit'[a] = credit[a] + SettleDelta(c, a)
    BY DEF CommitSettle
  <1>6. \A a : SettleDelta(c, a) = (IF a = b.account THEN b.delta ELSE 0)
                                   + (IF a = s.account THEN s.delta ELSE 0)
                                   + (IF a = f.account THEN f.delta ELSE 0)
    BY <1>3 DEF SettleDelta
  <1> HIDE DEF b, s, f, cost, sel, fee
  <1>7. b \notin ledger /\ s \notin one /\ f \notin two
    BY <1>2, <1>3 DEF LegsOf
  <1>8. IsFiniteSet(ledger) /\ IsFiniteSet(one) /\ IsFiniteSet(two)
    <2>1. IsFiniteSet(ledger)
      BY DEF LedgerInv
    <2>2. IsFiniteSet(one)
      BY <2>1, FS_AddElement
    <2>3. IsFiniteSet(two)
      BY <2>2, FS_AddElement
    <2>4. QED
      BY <2>1, <2>2, <2>3
  <1>9. /\ \A l \in ledger : l.delta \in Int
        /\ b.delta \in Int /\ s.delta \in Int /\ f.delta \in Int
    BY <1>1, <1>3 DEF BillingInv, TypeOK
  <1>10. (\A l \in one : l.delta \in Int) /\ \A l \in two : l.delta \in Int
    BY <1>9
  <1>11. ASSUME NEW a \in Accounts
         PROVE  credit'[a] = Booked(ledger', a)
    <2> DEFINE three == two \cup {f}
               db == IF a = b.account THEN b.delta ELSE 0
               ds == IF a = s.account THEN s.delta ELSE 0
               df == IF a = f.account THEN f.delta ELSE 0
    <2>1. Booked(ledger, a) \in Int /\ credit[a] = Booked(ledger, a)
      BY <1>8, <1>9, BookedType DEF CreditBooked
    <2>2. Booked(one, a) = Booked(ledger, a) + db
      <3>1. /\ b.account = a => Booked(one, a) = Booked(ledger, a) + b.delta
            /\ b.account # a => Booked(one, a) = Booked(ledger, a)
        BY <1>7, <1>8, <1>9, BookLeg
      <3>2. QED
        BY <2>1, <3>1
    <2>3. Booked(one, a) \in Int /\ Booked(two, a) \in Int
      BY <1>8, <1>10, BookedType
    <2>4. Booked(two, a) = Booked(one, a) + ds
      <3>1. /\ s.account = a => Booked(two, a) = Booked(one, a) + s.delta
            /\ s.account # a => Booked(two, a) = Booked(one, a)
        BY <1>7, <1>8, <1>9, <1>10, BookLeg
      <3>2. QED
        BY <2>3, <3>1
    <2>5. Booked(three, a) = Booked(two, a) + df
      <3>1. /\ f.account = a => Booked(three, a) = Booked(two, a) + f.delta
            /\ f.account # a => Booked(three, a) = Booked(two, a)
        BY <1>7, <1>8, <1>9, <1>10, BookLeg
      <3>2. QED
        BY <2>3, <3>1
    <2>6. db \in Int /\ ds \in Int /\ df \in Int
      BY <1>9
    <2>7. credit'[a] = credit[a] + db + ds + df
      <3>1. credit'[a] = credit[a] + (db + ds + df)
        BY <1>5, <1>6
      <3> HIDE DEF db, ds, df
      <3>2. QED
        BY <2>1, <2>6, <3>1
    <2>8. ~(fee > 0) => df = 0
      BY <1>1, <1>3
    <2>9. ledger' = IF fee > 0 THEN three ELSE two
      BY <1>4
    <2> HIDE DEF one, two, three, db, ds, df
    <2>10. Booked(ledger', a) = Booked(two, a) + df
      <3>1. CASE fee > 0
        BY <2>5, <2>9, <3>1
      <3>2. CASE ~(fee > 0)
        <4>1. df = 0 /\ ledger' = two
          BY <2>8, <2>9, <3>2
        <4>2. QED
          BY <2>3, <4>1
      <3>3. QED
        BY <3>1, <3>2
    <2>11. QED
      BY <2>1, <2>2, <2>3, <2>4, <2>6, <2>7, <2>10
  <1>12. QED
    BY <1>11 DEF CreditBooked

\* ReconcileAccount's DriftCredit is always zero: under every race, crash and
\* deadlock, credit_raw is the sum of the account's ledger legs.
THEOREM CreditReconciles == Spec => []CreditMatchesLedger
  <1>1. Init => CreditBooked
    <2> SUFFICES ASSUME Init, NEW a \in Accounts PROVE credit[a] = Booked(ledger, a)
      BY DEF CreditBooked
    <2>1. Credits(ledger, a) = {} /\ Debits(ledger, a) = {} /\ credit[a] = 0
      BY DEF Init, Credits, Debits
    <2>2. QED
      BY <2>1, TotalEmpty DEF Booked
  <1>2. BillingInv /\ LedgerInv /\ CreditBooked /\ [Next]_vars => CreditBooked'
    <2>1. CreditBooked /\ UNCHANGED <<credit, ledger>> => CreditBooked'
      BY DEF CreditBooked, Booked, Credits, Debits, Magnitude
    <2>2. QED
      BY <2>1, LedgerSteps, DepositBooked, SettlementBooked
  <1>3. ASSUME BillingInv, LedgerInv, CreditBooked PROVE CreditMatchesLedger
    <2>1. \A l \in ledger : l.delta \in Int
      BY <1>3 DEF BillingInv, TypeOK
    <2>2. ASSUME NEW a \in Accounts
          PROVE  /\ Total(Magnitude(ledger), Credits(ledger, a)) \in Nat
                 /\ Total(Magnitude(ledger), Debits(ledger, a)) \in Nat
      BY <1>3, <2>1, BookedType DEF LedgerInv
    <2>3. QED
      BY <1>3, <2>2 DEF CreditMatchesLedger, CreditBooked, Booked
  <1>4. QED
    BY <1>1, <1>2, <1>3, BillingInvInit, BillingInvStep, LedgerInvInit, LedgerInvStep, PTL DEF Spec

-----------------------------------------------------------------------------
(* States and charges, when no response outlives the sweep age.            *)

\* A settled request has legs, any other has none.
LEMMA ChargedStep ==
  ASSUME BooksInv, LedgerInv, SettledIffCharged, [Next]_vars
  PROVE  SettledIffCharged'
  <1> USE DEF BooksInv
  <1>1. ASSUME NEW r \in Requests, NEW o \in Offers, ReserveBilling(r, o)
        PROVE  SettledIffCharged'
    <2>1. /\ state[r] = "none" /\ UNCHANGED ledger
          /\ state' = [state EXCEPT ![r] = "reserved"]
      BY <1>1 DEF ReserveBilling
    <2>2. QED
      BY <2>1 DEF SettledIffCharged, BillingInv, TypeOK
  <1>2. ASSUME NEW c \in Callbacks, CommitRelease(c)
        PROVE  SettledIffCharged'
    <2>1. /\ c[1] \in Requests /\ state[c[1]] = "reserved" /\ UNCHANGED ledger
          /\ state' = [state EXCEPT ![c[1]] = "released"]
      BY <1>2, CallbackParts DEF CommitRelease, TakingTurns, Transacting
    <2>2. QED
      BY <2>1 DEF SettledIffCharged, BillingInv, TypeOK
  <1>3. ASSUME NEW s \in Sweepers, SweepCommit(s)
        PROVE  SettledIffCharged'
    <2>1. /\ UNCHANGED ledger
          /\ state' = [r \in Requests |-> IF r \in freed[s] THEN "released" ELSE state[r]]
          /\ \A r \in freed[s] : state[r] = "reserved"
      BY <1>3 DEF SweepCommit, TakingTurns, Swept
    <2>2. QED
      BY <2>1 DEF SettledIffCharged
  <1>4. ASSUME NEW c \in Callbacks, CommitSettle(c)
        PROVE  SettledIffCharged'
    <2>1. /\ c[1] \in Requests
          /\ ledger' = ledger \cup SettleLegs(c)
          /\ state' = [state EXCEPT ![c[1]] = "settled"]
      BY <1>4, CallbackParts DEF CommitSettle
    <2>2. SettleLegs(c) # {} /\ \A l \in SettleLegs(c) : l.ref = c[1]
      BY <1>4, LegsAreReceipt
    <2>3. QED
      BY <2>1, <2>2 DEF SettledIffCharged, BillingInv, TypeOK
  <1>5. ASSUME NEW d \in Deposits, CreditDeposit(d)
        PROVE  SettledIffCharged'
    <2> DEFINE l == [ref |-> d.id, leg |-> "deposit", by |-> Nobody,
                     account |-> d.account, delta |-> d.amount]
    <2>1. ledger' = ledger \cup {l} /\ l.ref \notin Requests /\ UNCHANGED state
      BY <1>5, BillingAssumption DEF CreditDeposit
    <2> HIDE DEF l
    <2>2. QED
      BY <2>1 DEF SettledIffCharged
  <1>6. ASSUME UNCHANGED <<reserved, state, buyer, held>>, UNCHANGED <<credit, ledger>>
        PROVE  SettledIffCharged'
    BY <1>6 DEF SettledIffCharged
  <1>7. QED
    BY <1>1, <1>2, <1>3, <1>4, <1>5, <1>6, OtherSteps, LedgerSteps DEF SumSteps

\* When no response outlives BILLING_SWEEP_AGE, billing_requests and
\* credit_ledger agree: exactly the settled requests have been charged.
THEOREM StateTellsCharge ==
  ASSUME BoundedAge
  PROVE  Spec => []SettledIffCharged
  <1>1. Init => SettledIffCharged
    BY DEF Init, SettledIffCharged
  <1>2. BooksInv /\ LedgerInv /\ [Next]_vars => BooksInv' /\ LedgerInv'
    BY BooksInvStep, LedgerInvStep DEF BooksInv
  <1>3. BooksInv /\ LedgerInv /\ SettledIffCharged /\ [Next]_vars => SettledIffCharged'
    BY ChargedStep
  <1>4. QED
    BY <1>1, <1>2, <1>3, BooksInvInit, LedgerInvInit, PTL DEF Spec

-----------------------------------------------------------------------------
(* The billing store implements Escrow.                                    *)

\* Changing one row of a sum changes the sum by as much.
LEMMA TotalBump ==
  ASSUME NEW S, IsFiniteSet(S), NEW a \in S, NEW v, NEW w,
         \A x \in S : v[x] \in Nat /\ w[x] \in Nat,
         \A x \in S : x # a => w[x] = v[x]
  PROVE  Total(w, S) = Total(v, S) + (w[a] - v[a])
  <1> DEFINE T == S \ {a}
  <1>1. IsFiniteSet(T) /\ a \notin T /\ S = T \cup {a}
    BY FS_Subset
  <1>2. Total(v, T \cup {a}) = Total(v, T) + v[a]
    BY <1>1, TotalAdd
  <1>3. Total(w, T \cup {a}) = Total(w, T) + w[a]
    BY <1>1, TotalAdd
  <1>4. Total(w, T) = Total(v, T)
    BY TotalSame
  <1>5. Total(v, T) \in Nat
    BY <1>1, TotalType
  <1> HIDE DEF T
  <1>6. QED
    BY <1>1, <1>2, <1>3, <1>4, <1>5

\* No money is made or lost by a settlement.
LEMMA SettlementConserves ==
  ASSUME BillingInv, NEW c \in Callbacks, CommitSettle(c)
  PROVE  Total(credit', Accounts) = Total(credit, Accounts)
  <1> DEFINE b == buyer[c[1]]
             s == SellerOf(c)
             cost == CostOf(c)
             sel == SplitOf(c).seller
             fee == SplitOf(c).fee
  <1>1. /\ b \in Accounts /\ s \in Accounts /\ Treasury \in Accounts
        /\ cost \in Nat /\ sel \in Nat /\ fee \in Nat /\ fee + sel = cost
    BY SettleFacts, BillingAssumption
  <1>2. IsFiniteSet(Accounts) /\ credit \in [Accounts -> Nat] /\ credit' \in [Accounts -> Nat]
    BY BillingAssumption, CommitSettleKeeps DEF BillingInv, TypeOK
  <1>3. \A a \in Accounts : credit'[a] = credit[a] + ((IF a = b THEN -cost ELSE 0)
                                                      + (IF a = s THEN sel ELSE 0)
                                                      + (IF a = Treasury THEN fee ELSE 0))
    BY DEF CommitSettle, SettleDelta
  <1> HIDE DEF b, s, cost, sel, fee
  <1> DEFINE one == [credit EXCEPT ![s] = @ + sel]
             two == [one EXCEPT ![Treasury] = @ + fee]
  <1>4. one \in [Accounts -> Nat] /\ one[s] = credit[s] + sel
        /\ \A a \in Accounts : a # s => one[a] = credit[a]
    BY <1>1, <1>2
  <1> HIDE DEF one
  <1>5. Total(one, Accounts) = Total(credit, Accounts) + (one[s] - credit[s])
    BY <1>1, <1>2, <1>4, TotalBump
  <1>6. two \in [Accounts -> Nat] /\ two[Treasury] = one[Treasury] + fee
        /\ \A a \in Accounts : a # Treasury => two[a] = one[a]
    BY <1>1, <1>4
  <1> HIDE DEF two
  <1>7. Total(two, Accounts) = Total(one, Accounts) + (two[Treasury] - one[Treasury])
    <2>1. \A a \in Accounts : one[a] \in Nat /\ two[a] \in Nat
      BY <1>4, <1>6
    <2>2. QED
      BY <1>1, <1>2, <1>6, <2>1, TotalBump
  <1>8. credit'[b] = two[b] - cost /\ \A a \in Accounts : a # b => credit'[a] = two[a]
    BY <1>1, <1>2, <1>3, <1>4, <1>6
  <1>9. Total(credit', Accounts) = Total(two, Accounts) + (credit'[b] - two[b])
    BY <1>1, <1>2, <1>6, <1>8, TotalBump
  <1>10. Total(credit, Accounts) \in Nat
    BY <1>2, TotalType
  <1>11. /\ one[s] - credit[s] = sel
         /\ two[Treasury] - one[Treasury] = fee
         /\ credit'[b] - two[b] = -cost
    BY <1>1, <1>2, <1>4, <1>6, <1>8
  <1>12. QED
    BY <1>1, <1>5, <1>7, <1>9, <1>10, <1>11

\* The escrow sums as the store does.
LEMMA EscrowTotal ==
  ASSUME NEW w, NEW S
  PROVE  E!Total(w, S) = Total(w, S)
  <1>1. E!Units(w, S) = Units(w, S)
    BY DEF E!Units, Units
  <1>2. QED
    BY <1>1 DEF E!Total, Total, E!Cardinality, Cardinality

\* What every escrow hold rests on: an account's open reservations are
\* covered by its balance.
LEMMA BooksCovered == BooksInv => E!Covered
  <1> SUFFICES ASSUME BooksInv, NEW a \in Accounts
               PROVE  Total(held, E!HeldFrom(a)) <= credit[a]
    BY EscrowTotal DEF E!Covered
  <1>1. E!HeldFrom(a) = Open(a)
    BY DEF E!HeldFrom, Open
  <1>2. reserved[a] = Total(held, Open(a)) /\ reserved[a] <= credit[a]
    BY DEF BooksInv, ReservedMatchesOpen, BillingInv, RowsSound, CheckHolds
  <1>3. QED
    BY <1>1, <1>2

LEMMA BooksCoveredNext == BooksInv' => E!Covered'
  BY BooksCovered, PTL

\* Every step of the store is a step of the escrow or none.
LEMMA EscrowStep ==
  ASSUME BooksInv, BooksInv', [Next]_vars
  PROVE  [E!EscrowNext]_(E!escrowVars)
  <1> USE DEF BooksInv
  <1>0. E!Covered'
    BY BooksCoveredNext
  <1>1. ASSUME NEW d \in Deposits, CreditDeposit(d)
        PROVE  E!Fund(d.account)
    <2>1. /\ d.account \in Accounts /\ d.amount \in Nat /\ d.amount > 0
          /\ credit' = [credit EXCEPT ![d.account] = @ + d.amount]
          /\ UNCHANGED <<state, buyer, held>>
      BY <1>1, BillingAssumption DEF CreditDeposit, requestVars
    <2>2. credit'[d.account] = credit[d.account] + d.amount /\ credit[d.account] \in Nat
      BY <2>1 DEF BillingInv, TypeOK
    <2>3. credit' = [credit EXCEPT ![d.account] = credit'[d.account]]
      BY <2>1, <2>2
    <2>4. QED
      BY <2>1, <2>2, <2>3 DEF E!Fund
  <1>2. ASSUME NEW r \in Requests, NEW o \in Offers, ReserveBilling(r, o)
        PROVE  E!Hold(r)
    <2>1. /\ state[r] = "none"
          /\ state' = [state EXCEPT ![r] = "reserved"]
          /\ buyer' = [buyer EXCEPT ![r] = o.buyer]
          /\ held' = [held EXCEPT ![r] = ReserveOf[o]]
          /\ UNCHANGED credit /\ o.buyer \in Accounts
      BY <1>2, BillingAssumption DEF ReserveBilling
    <2>2. buyer'[r] = o.buyer /\ held'[r] = ReserveOf[o]
      BY <2>1 DEF BillingInv, TypeOK
    <2>3. QED
      BY <1>0, <2>1, <2>2 DEF E!Hold
  <1>3. ASSUME NEW c \in Callbacks, CommitSettle(c)
        PROVE  E!Pay(c[1])
    <2>1. /\ c[1] \in Requests /\ state[c[1]] = "reserved" /\ pc[c] = "finalize"
          /\ state' = [state EXCEPT ![c[1]] = "settled"]
          /\ credit' = [a \in Accounts |-> credit[a] + SettleDelta(c, a)]
          /\ UNCHANGED <<buyer, held>>
      BY <1>3, CallbackParts DEF CommitSettle, requestVars, TakingTurns, Transacting
    <2>2. ASSUME NEW a \in Accounts \ {buyer[c[1]]}
          PROVE  credit'[a] >= credit[a]
      <3>1. SettleDelta(c, a) \in Int /\ SettleDelta(c, a) >= 0
        BY <2>1, SettleDeltaType
      <3>2. QED
        BY <2>1, <3>1 DEF BillingInv, TypeOK
    <2>3. Total(credit', Accounts) = Total(credit, Accounts)
      BY <1>3, SettlementConserves
    <2>4. QED
      BY <1>0, <2>1, <2>2, <2>3, EscrowTotal DEF E!Pay
  <1>4. ASSUME NEW c \in Callbacks, CommitRelease(c)
        PROVE  c[1] \in Requests /\ E!GiveBack({c[1]})
    <2>1. /\ c[1] \in Requests /\ state[c[1]] = "reserved"
          /\ state' = [state EXCEPT ![c[1]] = "released"]
          /\ UNCHANGED <<credit, buyer, held>>
      BY <1>4, CallbackParts DEF CommitRelease, requestVars, TakingTurns, Transacting
    <2>2. state' = [j \in Requests |-> IF j \in {c[1]} THEN "released" ELSE state[j]]
      BY <2>1 DEF BillingInv, TypeOK
    <2>3. QED
      BY <2>1, <2>2 DEF E!GiveBack
  <1>5. ASSUME NEW s \in Sweepers, SweepCommit(s)
        PROVE  freed[s] \in SUBSET Requests /\ E!GiveBack(freed[s])
    <2>1. /\ freed[s] # {} /\ freed[s] \in SUBSET Requests
          /\ \A r \in freed[s] : state[r] = "reserved"
          /\ state' = [r \in Requests |-> IF r \in freed[s] THEN "released" ELSE state[r]]
          /\ UNCHANGED <<credit, buyer, held>>
      BY <1>5 DEF SweepCommit, requestVars, TakingTurns, Swept, BillingInv, TypeOK
    <2>2. QED
      BY <2>1 DEF E!GiveBack
  <1>6. ASSUME UNCHANGED <<reserved, state, buyer, held>>, UNCHANGED <<credit, ledger>>
        PROVE  UNCHANGED E!escrowVars
    BY <1>6 DEF E!escrowVars
  <1>7. SumSteps => E!EscrowNext
    <2>1. \A c \in Callbacks : CommitSettle(c) => c[1] \in Requests
      BY CallbackParts
    <2>2. QED
      BY <1>2, <1>3, <1>4, <1>5, <2>1 DEF SumSteps, E!EscrowNext
  <1>8. (\E d \in Deposits : CreditDeposit(d)) => E!EscrowNext
    BY <1>1, BillingAssumption DEF E!EscrowNext
  <1>9. (\E c \in Callbacks : CommitSettle(c)) => E!EscrowNext
    BY <1>7 DEF SumSteps
  <1>10. QED
    BY <1>6, <1>7, <1>8, <1>9, OtherSteps, LedgerSteps

\* When no response outlives BILLING_SWEEP_AGE, the statement-by-statement
\* store with its row locks, sweeps, crashes and deadlocks implements the
\* abstract escrow: every commit is one of its steps, everything else none.
THEOREM StoreIsEscrow ==
  ASSUME BoundedAge
  PROVE  Spec => ImplementsEscrow
  <1>1. Init => E!EscrowInit
    BY DEF Init, E!EscrowInit
  <1>2. BooksInv /\ [Next]_vars => BooksInv'
    BY BooksInvStep
  <1>3. BooksInv /\ BooksInv' /\ [Next]_vars => [E!EscrowNext]_(E!escrowVars)
    BY EscrowStep
  <1>4. QED
    BY <1>1, <1>2, <1>3, BooksInvInit, PTL DEF Spec, ImplementsEscrow, E!EscrowSpec

-----------------------------------------------------------------------------
(* The Merkle commitments over a ledger.  Recursive functions of numbers    *)
(* first: that they are defined, and induction as a fact about sets.        *)

\* Induction, as a fact about sets of numbers.
LEMMA InductiveSet ==
  ASSUME NEW S, 0 \in S, \A k \in Nat : k \in S => k + 1 \in S
  PROVE  Nat \subseteq S
  <1> DEFINE Bad == Nat \ S
  <1> SUFFICES ASSUME Bad # {} PROVE FALSE
    OBVIOUS
  <1>1. Bad \in SUBSET Nat
    OBVIOUS
  <1> HIDE DEF Bad
  <1>2. PICK n \in Bad : \A m \in Bad : ~(<<m, n>> \in OpToRel(<, Nat))
    BY <1>1, NatLessThanWellFounded, WFMin
  <1>3. n \in Nat /\ n \notin S
    BY DEF Bad
  <1>4. n - 1 \in Nat /\ (n - 1) + 1 = n /\ n - 1 < n
    BY <1>3
  <1>5. n - 1 \notin Bad
    BY <1>2, <1>3, <1>4 DEF OpToRel
  <1>6. n - 1 \in S
    BY <1>4, <1>5 DEF Bad
  <1>7. QED
    BY <1>3, <1>4, <1>6

\* A loop that starts with a number and replaces it again and again has a value
\* after every number of rounds: the recursive functions of numbers are defined.
LEMMA Iteration ==
  ASSUME NEW x \in Nat, NEW g \in [Nat -> Nat]
  PROVE  \E f \in [Nat -> Nat] : f[0] = x /\ \A i \in Nat : f[i + 1] = g[f[i]]
  <1> DEFINE Upto(n, h) == /\ h \in [0 .. n -> Nat] /\ h[0] = x
                           /\ \A k \in 0 .. (n - 1) : h[k + 1] = g[h[k]]
             H(n) == CHOOSE h : Upto(n, h)
  <1>1. ASSUME NEW n \in Nat PROVE \E h : Upto(n, h)
    <2> DEFINE S == {m \in Nat : \E h : Upto(m, h)}
    <2>1. 0 \in S
      <3>1. Upto(0, [k \in 0 .. 0 |-> x])
        OBVIOUS
      <3>2. QED
        BY <3>1
    <2>2. ASSUME NEW m \in Nat, m \in S PROVE m + 1 \in S
      <3>1. PICK h : Upto(m, h)
        BY <2>2
      <3> DEFINE e == [k \in 0 .. (m + 1) |-> IF k = m + 1 THEN g[h[m]] ELSE h[k]]
      <3>2. m \in 0 .. m /\ h[m] \in Nat /\ g[h[m]] \in Nat
        BY <3>1
      <3>3. \A k \in 0 .. (m + 1) : k # m + 1 => k \in 0 .. m
        OBVIOUS
      <3>4. ASSUME NEW k \in 0 .. m PROVE e[k] = h[k] /\ h[k] \in Nat
        <4>1. k # m + 1 /\ k \in 0 .. (m + 1)
          OBVIOUS
        <4>2. QED
          BY <3>1, <4>1
      <3>5. e[m + 1] = g[h[m]]
        OBVIOUS
      <3>6. e \in [0 .. (m + 1) -> Nat]
        BY <3>1, <3>2, <3>3
      <3> HIDE DEF e
      <3>7. e[0] = x
        BY <3>1, <3>4
      <3>8. ASSUME NEW k \in 0 .. m PROVE e[k + 1] = g[e[k]]
        <4>1. CASE k = m
          BY <3>4, <3>5, <4>1
        <4>2. CASE k # m
          <5>1. k \in 0 .. (m - 1) /\ k + 1 \in 0 .. m
            BY <4>2
          <5>2. QED
            BY <3>1, <3>4, <5>1
        <4>3. QED
          BY <4>1, <4>2
      <3>9. Upto(m + 1, e)
        <4>1. (m + 1) - 1 = m
          OBVIOUS
        <4>2. QED
          BY <3>6, <3>7, <3>8, <4>1
      <3> HIDE DEF Upto
      <3>10. QED
        BY <3>9
    <2> HIDE DEF S
    <2>3. n \in S
      BY <2>1, <2>2, InductiveSet
    <2>4. QED
      BY <2>3 DEF S
  <1>2. ASSUME NEW m \in Nat, NEW h, NEW e, Upto(m, h), Upto(m + 1, e)
        PROVE  h[m] = e[m]
    <2> DEFINE S == {k \in Nat : k <= m => h[k] = e[k]}
    <2>1. 0 \in S
      BY <1>2
    <2>2. ASSUME NEW k \in Nat, k \in S PROVE k + 1 \in S
      <3> SUFFICES ASSUME k + 1 <= m PROVE h[k + 1] = e[k + 1]
        OBVIOUS
      <3>1. k <= m /\ k \in 0 .. (m - 1) /\ k \in 0 .. ((m + 1) - 1)
        OBVIOUS
      <3>2. h[k] = e[k]
        BY <2>2, <3>1
      <3>3. h[k + 1] = g[h[k]] /\ e[k + 1] = g[e[k]]
        BY <1>2, <3>1
      <3>4. QED
        BY <3>2, <3>3
    <2> HIDE DEF S
    <2>3. m \in S
      BY <2>1, <2>2, InductiveSet
    <2>4. QED
      BY <2>3 DEF S
  <1>3. ASSUME NEW n \in Nat PROVE Upto(n, H(n))
    <2> HIDE DEF Upto
    <2>1. QED
      BY <1>1
  <1> DEFINE f == [n \in Nat |-> H(n)[n]]
  <1> HIDE DEF H
  <1>4. ASSUME NEW n \in Nat PROVE f[n] \in Nat /\ f[0] = x /\ f[n + 1] = g[f[n]]
    <2>1. n + 1 \in Nat /\ 0 \in Nat /\ n \in 0 .. n /\ n \in 0 .. ((n + 1) - 1)
      OBVIOUS
    <2> HIDE DEF Upto
    <2>2. Upto(0, H(0)) /\ Upto(n, H(n)) /\ Upto(n + 1, H(n + 1))
      BY <1>3, <2>1
    <2>3. H(n)[n] = H(n + 1)[n]
      BY <1>2, <2>2
    <2>4. f[n] = H(n)[n] /\ f[n + 1] = H(n + 1)[n + 1] /\ f[0] = H(0)[0]
      BY <2>1
    <2>5. H(n)[n] \in Nat /\ H(0)[0] = x /\ H(n + 1)[n + 1] = g[H(n + 1)[n]]
      BY <2>1, <2>2 DEF Upto
    <2>6. QED
      BY <2>3, <2>4, <2>5
  <1> HIDE DEF f
  <1>5. f \in [Nat -> Nat]
    BY <1>4 DEF f
  <1>6. QED
    BY <1>4, <1>5

\* The loop of sizeAtLevel halves and rounds up.
LEMMA SizeStep ==
  ASSUME NEW l \in Nat
  PROVE  /\ sizeAtLevel(l, 0) = l
         /\ \A k \in Nat : /\ sizeAtLevel(l, k) \in Nat
                           /\ sizeAtLevel(l, k + 1) = (sizeAtLevel(l, k) + 1) \div 2
  <1> DEFINE n == CHOOSE f : f = [i \in Nat |-> IF i = 0 THEN l ELSE (f[i - 1] + 1) \div 2]
             g == [m \in Nat |-> (m + 1) \div 2]
  <1>1. g \in [Nat -> Nat]
    OBVIOUS
  <1>2. PICK f \in [Nat -> Nat] : f[0] = l /\ \A i \in Nat : f[i + 1] = g[f[i]]
    BY <1>1, Iteration
  <1>3. f = [i \in Nat |-> IF i = 0 THEN l ELSE (f[i - 1] + 1) \div 2]
    <2>1. ASSUME NEW i \in Nat PROVE f[i] = IF i = 0 THEN l ELSE (f[i - 1] + 1) \div 2
      <3>1. CASE i # 0
        <4>1. i - 1 \in Nat /\ (i - 1) + 1 = i
          BY <3>1
        <4>2. f[i] = g[f[i - 1]] /\ f[i - 1] \in Nat
          BY <1>2, <4>1
        <4>3. QED
          BY <3>1, <4>2
      <3>2. QED
        BY <1>2, <3>1
    <2>2. QED
      BY <2>1
  <1>4. n = [i \in Nat |-> IF i = 0 THEN l ELSE (n[i - 1] + 1) \div 2]
    BY <1>3
  <1>5. \A k \in Nat : sizeAtLevel(l, k) = n[k]
    BY DEF sizeAtLevel
  <1> HIDE DEF n
  <1>6. n[0] = l /\ \A k \in Nat : n[k + 1] = (n[k] + 1) \div 2
    BY <1>4
  <1>7. ASSUME NEW k \in Nat PROVE n[k] \in Nat
    <2> DEFINE S == {m \in Nat : n[m] \in Nat}
    <2>1. 0 \in S
      BY <1>6
    <2>2. \A m \in Nat : m \in S => m + 1 \in S
      BY <1>6
    <2> HIDE DEF S
    <2>3. k \in S
      BY <2>1, <2>2, InductiveSet
    <2>4. QED
      BY <2>3 DEF S
  <1>8. QED
    BY <1>5, <1>6, <1>7

\* The place of an ancestor is the place halved.
LEMMA AncestorStep ==
  ASSUME NEW l \in Nat
  PROVE  /\ Ancestor(l, 0) = l
         /\ \A k \in Nat : Ancestor(l, k) \in Nat /\ Ancestor(l, k + 1) = Ancestor(l, k) \div 2
  <1> DEFINE n == CHOOSE f : f = [i \in Nat |-> IF i = 0 THEN l ELSE f[i - 1] \div 2]
             g == [m \in Nat |-> m \div 2]
  <1>1. g \in [Nat -> Nat]
    OBVIOUS
  <1>2. PICK f \in [Nat -> Nat] : f[0] = l /\ \A i \in Nat : f[i + 1] = g[f[i]]
    BY <1>1, Iteration
  <1>3. f = [i \in Nat |-> IF i = 0 THEN l ELSE f[i - 1] \div 2]
    <2>1. ASSUME NEW i \in Nat PROVE f[i] = IF i = 0 THEN l ELSE f[i - 1] \div 2
      <3>1. CASE i # 0
        <4>1. i - 1 \in Nat /\ (i - 1) + 1 = i
          BY <3>1
        <4>2. f[i] = g[f[i - 1]] /\ f[i - 1] \in Nat
          BY <1>2, <4>1
        <4>3. QED
          BY <3>1, <4>2
      <3>2. QED
        BY <1>2, <3>1
    <2>2. QED
      BY <2>1
  <1>4. n = [i \in Nat |-> IF i = 0 THEN l ELSE n[i - 1] \div 2]
    BY <1>3
  <1>5. \A k \in Nat : Ancestor(l, k) = n[k]
    BY DEF Ancestor
  <1> HIDE DEF n
  <1>6. n[0] = l /\ \A k \in Nat : n[k + 1] = n[k] \div 2
    BY <1>4
  <1>7. ASSUME NEW k \in Nat PROVE n[k] \in Nat
    <2> DEFINE S == {m \in Nat : n[m] \in Nat}
    <2>1. 0 \in S
      BY <1>6
    <2>2. \A m \in Nat : m \in S => m + 1 \in S
      BY <1>6
    <2> HIDE DEF S
    <2>3. k \in S
      BY <2>1, <2>2, InductiveSet
    <2>4. QED
      BY <2>3 DEF S
  <1>8. QED
    BY <1>5, <1>6, <1>7

\* A set of numbers that is not empty has a least one.
LEMMA LeastIsMin ==
  ASSUME NEW S, S \subseteq Nat, S # {}
  PROVE  Min(S) \in S /\ \A x \in S : Min(S) <= x
  <1>1. S \in SUBSET Nat
    OBVIOUS
  <1>2. PICK n \in S : \A m \in S : ~(<<m, n>> \in OpToRel(<, Nat))
    BY <1>1, NatLessThanWellFounded, WFMin
  <1>3. ASSUME NEW m \in S PROVE n <= m
    <2>1. m \in Nat /\ n \in Nat
      BY <1>1
    <2>2. ~(m < n)
      BY <1>2, <2>1 DEF OpToRel
    <2>3. QED
      BY <2>1, <2>2
  <1>4. QED
    BY <1>2, <1>3 DEF Min

\* A level above the leaves is smaller than the one below, down to one node:
\* every loop over the levels ends, and the top level is the root alone.
LEMMA HeightFound ==
  ASSUME NEW l \in Nat \ {0}
  PROVE  /\ Height(l) \in Nat /\ sizeAtLevel(l, Height(l)) = 1
         /\ \A k \in Nat : sizeAtLevel(l, k) \in Nat \ {0}
         /\ \A k \in Nat : k < Height(l) => sizeAtLevel(l, k) > 1
  <1> DEFINE n(k) == sizeAtLevel(l, k)
             Low == {h \in 0 .. l : n(h) <= 1}
             S == {k \in Nat : n(k) > 0 /\ (n(k) = 1 \/ n(k) + k <= l)}
  <1>1. n(0) = l /\ \A k \in Nat : n(k) \in Nat /\ n(k + 1) = (n(k) + 1) \div 2
    BY SizeStep
  <1>2. Height(l) = Min(Low)
    BY DEF Height
  <1> HIDE DEF n
  <1>3. 0 \in S
    BY <1>1
  <1>4. ASSUME NEW k \in Nat, k \in S PROVE k + 1 \in S
    <2>1. PICK s \in Nat : s = n(k)
      BY <1>1
    <2>2. s > 0 /\ (s = 1 \/ s + k <= l)
      BY <1>4, <2>1
    <2>3. n(k + 1) = (s + 1) \div 2 /\ k + 1 \in Nat
      BY <1>1, <2>1
    <2>4. (s + 1) \div 2 > 0 /\ ((s + 1) \div 2 = 1 \/ ((s + 1) \div 2) + (k + 1) <= l)
      BY <2>2
    <2>5. QED
      BY <2>3, <2>4
  <1>5. \A k \in Nat : k \in S
    <2> HIDE DEF S
    <2>1. QED
      BY <1>3, <1>4, InductiveSet
  <1>6. l \in Low
    <2>1. n(l) \in Nat /\ (n(l) = 1 \/ n(l) + l <= l) /\ l \in 0 .. l
      BY <1>1, <1>5
    <2>2. n(l) <= 1
      BY <2>1
    <2>3. QED
      BY <2>1, <2>2
  <1>7. Min(Low) \in Low /\ \A x \in Low : Min(Low) <= x
    <2>1. Low \subseteq Nat
      OBVIOUS
    <2> HIDE DEF Low
    <2>2. QED
      BY <1>6, <2>1, LeastIsMin
  <1>8. \A k \in Nat : n(k) \in Nat \ {0}
    BY <1>1, <1>5
  <1>9. n(Height(l)) = 1 /\ Height(l) \in 0 .. l
    BY <1>2, <1>7, <1>8
  <1>10. ASSUME NEW k \in Nat, k < Height(l) PROVE n(k) > 1
    <2>1. k \in 0 .. l /\ ~(Height(l) <= k)
      BY <1>9, <1>10
    <2>2. ~(n(k) <= 1)
      BY <1>2, <1>7, <2>1
    <2>3. n(k) \in Nat
      BY <1>1
    <2>4. QED
      BY <2>2, <2>3
  <1>11. QED
    BY <1>8, <1>9, <1>10 DEF n

\* The ancestor of a leaf is a node of its level.
LEMMA AncestorBelow ==
  ASSUME NEW l \in Nat, NEW i \in Nat, i < l
  PROVE  \A k \in Nat : Ancestor(i, k) < sizeAtLevel(l, k)
  <1> DEFINE S == {k \in Nat : Ancestor(i, k) < sizeAtLevel(l, k)}
  <1>1. 0 \in S
    BY SizeStep, AncestorStep
  <1>2. ASSUME NEW k \in Nat, k \in S PROVE k + 1 \in S
    <2>1. Ancestor(i, k) \in Nat /\ sizeAtLevel(l, k) \in Nat /\ Ancestor(i, k) < sizeAtLevel(l, k)
      BY <1>2, SizeStep, AncestorStep
    <2>2. /\ Ancestor(i, k + 1) = Ancestor(i, k) \div 2
          /\ sizeAtLevel(l, k + 1) = (sizeAtLevel(l, k) + 1) \div 2
      BY SizeStep, AncestorStep
    <2>3. QED
      BY <2>1, <2>2
  <1> HIDE DEF S
  <1>3. \A k \in Nat : k \in S
    BY <1>1, <1>2, InductiveSet
  <1>4. QED
    BY <1>3 DEF S

\* A function on 1 .. n is a sequence of length n.
LEMMA SeqOfLength ==
  ASSUME NEW n \in Nat, NEW T, NEW s \in [1 .. n -> T]
  PROVE  s \in Seq(T) /\ Len(s) = n
  OBVIOUS

\* An evened level has its nodes, in place, and at most one pad after them.
LEMMA EvenShape ==
  ASSUME NEW T, NEW s \in Seq(T)
  PROVE  /\ Even(s) \in Seq(T \cup {merklePadHash})
         /\ Len(Even(s)) = 2 * ((Len(s) + 1) \div 2)
         /\ \A i \in 1 .. Len(s) : Even(s)[i] = s[i]
         /\ Len(s) % 2 = 1 => Even(s)[Len(s) + 1] = merklePadHash
  <1> DEFINE p == merklePadHash
             U == T \cup {p}
             e == Append(s, p)
  <1>1. s \in Seq(U) /\ p \in U /\ Len(s) \in Nat
    OBVIOUS
  <1> HIDE DEF U
  <1>2. CASE Len(s) % 2 = 1
    <2>1. Even(s) = e
      BY <1>2 DEF Even
    <2> HIDE DEF p
    <2>2. e \in Seq(U) /\ Len(e) = Len(s) + 1 /\ e[Len(s) + 1] = p
      BY <1>1
    <2>3. \A i \in 1 .. Len(s) : e[i] = s[i]
      BY <1>1
    <2>4. Len(s) + 1 = 2 * ((Len(s) + 1) \div 2)
      BY <1>1, <1>2
    <2>5. QED
      BY <2>1, <2>2, <2>3, <2>4 DEF U, p
  <1>3. CASE Len(s) % 2 # 1
    <2>1. Even(s) = s
      BY <1>3 DEF Even
    <2>2. Len(s) = 2 * ((Len(s) + 1) \div 2)
      BY <1>1, <1>3
    <2>3. QED
      BY <1>1, <1>3, <2>1, <2>2 DEF U
  <1>4. QED
    BY <1>2, <1>3

\* Halved and rounded up, every two neighbours under one node.
LEMMA ParentsShape ==
  ASSUME NEW T, NEW s \in Seq(T)
  PROVE  /\ \E U : Parents(s) \in Seq(U)
         /\ Len(Parents(s)) = (Len(s) + 1) \div 2
         /\ \A i \in 1 .. ((Len(s) + 1) \div 2) :
              Parents(s)[i] = merkleNode(Even(s)[2 * i - 1], Even(s)[2 * i])
  <1> DEFINE m == (Len(s) + 1) \div 2
             at(i) == merkleNode(Even(s)[2 * i - 1], Even(s)[2 * i])
             U == {at(i) : i \in 1 .. m}
  <1>1. m \in Nat /\ Len(Even(s)) = 2 * m
    <2>1. m \in Nat
      OBVIOUS
    <2>2. Len(Even(s)) = 2 * m
      BY EvenShape
    <2>3. QED
      BY <2>1, <2>2
  <1>2. Len(Even(s)) \div 2 = m
    <2> HIDE DEF m
    <2>1. QED
      BY <1>1
  <1>3. Parents(s) = [i \in 1 .. m |-> at(i)]
    BY <1>2 DEF Parents
  <1> HIDE DEF m, at
  <1>4. Parents(s) \in [1 .. m -> U]
    BY <1>3
  <1>5. Parents(s) \in Seq(U) /\ Len(Parents(s)) = m
    BY <1>1, <1>4, SeqOfLength
  <1>6. QED
    BY <1>3, <1>5 DEF m, at

\* The node above a node is what a verifier climbs to with the sibling of the
\* evened level, which is the pad where the level has no real one.
LEMMA ParentClimbs ==
  ASSUME NEW T, NEW s \in Seq(T), NEW a \in 0 .. (Len(s) - 1)
  PROVE  /\ Parents(s)[(a \div 2) + 1] = Climb(s[a + 1], Even(s)[Sibling(a) + 1], a)
         /\ Sibling(a) >= Len(s) => Even(s)[Sibling(a) + 1] = merklePadHash
  <1> DEFINE h == (a \div 2) + 1
             e == Even(s)
  <1>1. Len(s) \in Nat /\ a \in Nat /\ a < Len(s) /\ a + 1 \in 1 .. Len(s)
    OBVIOUS
  <1>2. h \in 1 .. ((Len(s) + 1) \div 2)
    BY <1>1
  <1>3. Parents(s)[h] = merkleNode(e[2 * h - 1], e[2 * h])
    BY <1>2, ParentsShape
  <1>4. e[a + 1] = s[a + 1] /\ (Len(s) % 2 = 1 => e[Len(s) + 1] = merklePadHash)
    BY <1>1, EvenShape
  <1> HIDE DEF e
  <1>5. CASE a % 2 = 0
    <2>1. 2 * h - 1 = a + 1 /\ 2 * h = (a + 1) + 1 /\ Sibling(a) = a + 1
      BY <1>1, <1>5 DEF Sibling
    <2>2. a + 1 >= Len(s) => Len(s) = a + 1 /\ Len(s) % 2 = 1
      BY <1>1, <1>5
    <2>3. QED
      BY <1>3, <1>4, <1>5, <2>1, <2>2 DEF Climb, e
  <1>6. CASE a % 2 # 0
    <2>1. 2 * h - 1 = (a - 1) + 1 /\ 2 * h = a + 1 /\ Sibling(a) = a - 1 /\ ~(a - 1 >= Len(s))
      BY <1>1, <1>6 DEF Sibling
    <2>2. QED
      BY <1>3, <1>4, <1>6, <2>1 DEF Climb, e
  <1>7. QED
    BY <1>5, <1>6

\* The levels: the leaves, and above a level its parents.
LEMMA LevelsStep ==
  ASSUME NEW rows, Len(rows) \in Nat \ {0}
  PROVE  /\ Levels(rows)[0] = rows
         /\ \A k \in Nat : k < Height(Len(rows)) => Levels(rows)[k + 1] = Parents(Levels(rows)[k])
  <1> DEFINE Is(n, f) == f = [k \in 0 .. n |-> IF k = 0 THEN rows ELSE Parents(f[k - 1])]
             S == {n \in Nat : \E f : Is(n, f)}
             top == Height(Len(rows))
             level == Levels(rows)
  <1>1. 0 \in S
    <2> DEFINE f == [k \in 0 .. 0 |-> rows]
    <2>1. \A k \in 0 .. 0 : k = 0
      OBVIOUS
    <2>2. f = [k \in 0 .. 0 |-> IF k = 0 THEN rows ELSE Parents(f[k - 1])]
      BY <2>1
    <2> HIDE DEF f
    <2>3. QED
      BY <2>2
  <1>2. ASSUME NEW n \in Nat, n \in S PROVE n + 1 \in S
    <2>1. PICK f : Is(n, f)
      BY <1>2
    <2> DEFINE e == [k \in 0 .. (n + 1) |-> IF k = n + 1 THEN Parents(f[n]) ELSE f[k]]
               r(k) == IF k = 0 THEN rows ELSE Parents(e[k - 1])
    <2>2. ASSUME NEW k \in 0 .. n PROVE e[k] = f[k]
      OBVIOUS
    <2>3. e[n + 1] = Parents(f[n])
      OBVIOUS
    <2>4. e = [k \in 0 .. (n + 1) |-> e[k]]
      OBVIOUS
    <2> HIDE DEF e
    <2>5. ASSUME NEW k \in 0 .. (n + 1) PROVE e[k] = r(k)
      <3>1. CASE k = n + 1
        <4>1. k # 0 /\ k - 1 = n /\ n \in 0 .. n
          BY <3>1
        <4>2. e[n] = f[n]
          BY <2>2, <4>1
        <4>3. QED
          BY <2>3, <3>1, <4>1, <4>2
      <3>2. CASE k # n + 1
        <4>1. k \in 0 .. n /\ (k # 0 => k - 1 \in 0 .. n)
          BY <3>2
        <4>2. f[k] = IF k = 0 THEN rows ELSE Parents(f[k - 1])
          BY <2>1, <4>1
        <4>3. e[k] = f[k] /\ (k # 0 => e[k - 1] = f[k - 1])
          BY <2>2, <4>1
        <4>4. QED
          BY <4>2, <4>3
      <3>3. QED
        BY <3>1, <3>2
    <2>6. Is(n + 1, e)
      BY <2>4, <2>5
    <2> HIDE DEF Is
    <2>7. QED
      BY <2>6
  <1>3. top \in Nat
    BY HeightFound
  <1>4. top \in S
    <2> HIDE DEF S, top
    <2>1. QED
      BY <1>1, <1>2, <1>3, InductiveSet
  <1>5. level = CHOOSE f : Is(top, f)
    BY DEF Levels
  <1>6. Is(top, level)
    <2> HIDE DEF Is, level
    <2>1. QED
      BY <1>4, <1>5
  <1> HIDE DEF top, level
  <1>7. level[0] = rows
    BY <1>3, <1>6
  <1>8. ASSUME NEW k \in Nat, k < top PROVE level[k + 1] = Parents(level[k])
    <2>1. k + 1 \in 0 .. top /\ k + 1 # 0 /\ (k + 1) - 1 = k
      BY <1>3, <1>8
    <2>2. level[k + 1] = IF k + 1 = 0 THEN rows ELSE Parents(level[(k + 1) - 1])
      BY <1>6, <2>1
    <2>3. QED
      BY <2>1, <2>2
  <1>9. QED
    BY <1>7, <1>8 DEF top, level

\* Every level has the nodes that sizeAtLevel counts.
LEMMA LevelShape ==
  ASSUME NEW T, NEW rows \in Seq(T), Len(rows) # 0,
         NEW k \in Nat, k <= Height(Len(rows))
  PROVE  /\ \E U : Levels(rows)[k] \in Seq(U)
         /\ Len(Levels(rows)[k]) = sizeAtLevel(Len(rows), k)
  <1> DEFINE l == Len(rows)
             level == Levels(rows)
             top == Height(l)
             n(m) == sizeAtLevel(l, m)
             Shaped(m) == (\E U : level[m] \in Seq(U)) /\ Len(level[m]) = n(m)
             S == {m \in Nat : m <= top => Shaped(m)}
  <1>1. l \in Nat \ {0} /\ top \in Nat
    BY HeightFound
  <1>2. n(0) = l /\ \A m \in Nat : n(m + 1) = (n(m) + 1) \div 2
    BY <1>1, SizeStep
  <1>3. level[0] = rows /\ \A m \in Nat : m < top => level[m + 1] = Parents(level[m])
    BY <1>1, LevelsStep
  <1>4. Shaped(0)
    BY <1>2, <1>3
  <1> HIDE DEF level, top, n
  <1>5. ASSUME NEW m \in Nat, m < top, Shaped(m) PROVE Shaped(m + 1)
    <2>1. PICK U : level[m] \in Seq(U)
      BY <1>5
    <2>2. /\ \E V : Parents(level[m]) \in Seq(V)
          /\ Len(Parents(level[m])) = (Len(level[m]) + 1) \div 2
      BY <2>1, ParentsShape
    <2>3. level[m + 1] = Parents(level[m]) /\ n(m + 1) = (n(m) + 1) \div 2
      BY <1>2, <1>3, <1>5
    <2>4. QED
      BY <1>5, <2>2, <2>3
  <1> HIDE DEF Shaped
  <1>6. 0 \in S
    BY <1>4
  <1>7. ASSUME NEW m \in Nat, m \in S PROVE m + 1 \in S
    BY <1>1, <1>5, <1>7
  <1>8. k \in S
    <2> HIDE DEF S
    <2>1. QED
      BY <1>6, <1>7, InductiveSet
  <1>9. QED
    BY <1>8 DEF Shaped, level, top, n

\* From the ancestor of a leaf on one level the verifier's step leads to its
\* ancestor on the next.
LEMMA TreeClimbs ==
  ASSUME NEW T, NEW rows \in Seq(T), NEW i \in 0 .. (Len(rows) - 1),
         NEW k \in Nat, k < Height(Len(rows)), NEW a, a = Ancestor(i, k),
         NEW level, level = Levels(rows)
  PROVE  /\ level[k + 1][Ancestor(i, k + 1) + 1]
              = Climb(level[k][a + 1], Even(level[k])[Sibling(a) + 1], a)
         /\ Sibling(a) >= sizeAtLevel(Len(rows), k)
              => Even(level[k])[Sibling(a) + 1] = merklePadHash
  <1> DEFINE l == Len(rows)
  <1>1. l \in Nat \ {0} /\ i \in Nat /\ i < l /\ Len(rows) # 0
    OBVIOUS
  <1>2. a \in Nat /\ Ancestor(i, k + 1) = a \div 2
    BY <1>1, AncestorStep
  <1>3. a < sizeAtLevel(l, k)
    BY <1>1, AncestorBelow
  <1>4. Height(l) \in Nat
    BY <1>1, HeightFound
  <1>5. k <= Height(l)
    BY <1>4
  <1>6. (\E U : level[k] \in Seq(U)) /\ Len(level[k]) = sizeAtLevel(l, k)
    BY <1>1, <1>5, LevelShape
  <1>7. level[k + 1] = Parents(level[k])
    BY <1>1, LevelsStep
  <1>8. PICK U : level[k] \in Seq(U)
    BY <1>6
  <1>9. a \in 0 .. (Len(level[k]) - 1)
    BY <1>2, <1>3, <1>6, <1>8
  <1>10. /\ Parents(level[k])[(a \div 2) + 1] = Climb(level[k][a + 1], Even(level[k])[Sibling(a) + 1], a)
         /\ Sibling(a) >= Len(level[k]) => Even(level[k])[Sibling(a) + 1] = merklePadHash
    BY <1>8, <1>9, ParentClimbs
  <1>11. QED
    BY <1>2, <1>6, <1>7, <1>10

\* The root is the only node of the top level, and every leaf's ancestor there.
LEMMA TopIsRoot ==
  ASSUME NEW T, NEW rows \in Seq(T), NEW i \in 0 .. (Len(rows) - 1),
         NEW top, top = Height(Len(rows))
  PROVE  top \in Nat /\ MerkleRoot(rows) = Levels(rows)[top][Ancestor(i, top) + 1]
  <1> DEFINE l == Len(rows)
  <1>1. l \in Nat \ {0} /\ i \in Nat /\ i < l /\ rows # <<>>
    OBVIOUS
  <1>2. top \in Nat /\ sizeAtLevel(l, top) = 1
    BY <1>1, HeightFound
  <1>3. Ancestor(i, top) \in Nat /\ Ancestor(i, top) < 1
    BY <1>1, <1>2, AncestorStep, AncestorBelow
  <1>4. Ancestor(i, top) + 1 = 1
    BY <1>3
  <1>5. MerkleRoot(rows) = Levels(rows)[top][1]
    BY <1>1 DEF MerkleRoot
  <1>6. QED
    BY <1>2, <1>4, <1>5

\* The nodes that a verifier climbs through.
LEMMA ClimbedStep ==
  ASSUME NEW leaf, NEW path, NEW i, NEW l, Len(path) \in Nat,
         NEW cur, cur = Climbed(leaf, path, i, l)
  PROVE  /\ cur[0] = leaf
         /\ \A k \in Nat : k < Len(path) =>
              cur[k + 1] = Climb(cur[k], VerifiedSibling(path, i, l, k + 1), Ancestor(i, k))
  <1> DEFINE onward(k, c) == Climb(c, VerifiedSibling(path, i, l, k), Ancestor(i, k - 1))
             Is(n, f) == f = [k \in 0 .. n |-> IF k = 0 THEN leaf ELSE onward(k, f[k - 1])]
             S == {n \in Nat : \E f : Is(n, f)}
             top == Len(path)
  <1>1. cur = CHOOSE f : Is(top, f)
    BY DEF Climbed
  <1> HIDE DEF onward
  <1>2. 0 \in S
    <2> DEFINE f == [k \in 0 .. 0 |-> leaf]
    <2>1. \A k \in 0 .. 0 : k = 0
      OBVIOUS
    <2>2. f = [k \in 0 .. 0 |-> IF k = 0 THEN leaf ELSE onward(k, f[k - 1])]
      BY <2>1
    <2> HIDE DEF f
    <2>3. QED
      BY <2>2
  <1>3. ASSUME NEW n \in Nat, n \in S PROVE n + 1 \in S
    <2>1. PICK f : Is(n, f)
      BY <1>3
    <2> DEFINE e == [k \in 0 .. (n + 1) |-> IF k = n + 1 THEN onward(n + 1, f[n]) ELSE f[k]]
               r(k) == IF k = 0 THEN leaf ELSE onward(k, e[k - 1])
    <2>2. ASSUME NEW k \in 0 .. n PROVE e[k] = f[k]
      OBVIOUS
    <2>3. e[n + 1] = onward(n + 1, f[n])
      OBVIOUS
    <2>4. e = [k \in 0 .. (n + 1) |-> e[k]]
      OBVIOUS
    <2> HIDE DEF e
    <2>5. ASSUME NEW k \in 0 .. (n + 1) PROVE e[k] = r(k)
      <3>1. CASE k = n + 1
        <4>1. k # 0 /\ k - 1 = n /\ n \in 0 .. n
          BY <3>1
        <4>2. e[n] = f[n]
          BY <2>2, <4>1
        <4>3. QED
          BY <2>3, <3>1, <4>1, <4>2
      <3>2. CASE k # n + 1
        <4>1. k \in 0 .. n /\ (k # 0 => k - 1 \in 0 .. n)
          BY <3>2
        <4>2. f[k] = IF k = 0 THEN leaf ELSE onward(k, f[k - 1])
          BY <2>1, <4>1
        <4>3. e[k] = f[k] /\ (k # 0 => e[k - 1] = f[k - 1])
          BY <2>2, <4>1
        <4>4. QED
          BY <4>2, <4>3
      <3>3. QED
        BY <3>1, <3>2
    <2>6. Is(n + 1, e)
      BY <2>4, <2>5
    <2> HIDE DEF Is
    <2>7. QED
      BY <2>6
  <1>4. top \in S
    <2> HIDE DEF S, top
    <2>1. top \in Nat
      BY DEF top
    <2>2. QED
      BY <1>2, <1>3, <2>1, InductiveSet
  <1>5. Is(top, cur)
    <2> HIDE DEF Is
    <2>1. QED
      BY <1>1, <1>4
  <1>6. cur[0] = leaf
    BY <1>5
  <1>7. ASSUME NEW k \in Nat, k < top PROVE cur[k + 1] = onward(k + 1, cur[k])
    <2>1. k + 1 \in 0 .. top /\ k + 1 # 0 /\ (k + 1) - 1 = k
      BY <1>7
    <2>2. cur[k + 1] = IF k + 1 = 0 THEN leaf ELSE onward(k + 1, cur[(k + 1) - 1])
      BY <1>5, <2>1
    <2>3. QED
      BY <2>1, <2>2
  <1>8. \A k \in Nat : (k + 1) - 1 = k
    OBVIOUS
  <1>9. QED
    BY <1>6, <1>7, <1>8 DEF onward

\* A path has one node of every level below the root.
LEMMA PathShape ==
  ASSUME NEW T, NEW rows \in Seq(T), Len(rows) # 0, NEW i,
         NEW path, path = MerklePath(rows, i)
  PROVE  /\ Len(path) = Height(Len(rows)) /\ Height(Len(rows)) \in Nat
         /\ \A k \in Nat : k < Height(Len(rows)) =>
              path[k + 1] = Even(Levels(rows)[k])[Sibling(Ancestor(i, k)) + 1]
  <1> DEFINE top == Height(Len(rows))
             at(k) == Even(Levels(rows)[k - 1])[Sibling(Ancestor(i, k - 1)) + 1]
             U == {at(k) : k \in 1 .. top}
  <1>1. top \in Nat
    BY HeightFound
  <1>2. path = [k \in 1 .. top |-> at(k)]
    BY DEF MerklePath
  <1> HIDE DEF at, top
  <1>3. path \in [1 .. top -> U]
    BY <1>2
  <1>4. Len(path) = top
    BY <1>1, <1>3, SeqOfLength
  <1>5. ASSUME NEW k \in Nat, k < top
        PROVE  path[k + 1] = Even(Levels(rows)[k])[Sibling(Ancestor(i, k)) + 1]
    <2>1. k + 1 \in 1 .. top /\ (k + 1) - 1 = k
      BY <1>1, <1>5
    <2>2. path[k + 1] = at(k + 1)
      BY <1>2, <2>1
    <2>3. QED
      BY <2>1, <2>2 DEF at
  <1>6. QED
    BY <1>1, <1>4, <1>5 DEF top

\* MerklePath and VerifyMerklePath agree: the path of a leaf verifies, for
\* every number of leaves and every leaf.
LEMMA PathVerifies ==
  ASSUME NEW T, NEW rows \in Seq(T), NEW i \in 0 .. (Len(rows) - 1)
  PROVE  VerifyMerklePath(rows[i + 1], MerklePath(rows, i), i, Len(rows), MerkleRoot(rows))
  <1> DEFINE l == Len(rows)
             level == Levels(rows)
             top == Height(l)
             path == MerklePath(rows, i)
             cur == Climbed(rows[i + 1], path, i, l)
             node(k) == level[k][Ancestor(i, k) + 1]
             sib(k) == Even(level[k])[Sibling(Ancestor(i, k)) + 1]
             S == {k \in Nat : k <= top => cur[k] = node(k)}
  <1>1. l \in Nat \ {0} /\ i \in Nat /\ i < l /\ Len(rows) # 0
    OBVIOUS
  <1>2. Len(path) = top /\ top \in Nat /\ \A k \in Nat : k < top => path[k + 1] = sib(k)
    BY <1>1, PathShape
  <1>3. ASSUME NEW k \in Nat, k < top
        PROVE  /\ node(k + 1) = Climb(node(k), sib(k), Ancestor(i, k))
               /\ Sibling(Ancestor(i, k)) >= sizeAtLevel(l, k) => sib(k) = merklePadHash
    <2> DEFINE a == Ancestor(i, k)
    <2>1. k < Height(Len(rows)) /\ a = Ancestor(i, k) /\ level = Levels(rows)
      BY <1>3
    <2> HIDE DEF a, level
    <2>2. /\ level[k + 1][Ancestor(i, k + 1) + 1]
               = Climb(level[k][a + 1], Even(level[k])[Sibling(a) + 1], a)
          /\ Sibling(a) >= sizeAtLevel(Len(rows), k) => Even(level[k])[Sibling(a) + 1] = merklePadHash
      BY <2>1, TreeClimbs
    <2>3. QED
      BY <2>1, <2>2
  <1>4. /\ cur[0] = rows[i + 1]
        /\ \A k \in Nat : k < top =>
             cur[k + 1] = Climb(cur[k], VerifiedSibling(path, i, l, k + 1), Ancestor(i, k))
    <2> HIDE DEF path, top, l
    <2>1. Len(path) \in Nat
      BY <1>2
    <2>2. QED
      BY <1>2, <2>1, ClimbedStep
  <1>5. node(0) = rows[i + 1]
    BY <1>1, LevelsStep, AncestorStep
  <1>6. MerkleRoot(rows) = node(top)
    BY TopIsRoot
  <1> HIDE DEF path, cur, top, node, sib, level
  <1>7. ASSUME NEW k \in Nat, k < top PROVE VerifiedSibling(path, i, l, k + 1) = sib(k)
    <2>1. (k + 1) - 1 = k
      OBVIOUS
    <2>2. QED
      BY <1>2, <1>3, <1>7, <2>1 DEF VerifiedSibling
  <1>8. 0 \in S
    BY <1>4, <1>5
  <1>9. ASSUME NEW k \in Nat, k \in S PROVE k + 1 \in S
    <2> SUFFICES ASSUME k + 1 <= top PROVE cur[k + 1] = node(k + 1)
      OBVIOUS
    <2>1. k < top /\ k <= top
      BY <1>2
    <2>2. cur[k] = node(k)
      BY <1>9, <2>1
    <2>3. QED
      BY <1>3, <1>4, <1>7, <2>1, <2>2
  <1>10. top \in S
    <2> HIDE DEF S
    <2>1. QED
      BY <1>2, <1>8, <1>9, InductiveSet
  <1>11. cur[Len(path)] = MerkleRoot(rows)
    BY <1>2, <1>6, <1>10
  <1>12. QED
    BY <1>1, <1>11 DEF VerifyMerklePath, cur, path, l

\* A verifier binds: whatever path of the tree's height leads from a leaf, at
\* a rank, to the root, the leaf is the one of that rank.
LEMMA PathBinds ==
  ASSUME NEW T, NEW rows \in Seq(T), NEW j \in 0 .. (Len(rows) - 1),
         NEW path, Len(path) = Height(Len(rows)), NEW leaf,
         VerifyMerklePath(leaf, path, j, Len(rows), MerkleRoot(rows))
  PROVE  leaf = rows[j + 1]
  <1> DEFINE l == Len(rows)
             level == Levels(rows)
             top == Height(l)
             cur == Climbed(leaf, path, j, l)
             node(k) == level[k][Ancestor(j, k) + 1]
             sib(k) == Even(level[k])[Sibling(Ancestor(j, k)) + 1]
             S == {k \in Nat : k <= top => cur[top - k] = node(top - k)}
  <1>1. l \in Nat \ {0} /\ j \in Nat /\ j < l /\ Len(rows) # 0
    OBVIOUS
  <1>2. top \in Nat /\ MerkleRoot(rows) = node(top)
    BY TopIsRoot
  <1>3. ASSUME NEW k \in Nat, k < top
        PROVE  node(k + 1) = Climb(node(k), sib(k), Ancestor(j, k))
    <2> DEFINE a == Ancestor(j, k)
    <2>1. k < Height(Len(rows)) /\ a = Ancestor(j, k) /\ level = Levels(rows)
      BY <1>3
    <2> HIDE DEF a, level
    <2>2. level[k + 1][Ancestor(j, k + 1) + 1]
            = Climb(level[k][a + 1], Even(level[k])[Sibling(a) + 1], a)
      BY <2>1, TreeClimbs
    <2>3. QED
      BY <2>1, <2>2
  <1>4. /\ cur[0] = leaf
        /\ \A k \in Nat : k < top =>
             cur[k + 1] = Climb(cur[k], VerifiedSibling(path, j, l, k + 1), Ancestor(j, k))
    <2> HIDE DEF top, l
    <2>1. Len(path) \in Nat /\ Len(path) = top
      BY <1>2 DEF top, l
    <2>2. QED
      BY <2>1, ClimbedStep
  <1>5. node(0) = rows[j + 1]
    BY <1>1, LevelsStep, AncestorStep
  <1>6. cur[top] = node(top)
    BY <1>2 DEF VerifyMerklePath
  <1> HIDE DEF cur, top, node, sib, level
  <1>7. 0 \in S
    BY <1>2, <1>6
  <1>8. ASSUME NEW k \in Nat, k \in S PROVE k + 1 \in S
    <2> SUFFICES ASSUME k + 1 <= top PROVE cur[top - (k + 1)] = node(top - (k + 1))
      OBVIOUS
    <2> DEFINE m == top - (k + 1)
               v == VerifiedSibling(path, j, l, m + 1)
    <2>1. m \in Nat /\ m < top /\ m + 1 = top - k /\ k <= top
      BY <1>2
    <2>2. cur[m + 1] = node(m + 1)
      BY <1>8, <2>1
    <2> HIDE DEF m
    <2>3. Climb(cur[m], v, Ancestor(j, m)) = Climb(node(m), sib(m), Ancestor(j, m))
      BY <1>3, <1>4, <2>1, <2>2
    <2> HIDE DEF v
    <2>4. cur[m] = node(m)
      BY <2>3 DEF Climb, merkleNode
    <2>5. QED
      BY <2>4 DEF m
  <1>9. top \in S
    <2> HIDE DEF S
    <2>1. QED
      BY <1>2, <1>7, <1>8, InductiveSet
  <1>10. top - top = 0
    BY <1>2
  <1>11. QED
    BY <1>2, <1>4, <1>5, <1>9, <1>10

Below(ids, i) == {j \in ids : j < i}

Increasing(s) == \A i, j \in DOMAIN s : i < j => s[i] < s[j]

\* The rank of an id is its place: it grows with the id and stays below the
\* number of ids.
LEMMA RankGrows ==
  ASSUME NEW ids \in SUBSET Nat, IsFiniteSet(ids)
  PROVE  /\ \A i \in ids : Cardinality(Below(ids, i)) \in 0 .. (Cardinality(ids) - 1)
         /\ \A i, j \in ids : i < j => Cardinality(Below(ids, i)) < Cardinality(Below(ids, j))
  <1>1. ASSUME NEW i \in ids, NEW B \in SUBSET ids, Below(ids, i) \subseteq B, i \in B
        PROVE  /\ Cardinality(Below(ids, i)) \in Nat /\ Cardinality(B) \in Nat
               /\ Cardinality(Below(ids, i)) < Cardinality(B)
    <2>1. Below(ids, i) \in SUBSET ids /\ i \notin Below(ids, i) /\ Below(ids, i) \cup {i} \in SUBSET B
      BY <1>1 DEF Below
    <2>2. IsFiniteSet(Below(ids, i)) /\ IsFiniteSet(B)
      BY <2>1, FS_Subset
    <2>3. Cardinality(Below(ids, i)) \in Nat /\ Cardinality(B) \in Nat
      BY <2>2, FS_CardinalityType
    <2>4. Cardinality(Below(ids, i) \cup {i}) = Cardinality(Below(ids, i)) + 1
      BY <2>1, <2>2, FS_AddElement
    <2>5. Cardinality(Below(ids, i) \cup {i}) <= Cardinality(B)
      BY <2>1, <2>2, FS_Subset
    <2>6. QED
      BY <2>3, <2>4, <2>5
  <1>2. ASSUME NEW i \in ids
        PROVE  Cardinality(Below(ids, i)) \in 0 .. (Cardinality(ids) - 1)
    <2>1. Below(ids, i) \subseteq ids
      BY DEF Below
    <2>2. /\ Cardinality(Below(ids, i)) \in Nat /\ Cardinality(ids) \in Nat
          /\ Cardinality(Below(ids, i)) < Cardinality(ids)
      BY <1>1, <2>1
    <2>3. QED
      BY <2>2
  <1>3. ASSUME NEW i \in ids, NEW j \in ids, i < j
        PROVE  Cardinality(Below(ids, i)) < Cardinality(Below(ids, j))
    <2>1. i \in Below(ids, j) /\ Below(ids, j) \in SUBSET ids
      BY <1>3 DEF Below
    <2>2. ASSUME NEW x \in ids, x < i PROVE x < j
      <3>1. x \in Nat /\ i \in Nat /\ j \in Nat
        OBVIOUS
      <3>2. QED
        BY <1>3, <2>2, <3>1
    <2>3. Below(ids, i) \subseteq Below(ids, j)
      BY <2>2 DEF Below
    <2>4. QED
      BY <1>1, <2>1, <2>3
  <1>4. QED
    BY <1>2, <1>3

\* ORDER BY id returns every id once, in order, each at its rank.
LEMMA AscendingShape ==
  ASSUME NEW ids \in SUBSET Nat, IsFiniteSet(ids), NEW s, s = Ascending(ids)
  PROVE  /\ s \in Seq(ids) /\ Len(s) = Cardinality(ids)
         /\ \A i \in ids : /\ Cardinality(Below(ids, i)) + 1 \in DOMAIN s
                           /\ s[Cardinality(Below(ids, i)) + 1] = i
         /\ Increasing(s)
  <1> DEFINE n == Cardinality(ids)
             rank(i) == Cardinality(Below(ids, i))
             Z == 0 .. (n - 1)
             f == [i \in ids |-> rank(i)]
             at(k) == CHOOSE i \in ids : rank(i) = k - 1
  <1>1. n \in Nat
    BY FS_CardinalityType
  <1>2. (\A i \in ids : rank(i) \in Z) /\ (\A i, j \in ids : i < j => rank(i) < rank(j))
    BY RankGrows
  <1>3. s = [k \in 1 .. n |-> at(k)]
    BY DEF Ascending, Below
  <1> HIDE DEF rank
  <1>4. ASSUME NEW i \in ids, NEW j \in ids, rank(i) = rank(j) PROVE i = j
    <2>1. i \in Nat /\ j \in Nat /\ rank(i) \in Int /\ rank(j) \in Int
      BY <1>2
    <2>2. ~(i < j) /\ ~(j < i)
      BY <1>2, <1>4, <2>1
    <2>3. QED
      BY <2>1, <2>2
  <1>5. IsFiniteSet(Z) /\ Cardinality(Z) = n
    <2> HIDE DEF n
    <2>1. 0 \in Int /\ n - 1 \in Int /\ (IF 0 > n - 1 THEN 0 ELSE (n - 1) - 0 + 1) = n
      BY <1>1
    <2>2. QED
      BY <2>1, FS_Interval
  <1> HIDE DEF Z
  <1>6. f \in [ids -> Z] /\ \A i, j \in ids : f[i] = f[j] => i = j
    BY <1>2, <1>4
  <1>7. f \in Injection(ids, Z)
    BY <1>6 DEF Injection, IsInjective
  <1>8. f \in Surjection(ids, Z)
    <2> HIDE DEF f
    <2>1. QED
      BY <1>5, <1>7, FS_Injection
  <1>9. ASSUME NEW k \in 1 .. n PROVE at(k) \in ids /\ rank(at(k)) = k - 1
    <2>1. k - 1 \in Z
      BY <1>1 DEF Z
    <2>2. PICK i \in ids : f[i] = k - 1
      BY <1>8, <2>1 DEF Surjection
    <2>3. rank(i) = k - 1
      BY <2>2
    <2>4. QED
      BY <2>3
  <1> HIDE DEF at
  <1>10. s \in [1 .. n -> ids]
    BY <1>3, <1>9
  <1>11. s \in Seq(ids) /\ Len(s) = n /\ DOMAIN s = 1 .. n
    <2>1. s \in Seq(ids) /\ Len(s) = n
      BY <1>1, <1>10, SeqOfLength
    <2>2. QED
      BY <1>10, <2>1
  <1>12. ASSUME NEW i \in ids PROVE rank(i) + 1 \in DOMAIN s /\ s[rank(i) + 1] = i
    <2>1. rank(i) \in 0 .. (n - 1)
      BY <1>2 DEF Z
    <2>2. rank(i) + 1 \in 1 .. n /\ (rank(i) + 1) - 1 = rank(i)
      BY <1>1, <2>1
    <2>3. at(rank(i) + 1) \in ids /\ rank(at(rank(i) + 1)) = rank(i)
      BY <1>9, <2>2
    <2>4. at(rank(i) + 1) = i
      BY <1>4, <2>3
    <2>5. QED
      BY <1>3, <1>11, <2>2, <2>4
  <1>13. ASSUME NEW j \in 1 .. n, NEW k \in 1 .. n, j < k PROVE at(j) < at(k)
    <2>1. at(j) \in ids /\ at(k) \in ids /\ rank(at(j)) = j - 1 /\ rank(at(k)) = k - 1
      BY <1>9
    <2>2. at(j) \in Nat /\ at(k) \in Nat
      BY <2>1
    <2>3. ~(rank(at(k)) < rank(at(j))) /\ rank(at(j)) # rank(at(k))
      BY <1>1, <1>13, <2>1
    <2>4. ~(at(k) < at(j)) /\ at(j) # at(k)
      BY <1>2, <2>1, <2>3
    <2>5. QED
      BY <2>2, <2>4
  <1>14. Increasing(s)
    BY <1>3, <1>11, <1>13 DEF Increasing
  <1>15. QED
    BY <1>11, <1>12, <1>14 DEF rank

\* In an increasing sequence a member has as many smaller ones as places
\* before it.
LEMMA PlaceIsRank ==
  ASSUME NEW s \in Seq(Nat), Increasing(s),
         NEW ids \in SUBSET Nat, NEW k \in 1 .. (Len(s) + 1),
         \A x : x \in ids <=> \E m \in 1 .. (k - 1) : x = s[m]
  PROVE  IsFiniteSet(ids) /\ Cardinality(ids) = k - 1
  <1> DEFINE f == [m \in 1 .. (k - 1) |-> s[m]]
             D == 1 .. (k - 1)
  <1>1. Len(s) \in Nat /\ k - 1 \in Nat /\ DOMAIN s = 1 .. Len(s)
    OBVIOUS
  <1>2. \A m \in D : m \in DOMAIN s /\ m \in Nat /\ s[m] \in Nat
    BY <1>1
  <1>3. f \in [D -> ids]
    OBVIOUS
  <1>4. ASSUME NEW i \in D, NEW j \in D, s[i] = s[j] PROVE i = j
    <2>1. ~(i < j) /\ ~(j < i)
      BY <1>2, <1>4 DEF Increasing
    <2>2. QED
      BY <1>2, <2>1
  <1>5. f \in Injection(D, ids)
    BY <1>3, <1>4 DEF Injection, IsInjective
  <1>6. f \in Surjection(D, ids)
    BY <1>3 DEF Surjection
  <1>7. IsFiniteSet(D) /\ Cardinality(D) = k - 1
    <2>1. 1 \in Int /\ k - 1 \in Int /\ (IF 1 > k - 1 THEN 0 ELSE (k - 1) - 1 + 1) = k - 1
      BY <1>1
    <2>2. QED
      BY <2>1, FS_Interval
  <1> HIDE DEF f, D
  <1>8. IsFiniteSet(ids) /\ Cardinality(ids) = Cardinality(D)
    BY <1>5, <1>6, <1>7, FS_Surjection
  <1>9. QED
    BY <1>7, <1>8

\* The same in the set of all its members: what is below the member at a place.
LEMMA RankAtPlace ==
  ASSUME NEW s \in Seq(Nat), Increasing(s), NEW ids \in SUBSET Nat, NEW k \in 1 .. Len(s),
         \A m \in 1 .. Len(s) : s[m] < s[k] => s[m] \in ids,
         \A x \in ids : x < s[k] => \E m \in 1 .. Len(s) : x = s[m]
  PROVE  Cardinality(Below(ids, s[k])) = k - 1
  <1> DEFINE B == Below(ids, s[k])
  <1>1. Len(s) \in Nat /\ DOMAIN s = 1 .. Len(s) /\ k \in 1 .. (Len(s) + 1) /\ s[k] \in Nat
    OBVIOUS
  <1>2. ASSUME NEW x \in B PROVE \E m \in 1 .. (k - 1) : x = s[m]
    <2>1. PICK m \in 1 .. Len(s) : x = s[m]
      BY DEF Below
    <2>2. s[m] < s[k] /\ s[m] \in Nat
      BY <2>1 DEF Below
    <2>3. k # m
      BY <1>1, <2>2
    <2>4. k < m => s[k] < s[m]
      BY <1>1 DEF Increasing
    <2>5. m \in 1 .. (k - 1)
      BY <1>1, <2>2, <2>3, <2>4
    <2>6. QED
      BY <2>1, <2>5
  <1>3. ASSUME NEW m \in 1 .. (k - 1) PROVE s[m] \in B
    <2>1. m \in 1 .. Len(s) /\ m < k
      BY <1>1
    <2>2. s[m] < s[k]
      BY <1>1, <2>1 DEF Increasing
    <2>3. QED
      BY <2>1, <2>2 DEF Below
  <1>4. B \in SUBSET Nat
    BY DEF Below
  <1> HIDE DEF B
  <1>5. \A x : x \in B <=> \E m \in 1 .. (k - 1) : x = s[m]
    BY <1>2, <1>3
  <1>6. Cardinality(B) = k - 1
    BY <1>1, <1>4, <1>5, PlaceIsRank
  <1>7. QED
    BY <1>6 DEF B

\* There is one way to list ids in order.
LEMMA AscendingUnique ==
  ASSUME NEW s \in Seq(Nat), Increasing(s), NEW ids \in SUBSET Nat,
         \A x : x \in ids <=> \E m \in 1 .. Len(s) : x = s[m]
  PROVE  s = Ascending(ids)
  <1> DEFINE a == Ascending(ids)
  <1>1. Len(s) \in Nat /\ Len(s) + 1 \in 1 .. (Len(s) + 1) /\ (Len(s) + 1) - 1 = Len(s)
    OBVIOUS
  <1>2. IsFiniteSet(ids) /\ Cardinality(ids) = Len(s)
    <2>1. PICK n \in 1 .. (Len(s) + 1) : n = Len(s) + 1
      BY <1>1
    <2>2. n - 1 = Len(s)
      BY <1>1, <2>1
    <2>3. \A x : x \in ids <=> \E m \in 1 .. (n - 1) : x = s[m]
      BY <2>2
    <2>4. IsFiniteSet(ids) /\ Cardinality(ids) = n - 1
      BY <2>3, PlaceIsRank
    <2>5. QED
      BY <2>2, <2>4
  <1>3. /\ a \in Seq(ids) /\ Len(a) = Len(s)
        /\ \A i \in ids : a[Cardinality(Below(ids, i)) + 1] = i
    BY <1>2, AscendingShape
  <1>4. ASSUME NEW k \in 1 .. Len(s) PROVE a[k] = s[k]
    <2>1. Cardinality(Below(ids, s[k])) = k - 1
      BY RankAtPlace
    <2>2. s[k] \in ids /\ (k - 1) + 1 = k
      OBVIOUS
    <2>3. QED
      BY <1>3, <2>1, <2>2
  <1> HIDE DEF a
  <1>5. s = a
    <2>1. s = [k \in 1 .. Len(s) |-> s[k]] /\ a = [k \in 1 .. Len(s) |-> a[k]]
      BY <1>3
    <2>2. QED
      BY <1>4, <2>1
  <1>6. QED
    BY <1>5 DEF a

\* A page continues where the last one ended, in order, and leaves out nothing
\* up to its own end: nothing at all when it is short.
LEMMA NextPage ==
  ASSUME committed \in SUBSET Nat, IsFiniteSet(committed), NEW after \in Nat,
         NEW page, page = LedgerLeafPage(after)
  PROVE  /\ page \in Seq(Nat) /\ Increasing(page)
         /\ \A k \in 1 .. Len(page) : page[k] \in committed /\ page[k] > after
         /\ \A i \in committed :
              i > after /\ (Len(page) = PageLimit => i <= page[Len(page)])
                => \E k \in 1 .. Len(page) : page[k] = i
  <1> DEFINE ids == {i \in committed : i > after}
             rest == Ascending(ids)
             n == IF Len(rest) < PageLimit THEN Len(rest) ELSE PageLimit
  <1>1. ids \in SUBSET committed /\ ids \in SUBSET Nat
    OBVIOUS
  <1>2. IsFiniteSet(ids)
    <2> HIDE DEF ids
    <2>1. QED
      BY <1>1, FS_Subset
  <1>3. /\ rest \in Seq(ids) /\ Increasing(rest)
        /\ \A i \in ids : \E m \in DOMAIN rest : rest[m] = i
    <2> HIDE DEF ids
    <2>1. QED
      BY <1>1, <1>2, AscendingShape
  <1>4. page = SubSeq(rest, 1, n)
    BY DEF LedgerLeafPage
  <1>5. \A i : i \in ids => i \in committed /\ i \in Nat /\ i > after
    OBVIOUS
  <1>6. \A i \in committed : i > after => i \in ids
    OBVIOUS
  <1> HIDE DEF ids, rest
  <1>7. n \in 0 .. Len(rest) /\ Len(rest) \in Nat /\ DOMAIN rest = 1 .. Len(rest)
        /\ (n < Len(rest) => n = PageLimit) /\ n \in Nat
    BY <1>3, MerkleAssumption
  <1> HIDE DEF n
  <1>8. page \in Seq(ids) /\ Len(page) = n /\ \A k \in 1 .. n : page[k] = rest[k]
    BY <1>3, <1>4, <1>7
  <1>9. ASSUME NEW k \in 1 .. Len(page) PROVE page[k] \in committed /\ page[k] \in Nat /\ page[k] > after
    <2>1. page[k] \in ids
      BY <1>8
    <2>2. QED
      BY <1>5, <2>1
  <1>10. page \in Seq(Nat)
    <2>1. page \in [1 .. n -> Nat]
      BY <1>8, <1>9
    <2>2. QED
      BY <1>7, <2>1, SeqOfLength
  <1>11. Increasing(page)
    <2>1. DOMAIN page = 1 .. n
      BY <1>8
    <2>2. \A k \in 1 .. n : k \in DOMAIN rest
      BY <1>7
    <2>3. QED
      BY <1>3, <1>8, <2>1, <2>2 DEF Increasing
  <1>12. ASSUME NEW i \in committed, i > after, Len(page) = PageLimit => i <= page[Len(page)]
         PROVE  \E k \in 1 .. Len(page) : page[k] = i
    <2>1. PICK m \in DOMAIN rest : rest[m] = i
      BY <1>3, <1>6, <1>12
    <2>2. m \in 1 .. Len(rest)
      BY <1>7
    <2>3. CASE m <= n
      <3>1. m \in 1 .. n
        BY <1>7, <2>2, <2>3
      <3>2. QED
        BY <1>8, <2>1, <3>1
    <2>4. CASE ~(m <= n)
      <3>1. n = PageLimit /\ n < m /\ n \in 1 .. Len(rest)
        BY <1>7, <2>2, <2>4, MerkleAssumption
      <3>2. rest[n] < rest[m] /\ n \in 1 .. n
        BY <1>3, <1>7, <3>1 DEF Increasing
      <3>3. i <= page[n] /\ page[n] = rest[n]
        BY <1>8, <1>12, <3>1, <3>2
      <3>4. rest[n] \in Nat /\ i \in Nat
        BY <1>3, <1>5, <1>7, <2>1, <3>1
      <3>5. QED
        BY <2>1, <3>2, <3>3, <3>4
    <2>5. QED
      BY <2>3, <2>4
  <1>13. QED
    BY <1>9, <1>10, <1>11, <1>12

\* The rows read so far and the next page, one after the other.
LEMMA Joined ==
  ASSUME NEW s \in Seq(Nat), NEW p \in Seq(Nat), NEW e, e = s \o p
  PROVE  /\ e \in Seq(Nat) /\ Len(e) = Len(s) + Len(p)
         /\ \A k \in 1 .. Len(s) : k \in 1 .. Len(e) /\ e[k] = s[k]
         /\ \A k \in 1 .. Len(p) : Len(s) + k \in 1 .. Len(e) /\ e[Len(s) + k] = p[k]
         /\ \A k \in 1 .. Len(e) :
              \/ k \in 1 .. Len(s)
              \/ k - Len(s) \in 1 .. Len(p) /\ e[k] = p[k - Len(s)]
  <1>1. e \in Seq(Nat) /\ Len(e) = Len(s) + Len(p) /\ Len(s) \in Nat /\ Len(p) \in Nat
    OBVIOUS
  <1>2. ASSUME NEW k \in 1 .. Len(s) PROVE k \in 1 .. Len(e) /\ e[k] = s[k]
    <2>1. e[k] = s[k]
      OBVIOUS
    <2>2. QED
      BY <1>1, <2>1
  <1>3. ASSUME NEW k \in 1 .. Len(p) PROVE Len(s) + k \in 1 .. Len(e) /\ e[Len(s) + k] = p[k]
    <2>1. e[Len(s) + k] = p[k]
      OBVIOUS
    <2>2. QED
      BY <1>1, <2>1
  <1>4. ASSUME NEW k \in 1 .. Len(e), k \notin 1 .. Len(s)
        PROVE  k - Len(s) \in 1 .. Len(p) /\ e[k] = p[k - Len(s)]
    <2>1. k - Len(s) \in 1 .. Len(p) /\ Len(s) + (k - Len(s)) = k
      BY <1>1, <1>4
    <2>2. QED
      BY <1>3, <2>1
  <1>5. QED
    BY <1>1, <1>2, <1>3, <1>4

\* Joined in order, when the page begins where the rows end.
LEMMA JoinedIncreasing ==
  ASSUME NEW s \in Seq(Nat), NEW p \in Seq(Nat), NEW e \in Seq(Nat), NEW after \in Nat,
         Increasing(s), Increasing(p),
         \A k \in 1 .. Len(s) : s[k] <= after, \A k \in 1 .. Len(p) : p[k] > after,
         \A k \in 1 .. Len(s) : e[k] = s[k],
         \A k \in 1 .. Len(e) :
           \/ k \in 1 .. Len(s)
           \/ k - Len(s) \in 1 .. Len(p) /\ e[k] = p[k - Len(s)]
  PROVE  Increasing(e)
  <1>1. /\ \A k \in 1 .. Len(s) : e[k] = s[k]
        /\ \A k \in 1 .. Len(e) :
             \/ k \in 1 .. Len(s)
             \/ k - Len(s) \in 1 .. Len(p) /\ e[k] = p[k - Len(s)]
    OBVIOUS
  <1>2. Len(s) \in Nat /\ DOMAIN s = 1 .. Len(s) /\ DOMAIN p = 1 .. Len(p) /\ DOMAIN e = 1 .. Len(e)
    BY <1>1
  <1>3. ASSUME NEW i \in 1 .. Len(e), NEW j \in 1 .. Len(e), i < j PROVE e[i] < e[j]
    <2>1. CASE i \in 1 .. Len(s) /\ j \in 1 .. Len(s)
      BY <1>1, <1>2, <1>3, <2>1 DEF Increasing
    <2>2. CASE i \notin 1 .. Len(s) /\ j \notin 1 .. Len(s)
      <3>1. i - Len(s) < j - Len(s)
        BY <1>2, <1>3
      <3>2. QED
        BY <1>1, <1>2, <2>2, <3>1 DEF Increasing
    <2>3. CASE i \in 1 .. Len(s) /\ j \notin 1 .. Len(s)
      <3>1. e[i] = s[i] /\ e[j] = p[j - Len(s)] /\ j - Len(s) \in 1 .. Len(p)
        BY <1>1, <2>3
      <3>2. e[i] <= after
        BY <2>3, <3>1
      <3>3. e[j] > after
        BY <3>1
      <3>4. e[i] \in Nat /\ e[j] \in Nat
        BY <1>1
      <3>5. QED
        BY <3>2, <3>3, <3>4
    <2>4. CASE i \notin 1 .. Len(s) /\ j \in 1 .. Len(s)
      BY <1>2, <1>3, <2>4
    <2>5. QED
      BY <2>1, <2>2, <2>3, <2>4
  <1>4. QED
    BY <1>2, <1>3 DEF Increasing

Readers ==
  [step : {"exists", "page", "index", "answered"}, row : Nat, index : Nat, after : Nat,
   read : Seq(Nat), answer : Int, below : BOOLEAN, behind : BOOLEAN]

MerkleTypes ==
  /\ drawn \subseteq LedgerIds /\ committed \subseteq LedgerIds /\ drawn \cap committed = {}
  /\ IsFiniteSet(committed)
  /\ reader # NoReader => reader \in Readers

\* What was read is in order, once each, and of the ledger.
ReadInOrder ==
  reader # NoReader =>
    /\ Increasing(reader.read)
    /\ \A k \in 1 .. Len(reader.read) :
         reader.read[k] \in committed /\ reader.read[k] <= reader.after
    /\ reader.after = 0 \/ reader.after \in committed

\* Nothing is missing before the end of the last page; below the row that is
\* asked for, not even when rows committed behind a page.
ReadWhole ==
  reader # NoReader =>
    \A i \in committed :
      /\ i <= reader.after
      /\ ~reader.behind \/ (reader.step # "answered" /\ i <= reader.row /\ ~reader.below)
      => \E k \in 1 .. Len(reader.read) : reader.read[k] = i

\* Nothing is read before the row was found, and the row is before the end of
\* what was read.
RowFound ==
  reader # NoReader =>
    /\ reader.step = "exists" => reader.after = 0
    /\ reader.step \in {"page", "index"} /\ reader.row # 0 => reader.row \in committed
    /\ reader.step = "index" => reader.row # 0 /\ reader.row <= reader.after

\* The rank that was counted first stays the rank until the answer.
RankStands ==
  reader # NoReader /\ reader.row # 0 /\ ~reader.below =>
    IF reader.step = "answered"
      THEN /\ reader.index + 1 \in 1 .. Len(reader.read)
           /\ reader.read[reader.index + 1] = reader.row
           /\ reader.answer = reader.index
      ELSE reader.index = LedgerLeafIndex(reader.row)

ReadsInv == MerkleTypes /\ ReadInOrder /\ ReadWhole /\ RowFound /\ RankStands

\* Nothing is read yet.
LEMMA ReadsStart == MerkleInit => ReadsInv
  BY FS_EmptySet DEF MerkleInit, ReadsInv, MerkleTypes, ReadInOrder, ReadWhole, RowFound, RankStands

\* An id that is taken is not visible.
LEMMA DrawKeeps == ASSUME ReadsInv, DrawId PROVE ReadsInv'
  <1>1. UNCHANGED <<committed, reader>>
    BY DEF DrawId
  <1>2. PICK id \in LedgerIds : id \notin drawn \cup committed /\ drawn' = drawn \cup {id}
    BY DEF DrawId
  <1>3. MerkleTypes'
    BY <1>1, <1>2 DEF ReadsInv, MerkleTypes
  <1>4. ReadInOrder' /\ ReadWhole' /\ RowFound'
    BY <1>1 DEF ReadsInv, ReadInOrder, ReadWhole, RowFound
  <1>5. RankStands'
    BY <1>1 DEF ReadsInv, RankStands, LedgerLeafIndex
  <1>6. QED
    BY <1>3, <1>4, <1>5 DEF ReadsInv

\* The row that becomes visible is another one than those that were: below the
\* last page or below the row asked for it is recorded, and elsewhere it changes
\* neither the coverage nor the rank.
LEMMA VisibleKeeps == ASSUME ReadsInv, NEW id \in LedgerIds, CommitRow(id) PROVE ReadsInv'
  <1>1. id \in drawn /\ id \notin committed /\ id \in Nat \ {0}
    BY MerkleAssumption DEF CommitRow, ReadsInv, MerkleTypes
  <1>2. drawn' = drawn \ {id} /\ committed' = committed \cup {id}
    BY DEF CommitRow
  <1>3. IsFiniteSet(committed')
    BY <1>2, FS_AddElement DEF ReadsInv, MerkleTypes
  <1>4. CASE reader = NoReader
    <2>1. reader' = NoReader
      BY <1>4 DEF CommitRow
    <2>2. QED
      BY <1>1, <1>2, <1>3, <2>1
      DEF ReadsInv, MerkleTypes, ReadInOrder, ReadWhole, RowFound, RankStands
  <1>5. CASE reader # NoReader
    <2> DEFINE R == reader
               low == id < R.row /\ R.step # "answered"
    <2>1. R \in Readers
      BY <1>5 DEF ReadsInv, MerkleTypes
    <2>2. reader' = [reader EXCEPT !.below = @ \/ low, !.behind = @ \/ id < reader.after]
      BY <1>5 DEF CommitRow
    <2>3. /\ reader' \in Readers /\ reader'.step = R.step /\ reader'.row = R.row
          /\ reader'.index = R.index /\ reader'.after = R.after /\ reader'.read = R.read
          /\ reader'.answer = R.answer
      BY <2>1, <2>2 DEF Readers
    <2>4. reader'.below = (R.below \/ low) /\ reader'.behind = (R.behind \/ id < R.after)
      BY <2>1, <2>2 DEF Readers
    <2>5. R.row \in Nat /\ R.after \in Nat /\ R.index \in Nat
      BY <2>1 DEF Readers
    <2>6. MerkleTypes'
      BY <1>1, <1>2, <1>3, <2>3 DEF ReadsInv, MerkleTypes
    <2>7. ReadInOrder'
      BY <1>2, <1>5, <2>3 DEF ReadsInv, ReadInOrder
    <2>8. R.after # id
      BY <1>1, <1>5 DEF ReadsInv, ReadInOrder
    <2>9. RowFound'
      BY <1>2, <1>5, <2>3 DEF ReadsInv, RowFound
    <2>10. ReadWhole'
      <3> SUFFICES ASSUME NEW i \in committed', i <= R.after,
                          \/ ~reader'.behind
                          \/ R.step # "answered" /\ i <= R.row /\ ~reader'.below
                   PROVE  \E k \in 1 .. Len(R.read) : R.read[k] = i
        BY <2>3 DEF ReadWhole
      <3>1. i # id
        <4> SUFFICES ASSUME i = id PROVE FALSE
          OBVIOUS
        <4>1. id < R.after
          BY <1>1, <2>5, <2>8
        <4>2. R.step # "answered" /\ id <= R.row /\ ~low
          BY <2>4, <4>1
        <4>3. id = R.row
          BY <1>1, <2>5, <4>2
        <4>4. R.step = "exists"
          BY <1>1, <1>5, <2>1, <4>2, <4>3 DEF ReadsInv, RowFound, Readers
        <4>5. R.after = 0
          BY <1>5, <4>4 DEF ReadsInv, RowFound
        <4>6. QED
          BY <1>1, <4>1, <4>5
      <3>2. i \in committed
        BY <1>2, <3>1
      <3>3. ~R.behind \/ (R.step # "answered" /\ i <= R.row /\ ~R.below)
        BY <2>4
      <3>4. QED
        BY <1>5, <3>2, <3>3 DEF ReadsInv, ReadWhole
    <2>11. RankStands'
      <3> SUFFICES ASSUME R.row # 0, ~reader'.below
                   PROVE  IF R.step = "answered"
                            THEN /\ R.index + 1 \in 1 .. Len(R.read)
                                 /\ R.read[R.index + 1] = R.row
                                 /\ R.answer = R.index
                            ELSE R.index = LedgerLeafIndex(R.row)'
        BY <2>3 DEF RankStands, LedgerLeafIndex
      <3>1. ~R.below /\ ~low
        BY <2>4
      <3>2. CASE R.step = "answered"
        BY <1>5, <3>1, <3>2 DEF ReadsInv, RankStands
      <3>3. CASE R.step # "answered"
        <4>1. ~(id < R.row)
          BY <3>1, <3>3
        <4>2. {i \in committed' : i < R.row} = {i \in committed : i < R.row}
          BY <1>2, <4>1
        <4>3. LedgerLeafIndex(R.row)' = LedgerLeafIndex(R.row)
          BY <2>3, <4>2 DEF LedgerLeafIndex
        <4>4. QED
          BY <1>5, <3>1, <3>3, <4>3 DEF ReadsInv, RankStands
      <3>4. QED
        BY <3>2, <3>3
    <2>12. QED
      BY <2>6, <2>7, <2>9, <2>10, <2>11 DEF ReadsInv
  <1>6. QED
    BY <1>4, <1>5

\* A request starts with nothing read and, for a proof, with the rank.
LEMMA RequestKeeps ==
  ASSUME ReadsInv, UNCHANGED <<drawn, committed>>, NEW step, NEW row \in Nat, NEW index,
         reader' = Request(step, row, index),
         \/ step = "page" /\ row = 0 /\ index = 0
         \/ step = "exists" /\ index = LedgerLeafIndex(row)
  PROVE  ReadsInv'
  <1>1. committed \in SUBSET Nat /\ IsFiniteSet(committed)
    BY MerkleAssumption DEF ReadsInv, MerkleTypes
  <1>2. LedgerLeafIndex(row) \in Nat
    <2> DEFINE B == {i \in committed : i < row}
    <2>1. B \in SUBSET committed
      OBVIOUS
    <2> HIDE DEF B
    <2>2. Cardinality(B) \in Nat
      BY <1>1, <2>1, FS_Subset, FS_CardinalityType
    <2>3. QED
      BY <2>2 DEF B, LedgerLeafIndex
  <1>3. step \in {"exists", "page", "index", "answered"} /\ index \in Nat /\ step # "index"
        /\ step # "answered" /\ (step = "page" => row = 0)
    BY <1>2
  <1>4. /\ reader' \in Readers /\ reader'.step = step /\ reader'.row = row
        /\ reader'.index = index /\ reader'.after = 0 /\ reader'.read = <<>>
    BY <1>3 DEF Readers, Request
  <1>5. MerkleTypes'
    BY <1>4 DEF ReadsInv, MerkleTypes
  <1>6. ReadInOrder'
    BY <1>4 DEF ReadInOrder, Increasing
  <1>7. ReadWhole'
    <2>1. \A i \in committed : ~(i <= 0)
      BY MerkleAssumption DEF ReadsInv, MerkleTypes
    <2>2. QED
      BY <1>4, <2>1 DEF ReadWhole
  <1>8. RowFound'
    BY <1>3, <1>4 DEF RowFound
  <1>9. row # 0 => index = LedgerLeafIndex(row)'
    BY DEF LedgerLeafIndex
  <1>10. RankStands'
    BY <1>3, <1>4, <1>9 DEF RankStands, LedgerLeafIndex
  <1>11. QED
    BY <1>5, <1>6, <1>7, <1>8, <1>10 DEF ReadsInv

\* The row is there, or there is no request any more.
LEMMA ExistsKeeps == ASSUME ReadsInv, RowExists PROVE ReadsInv'
  <1>1. UNCHANGED <<drawn, committed>> /\ reader.step = "exists"
    BY DEF RowExists
  <1>2. reader # NoReader
    BY <1>1 DEF NoReader
  <1>3. reader \in Readers
    BY <1>2 DEF ReadsInv, MerkleTypes
  <1>4. CASE reader.row \in committed
    <2>1. reader' = [reader EXCEPT !.step = "page"]
      BY <1>4 DEF RowExists
    <2>2. /\ reader' \in Readers /\ reader'.step = "page" /\ reader'.row = reader.row
          /\ reader'.index = reader.index /\ reader'.after = reader.after
          /\ reader'.read = reader.read
      BY <1>3, <2>1 DEF Readers
    <2>3. reader'.below = reader.below /\ reader'.behind = reader.behind
      BY <1>3, <2>1 DEF Readers
    <2>4. MerkleTypes'
      BY <1>1, <2>2 DEF ReadsInv, MerkleTypes
    <2>5. ReadInOrder'
      BY <1>1, <1>2, <2>2 DEF ReadsInv, ReadInOrder
    <2>6. ReadWhole'
      BY <1>1, <1>2, <2>2, <2>3 DEF ReadsInv, ReadWhole
    <2>7. RowFound'
      BY <1>1, <1>4, <2>2 DEF RowFound
    <2>8. RankStands'
      BY <1>1, <1>2, <2>2, <2>3 DEF ReadsInv, RankStands, LedgerLeafIndex
    <2>9. QED
      BY <2>4, <2>5, <2>6, <2>7, <2>8 DEF ReadsInv
  <1>5. CASE reader.row \notin committed
    <2>1. reader' = NoReader
      BY <1>5 DEF RowExists
    <2>2. QED
      BY <1>1, <2>1 DEF ReadsInv, MerkleTypes, ReadInOrder, ReadWhole, RowFound, RankStands
  <1>6. QED
    BY <1>4, <1>5

\* Between requests there is nothing to keep.
LEMMA EndKeeps == ASSUME ReadsInv, EndRead PROVE ReadsInv'
  <1>1. UNCHANGED <<drawn, committed>> /\ reader' = NoReader
    BY DEF EndRead
  <1>2. QED
    BY <1>1 DEF ReadsInv, MerkleTypes, ReadInOrder, ReadWhole, RowFound, RankStands

\* When the pages are read, everything up to the row is there: the row's place
\* is its rank, and both counts of it agree.
LEMMA AnswerKeeps == ASSUME ReadsInv, handleMerkleProof PROVE ReadsInv'
  <1> DEFINE R == reader
             s == reader.read
  <1>1. UNCHANGED <<drawn, committed>> /\ R.step = "index"
    BY DEF handleMerkleProof
  <1>2. R # NoReader
    BY <1>1 DEF NoReader
  <1>3. R \in Readers
    BY <1>2 DEF ReadsInv, MerkleTypes
  <1>4. committed \in SUBSET Nat /\ IsFiniteSet(committed)
    BY MerkleAssumption DEF ReadsInv, MerkleTypes
  <1>5. LedgerLeafIndex(R.row) \in Nat
    <2> DEFINE B == {i \in committed : i < R.row}
    <2>1. B \in SUBSET committed
      OBVIOUS
    <2> HIDE DEF B
    <2>2. Cardinality(B) \in Nat
      BY <1>4, <2>1, FS_Subset, FS_CardinalityType
    <2>3. QED
      BY <2>2 DEF B, LedgerLeafIndex
  <1>6. reader' = [reader EXCEPT !.step = "answered", !.answer = LedgerLeafIndex(R.row)]
    BY DEF handleMerkleProof
  <1>7. /\ reader' \in Readers /\ reader'.step = "answered" /\ reader'.row = R.row
        /\ reader'.index = R.index /\ reader'.after = R.after /\ reader'.read = s
        /\ reader'.answer = LedgerLeafIndex(R.row)
    <2>1. PICK n \in Nat : n = LedgerLeafIndex(R.row)
      BY <1>5
    <2>2. reader' = [reader EXCEPT !.step = "answered", !.answer = n]
      BY <1>6, <2>1
    <2>3. reader' \in Readers
      <3>1. n \in Int /\ [reader EXCEPT !.step = "answered"] \in Readers
        BY <1>3 DEF Readers
      <3>2. PICK r \in Readers : r = [reader EXCEPT !.step = "answered"]
        BY <3>1
      <3>3. reader' = [r EXCEPT !.answer = n]
        BY <2>2, <3>2
      <3>4. QED
        BY <3>1, <3>3 DEF Readers
    <2>4. /\ reader'.step = "answered" /\ reader'.row = R.row
          /\ reader'.index = R.index /\ reader'.after = R.after /\ reader'.read = s
          /\ reader'.answer = n
      BY <1>3, <2>2 DEF Readers
    <2>5. QED
      BY <2>1, <2>3, <2>4
  <1>8. reader'.below = R.below /\ reader'.behind = R.behind
    BY <1>3, <1>6 DEF Readers
  <1>9. MerkleTypes'
    BY <1>1, <1>7 DEF ReadsInv, MerkleTypes
  <1>10. ReadInOrder'
    BY <1>1, <1>2, <1>7 DEF ReadsInv, ReadInOrder
  <1>11. ReadWhole'
    BY <1>1, <1>2, <1>7, <1>8 DEF ReadsInv, ReadWhole
  <1>12. RowFound'
    BY <1>7 DEF RowFound
  <1>13. RankStands'
    <2> SUFFICES ASSUME R.row # 0, ~R.below
                 PROVE  /\ R.index + 1 \in 1 .. Len(s) /\ s[R.index + 1] = R.row
                        /\ LedgerLeafIndex(R.row) = R.index
      BY <1>7, <1>8 DEF RankStands
    <2>1. R.row \in committed /\ R.row <= R.after /\ R.row <= R.row
      <3>1. R.row \in committed /\ R.row <= R.after
        BY <1>1, <1>2 DEF ReadsInv, RowFound
      <3>2. R.row \in Nat
        BY <1>3 DEF Readers
      <3>3. QED
        BY <3>1, <3>2
    <2>2. ASSUME NEW i \in committed, i <= R.row PROVE \E k \in 1 .. Len(s) : s[k] = i
      <3>1. i \in Nat /\ R.row \in Nat /\ R.after \in Nat
        BY <1>3, <1>4 DEF Readers
      <3>2. i <= R.after
        BY <2>1, <2>2, <3>1
      <3>3. QED
        BY <1>1, <1>2, <2>2, <3>2 DEF ReadsInv, ReadWhole
    <2>3. PICK k \in 1 .. Len(s) : s[k] = R.row
      BY <2>1, <2>2
    <2>4. s \in Seq(Nat) /\ Increasing(s) /\ \A m \in 1 .. Len(s) : s[m] \in committed
      BY <1>2, <1>3 DEF Readers, ReadsInv, ReadInOrder
    <2>5. \A x \in committed : x < s[k] => \E m \in 1 .. Len(s) : x = s[m]
      <3> SUFFICES ASSUME NEW x \in committed, x < s[k] PROVE \E m \in 1 .. Len(s) : x = s[m]
        OBVIOUS
      <3>1. x \in Nat /\ R.row \in Nat
        BY <1>4, <2>1
      <3>2. x <= R.row
        BY <2>3, <3>1
      <3>3. QED
        BY <2>2, <3>2
    <2> HIDE DEF s
    <2>6. Cardinality(Below(committed, s[k])) = k - 1
      BY <1>4, <2>4, <2>5, RankAtPlace
    <2>7. LedgerLeafIndex(R.row) = k - 1
      BY <2>3, <2>6 DEF LedgerLeafIndex, Below
    <2>8. R.index = LedgerLeafIndex(R.row)
      BY <1>1, <1>2 DEF ReadsInv, RankStands
    <2>9. R.index + 1 = k
      BY <2>4, <2>7, <2>8
    <2>10. QED
      BY <2>3, <2>8, <2>9
  <1>14. QED
    BY <1>9, <1>10, <1>11, <1>12, <1>13 DEF ReadsInv

\* The next page joins what was read.
LEMMA PageKeeps == ASSUME ReadsInv, ReadPage PROVE ReadsInv'
  <1> DEFINE R == reader
             s == reader.read
             page == LedgerLeafPage(reader.after)
             e == s \o page
             end == IF page = <<>> THEN reader.after ELSE page[Len(page)]
             step == IF Len(page) = PageLimit THEN "page"
                     ELSE IF reader.row = 0 THEN "answered" ELSE "index"
  <1>1. UNCHANGED <<drawn, committed>> /\ R.step = "page"
    BY DEF ReadPage
  <1>2. R # NoReader
    BY <1>1 DEF NoReader
  <1>3. R \in Readers
    BY <1>2 DEF ReadsInv, MerkleTypes
  <1>4. committed \in SUBSET Nat /\ IsFiniteSet(committed) /\ \A i \in committed : i # 0
    BY MerkleAssumption DEF ReadsInv, MerkleTypes
  <1>5. R.after \in Nat /\ s \in Seq(Nat) /\ R.row \in Nat
    BY <1>3 DEF Readers
  <1>6. reader' = [reader EXCEPT !.read = e, !.after = end, !.step = step]
    BY DEF ReadPage
  <1>7. /\ page \in Seq(Nat) /\ Increasing(page)
        /\ \A k \in 1 .. Len(page) : page[k] \in committed /\ page[k] > R.after
        /\ \A i \in committed :
             i > R.after /\ (Len(page) = PageLimit => i <= page[Len(page)])
               => \E k \in 1 .. Len(page) : page[k] = i
    BY <1>4, <1>5, NextPage
  <1>8. /\ Increasing(s)
        /\ \A k \in 1 .. Len(s) : s[k] \in committed /\ s[k] <= R.after
        /\ R.after = 0 \/ R.after \in committed
    BY <1>2 DEF ReadsInv, ReadInOrder
  <1> HIDE DEF page
  <1>9. Len(page) \in Nat /\ (page = <<>> <=> Len(page) = 0) /\ Len(s) \in Nat
    BY <1>5, <1>7
  <1>10. /\ end \in Nat /\ R.after <= end /\ (end = R.after \/ end \in committed)
         /\ Len(page) # 0 => Len(page) \in 1 .. Len(page) /\ end = page[Len(page)]
         /\ Len(page) = 0 => end = R.after
    <2>1. CASE Len(page) = 0
      BY <1>5, <1>9, <2>1
    <2>2. CASE Len(page) # 0
      <3>1. Len(page) \in 1 .. Len(page)
        BY <1>9, <2>2
      <3>2. end = page[Len(page)]
        BY <1>9, <2>2
      <3>3. page[Len(page)] \in committed /\ page[Len(page)] > R.after
        BY <1>7, <3>1
      <3>4. page[Len(page)] \in Nat
        BY <1>4, <3>3
      <3> HIDE DEF end
      <3>5. R.after <= end
        BY <1>5, <3>2, <3>3, <3>4
      <3>6. QED
        BY <2>2, <3>1, <3>2, <3>3, <3>4, <3>5
    <2>3. QED
      BY <2>1, <2>2
  <1>11. step \in {"page", "index", "answered"}
    OBVIOUS
  <1>12. /\ e \in Seq(Nat)
         /\ \A k \in 1 .. Len(s) : k \in 1 .. Len(e) /\ e[k] = s[k]
         /\ \A k \in 1 .. Len(page) : Len(s) + k \in 1 .. Len(e) /\ e[Len(s) + k] = page[k]
         /\ \A k \in 1 .. Len(e) :
              \/ k \in 1 .. Len(s)
              \/ k - Len(s) \in 1 .. Len(page) /\ e[k] = page[k - Len(s)]
    BY <1>5, <1>7, Joined
  <1>13. Increasing(e)
    <2>1. /\ \A k \in 1 .. Len(s) : e[k] = s[k]
          /\ \A k \in 1 .. Len(e) :
               \/ k \in 1 .. Len(s)
               \/ k - Len(s) \in 1 .. Len(page) /\ e[k] = page[k - Len(s)]
      BY <1>12
    <2>2. (\A k \in 1 .. Len(s) : s[k] <= R.after) /\ (\A k \in 1 .. Len(page) : page[k] > R.after)
      BY <1>7, <1>8
    <2>3. s \in Seq(Nat) /\ page \in Seq(Nat) /\ e \in Seq(Nat) /\ Increasing(s) /\ Increasing(page)
      BY <1>5, <1>7, <1>8, <1>12
    <2>4. PICK after \in Nat : after = R.after
      BY <1>5
    <2> HIDE DEF e, s, R
    <2>5. QED
      BY <2>1, <2>2, <2>3, <2>4, JoinedIncreasing
  <1> HIDE DEF e, end, step
  <1>14. /\ reader' \in Readers /\ reader'.step = step /\ reader'.row = R.row
         /\ reader'.index = R.index /\ reader'.after = end /\ reader'.read = e
         /\ reader'.below = R.below /\ reader'.behind = R.behind
    <2>1. reader' \in Readers
      BY <1>3, <1>6, <1>10, <1>11, <1>12 DEF Readers
    <2>2. QED
      BY <1>3, <1>6, <2>1 DEF Readers
  <1>15. MerkleTypes'
    BY <1>1, <1>14 DEF ReadsInv, MerkleTypes
  <1>16. ASSUME NEW k \in 1 .. Len(page) PROVE page[k] <= end
    <2>1. Len(page) # 0 /\ k <= Len(page) /\ k \in Nat
      BY <1>9
    <2>2. end = page[Len(page)] /\ Len(page) \in 1 .. Len(page) /\ DOMAIN page = 1 .. Len(page)
      BY <1>7, <1>10, <2>1
    <2>3. page[k] \in Nat /\ page[Len(page)] \in Nat
      BY <1>4, <1>7, <2>2
    <2>4. k < Len(page) => page[k] < page[Len(page)]
      BY <1>7, <2>2 DEF Increasing
    <2>5. CASE k = Len(page)
      BY <2>2, <2>3, <2>5
    <2>6. CASE k # Len(page)
      <3>1. page[k] < page[Len(page)]
        BY <1>9, <2>1, <2>4, <2>6
      <3>2. page[k] <= page[Len(page)]
        BY <2>3, <3>1
      <3>3. QED
        BY <2>2, <3>2
    <2>7. QED
      BY <2>5, <2>6
  <1>17. ASSUME NEW k \in 1 .. Len(e) PROVE e[k] \in committed /\ e[k] <= end
    <2>1. CASE k \in 1 .. Len(s)
      <3>1. e[k] \in committed /\ e[k] <= R.after
        BY <1>8, <1>12, <2>1
      <3>2. e[k] \in Nat
        BY <1>4, <3>1
      <3>3. QED
        BY <1>5, <1>10, <3>1, <3>2
    <2>2. CASE k \notin 1 .. Len(s)
      BY <1>7, <1>12, <1>16, <2>2
    <2>3. QED
      BY <2>1, <2>2
  <1>18. ReadInOrder'
    <2>1. end = 0 \/ end \in committed
      BY <1>8, <1>10
    <2>2. QED
      BY <1>1, <1>13, <1>14, <1>17, <2>1 DEF ReadInOrder
  <1>19. ASSUME NEW i \in committed, i > R.after, Len(page) = PageLimit => i <= end
         PROVE  \E k \in 1 .. Len(e) : e[k] = i
    <2>1. Len(page) = PageLimit => i <= page[Len(page)]
      BY <1>10, <1>19, MerkleAssumption
    <2>2. PICK k \in 1 .. Len(page) : page[k] = i
      BY <1>7, <1>19, <2>1
    <2>3. QED
      BY <1>12, <2>2
  <1>20. ReadWhole'
    <2> SUFFICES ASSUME NEW i \in committed, i <= end,
                        ~R.behind \/ (step # "answered" /\ i <= R.row /\ ~R.below)
                 PROVE  \E k \in 1 .. Len(e) : e[k] = i
      BY <1>1, <1>14 DEF ReadWhole
    <2>1. CASE i <= R.after
      <3>1. ~R.behind \/ (R.step # "answered" /\ i <= R.row /\ ~R.below)
        BY <1>1
      <3>2. PICK k \in 1 .. Len(s) : s[k] = i
        BY <1>2, <2>1, <3>1 DEF ReadsInv, ReadWhole
      <3>3. QED
        BY <1>12, <3>2
    <2>2. CASE ~(i <= R.after)
      <3>1. i > R.after
        BY <1>4, <1>5, <2>2
      <3>2. QED
        BY <1>19, <3>1
    <2>3. QED
      BY <2>1, <2>2
  <1>21. RowFound'
    <2>1. R.row # 0 => R.row \in committed
      BY <1>1, <1>2 DEF ReadsInv, RowFound
    <2>2. ASSUME step = "index" PROVE R.row # 0 /\ R.row <= end
      <3>1. Len(page) # PageLimit /\ R.row # 0
        BY <2>2 DEF step
      <3>2. CASE R.row <= R.after
        BY <1>5, <1>10, <3>1, <3>2
      <3>3. CASE ~(R.row <= R.after)
        <4>1. R.row > R.after /\ R.row \in committed
          BY <1>5, <2>1, <3>1, <3>3
        <4>2. PICK k \in 1 .. Len(e) : e[k] = R.row
          BY <1>19, <3>1, <4>1
        <4>3. QED
          BY <1>17, <3>1, <4>2
      <3>4. QED
        BY <3>2, <3>3
    <2>3. step # "exists"
      BY <1>11
    <2>4. QED
      BY <1>1, <1>14, <2>1, <2>2, <2>3 DEF RowFound
  <1>22. RankStands'
    <2>1. R.row # 0 => step # "answered"
      BY DEF step
    <2>2. R.row # 0 /\ ~R.below => R.index = LedgerLeafIndex(R.row)
      BY <1>1, <1>2 DEF ReadsInv, RankStands
    <2>3. QED
      BY <1>1, <1>14, <2>1, <2>2 DEF RankStands, LedgerLeafIndex
  <1>23. QED
    BY <1>15, <1>18, <1>20, <1>21, <1>22 DEF ReadsInv

\* The reads keep their invariant, whatever commits in between.
LEMMA ReadsKept == MerkleSpec => []ReadsInv
  <1>1. ASSUME ReadsInv, MerkleNext PROVE ReadsInv'
    <2>1. CASE DrawId
      BY <1>1, <2>1, DrawKeeps
    <2>2. CASE AccountMerkleSummary
      <3>1. UNCHANGED <<drawn, committed>> /\ reader' = Request("page", 0, 0)
        BY <2>2 DEF AccountMerkleSummary
      <3>2. QED
        BY <1>1, <3>1, RequestKeeps
    <2>3. CASE RowExists
      BY <1>1, <2>3, ExistsKeeps
    <2>4. CASE ReadPage
      BY <1>1, <2>4, PageKeeps
    <2>5. CASE handleMerkleProof
      BY <1>1, <2>5, AnswerKeeps
    <2>6. CASE EndRead
      BY <1>1, <2>6, EndKeeps
    <2>7. ASSUME NEW id \in LedgerIds, CommitRow(id) PROVE ReadsInv'
      BY <1>1, <2>7, VisibleKeeps
    <2>8. ASSUME NEW id \in LedgerIds, MerkleProofForLedgerRow(id) PROVE ReadsInv'
      <3>1. UNCHANGED <<drawn, committed>> /\ reader' = Request("exists", id, LedgerLeafIndex(id))
        BY <2>8 DEF MerkleProofForLedgerRow
      <3>2. id \in Nat
        BY MerkleAssumption
      <3>3. QED
        BY <1>1, <3>1, <3>2, RequestKeeps
    <2>9. QED
      BY <1>1, <2>1, <2>2, <2>3, <2>4, <2>5, <2>6, <2>7, <2>8 DEF MerkleNext
  <1>2. ASSUME ReadsInv, UNCHANGED merkleVars PROVE ReadsInv'
    <2>1. UNCHANGED <<drawn, committed, reader>>
      BY <1>2 DEF merkleVars
    <2>2. MerkleTypes' /\ ReadInOrder' /\ ReadWhole' /\ RowFound'
      BY <1>2, <2>1 DEF ReadsInv, MerkleTypes, ReadInOrder, ReadWhole, RowFound
    <2>3. RankStands'
      BY <1>2, <2>1 DEF ReadsInv, RankStands, LedgerLeafIndex
    <2>4. QED
      BY <2>2, <2>3 DEF ReadsInv
  <1>3. QED
    BY <1>1, <1>2, ReadsStart, PTL DEF MerkleSpec

\* Whatever commits while the pages are read, an answer is a proof: it leads
\* from the row, at the rank it states, to a root over all rows up to the last.
THEOREM ServedAnswersStayVerified == MerkleSpec => []ServedAnswersVerify
  <1>1. ASSUME ReadsInv, reader.step = "answered"
        PROVE  /\ reader # NoReader /\ reader \in Readers /\ committed \in SUBSET Nat
               /\ Increasing(reader.read) /\ reader.read \in Seq(Nat)
    <2>1. reader # NoReader
      BY <1>1 DEF NoReader
    <2>2. reader \in Readers
      BY <1>1, <2>1 DEF ReadsInv, MerkleTypes
    <2>3. QED
      BY <1>1, <2>1, <2>2, MerkleAssumption DEF ReadsInv, MerkleTypes, ReadInOrder, Readers
  <1>2. ASSUME ReadsInv PROVE ServedProofVerifies
    <2> SUFFICES ASSUME Served, ~reader.below
                 PROVE  /\ reader.index + 1 \in DOMAIN reader.read
                        /\ reader.read[reader.index + 1] = reader.row
                        /\ VerifyMerklePath(LedgerLeaf(reader.row), Proof, reader.answer,
                                            Len(reader.read), MerkleRoot(Leaves(reader.read)))
      BY DEF ServedProofVerifies
    <2> DEFINE rows == reader.read
               i == reader.index
               lv == Leaves(rows)
               T == {LedgerLeaf(rows[k]) : k \in 1 .. Len(rows)}
    <2>1. reader.step = "answered" /\ reader.row # 0
      BY DEF Served
    <2>2. reader # NoReader /\ rows \in Seq(Nat) /\ i \in Nat
      BY <1>1, <1>2, <2>1 DEF Readers
    <2>3. i + 1 \in 1 .. Len(rows) /\ rows[i + 1] = reader.row /\ reader.answer = i
      BY <1>2, <2>1, <2>2 DEF ReadsInv, RankStands
    <2>4. Len(rows) \in Nat /\ DOMAIN rows = 1 .. Len(rows)
      BY <2>2
    <2>5. lv \in [1 .. Len(rows) -> T] /\ lv[i + 1] = LedgerLeaf(reader.row)
      BY <2>3, <2>4 DEF Leaves
    <2> HIDE DEF rows, lv, T
    <2>6. lv \in Seq(T) /\ Len(lv) = Len(rows)
      BY <2>4, <2>5, SeqOfLength
    <2>7. i \in 0 .. (Len(lv) - 1)
      BY <2>2, <2>3, <2>4, <2>6
    <2>8. VerifyMerklePath(lv[i + 1], MerklePath(lv, i), i, Len(lv), MerkleRoot(lv))
      BY <2>6, <2>7, PathVerifies
    <2>9. Proof = MerklePath(lv, i)
      BY DEF Proof, lv, rows
    <2>10. QED
      BY <2>3, <2>4, <2>5, <2>6, <2>8, <2>9 DEF lv, rows
  <1>3. ASSUME ReadsInv PROVE ServedRootIsWhole
    <2> DEFINE s == reader.read
               ids == {i \in committed : i <= reader.after}
    <2> SUFFICES ASSUME reader.step = "answered", ~reader.behind PROVE s = Ascending(ids)
      BY DEF ServedRootIsWhole
    <2>1. reader # NoReader /\ committed \in SUBSET Nat /\ s \in Seq(Nat) /\ Increasing(s)
      BY <1>1, <1>3
    <2>2. ids \in SUBSET Nat
      BY <2>1
    <2>3. \A x \in ids : \E m \in 1 .. Len(s) : s[m] = x
      BY <1>3, <2>1 DEF ReadsInv, ReadWhole
    <2>4. \A m \in 1 .. Len(s) : s[m] \in ids
      BY <1>3, <2>1 DEF ReadsInv, ReadInOrder
    <2> HIDE DEF s, ids
    <2>5. \A x : x \in ids <=> \E m \in 1 .. Len(s) : x = s[m]
      BY <2>3, <2>4
    <2>6. QED
      BY <2>1, <2>2, <2>5, AscendingUnique
  <1>4. ReadsInv => ServedAnswersVerify
    BY <1>2, <1>3 DEF ServedAnswersVerify
  <1>5. QED
    BY <1>4, ReadsKept, PTL

\* A path of the tree verifies for one leaf at one rank only, however many
\* rows the ledger has.
THEOREM PathsStayBinding == MerkleSpec => []PathBindsLeafAndRank
  <1>1. ASSUME ReadsInv PROVE PathBindsLeafAndRank
    <2> DEFINE rows == Ascending(committed)
               lv == Leaves(rows)
               T == {LedgerLeaf(rows[k]) : k \in 1 .. Len(rows)}
    <2> SUFFICES ASSUME NEW i \in 0 .. (Len(rows) - 1), NEW j \in 0 .. (Len(rows) - 1),
                        NEW k \in 0 .. (Len(rows) - 1),
                        VerifyMerklePath(LedgerLeaf(rows[i + 1]), MerklePath(lv, k), j,
                                         Len(rows), MerkleRoot(lv))
                 PROVE  i = j
      BY DEF PathBindsLeafAndRank
    <2>1. committed \in SUBSET Nat /\ IsFiniteSet(committed)
      BY <1>1, MerkleAssumption DEF ReadsInv, MerkleTypes
    <2>2. rows \in Seq(committed) /\ Increasing(rows)
      BY <2>1, AscendingShape
    <2>3. Len(rows) \in Nat /\ DOMAIN rows = 1 .. Len(rows)
      BY <2>2
    <2>4. lv \in [1 .. Len(rows) -> T] /\ \A m \in 1 .. Len(rows) : lv[m] = LedgerLeaf(rows[m])
      BY <2>3 DEF Leaves
    <2> HIDE DEF rows, lv, T
    <2>5. lv \in Seq(T) /\ Len(lv) = Len(rows)
      BY <2>3, <2>4, SeqOfLength
    <2>6. i + 1 \in 1 .. Len(rows) /\ j + 1 \in 1 .. Len(rows) /\ Len(lv) # 0
          /\ i \in Nat /\ j \in Nat /\ j \in 0 .. (Len(lv) - 1)
      BY <2>3, <2>5
    <2>7. Len(MerklePath(lv, k)) = Height(Len(lv))
      BY <2>5, <2>6, PathShape
    <2>8. LedgerLeaf(rows[i + 1]) = lv[j + 1]
      BY <2>5, <2>6, <2>7, PathBinds
    <2>9. rows[i + 1] = rows[j + 1]
      BY <2>4, <2>6, <2>8 DEF LedgerLeaf
    <2>10. rows[i + 1] \in Nat /\ rows[j + 1] \in Nat
      <3>1. rows[i + 1] \in committed /\ rows[j + 1] \in committed
        BY <2>2, <2>6
      <3>2. QED
        BY <2>1, <3>1
    <2>11. ~(i + 1 < j + 1) /\ ~(j + 1 < i + 1)
      BY <2>2, <2>3, <2>6, <2>9, <2>10 DEF Increasing
    <2>12. QED
      BY <2>6, <2>11
  <1>2. QED
    BY <1>1, ReadsKept, PTL
=============================================================================
