---------------------------- MODULE BillingProofs ----------------------------
(***************************************************************************)
(* The balances of module Billing are right for any number of accounts,    *)
(* requests, callbacks and sweepers, and for any prices: first what holds  *)
(* under every race, then what holds when no response outlives the sweep   *)
(* age.                                                                    *)
(***************************************************************************)
EXTENDS Billing, AmountsProofs

-----------------------------------------------------------------------------
(* The inductive invariant.                                                *)

Settling == {"buyer", "seller", "treasury", "finalize"}
Debited == {"seller", "treasury", "finalize"}

\* The CHECK constraints hold of every committed row.
RowsSound == \A a \in Accounts : CheckHolds(credit[a], reserved[a])

\* A request that was never reserved has no transaction; a reserved one has
\* a buyer.
Lifecycle ==
  \A r \in Requests :
    /\ state[r] = "none" => /\ \A f \in Finalizers : pc[<<r, f>>] = "idle"
                            /\ \A s \in Sweepers : r \notin batch[s] \cup freed[s]
    /\ state[r] # "none" => buyer[r] \in Accounts

\* A sweep's locked rows and released rows are different rows.
BatchApart == \A s \in Sweepers : batch[s] \cap freed[s] = {}

\* A settlement has a positive charge, split without loss, at a quote of the
\* snapshot.
SettlesExactly(c) ==
  /\ report[c] \in Reports
  /\ InSnapshot(c[1], report[c])
  /\ CostOf(c) \in Nat
  /\ SplitOf(c).fee \in Nat
  /\ SplitOf(c).seller \in Nat
  /\ SplitOf(c).fee + SplitOf(c).seller = CostOf(c)

SettlementsExact == \A c \in Callbacks : pc[c] \in Settling => SettlesExactly(c)

\* No account row is owned by two transactions.
RowsExclusive ==
  /\ \A c, d \in Callbacks : c # d => CallbackOwns(c) \cap CallbackOwns(d) = {}
  /\ \A c \in Callbacks, s \in Sweepers : CallbackOwns(c) \cap SweepOwns(s) = {}
  /\ \A s, z \in Sweepers : s # z => SweepOwns(s) \cap SweepOwns(z) = {}

\* What a transaction has checked stays true until it commits.
PendingSound ==
  /\ \A c \in Callbacks :
       /\ pc[c] = "release" => held[c[1]] <= reserved[buyer[c[1]]]
       /\ pc[c] \in Debited =>
            CheckHolds(credit[buyer[c[1]]] - CostOf(c), reserved[buyer[c[1]]] - held[c[1]])
  /\ \A s \in Sweepers, a \in Accounts : Freed(s, a) <= reserved[a]

BillingInv ==
  /\ TypeOK
  /\ RowsSound
  /\ Lifecycle
  /\ BatchApart
  /\ SettlementsExact
  /\ RowsExclusive
  /\ PendingSound

-----------------------------------------------------------------------------
(* The tabulated prices.                                                   *)

LEMMA ChargeType ==
  ASSUME NEW u \in Reports, NEW q \in Quotes
  PROVE  /\ Charge[u][q] \in Checked
         /\ Charge[u][q] # ErrOverflow /\ Split[u][q].seller >= 0 =>
              /\ Split[u][q].fee \in Nat
              /\ Split[u][q].seller \in Nat
              /\ Split[u][q].fee + Split[u][q].seller = Charge[u][q]
  <1>1. /\ u.input \in Amount /\ u.cached \in Amount /\ u.output \in Amount
        /\ q.input \in Amount /\ q.cached \in Amount /\ q.output \in Amount
        /\ FeeBps \in Int
    BY BillingAssumption
  <1>2. Charge[u][q] = Cost(u, q) /\ Split[u][q] = Fee(Cost(u, q), FeeBps)
    BY DEF Charge, Split
  <1>3. Cost(u, q) \in Checked
    BY <1>1, CostExact
  <1>4. Cost(u, q) # ErrOverflow => Cost(u, q) \in Amount
    BY <1>3 DEF Checked
  <1>5. QED
    BY <1>1, <1>2, <1>3, <1>4, FeeExact

LEMMA ReserveOfType ==
  ASSUME NEW o \in Offers
  PROVE  ReserveOf[o] \in Checked
  <1>1. o.quotes \subseteq Quotes
    BY DEF Quotes
  <1>2. \A q \in o.quotes : q.input \in Amount /\ q.cached \in Amount /\ q.output \in Amount
    BY <1>1, BillingAssumption
  <1>3. o.inputCeil \in Amount /\ o.outputCeil \in Amount
    BY BillingAssumption
  <1>4. ReserveAmount(o.quotes, o.inputCeil, o.outputCeil) \in Checked
    BY <1>2, <1>3, ReserveAmountExact
  <1>5. QED
    BY <1>4 DEF ReserveOf

\* The quote that served is in the snapshot.
LEMMA ServedQuoteType ==
  ASSUME NEW r \in Requests, NEW u \in Reports, InSnapshot(r, u),
         quotes \in [Requests -> SUBSET Quotes]
  PROVE  ServedQuote(r, u) \in quotes[r] /\ ServedQuote(r, u) \in Quotes
  <1>1. ServedQuote(r, u) \in quotes[r]
    BY DEF InSnapshot, ServedQuote
  <1>2. QED
    BY <1>1

LEMMA SellerType ==
  ASSUME TypeOK, NEW c \in Callbacks, SettlesExactly(c)
  PROVE  SellerOf(c) \in Accounts
  <1>1. c[1] \in Requests /\ report[c] \in Reports
    BY DEF Callbacks, SettlesExactly
  <1>2. ServedQuote(c[1], report[c]) \in Quotes
    BY <1>1, ServedQuoteType DEF SettlesExactly, TypeOK
  <1>3. QED
    BY <1>2, BillingAssumption DEF SellerOf

-----------------------------------------------------------------------------
(* Row ownership.                                                          *)

LEMMA CallbackParts ==
  ASSUME NEW c \in Callbacks
  PROVE  c[1] \in Requests /\ c[2] \in Finalizers /\ c = <<c[1], c[2]>>
  BY DEF Callbacks

LEMMA OwnsNothing ==
  ASSUME NEW c \in Callbacks, pc[c] # "release", pc[c] \notin Debited
  PROVE  CallbackOwns(c) = {}
  BY DEF CallbackOwns, Debited

LEMMA OwnsBuyer ==
  ASSUME NEW c \in Callbacks, pc[c] \in Debited \/ (pc[c] = "release" /\ held[c[1]] > 0)
  PROVE  buyer[c[1]] \in CallbackOwns(c)
  BY DEF CallbackOwns, Debited

\* What a callback owns and charges depends only on its own progress and on
\* the row of its request.
LEMMA CallbackFrame ==
  ASSUME NEW c \in Callbacks, pc'[c] = pc[c], report'[c] = report[c],
         buyer'[c[1]] = buyer[c[1]], quotes'[c[1]] = quotes[c[1]], held'[c[1]] = held[c[1]]
  PROVE  /\ CallbackOwns(c)' = CallbackOwns(c)
         /\ CostOf(c)' = CostOf(c)
         /\ SplitOf(c)' = SplitOf(c)
         /\ SellerOf(c)' = SellerOf(c)
         /\ SettlesExactly(c)' = SettlesExactly(c)
  <1>1. ServedQuote(c[1], report[c])' = ServedQuote(c[1], report[c])
    BY DEF ServedQuote
  <1>2. /\ CostOf(c)' = CostOf(c)
        /\ SplitOf(c)' = SplitOf(c)
        /\ SellerOf(c)' = SellerOf(c)
    BY <1>1 DEF CostOf, SplitOf, SellerOf, Charge, Split
  <1>3. CallbackOwns(c)' = CallbackOwns(c)
    BY <1>2 DEF CallbackOwns
  <1>4. SettlesExactly(c)' = SettlesExactly(c)
    BY <1>2 DEF SettlesExactly, InSnapshot
  <1>5. QED
    BY <1>2, <1>3, <1>4

\* What a sweep owns and has freed depends only on its own progress and on
\* the rows of its requests.
LEMMA SweepFrame ==
  ASSUME NEW s \in Sweepers, freed'[s] = freed[s],
         \A r \in freed[s] : buyer'[r] = buyer[r] /\ held'[r] = held[r]
  PROVE  /\ SweepOwns(s)' = SweepOwns(s)
         /\ \A a : Freed(s, a)' = Freed(s, a)
  <1>1. SweepOwns(s)' = SweepOwns(s)
    BY DEF SweepOwns
  <1>2. ASSUME NEW a
        PROVE  Freed(s, a)' = Freed(s, a)
    <2> DEFINE S == {r \in freed[s] : buyer[r] = a}
    <2>1. {r \in freed'[s] : buyer'[r] = a} = S
      OBVIOUS
    <2>2. Total(held', S) = Total(held, S)
      BY TotalSame
    <2>3. QED
      BY <2>1, <2>2 DEF Freed
  <1>3. QED
    BY <1>1, <1>2

LEMMA FreedType ==
  ASSUME TypeOK, NEW s \in Sweepers, NEW a
  PROVE  /\ IsFiniteSet({r \in freed[s] : buyer[r] = a})
         /\ \A r \in freed[s] : held[r] \in Nat
         /\ Freed(s, a) \in Nat
  <1>1. freed[s] \subseteq Requests /\ held \in [Requests -> Nat] /\ IsFiniteSet(Requests)
    BY BillingAssumption DEF TypeOK
  <1>2. IsFiniteSet({r \in freed[s] : buyer[r] = a})
    BY <1>1, FS_Subset
  <1>3. QED
    BY <1>1, <1>2, TotalType DEF Freed

\* A sweep has taken nothing from an account whose row it does not own.
LEMMA FreedNothing ==
  ASSUME TypeOK, NEW s \in Sweepers, NEW a, a \notin SweepOwns(s)
  PROVE  Freed(s, a) = 0
  <1> DEFINE S == {r \in freed[s] : buyer[r] = a}
  <1>1. \A r \in S : held[r] \in Nat /\ ~(held[r] > 0)
    BY FreedType DEF SweepOwns
  <1>2. \A r \in S : 1 .. held[r] = {}
    BY <1>1
  <1>3. Units(held, S) = {}
    BY <1>2 DEF Units
  <1>4. QED
    BY <1>3, FS_EmptySet DEF Freed, Total

-----------------------------------------------------------------------------
(* Steps inside a transaction: nothing is committed yet.                   *)

\* A callback moves on, taking only rows that no other transaction owns.
LEMMA CallbackMoves ==
  ASSUME BillingInv, NEW c \in Callbacks, state[c[1]] # "none",
         UNCHANGED <<accountVars, state, requestVars, sweepVars>>, faults' \in Nat,
         NEW p \in Places, pc' = [pc EXCEPT ![c] = p],
         NEW u \in Reports \cup {NoReport}, report' = [report EXCEPT ![c] = u],
         p \in Settling => SettlesExactly(c)',
         \A a \in CallbackOwns(c)' : FreeFor(a, c),
         p = "release" => held[c[1]] <= reserved[buyer[c[1]]],
         p \in Debited =>
           CheckHolds(credit[buyer[c[1]]] - CostOf(c)', reserved[buyer[c[1]]] - held[c[1]])
  PROVE  BillingInv'
  <1>1. /\ UNCHANGED <<credit, reserved, ledger, state, buyer, quotes, held, reservedAt>>
        /\ UNCHANGED <<batch, freed>>
    BY DEF accountVars, requestVars, sweepVars
  <1>2. pc'[c] = p /\ report'[c] = u
    BY DEF BillingInv, TypeOK
  <1>3. \A d \in Callbacks : d # c => pc'[d] = pc[d] /\ report'[d] = report[d]
    BY DEF BillingInv, TypeOK
  <1>4. \A d \in Callbacks : d # c =>
          /\ CallbackOwns(d)' = CallbackOwns(d)
          /\ CostOf(d)' = CostOf(d)
          /\ SettlesExactly(d)' = SettlesExactly(d)
    BY <1>1, <1>3, CallbackFrame
  <1>5. \A s \in Sweepers :
          /\ SweepOwns(s)' = SweepOwns(s)
          /\ \A a : Freed(s, a)' = Freed(s, a)
    BY <1>1, SweepFrame
  <1>6. TypeOK'
    BY <1>1 DEF BillingInv, TypeOK
  <1>7. RowsSound'
    BY <1>1 DEF BillingInv, RowsSound, CheckHolds
  <1>8. Lifecycle'
    <2>1. ASSUME NEW r \in Requests, state'[r] = "none", NEW f \in Finalizers
          PROVE  pc'[<<r, f>>] = "idle"
      <3>1. <<r, f>> \in Callbacks /\ <<r, f>> # c
        BY <1>1, <2>1 DEF Callbacks
      <3>2. QED
        BY <1>1, <1>3, <2>1, <3>1 DEF BillingInv, Lifecycle
    <2>2. QED
      BY <1>1, <2>1 DEF BillingInv, Lifecycle
  <1>9. BatchApart'
    BY <1>1 DEF BillingInv, BatchApart
  <1>10. SettlementsExact'
    BY <1>2, <1>3, <1>4 DEF BillingInv, SettlementsExact
  <1>11. RowsExclusive'
    <2>1. \A d \in Callbacks : d # c => CallbackOwns(c)' \cap CallbackOwns(d) = {}
      BY DEF FreeFor
    <2>2. \A s \in Sweepers : s # c
      BY BillingAssumption
    <2>3. \A s \in Sweepers : CallbackOwns(c)' \cap SweepOwns(s) = {}
      BY <2>2 DEF FreeFor
    <2>4. \A d, e \in Callbacks : d # e => CallbackOwns(d)' \cap CallbackOwns(e)' = {}
      BY <1>4, <2>1 DEF BillingInv, RowsExclusive
    <2>5. \A d \in Callbacks, s \in Sweepers : CallbackOwns(d)' \cap SweepOwns(s)' = {}
      BY <1>4, <1>5, <2>3 DEF BillingInv, RowsExclusive
    <2>6. \A s, z \in Sweepers : s # z => SweepOwns(s)' \cap SweepOwns(z)' = {}
      BY <1>5 DEF BillingInv, RowsExclusive
    <2>7. QED
      BY <2>4, <2>5, <2>6 DEF RowsExclusive
  <1>12. PendingSound'
    <2>1. ASSUME NEW d \in Callbacks
          PROVE  /\ pc'[d] = "release" => held'[d[1]] <= reserved'[buyer'[d[1]]]
                 /\ pc'[d] \in Debited =>
                      CheckHolds(credit'[buyer'[d[1]]] - CostOf(d)',
                                 reserved'[buyer'[d[1]]] - held'[d[1]])
      <3>1. CASE d = c
        BY <1>1, <1>2, <3>1
      <3>2. CASE d # c
        BY <1>1, <1>3, <1>4, <3>2 DEF BillingInv, PendingSound
      <3>3. QED
        BY <3>1, <3>2
    <2>2. \A s \in Sweepers, a \in Accounts : Freed(s, a)' <= reserved'[a]
      BY <1>1, <1>5 DEF BillingInv, PendingSound
    <2>3. QED
      BY <2>1, <2>2 DEF PendingSound, CheckHolds
  <1>13. QED
    BY <1>6, <1>7, <1>8, <1>9, <1>10, <1>11, <1>12 DEF BillingInv

\* A sweep moves on, taking only rows that no other transaction owns.
LEMMA SweepMoves ==
  ASSUME BillingInv, NEW s \in Sweepers,
         UNCHANGED <<accountVars, state, requestVars, pc, report>>, faults' \in Nat,
         NEW b \in SUBSET Requests, batch' = [batch EXCEPT ![s] = b],
         NEW e \in SUBSET Requests, freed' = [freed EXCEPT ![s] = e],
         b \cap e = {},
         \A r \in b \cup e : state[r] # "none",
         \A a \in SweepOwns(s)' : FreeFor(a, s),
         \A a \in Accounts : Freed(s, a)' <= reserved[a]
  PROVE  BillingInv'
  <1>1. UNCHANGED <<credit, reserved, ledger, state, buyer, quotes, held, reservedAt, pc, report>>
    BY DEF accountVars, requestVars
  <1>2. batch'[s] = b /\ freed'[s] = e
    BY DEF BillingInv, TypeOK
  <1>3. \A z \in Sweepers : z # s => batch'[z] = batch[z] /\ freed'[z] = freed[z]
    BY DEF BillingInv, TypeOK
  <1>4. \A d \in Callbacks :
          /\ CallbackOwns(d)' = CallbackOwns(d)
          /\ CostOf(d)' = CostOf(d)
          /\ SettlesExactly(d)' = SettlesExactly(d)
    BY <1>1, CallbackFrame
  <1>5. \A z \in Sweepers : z # s =>
          /\ SweepOwns(z)' = SweepOwns(z)
          /\ \A a : Freed(z, a)' = Freed(z, a)
    BY <1>1, <1>3, SweepFrame
  <1>6. TypeOK'
    BY <1>1 DEF BillingInv, TypeOK
  <1>7. RowsSound'
    BY <1>1 DEF BillingInv, RowsSound, CheckHolds
  <1>8. Lifecycle'
    BY <1>1, <1>2, <1>3 DEF BillingInv, Lifecycle
  <1>9. BatchApart'
    BY <1>2, <1>3 DEF BillingInv, BatchApart
  <1>10. SettlementsExact'
    BY <1>1, <1>4 DEF BillingInv, SettlementsExact
  <1>11. RowsExclusive'
    <2>1. \A d \in Callbacks : d # s
      BY BillingAssumption
    <2>2. \A d \in Callbacks : CallbackOwns(d) \cap SweepOwns(s)' = {}
      BY <2>1 DEF FreeFor
    <2>3. \A z \in Sweepers : z # s => SweepOwns(z) \cap SweepOwns(s)' = {}
      BY DEF FreeFor
    <2>4. \A d, f \in Callbacks : d # f => CallbackOwns(d)' \cap CallbackOwns(f)' = {}
      BY <1>4 DEF BillingInv, RowsExclusive
    <2>5. \A d \in Callbacks, z \in Sweepers : CallbackOwns(d)' \cap SweepOwns(z)' = {}
      BY <1>4, <1>5, <2>2 DEF BillingInv, RowsExclusive
    <2>6. \A y, z \in Sweepers : y # z => SweepOwns(y)' \cap SweepOwns(z)' = {}
      BY <1>5, <2>3 DEF BillingInv, RowsExclusive
    <2>7. QED
      BY <2>4, <2>5, <2>6 DEF RowsExclusive
  <1>12. PendingSound'
    <2>1. \A d \in Callbacks :
            /\ pc'[d] = "release" => held'[d[1]] <= reserved'[buyer'[d[1]]]
            /\ pc'[d] \in Debited =>
                 CheckHolds(credit'[buyer'[d[1]]] - CostOf(d)',
                            reserved'[buyer'[d[1]]] - held'[d[1]])
      BY <1>1, <1>4 DEF BillingInv, PendingSound
    <2>2. \A z \in Sweepers, a \in Accounts : Freed(z, a)' <= reserved'[a]
      BY <1>1, <1>5 DEF BillingInv, PendingSound
    <2>3. QED
      BY <2>1, <2>2 DEF PendingSound, CheckHolds
  <1>13. QED
    BY <1>6, <1>7, <1>8, <1>9, <1>10, <1>11, <1>12 DEF BillingInv

\* A rollback gives up what the callback owns.
LEMMA RollbackKeeps ==
  ASSUME BillingInv, NEW c \in Callbacks, state[c[1]] # "none", Rollback(c), faults' \in Nat
  PROVE  BillingInv'
  <1>1. pc'[c] = "done"
    BY DEF BillingInv, TypeOK, Rollback
  <1>2. CallbackOwns(c)' = {}
    BY <1>1 DEF CallbackOwns
  <1>3. "done" \in Places /\ "done" \notin Settling /\ "done" \notin Debited
    BY DEF Places, Settling, Debited
  <1>4. QED
    BY <1>2, <1>3, CallbackMoves DEF Rollback

\* A sweep that ends, committed or not, owns nothing.
LEMMA EndSweepKeeps ==
  ASSUME BillingInv, NEW s \in Sweepers, EndSweep(s), faults' \in Nat,
         UNCHANGED <<accountVars, state, requestVars, pc, report>>
  PROVE  BillingInv'
  <1>1. freed'[s] = {}
    BY DEF BillingInv, TypeOK, EndSweep
  <1>2. SweepOwns(s)' = {}
    BY <1>1 DEF SweepOwns
  <1>3. ASSUME NEW a \in Accounts
        PROVE  Freed(s, a)' <= reserved[a]
    <2>1. {r \in freed'[s] : buyer'[r] = a} = {}
      BY <1>1
    <2>2. Freed(s, a)' = 0
      BY <2>1, TotalEmpty DEF Freed
    <2>3. QED
      BY <2>2 DEF BillingInv, TypeOK
  <1>4. QED
    BY <1>2, <1>3, SweepMoves DEF EndSweep

\* A request with a callback under way was reserved.
LEMMA InFlightReserved ==
  ASSUME BillingInv, NEW c \in Callbacks, pc[c] # "idle"
  PROVE  state[c[1]] # "none" /\ buyer[c[1]] \in Accounts
  BY CallbackParts DEF BillingInv, Lifecycle

\* The rows a callback owns already are free for it.
LEMMA OwnedFree ==
  ASSUME BillingInv, NEW c \in Callbacks, NEW a \in CallbackOwns(c)
  PROVE  FreeFor(a, c)
  BY DEF BillingInv, RowsExclusive, FreeFor

LEMMA SweptFree ==
  ASSUME BillingInv, NEW s \in Sweepers, NEW a \in SweepOwns(s)
  PROVE  FreeFor(a, s)
  BY DEF BillingInv, RowsExclusive, FreeFor

-----------------------------------------------------------------------------
(* The steps of a callback before its commit.                              *)

LEMMA LoseResponseKeeps ==
  ASSUME BillingInv, NEW c \in Callbacks, LoseResponse(c)
  PROVE  BillingInv'
  <1>1. pc'[c] = "done" /\ report' = [report EXCEPT ![c] = report[c]]
    BY DEF BillingInv, TypeOK, LoseResponse
  <1>2. CallbackOwns(c)' = {}
    BY <1>1 DEF CallbackOwns
  <1>3. "done" \in Places /\ "done" \notin Settling /\ "done" \notin Debited
    BY DEF Places, Settling, Debited
  <1>4. state[c[1]] # "none"
    BY InFlightReserved DEF LoseResponse
  <1>5. report[c] \in Reports \cup {NoReport} /\ faults' \in Nat
    BY DEF BillingInv, TypeOK, LoseResponse
  <1>6. QED
    BY <1>1, <1>2, <1>3, <1>4, <1>5, CallbackMoves DEF LoseResponse

LEMMA BeginReleaseKeeps ==
  ASSUME BillingInv, NEW c \in Callbacks, BeginRelease(c)
  PROVE  BillingInv'
  <1> DEFINE p == IF StillReserved(c[1]) THEN "unreserve" ELSE "done"
  <1>1. pc'[c] = p /\ report' = [report EXCEPT ![c] = report[c]]
    BY DEF BillingInv, TypeOK, BeginRelease
  <1>2. CallbackOwns(c)' = {}
    BY <1>1 DEF CallbackOwns
  <1>3. p \in Places /\ p # "release" /\ p \notin Settling /\ p \notin Debited
    BY DEF Places, Settling, Debited, Transacting
  <1>4. state[c[1]] # "none"
    BY InFlightReserved DEF BeginRelease
  <1>5. report[c] \in Reports \cup {NoReport} /\ faults' \in Nat
    BY DEF BillingInv, TypeOK, BeginRelease
  <1>6. QED
    BY <1>1, <1>2, <1>3, <1>4, <1>5, CallbackMoves DEF BeginRelease

LEMMA BeginSettleKeeps ==
  ASSUME BillingInv, NEW c \in Callbacks, NEW u \in Reports, BeginSettle(c, u)
  PROVE  BillingInv'
  <1> DEFINE r == c[1]
             q == ServedQuote(r, u)
             p == IF ~StillReserved(r) THEN "done"
                  ELSE IF ~InSnapshot(r, u) THEN "unreserve"
                  ELSE IF Charge[u][q] = ErrOverflow THEN "done"
                  ELSE IF Charge[u][q] = 0 THEN "unreserve"
                  ELSE IF Split[u][q].seller < 0 THEN "done"
                  ELSE "buyer"
             v == IF p = "buyer" THEN u ELSE NoReport
  <1>1. p \in {"done", "unreserve", "buyer"}
    OBVIOUS
  <1>2. p = "buyer" => /\ InSnapshot(r, u)
                       /\ Charge[u][q] # ErrOverflow
                       /\ ~(Split[u][q].seller < 0)
    OBVIOUS
  <1>3. pc' = [pc EXCEPT ![c] = p]
    BY DEF BeginSettle
  <1> HIDE DEF p
  <1>4. pc'[c] = p
    BY <1>3 DEF BillingInv, TypeOK
  <1>5. report' = [report EXCEPT ![c] = v] /\ report'[c] = v
    BY <1>4 DEF BeginSettle, BillingInv, TypeOK
  <1>6. CallbackOwns(c)' = {}
    BY <1>1, <1>4 DEF CallbackOwns
  <1>7. p \in Places /\ p # "release" /\ p \notin Debited /\ (p \in Settling => p = "buyer")
    BY <1>1 DEF Places, Settling, Debited, Transacting
  <1>8. state[c[1]] # "none"
    BY InFlightReserved DEF BeginSettle
  <1>9. v \in Reports \cup {NoReport} /\ faults' \in Nat
    BY DEF BillingInv, TypeOK, BeginSettle
  <1>10. ASSUME p = "buyer"
         PROVE  SettlesExactly(c)'
    <2>1. r \in Requests /\ InSnapshot(r, u) /\ quotes' = quotes /\ report'[c] = u
      BY <1>2, <1>5, <1>10, CallbackParts DEF BeginSettle, requestVars
    <2>2. q \in Quotes
      BY <2>1, ServedQuoteType DEF BillingInv, TypeOK
    <2>3. CostOf(c)' = Charge[u][q] /\ SplitOf(c)' = Split[u][q]
      BY <2>1 DEF CostOf, SplitOf, ServedQuote, Charge, Split
    <2>4. Split[u][q].seller \in Int
      <3>1. Split[u][q] = Fee(Cost(u, q), FeeBps)
        BY <2>2 DEF Split
      <3>2. Cost(u, q) \in Amount
        BY <1>2, <1>10, <2>2, ChargeType DEF Charge, Checked
      <3>3. QED
        BY <3>1, <3>2, BillingAssumption, FeeSellerType
    <2>5. /\ Charge[u][q] \in Amount
          /\ Split[u][q].fee \in Nat
          /\ Split[u][q].seller \in Nat
          /\ Split[u][q].fee + Split[u][q].seller = Charge[u][q]
      BY <1>2, <1>10, <2>2, <2>4, ChargeType DEF Checked
    <2>6. QED
      BY <2>1, <2>3, <2>5 DEF SettlesExactly, InSnapshot, Amount
  <1>11. QED
    BY <1>3, <1>5, <1>6, <1>7, <1>8, <1>9, <1>10, CallbackMoves DEF BeginSettle

LEMMA UnreserveKeeps ==
  ASSUME BillingInv, NEW c \in Callbacks, Unreserve(c)
  PROVE  BillingInv'
  <1> DEFINE r == c[1]
             a == buyer[r]
  <1>1. /\ state[r] # "none" /\ a \in Accounts /\ r \in Requests
        /\ faults' \in Nat
    BY InFlightReserved, CallbackParts DEF Unreserve, BillingInv, TypeOK
  <1>2. CASE held[r] = 0 \/ CheckHolds(credit[a], reserved[a] - held[r])
    <2>1. /\ pc' = [pc EXCEPT ![c] = "release"]
          /\ UNCHANGED <<accountVars, state, requestVars, report, sweepVars>>
      BY <1>2 DEF Unreserve
    <2>2. pc'[c] = "release" /\ report' = [report EXCEPT ![c] = report[c]]
      BY <2>1 DEF BillingInv, TypeOK
    <2>3. held[r] \in Nat /\ reserved[a] \in Nat
      BY <1>1 DEF BillingInv, TypeOK
    <2>4. \A b \in CallbackOwns(c)' : FreeFor(b, c)
      <3>1. UNCHANGED <<buyer, held>>
        BY <2>1 DEF requestVars
      <3>2. CallbackOwns(c)' = IF held[r] > 0 THEN {a} ELSE {}
        BY <2>2, <3>1 DEF CallbackOwns
      <3>3. held[r] > 0 => FreeFor(a, c)
        BY DEF Unreserve
      <3>4. QED
        BY <3>2, <3>3
    <2>5. held[r] <= reserved[a]
      BY <1>2, <2>3 DEF CheckHolds
    <2>6. "release" \in Places /\ "release" \notin Settling /\ "release" \notin Debited
      BY DEF Places, Settling, Debited, Transacting
    <2>7. report[c] \in Reports \cup {NoReport}
      BY DEF BillingInv, TypeOK
    <2>8. QED
      BY <1>1, <2>1, <2>2, <2>4, <2>5, <2>6, <2>7, CallbackMoves
  <1>3. CASE ~(held[r] = 0 \/ CheckHolds(credit[a], reserved[a] - held[r]))
    BY <1>1, <1>3, RollbackKeeps DEF Unreserve
  <1>4. QED
    BY <1>2, <1>3

LEMMA DebitBuyerKeeps ==
  ASSUME BillingInv, NEW c \in Callbacks, DebitBuyer(c)
  PROVE  BillingInv'
  <1> DEFINE r == c[1]
             a == buyer[r]
  <1>1. /\ state[r] # "none" /\ a \in Accounts /\ r \in Requests
        /\ faults' \in Nat
    BY InFlightReserved, CallbackParts DEF DebitBuyer, BillingInv, TypeOK
  <1>2. CASE CheckHolds(credit[a] - CostOf(c), reserved[a] - held[r])
    <2>1. /\ pc' = [pc EXCEPT ![c] = "seller"]
          /\ UNCHANGED <<accountVars, state, requestVars, report, sweepVars>>
      BY <1>2 DEF DebitBuyer
    <2>2. pc'[c] = "seller" /\ report' = [report EXCEPT ![c] = report[c]]
      BY <2>1 DEF BillingInv, TypeOK
    <2>3. UNCHANGED <<buyer, quotes, held>>
      BY <2>1 DEF requestVars
    <2>4. CallbackOwns(c)' = {a}
      BY <2>2, <2>3 DEF CallbackOwns
    <2>5. FreeFor(a, c)
      BY DEF DebitBuyer
    <2>6. SettlesExactly(c)
      BY DEF DebitBuyer, BillingInv, SettlementsExact, Settling
    <2>7. SettlesExactly(c)' /\ CostOf(c)' = CostOf(c)
      BY <2>1, <2>3, <2>6 DEF SettlesExactly, InSnapshot, CostOf, SplitOf, ServedQuote, Charge, Split
    <2>8. "seller" \in Places /\ "seller" \in Settling /\ "seller" \in Debited
      BY DEF Places, Settling, Debited, Transacting
    <2>9. report[c] \in Reports \cup {NoReport}
      BY DEF BillingInv, TypeOK
    <2>10. QED
      BY <1>1, <1>2, <2>1, <2>2, <2>4, <2>5, <2>7, <2>8, <2>9, CallbackMoves
  <1>3. CASE ~CheckHolds(credit[a] - CostOf(c), reserved[a] - held[r])
    BY <1>1, <1>3, RollbackKeeps DEF DebitBuyer
  <1>4. QED
    BY <1>2, <1>3

\* A settlement that has debited its buyer takes one more row.
LEMMA NextRowKeeps ==
  ASSUME BillingInv, NEW c \in Callbacks, pc[c] \in Debited,
         NEW p \in Debited, pc' = [pc EXCEPT ![c] = p],
         UNCHANGED <<accountVars, state, requestVars, report, sweepVars, faults>>,
         NEW a, FreeFor(a, c), CallbackOwns(c)' \subseteq CallbackOwns(c) \cup {a}
  PROVE  BillingInv'
  <1>1. pc[c] # "idle" /\ p # "release" /\ p \in Places /\ pc[c] \in Settling
    BY DEF Debited, Places, Transacting, Settling
  <1>2. state[c[1]] # "none"
    BY <1>1, InFlightReserved
  <1>3. report' = [report EXCEPT ![c] = report[c]] /\ report[c] \in Reports \cup {NoReport}
        /\ faults' \in Nat
    BY DEF BillingInv, TypeOK
  <1>4. UNCHANGED <<buyer, quotes, held>>
    BY DEF requestVars
  <1>5. SettlesExactly(c)
    BY <1>1 DEF BillingInv, SettlementsExact
  <1>6. SettlesExactly(c)' /\ CostOf(c)' = CostOf(c)
    BY <1>4, <1>5 DEF SettlesExactly, InSnapshot, CostOf, SplitOf, ServedQuote, Charge, Split
  <1>7. \A b \in CallbackOwns(c)' : FreeFor(b, c)
    BY OwnedFree
  <1>8. CheckHolds(credit[buyer[c[1]]] - CostOf(c)', reserved[buyer[c[1]]] - held[c[1]])
    BY <1>6 DEF BillingInv, PendingSound
  <1>9. QED
    BY <1>1, <1>2, <1>3, <1>6, <1>7, <1>8, CallbackMoves

LEMMA CreditSellerKeeps ==
  ASSUME BillingInv, NEW c \in Callbacks, CreditSeller(c)
  PROVE  BillingInv'
  <1> DEFINE p == IF SplitOf(c).fee > 0 THEN "treasury" ELSE "finalize"
  <1>1. pc[c] \in Debited /\ p \in Debited
    BY DEF CreditSeller, Debited
  <1>2. pc'[c] = p /\ UNCHANGED <<buyer, quotes, held, report>>
    BY DEF CreditSeller, BillingInv, TypeOK, requestVars
  <1>3. SellerOf(c)' = SellerOf(c) /\ SplitOf(c)' = SplitOf(c)
    BY <1>2 DEF SellerOf, SplitOf, ServedQuote, Split
  <1>4. CallbackOwns(c) = {buyer[c[1]]}
    BY DEF CreditSeller, CallbackOwns
  <1>5. CallbackOwns(c)' = {buyer[c[1]], SellerOf(c)}
    BY <1>2, <1>3 DEF CallbackOwns
  <1>6. QED
    BY <1>1, <1>4, <1>5, NextRowKeeps DEF CreditSeller

LEMMA CreditTreasuryKeeps ==
  ASSUME BillingInv, NEW c \in Callbacks, CreditTreasury(c)
  PROVE  BillingInv'
  <1>1. pc[c] \in Debited /\ "finalize" \in Debited
    BY DEF CreditTreasury, Debited
  <1>2. pc'[c] = "finalize" /\ UNCHANGED <<buyer, quotes, held, report>>
    BY DEF CreditTreasury, BillingInv, TypeOK, requestVars
  <1>3. SellerOf(c)' = SellerOf(c)
    BY <1>2 DEF SellerOf, ServedQuote
  <1>4. CallbackOwns(c) = {buyer[c[1]], SellerOf(c)}
    BY DEF CreditTreasury, CallbackOwns
  <1>5. CallbackOwns(c)' \subseteq {buyer[c[1]], SellerOf(c)} \cup {Treasury}
    BY <1>2, <1>3 DEF CallbackOwns
  <1>6. QED
    BY <1>1, <1>4, <1>5, NextRowKeeps DEF CreditTreasury

-----------------------------------------------------------------------------
(* Commits: the rows of a set A of accounts change, and the transactions   *)
(* that go on own none of them.                                            *)

LEMMA CommitKeeps ==
  ASSUME BillingInv, TypeOK', RowsSound', Lifecycle', BatchApart', NEW A,
         \A a \in Accounts : a \notin A => credit'[a] = credit[a] /\ reserved'[a] = reserved[a],
         \A d \in Callbacks : pc'[d] \in Transacting =>
           /\ pc'[d] = pc[d] /\ report'[d] = report[d]
           /\ buyer'[d[1]] = buyer[d[1]] /\ quotes'[d[1]] = quotes[d[1]]
           /\ held'[d[1]] = held[d[1]]
           /\ CallbackOwns(d) \cap A = {},
         \A z \in Sweepers : freed'[z] # {} =>
           /\ freed'[z] = freed[z]
           /\ \A r \in freed[z] : buyer'[r] = buyer[r] /\ held'[r] = held[r]
           /\ SweepOwns(z) \cap A = {}
  PROVE  BillingInv'
  <1>1. \A d \in Callbacks : pc'[d] \in Transacting =>
          /\ CallbackOwns(d)' = CallbackOwns(d)
          /\ CostOf(d)' = CostOf(d)
          /\ SettlesExactly(d)' = SettlesExactly(d)
    BY CallbackFrame
  <1>2. \A d \in Callbacks : pc'[d] \notin Transacting => CallbackOwns(d)' = {}
    BY DEF Transacting, CallbackOwns
  <1>3. \A z \in Sweepers : freed'[z] # {} =>
          /\ SweepOwns(z)' = SweepOwns(z)
          /\ \A a : Freed(z, a)' = Freed(z, a)
    BY SweepFrame
  <1>4. ASSUME NEW z \in Sweepers, freed'[z] = {}
        PROVE  SweepOwns(z)' = {} /\ \A a : Freed(z, a)' = 0
    <2>1. SweepOwns(z)' = {}
      BY <1>4 DEF SweepOwns
    <2>2. ASSUME NEW a
          PROVE  Freed(z, a)' = 0
      <3>1. {r \in freed'[z] : buyer'[r] = a} = {}
        BY <1>4
      <3>2. QED
        BY <3>1, TotalEmpty DEF Freed
    <2>3. QED
      BY <2>1, <2>2
  <1>5. SettlementsExact'
    <2>1. \A d \in Callbacks : pc'[d] \in Settling => pc'[d] \in Transacting
      BY DEF Settling, Transacting
    <2>2. QED
      BY <1>1, <2>1 DEF BillingInv, SettlementsExact
  <1>6. RowsExclusive'
    <2>1. \A d \in Callbacks : CallbackOwns(d)' \subseteq CallbackOwns(d)
      BY <1>1, <1>2
    <2>2. \A z \in Sweepers : SweepOwns(z)' \subseteq SweepOwns(z)
      BY <1>3, <1>4
    <2>3. QED
      BY <2>1, <2>2 DEF BillingInv, RowsExclusive
  <1>7. PendingSound'
    <2>1. ASSUME NEW d \in Callbacks, pc'[d] = "release"
          PROVE  held'[d[1]] <= reserved'[buyer'[d[1]]]
      <3>1. pc'[d] \in Transacting /\ d[1] \in Requests
        BY <2>1, CallbackParts DEF Transacting
      <3>2. pc[d] = "release" /\ buyer'[d[1]] = buyer[d[1]] /\ held'[d[1]] = held[d[1]]
            /\ CallbackOwns(d) \cap A = {}
        BY <2>1, <3>1
      <3>3. buyer[d[1]] \in Accounts
        BY <3>2, InFlightReserved
      <3>4. held[d[1]] \in Nat /\ reserved'[buyer[d[1]]] \in Nat
        BY <3>1, <3>3 DEF BillingInv, TypeOK
      <3>5. CASE held[d[1]] = 0
        BY <3>2, <3>4, <3>5
      <3>6. CASE held[d[1]] > 0
        <4>1. buyer[d[1]] \notin A
          BY <3>2, <3>6, OwnsBuyer
        <4>2. reserved'[buyer[d[1]]] = reserved[buyer[d[1]]]
          BY <3>3, <4>1
        <4>3. QED
          BY <3>2, <4>2 DEF BillingInv, PendingSound
      <3>7. QED
        BY <3>4, <3>5, <3>6
    <2>2. ASSUME NEW d \in Callbacks, pc'[d] \in Debited
          PROVE  CheckHolds(credit'[buyer'[d[1]]] - CostOf(d)',
                            reserved'[buyer'[d[1]]] - held'[d[1]])
      <3>1. pc'[d] \in Transacting /\ pc'[d] # "idle"
        BY <2>2 DEF Transacting, Debited
      <3>2. /\ pc[d] \in Debited /\ pc[d] # "idle"
            /\ buyer'[d[1]] = buyer[d[1]] /\ held'[d[1]] = held[d[1]]
            /\ CallbackOwns(d) \cap A = {}
            /\ CostOf(d)' = CostOf(d)
        BY <1>1, <2>2, <3>1
      <3>3. buyer[d[1]] \in Accounts /\ buyer[d[1]] \in CallbackOwns(d)
        BY <3>2, InFlightReserved, OwnsBuyer
      <3>4. credit'[buyer[d[1]]] = credit[buyer[d[1]]] /\ reserved'[buyer[d[1]]] = reserved[buyer[d[1]]]
        BY <3>2, <3>3
      <3>5. CheckHolds(credit[buyer[d[1]]] - CostOf(d), reserved[buyer[d[1]]] - held[d[1]])
        BY <3>2 DEF BillingInv, PendingSound
      <3>6. QED
        BY <3>2, <3>4, <3>5
    <2>3. ASSUME NEW z \in Sweepers, NEW a \in Accounts
          PROVE  Freed(z, a)' <= reserved'[a]
      <3>1. reserved'[a] \in Nat
        BY DEF TypeOK
      <3>2. CASE freed'[z] = {}
        BY <1>4, <3>1, <3>2
      <3>3. CASE freed'[z] # {} /\ a \in A
        <4>1. Freed(z, a)' = Freed(z, a) /\ a \notin SweepOwns(z)
          BY <1>3, <3>3
        <4>2. Freed(z, a) = 0
          BY <4>1, FreedNothing DEF BillingInv
        <4>3. QED
          BY <3>1, <4>1, <4>2
      <3>4. CASE freed'[z] # {} /\ a \notin A
        BY <1>3, <3>4 DEF BillingInv, PendingSound
      <3>5. QED
        BY <3>2, <3>3, <3>4
    <2>4. QED
      BY <2>1, <2>2, <2>3 DEF PendingSound, CheckHolds
  <1>8. QED
    BY <1>5, <1>6, <1>7 DEF BillingInv

LEMMA CreditDepositKeeps ==
  ASSUME BillingInv, NEW d \in Deposits, CreditDeposit(d)
  PROVE  BillingInv'
  <1> DEFINE a == d.account
             l == [ref |-> d.id, leg |-> "deposit", by |-> Nobody,
                   account |-> a, delta |-> d.amount]
  <1>1. a \in Accounts /\ d.amount \in Nat /\ d.amount \in Int
    BY BillingAssumption
  <1>2. /\ credit' = [credit EXCEPT ![a] = @ + d.amount]
        /\ ledger' = ledger \cup {l}
        /\ UNCHANGED <<reserved, state, buyer, quotes, held, reservedAt, pc, report, batch, freed, faults>>
    BY DEF CreditDeposit, requestVars, sweepVars
  <1>3. TypeOK'
    <2>1. l.leg \in LegNames /\ l.account \in Accounts /\ l.delta \in Int
      BY <1>1 DEF LegNames
    <2>2. credit' \in [Accounts -> Nat]
      BY <1>1, <1>2 DEF BillingInv, TypeOK
    <2>3. QED
      BY <1>2, <2>1, <2>2 DEF BillingInv, TypeOK
  <1>4. RowsSound'
    BY <1>1, <1>2 DEF BillingInv, TypeOK, RowsSound, CheckHolds
  <1>5. Lifecycle' /\ BatchApart'
    BY <1>2 DEF BillingInv, Lifecycle, BatchApart
  <1>6. Nobody \notin Callbacks /\ Nobody \notin Sweepers /\ FreeFor(a, Nobody)
    BY BillingAssumption DEF CreditDeposit
  <1>7. /\ \A c \in Callbacks : CallbackOwns(c) \cap {a} = {}
        /\ \A s \in Sweepers : SweepOwns(s) \cap {a} = {}
    BY <1>6 DEF FreeFor
  <1>8. \A b \in Accounts : b \notin {a} => credit'[b] = credit[b] /\ reserved'[b] = reserved[b]
    BY <1>2 DEF BillingInv, TypeOK
  <1>9. QED
    BY <1>2, <1>3, <1>4, <1>5, <1>7, <1>8, CommitKeeps

LEMMA ReserveBillingKeeps ==
  ASSUME BillingInv, NEW r \in Requests, NEW o \in Offers, ReserveBilling(r, o)
  PROVE  BillingInv'
  <1> DEFINE a == o.buyer
             n == ReserveOf[o]
             k == 1 + Cardinality({x \in Requests : state[x] # "none"})
  <1>1. a \in Accounts /\ o.quotes \in SUBSET Quotes
    BY BillingAssumption DEF Quotes
  <1>2. n \in Nat
    BY ReserveOfType DEF ReserveBilling, Checked, Amount
  <1> HIDE DEF n
  <1>3. k \in Nat
    <2>1. IsFiniteSet({x \in Requests : state[x] # "none"})
      BY BillingAssumption, FS_Subset
    <2>2. Cardinality({x \in Requests : state[x] # "none"}) \in Nat
      BY <2>1, FS_CardinalityType
    <2>3. QED
      BY <2>2
  <1> HIDE DEF k
  <1>4. /\ state[r] = "none"
        /\ state' = [state EXCEPT ![r] = "reserved"]
        /\ buyer' = [buyer EXCEPT ![r] = a]
        /\ quotes' = [quotes EXCEPT ![r] = o.quotes]
        /\ held' = [held EXCEPT ![r] = n]
        /\ reservedAt' = [reservedAt EXCEPT ![r] = k]
        /\ reserved' = [reserved EXCEPT ![a] = @ + n]
        /\ pc' = [c \in Callbacks |-> IF c[1] = r THEN "inflight" ELSE pc[c]]
        /\ UNCHANGED <<credit, ledger, report, batch, freed, faults>>
        /\ FreeFor(a, Nobody)
        /\ CheckHolds(credit[a], reserved[a] + n)
    BY DEF ReserveBilling, sweepVars, n, k
  <1>5. TypeOK'
    <2>1. reserved' \in [Accounts -> Nat]
      BY <1>1, <1>2, <1>4 DEF BillingInv, TypeOK
    <2>2. pc' \in [Callbacks -> Places]
      BY <1>4 DEF BillingInv, TypeOK, Places
    <2>3. state' \in [Requests -> RequestStates]
      BY <1>4 DEF BillingInv, TypeOK, RequestStates
    <2>4. /\ buyer' \in [Requests -> Accounts \cup {Nobody}]
          /\ quotes' \in [Requests -> SUBSET Quotes]
      BY <1>1, <1>4 DEF BillingInv, TypeOK
    <2>5. held' \in [Requests -> Nat] /\ reservedAt' \in [Requests -> Nat]
      BY <1>2, <1>3, <1>4 DEF BillingInv, TypeOK
    <2>6. QED
      BY <1>4, <2>1, <2>2, <2>3, <2>4, <2>5 DEF BillingInv, TypeOK
  <1>6. RowsSound'
    BY <1>1, <1>2, <1>4 DEF BillingInv, TypeOK, RowsSound, CheckHolds
  <1>7. Lifecycle'
    <2>1. ASSUME NEW x \in Requests, state'[x] = "none"
          PROVE  /\ \A f \in Finalizers : pc'[<<x, f>>] = "idle"
                 /\ \A s \in Sweepers : x \notin batch'[s] \cup freed'[s]
      <3>1. x # r /\ state[x] = "none"
        BY <1>4, <2>1 DEF BillingInv, TypeOK
      <3>2. \A f \in Finalizers : <<x, f>> \in Callbacks /\ <<x, f>>[1] = x
        BY DEF Callbacks
      <3>3. QED
        BY <1>4, <3>1, <3>2 DEF BillingInv, Lifecycle
    <2>2. \A x \in Requests : state'[x] # "none" => buyer'[x] \in Accounts
      BY <1>1, <1>4 DEF BillingInv, TypeOK, Lifecycle
    <2>3. QED
      BY <2>1, <2>2 DEF Lifecycle
  <1>8. BatchApart'
    BY <1>4 DEF BillingInv, BatchApart
  <1>9. Nobody \notin Callbacks /\ Nobody \notin Sweepers
    BY BillingAssumption
  <1>10. /\ \A c \in Callbacks : CallbackOwns(c) \cap {a} = {}
         /\ \A s \in Sweepers : SweepOwns(s) \cap {a} = {}
    BY <1>4, <1>9 DEF FreeFor
  <1>11. \A b \in Accounts : b \notin {a} => credit'[b] = credit[b] /\ reserved'[b] = reserved[b]
    BY <1>4 DEF BillingInv, TypeOK
  <1>12. ASSUME NEW c \in Callbacks, pc'[c] \in Transacting
         PROVE  /\ pc'[c] = pc[c] /\ report'[c] = report[c]
                /\ buyer'[c[1]] = buyer[c[1]] /\ quotes'[c[1]] = quotes[c[1]]
                /\ held'[c[1]] = held[c[1]]
    <2>1. c[1] # r
      BY <1>4, <1>12 DEF Transacting
    <2>2. QED
      BY <1>4, <2>1, CallbackParts DEF BillingInv, TypeOK
  <1>13. ASSUME NEW s \in Sweepers, NEW x \in freed[s]
         PROVE  buyer'[x] = buyer[x] /\ held'[x] = held[x]
    <2>1. x \in Requests /\ x # r
      BY <1>4 DEF BillingInv, TypeOK, Lifecycle
    <2>2. QED
      BY <1>4, <2>1 DEF BillingInv, TypeOK
  <1>14. \A s \in Sweepers : freed'[s] = freed[s]
    BY <1>4
  <1>15. QED
    BY <1>5, <1>6, <1>7, <1>8, <1>10, <1>11, <1>12, <1>13, <1>14, CommitKeeps

LEMMA CommitReleaseKeeps ==
  ASSUME BillingInv, NEW c \in Callbacks, CommitRelease(c)
  PROVE  BillingInv'
  <1> DEFINE r == c[1]
             a == buyer[r]
             A == CallbackOwns(c)
  <1>1. pc[c] = "release" /\ r \in Requests /\ a \in Accounts
    BY InFlightReserved, CallbackParts DEF CommitRelease
  <1>2. /\ reserved' = [reserved EXCEPT ![a] = @ - held[r]]
        /\ state' = [state EXCEPT ![r] = "released"]
        /\ pc' = [pc EXCEPT ![c] = "done"]
        /\ UNCHANGED <<credit, ledger, buyer, quotes, held, reservedAt, report, batch, freed, faults>>
    BY DEF CommitRelease, requestVars, sweepVars
  <1>3. held[r] \in Nat /\ reserved[a] \in Nat /\ credit[a] \in Nat /\ held[r] <= reserved[a]
    BY <1>1 DEF BillingInv, TypeOK, PendingSound
  <1>4. reserved[a] - held[r] \in Nat /\ reserved[a] - held[r] <= reserved[a]
    BY <1>3
  <1>5. TypeOK'
    <2>1. reserved' \in [Accounts -> Nat]
      BY <1>1, <1>2, <1>4 DEF BillingInv, TypeOK
    <2>2. state' \in [Requests -> RequestStates] /\ pc' \in [Callbacks -> Places]
      BY <1>2 DEF BillingInv, TypeOK, RequestStates, Places
    <2>3. QED
      BY <1>2, <2>1, <2>2 DEF BillingInv, TypeOK
  <1>6. RowsSound'
    BY <1>1, <1>2, <1>3, <1>4 DEF BillingInv, TypeOK, RowsSound, CheckHolds
  <1>7. Lifecycle'
    <2>1. ASSUME NEW x \in Requests, state'[x] = "none"
          PROVE  /\ \A f \in Finalizers : pc'[<<x, f>>] = "idle"
                 /\ \A s \in Sweepers : x \notin batch'[s] \cup freed'[s]
      <3>1. x # r /\ state[x] = "none"
        BY <1>2, <2>1 DEF BillingInv, TypeOK
      <3>2. \A f \in Finalizers : <<x, f>> \in Callbacks /\ <<x, f>> # c
        BY <3>1 DEF Callbacks
      <3>3. QED
        BY <1>2, <3>1, <3>2 DEF BillingInv, TypeOK, Lifecycle
    <2>2. \A x \in Requests : state'[x] # "none" => buyer'[x] \in Accounts
      BY <1>1, <1>2 DEF BillingInv, TypeOK, Lifecycle
    <2>3. QED
      BY <2>1, <2>2 DEF Lifecycle
  <1>8. BatchApart'
    BY <1>2 DEF BillingInv, BatchApart
  <1>9. \A b \in Accounts : b \notin A => credit'[b] = credit[b] /\ reserved'[b] = reserved[b]
    <2>1. held[r] > 0 => a \in A
      BY <1>1, OwnsBuyer
    <2>2. held[r] = 0 => reserved' = reserved
      BY <1>1, <1>2, <1>3 DEF BillingInv, TypeOK
    <2>3. QED
      BY <1>2, <1>3, <2>1, <2>2 DEF BillingInv, TypeOK
  <1>10. ASSUME NEW d \in Callbacks, pc'[d] \in Transacting
         PROVE  pc'[d] = pc[d] /\ CallbackOwns(d) \cap A = {}
    <2>1. d # c
      BY <1>2, <1>10 DEF BillingInv, TypeOK, Transacting
    <2>2. QED
      BY <1>2, <2>1 DEF BillingInv, TypeOK, RowsExclusive
  <1>11. \A s \in Sweepers : SweepOwns(s) \cap A = {}
    BY DEF BillingInv, RowsExclusive
  <1>12. QED
    BY <1>2, <1>5, <1>6, <1>7, <1>8, <1>9, <1>10, <1>11, CommitKeeps

\* What a settlement adds to an account, and that it leaves the accounts it
\* does not own alone.
LEMMA SettleDeltaType ==
  ASSUME BillingInv, NEW c \in Callbacks, pc[c] = "finalize", NEW a \in Accounts
  PROVE  /\ SettleDelta(c, a) \in Int
         /\ a # buyer[c[1]] => SettleDelta(c, a) >= 0
         /\ SettleDelta(c, a) >= -CostOf(c)
         /\ a \notin CallbackOwns(c) => SettleDelta(c, a) = 0
  <1>1. SettlesExactly(c)
    BY DEF BillingInv, SettlementsExact, Settling
  <1>2. CostOf(c) \in Nat /\ SplitOf(c).fee \in Nat /\ SplitOf(c).seller \in Nat
    BY <1>1 DEF SettlesExactly
  <1>3. CallbackOwns(c) =
          {buyer[c[1]], SellerOf(c)} \cup (IF SplitOf(c).fee > 0 THEN {Treasury} ELSE {})
    BY DEF CallbackOwns
  <1>4. QED
    BY <1>2, <1>3 DEF SettleDelta

LEMMA CommitSettleKeeps ==
  ASSUME BillingInv, NEW c \in Callbacks, CommitSettle(c)
  PROVE  BillingInv'
  <1> DEFINE r == c[1]
             a == buyer[r]
             A == CallbackOwns(c)
  <1>1. pc[c] = "finalize" /\ r \in Requests /\ a \in Accounts
    BY InFlightReserved, CallbackParts DEF CommitSettle
  <1>2. /\ credit' = [b \in Accounts |-> credit[b] + SettleDelta(c, b)]
        /\ reserved' = [reserved EXCEPT ![a] = @ - held[r]]
        /\ ledger' = ledger \cup SettleLegs(c)
        /\ state' = [state EXCEPT ![r] = "settled"]
        /\ pc' = [pc EXCEPT ![c] = "done"]
        /\ report' = [report EXCEPT ![c] = NoReport]
        /\ UNCHANGED <<buyer, quotes, held, reservedAt, batch, freed, faults>>
    BY DEF CommitSettle, requestVars, sweepVars
  <1>3. SettlesExactly(c)
    BY <1>1 DEF BillingInv, SettlementsExact, Settling
  <1>4. /\ held[r] \in Nat /\ CostOf(c) \in Nat
        /\ \A b \in Accounts : credit[b] \in Nat /\ reserved[b] \in Nat
    BY <1>1, <1>3 DEF BillingInv, TypeOK, SettlesExactly
  <1>5. /\ credit[a] - CostOf(c) >= 0
        /\ reserved[a] - held[r] >= 0
        /\ reserved[a] - held[r] <= credit[a] - CostOf(c)
    BY <1>1 DEF BillingInv, PendingSound, Debited, CheckHolds
  <1>6. \A b \in Accounts :
          /\ SettleDelta(c, b) \in Int
          /\ b # a => SettleDelta(c, b) >= 0
          /\ SettleDelta(c, b) >= -CostOf(c)
          /\ b \notin A => SettleDelta(c, b) = 0
    BY <1>1, SettleDeltaType
  <1> HIDE DEF a, A, r
  <1>7. \A b \in Accounts : credit'[b] \in Nat /\ (b # a => credit'[b] >= credit[b])
    BY <1>1, <1>2, <1>4, <1>5, <1>6
  <1>8. reserved' \in [Accounts -> Nat]
    BY <1>1, <1>2, <1>4, <1>5 DEF BillingInv, TypeOK
  <1>9. reserved'[a] = reserved[a] - held[r] /\ \A b \in Accounts : b # a => reserved'[b] = reserved[b]
    BY <1>1, <1>2 DEF BillingInv, TypeOK
  <1>10. TypeOK'
    <2>1. \A l \in SettleLegs(c) : l.leg \in LegNames /\ l.account \in Accounts /\ l.delta \in Int
      <3>1. SellerOf(c) \in Accounts
        BY <1>3, SellerType DEF BillingInv
      <3>2. -CostOf(c) \in Int /\ SplitOf(c).seller \in Int /\ SplitOf(c).fee \in Int
        BY <1>3 DEF SettlesExactly
      <3>3. QED
        BY <1>1, <3>1, <3>2, BillingAssumption DEF SettleLegs, Leg, LegNames, a, r
    <2>2. state' \in [Requests -> RequestStates] /\ pc' \in [Callbacks -> Places]
      BY <1>2 DEF BillingInv, TypeOK, RequestStates, Places
    <2>3. report' \in [Callbacks -> Reports \cup {NoReport}]
      BY <1>2 DEF BillingInv, TypeOK
    <2>4. credit' \in [Accounts -> Nat]
      BY <1>2, <1>7
    <2>5. QED
      BY <1>2, <1>8, <2>1, <2>2, <2>3, <2>4 DEF BillingInv, TypeOK
  <1>11. RowsSound'
    <2>1. credit'[a] = credit[a] + SettleDelta(c, a)
      BY <1>1, <1>2
    <2>2. CheckHolds(credit'[a], reserved'[a])
      BY <1>1, <1>4, <1>5, <1>6, <1>9, <2>1 DEF CheckHolds
    <2>3. ASSUME NEW b \in Accounts, b # a
          PROVE  CheckHolds(credit'[b], reserved'[b])
      BY <1>4, <1>7, <1>9, <2>3 DEF CheckHolds, BillingInv, RowsSound
    <2>4. QED
      BY <2>2, <2>3 DEF RowsSound, CheckHolds
  <1>12. Lifecycle'
    <2>1. ASSUME NEW x \in Requests, state'[x] = "none"
          PROVE  /\ \A f \in Finalizers : pc'[<<x, f>>] = "idle"
                 /\ \A s \in Sweepers : x \notin batch'[s] \cup freed'[s]
      <3>1. x # r /\ state[x] = "none"
        BY <1>2, <2>1 DEF BillingInv, TypeOK
      <3>2. \A f \in Finalizers : <<x, f>> \in Callbacks /\ <<x, f>> # c
        BY <3>1 DEF Callbacks, r
      <3>3. QED
        BY <1>2, <3>1, <3>2 DEF BillingInv, TypeOK, Lifecycle
    <2>2. \A x \in Requests : state'[x] # "none" => buyer'[x] \in Accounts
      BY <1>1, <1>2 DEF BillingInv, TypeOK, Lifecycle, a
    <2>3. QED
      BY <2>1, <2>2 DEF Lifecycle
  <1>13. BatchApart'
    BY <1>2 DEF BillingInv, BatchApart
  <1>14. \A b \in Accounts : b \notin A => credit'[b] = credit[b] /\ reserved'[b] = reserved[b]
    <2>1. a \in A
      BY <1>1, OwnsBuyer DEF Debited, a, A, r
    <2>2. QED
      BY <1>2, <1>4, <1>6, <1>9, <2>1
  <1>15. ASSUME NEW d \in Callbacks, pc'[d] \in Transacting
         PROVE  pc'[d] = pc[d] /\ report'[d] = report[d] /\ CallbackOwns(d) \cap A = {}
    <2>1. d # c
      BY <1>2, <1>15 DEF BillingInv, TypeOK, Transacting
    <2>2. QED
      BY <1>2, <2>1 DEF BillingInv, TypeOK, RowsExclusive, A
  <1>16. \A s \in Sweepers : SweepOwns(s) \cap A = {}
    BY DEF BillingInv, RowsExclusive, A
  <1>17. QED
    BY <1>2, <1>10, <1>11, <1>12, <1>13, <1>14, <1>15, <1>16, CommitKeeps

-----------------------------------------------------------------------------
(* The steps of a sweep.                                                   *)

LEMMA SweepSelectKeeps ==
  ASSUME BillingInv, NEW s \in Sweepers, NEW before, SweepSelect(s, before)
  PROVE  BillingInv'
  <1>1. PICK b \in SUBSET {r \in Requests : Sweepable(r, before)} :
          batch' = [batch EXCEPT ![s] = b]
    BY DEF SweepSelect
  <1>2. b \in SUBSET Requests /\ \A r \in b : state[r] # "none"
    BY DEF Sweepable
  <1>3. /\ freed[s] = {}
        /\ UNCHANGED <<accountVars, state, requestVars, pc, report, freed, faults>>
    BY DEF SweepSelect
  <1>4. freed' = [freed EXCEPT ![s] = {}] /\ freed'[s] = {}
    BY <1>3 DEF BillingInv, TypeOK
  <1>5. SweepOwns(s)' = {}
    BY <1>4 DEF SweepOwns
  <1>6. ASSUME NEW a \in Accounts
        PROVE  Freed(s, a)' <= reserved[a]
    <2>1. {r \in freed'[s] : buyer'[r] = a} = {}
      BY <1>4
    <2>2. Freed(s, a)' = 0
      BY <2>1, TotalEmpty DEF Freed
    <2>3. QED
      BY <2>2 DEF BillingInv, TypeOK
  <1>7. faults' \in Nat
    BY <1>3 DEF BillingInv, TypeOK
  <1>8. {} \in SUBSET Requests /\ b \cap {} = {} /\ \A r \in b \cup {} : state[r] # "none"
    BY <1>2
  <1>9. UNCHANGED <<accountVars, state, requestVars, pc, report>>
    BY <1>3
  <1>10. \A a \in SweepOwns(s)' : FreeFor(a, s)
    BY <1>5
  <1>11. QED
    BY <1>1, <1>2, <1>4, <1>6, <1>7, <1>8, <1>9, <1>10, SweepMoves

LEMMA SweepReleaseKeeps ==
  ASSUME BillingInv, NEW s \in Sweepers, SweepRelease(s)
  PROVE  BillingInv'
  <1>1. PICK r \in batch[s] :
          /\ held[r] > 0 => FreeFor(buyer[r], s)
          /\ IF held[r] = 0
                \/ CheckHolds(credit[buyer[r]], reserved[buyer[r]] - Freed(s, buyer[r]) - held[r])
               THEN /\ batch' = [batch EXCEPT ![s] = @ \ {r}]
                    /\ freed' = [freed EXCEPT ![s] = @ \cup {r}]
               ELSE EndSweep(s)
          /\ UNCHANGED <<accountVars, state, requestVars, pc, report, faults>>
    BY DEF SweepRelease
  <1>2. /\ r \in Requests /\ r \notin freed[s] /\ state[r] # "none" /\ buyer[r] \in Accounts
        /\ faults' \in Nat /\ held[r] \in Nat
    BY <1>1 DEF BillingInv, TypeOK, BatchApart, Lifecycle
  <1>3. CASE held[r] = 0
              \/ CheckHolds(credit[buyer[r]], reserved[buyer[r]] - Freed(s, buyer[r]) - held[r])
    <2> DEFINE b == batch[s] \ {r}
               e == freed[s] \cup {r}
    <2>1. /\ batch' = [batch EXCEPT ![s] = b]
          /\ freed' = [freed EXCEPT ![s] = e]
          /\ freed'[s] = e
      BY <1>1, <1>3 DEF BillingInv, TypeOK
    <2>2. b \in SUBSET Requests /\ e \in SUBSET Requests /\ b \cap e = {}
      BY <1>2 DEF BillingInv, TypeOK, BatchApart
    <2>3. \A x \in b \cup e : state[x] # "none"
      BY <1>2 DEF BillingInv, TypeOK, Lifecycle
    <2>4. buyer' = buyer /\ held' = held
      BY <1>1 DEF requestVars
    <2>5. SweepOwns(s)' = SweepOwns(s) \cup (IF held[r] > 0 THEN {buyer[r]} ELSE {})
      BY <2>1, <2>4 DEF SweepOwns
    <2>6. \A a \in SweepOwns(s)' : FreeFor(a, s)
      BY <1>1, <2>5, SweptFree
    <2>7. ASSUME NEW a \in Accounts
          PROVE  Freed(s, a)' <= reserved[a]
      <3> DEFINE S == {x \in freed[s] : buyer[x] = a}
      <3>1. Freed(s, a) <= reserved[a] /\ reserved[a] \in Nat
        BY DEF BillingInv, PendingSound, TypeOK
      <3>2. IsFiniteSet(S) /\ r \notin S /\ \A x \in S \cup {r} : held[x] \in Nat
        BY <1>2, FreedType DEF BillingInv
      <3>3. Freed(s, a) \in Nat
        BY FreedType DEF BillingInv
      <3>4. CASE buyer[r] = a
        <4>1. {x \in freed'[s] : buyer'[x] = a} = S \cup {r}
          BY <2>1, <2>4, <3>4
        <4>2. Total(held, S \cup {r}) = Total(held, S) + held[r]
          BY <3>2, TotalAdd
        <4>3. Freed(s, a)' = Freed(s, a) + held[r]
          BY <2>4, <4>1, <4>2 DEF Freed
        <4>4. QED
          BY <1>2, <1>3, <3>1, <3>3, <3>4, <4>3 DEF CheckHolds
      <3>5. CASE buyer[r] # a
        <4>1. {x \in freed'[s] : buyer'[x] = a} = S
          BY <2>1, <2>4, <3>5
        <4>2. Freed(s, a)' = Freed(s, a)
          BY <2>4, <4>1 DEF Freed
        <4>3. QED
          BY <3>1, <4>2
      <3>6. QED
        BY <3>4, <3>5
    <2>8. QED
      BY <1>1, <1>2, <2>1, <2>2, <2>3, <2>6, <2>7, SweepMoves
  <1>4. CASE ~(held[r] = 0
              \/ CheckHolds(credit[buyer[r]], reserved[buyer[r]] - Freed(s, buyer[r]) - held[r]))
    BY <1>1, <1>2, <1>4, EndSweepKeeps
  <1>5. QED
    BY <1>3, <1>4

LEMMA SweepCommitKeeps ==
  ASSUME BillingInv, NEW s \in Sweepers, SweepCommit(s)
  PROVE  BillingInv'
  <1> DEFINE A == SweepOwns(s)
  <1>1. /\ reserved' = [a \in Accounts |-> reserved[a] - Freed(s, a)]
        /\ state' = [r \in Requests |-> IF r \in freed[s] THEN "released" ELSE state[r]]
        /\ batch' = [batch EXCEPT ![s] = {}]
        /\ freed' = [freed EXCEPT ![s] = {}]
        /\ UNCHANGED <<credit, ledger, buyer, quotes, held, reservedAt, pc, report, faults>>
    BY DEF SweepCommit, EndSweep, requestVars
  <1>2. \A a \in Accounts : /\ Freed(s, a) \in Nat /\ Freed(s, a) <= reserved[a]
                            /\ reserved[a] \in Nat /\ credit[a] \in Nat
    BY FreedType DEF BillingInv, TypeOK, PendingSound
  <1>3. \A a \in Accounts : reserved[a] - Freed(s, a) \in Nat /\ reserved'[a] <= reserved[a]
    BY <1>1, <1>2
  <1>4. TypeOK'
    <2>1. reserved' \in [Accounts -> Nat]
      BY <1>1, <1>3
    <2>2. state' \in [Requests -> RequestStates]
      BY <1>1 DEF BillingInv, TypeOK, RequestStates
    <2>3. QED
      BY <1>1, <2>1, <2>2 DEF BillingInv, TypeOK
  <1>5. RowsSound'
    BY <1>1, <1>2, <1>3 DEF BillingInv, RowsSound, CheckHolds
  <1>6. Lifecycle'
    <2>1. ASSUME NEW x \in Requests
          PROVE  /\ state'[x] = "none" => /\ state[x] = "none"
                                          /\ \A z \in Sweepers : x \notin batch'[z] \cup freed'[z]
                 /\ state'[x] # "none" => state[x] # "none"
      BY <1>1 DEF BillingInv, TypeOK, Lifecycle
    <2>2. QED
      BY <1>1, <2>1 DEF BillingInv, Lifecycle
  <1>7. BatchApart'
    BY <1>1 DEF BillingInv, TypeOK, BatchApart
  <1>8. \A a \in Accounts : a \notin A => credit'[a] = credit[a] /\ reserved'[a] = reserved[a]
    <2>1. \A a \in Accounts : a \notin A => Freed(s, a) = 0
      BY FreedNothing DEF BillingInv
    <2>2. QED
      BY <1>1, <1>2, <2>1
  <1>9. \A d \in Callbacks : CallbackOwns(d) \cap A = {}
    BY DEF BillingInv, RowsExclusive
  <1>10. \A z \in Sweepers : freed'[z] # {} => freed'[z] = freed[z] /\ SweepOwns(z) \cap A = {}
    BY <1>1 DEF BillingInv, TypeOK, RowsExclusive
  <1>11. QED
    BY <1>1, <1>4, <1>5, <1>6, <1>7, <1>8, <1>9, <1>10, CommitKeeps

-----------------------------------------------------------------------------
(* The invariant holds.                                                    *)

LEMMA BillingInvInit == Init => BillingInv
  <1> SUFFICES ASSUME Init PROVE BillingInv
    OBVIOUS
  <1>1. TypeOK
    BY DEF Init, TypeOK, RequestStates, Places
  <1>2. RowsSound /\ Lifecycle /\ BatchApart
    BY DEF Init, RowsSound, CheckHolds, Lifecycle, BatchApart, Callbacks
  <1>3. SettlementsExact
    BY DEF Init, SettlementsExact, Settling
  <1>4. \A c \in Callbacks : CallbackOwns(c) = {}
    BY DEF Init, CallbackOwns
  <1>5. \A s \in Sweepers : SweepOwns(s) = {}
    BY DEF Init, SweepOwns
  <1>6. RowsExclusive
    BY <1>4, <1>5 DEF RowsExclusive
  <1>7. \A s \in Sweepers, a \in Accounts : Freed(s, a) = 0
    BY <1>1, <1>5, FreedNothing
  <1>8. PendingSound
    BY <1>7 DEF Init, PendingSound, Debited
  <1>9. QED
    BY <1>1, <1>2, <1>3, <1>6, <1>8 DEF BillingInv

LEMMA BillingInvStep == BillingInv /\ [Next]_vars => BillingInv'
  <1> SUFFICES ASSUME BillingInv, [Next]_vars PROVE BillingInv'
    OBVIOUS
  <1>1. ASSUME NEW d \in Deposits, CreditDeposit(d) PROVE BillingInv'
    BY <1>1, CreditDepositKeeps
  <1>2. ASSUME NEW r \in Requests, NEW o \in Offers, ReserveBilling(r, o) PROVE BillingInv'
    BY <1>2, ReserveBillingKeeps
  <1>3. ASSUME NEW c \in Callbacks, LoseResponse(c) PROVE BillingInv'
    BY <1>3, LoseResponseKeeps
  <1>4. ASSUME NEW c \in Callbacks, CallbackStep(c) PROVE BillingInv'
    <2>1. CASE \E u \in Reports : BeginSettle(c, u)
      BY <2>1, BeginSettleKeeps
    <2>2. CASE BeginRelease(c)
      BY <2>2, BeginReleaseKeeps
    <2>3. CASE Unreserve(c)
      BY <2>3, UnreserveKeeps
    <2>4. CASE CommitRelease(c)
      BY <2>4, CommitReleaseKeeps
    <2>5. CASE DebitBuyer(c)
      BY <2>5, DebitBuyerKeeps
    <2>6. CASE CreditSeller(c)
      BY <2>6, CreditSellerKeeps
    <2>7. CASE CreditTreasury(c)
      BY <2>7, CreditTreasuryKeeps
    <2>8. CASE CommitSettle(c)
      BY <2>8, CommitSettleKeeps
    <2>9. CASE RefuseSecondCharge(c)
      <3>1. state[c[1]] # "none" /\ faults' \in Nat
        BY <2>9, InFlightReserved DEF RefuseSecondCharge, BillingInv, TypeOK
      <3>2. QED
        BY <2>9, <3>1, RollbackKeeps DEF RefuseSecondCharge
    <2>10. QED
      BY <1>4, <2>1, <2>2, <2>3, <2>4, <2>5, <2>6, <2>7, <2>8, <2>9
      DEF CallbackStep, FinishSettle
  <1>5. ASSUME NEW c \in Callbacks, CallbackFails(c) PROVE BillingInv'
    <2>1. state[c[1]] # "none" /\ faults' \in Nat
      BY <1>5, InFlightReserved
      DEF CallbackFails, RunningCallbacks, Transacting, BillingInv, TypeOK
    <2>2. QED
      BY <1>5, <2>1, RollbackKeeps DEF CallbackFails
  <1>6. ASSUME NEW s \in Sweepers, SweepStep(s) PROVE BillingInv'
    BY <1>6, SweepSelectKeeps, SweepReleaseKeeps, SweepCommitKeeps DEF SweepStep
  <1>7. ASSUME NEW s \in Sweepers, SweepFails(s) PROVE BillingInv'
    <2>1. faults' \in Nat
      BY <1>7 DEF SweepFails, BillingInv, TypeOK
    <2>2. QED
      BY <1>7, <2>1, EndSweepKeeps DEF SweepFails
  <1>8. ASSUME DeadlockVictim PROVE BillingInv'
    <2>1. faults' \in Nat
      BY <1>8 DEF DeadlockVictim, BillingInv, TypeOK
    <2>2. ASSUME NEW c \in RunningCallbacks, Rollback(c) PROVE BillingInv'
      <3>1. c \in Callbacks /\ state[c[1]] # "none"
        BY <2>2, InFlightReserved DEF RunningCallbacks, Transacting
      <3>2. QED
        BY <2>1, <2>2, <3>1, RollbackKeeps
    <2>3. ASSUME NEW s \in RunningSweeps, EndSweep(s),
                 UNCHANGED <<accountVars, state, requestVars, pc, report>>
          PROVE  BillingInv'
      <3>1. s \in Sweepers
        BY DEF RunningSweeps
      <3>2. QED
        BY <2>1, <2>3, <3>1, EndSweepKeeps
    <2>4. QED
      BY <1>8, <2>2, <2>3 DEF DeadlockVictim
  <1>9. CASE UNCHANGED vars
    <2>1. /\ UNCHANGED <<credit, reserved, ledger, state, buyer, quotes, held, reservedAt>>
          /\ UNCHANGED <<pc, report, batch, freed, faults>>
      BY <1>9 DEF vars
    <2>2. TypeOK' /\ RowsSound' /\ Lifecycle' /\ BatchApart'
      BY <2>1 DEF BillingInv, TypeOK, RowsSound, CheckHolds, Lifecycle, BatchApart
    <2>3. /\ \A d \in Callbacks : CallbackOwns(d) \cap {} = {}
          /\ \A z \in Sweepers : SweepOwns(z) \cap {} = {}
      OBVIOUS
    <2>4. \A a \in Accounts : a \notin {} => credit'[a] = credit[a] /\ reserved'[a] = reserved[a]
      BY <2>1
    <2>5. QED
      BY <2>1, <2>2, <2>3, <2>4, CommitKeeps
  <1>10. QED
    BY <1>1, <1>2, <1>3, <1>4, <1>5, <1>6, <1>7, <1>8, <1>9 DEF Next

\* The columns keep their types under every race, crash and deadlock: no
\* committed balance or reservation ever becomes negative.
THEOREM TypeCorrect == Spec => []TypeOK
  <1>1. BillingInv => TypeOK
    BY DEF BillingInv
  <1>2. QED
    BY <1>1, BillingInvInit, BillingInvStep, PTL DEF Spec
=============================================================================
