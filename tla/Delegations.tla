---------------------------- MODULE Delegations ----------------------------
(***************************************************************************)
(* Delegated allowances.  A buyer approves the settlement authority as     *)
(* delegate of its token account; the poller (internal/delegations) copies *)
(* the approved amount into account_allowances and mirrors every change    *)
(* into the buyer's credit.  The settlement worker claims the ledger legs  *)
(* of charges into batches, deducting the allowance, and moves each batch  *)
(* on chain; a batch that fails is restored (internal/store).              *)
(*                                                                         *)
(* An account has one wallet and links do not change.  A charge has an     *)
(* earn leg for the seller and a fee leg with the same ref; it draws its   *)
(* place in the ledger before its transaction commits.  A claim reads, and *)
(* then writes, in one transaction whose row locks make the writes one     *)
(* step.  A worker handles the rows of a sweep one after the other and     *)
(* independently, so a sweep is modelled row by row.  The anchors of       *)
(* delegation_settlement_legs are read by nothing and left out.  The chain *)
(* is external: a transaction is one per batch and executes at most once,  *)
(* before its blockhash expires.                                           *)
(***************************************************************************)
EXTENDS Totals, FiniteSetsExt

CONSTANTS Buyers, Sellers, Treasury,
          Linked,          \* accounts with a primary wallet
          Workers, Pollers,
          Approvals,       \* amounts a buyer may approve: the chain's are uint64
          MaxRaw,          \* the largest int64
          EarnRaw, FeeRaw, \* what a charge moves to the seller and the treasury
          MaxLeg,          \* bound on charges
          FeeModes,        \* is a treasury wallet configured?
          LegLimit,        \* legs per claim: 500 in the code
          MaxSlot,         \* bound on the slots in which users act
          Nobody

ASSUME DelegationsAssumption ==
  /\ {EarnRaw, FeeRaw, LegLimit} \subseteq Nat \ {0}
  /\ {MaxLeg, MaxSlot, MaxRaw} \subseteq Nat
  /\ Approvals \subseteq 1 .. 2 * MaxRaw + 1
  /\ Linked \subseteq Buyers \cup Sellers
  /\ Treasury \notin Sellers
  /\ FeeModes \subseteq BOOLEAN

Legs == 1 .. MaxLeg
ChargeRaw == EarnRaw + FeeRaw
Refs == [buyer : Buyers, dest : Sellers \cup {Treasury}, min : Legs, max : Legs]
OpenStates == {"pending", "signed", "broadcast"}

VARIABLES account,    \* on chain: does the token account exist, what is delegated to us
          slot,       \* the chain's slot
          allowance,  \* account_allowances.allowance_raw
          registered, \* there is a row of account_allowances
          revoked,    \* account_allowances.revoked_at is set, or there is no row
          credit, reserved,  \* account_credits
          mirrored,   \* sum of the delegation legs of the ledger
          observed,   \* (ref, leg) of the delegation legs of the ledger
          leg,        \* the charges, by their place in the ledger
          cursor,     \* delegation_settlement_cursors.last_leg_id
          batch,      \* delegation_settlements, by batch_ref
          settleFees, \* TreasuryWallet is set: fees are settled on chain too
          poll,       \* what a poller is doing
          work,       \* what a worker is doing
          overlapped, \* ghost: a claim has moved a cursor it had not read
          replayed,   \* ghost: an observation was refused as a replay
          unlocked,   \* ghost: an observation was booked against a stale amount
          shortfall,  \* ghost: what revocations could not take from the credit
          wrapped,    \* ghost: a credit has exceeded int64
          forfeited   \* ghost: restored while the allowance was revoked

chainVars == <<account, slot>>
registryVars == <<allowance, registered, revoked, mirrored, observed>>
creditVars == <<credit, reserved>>
claimVars == <<leg, cursor, batch, settleFees>>
bookVars == <<replayed, unlocked, shortfall, wrapped>>
ghostVars == <<overlapped, bookVars, forfeited>>
vars == <<chainVars, registryVars, creditVars, claimVars, poll, work, ghostVars>>

NoLeg == [state |-> "none", buyer |-> Nobody, seller |-> Nobody]
Resting == [at |-> "idle"]

Init ==
  /\ account = [b \in Buyers |-> [exists |-> TRUE, delegated |-> 0]]
  /\ slot = 1
  /\ allowance = [b \in Buyers |-> 0]
  /\ registered = [b \in Buyers |-> FALSE]
  /\ revoked = [b \in Buyers |-> TRUE]
  /\ credit = [b \in Buyers |-> 0]
  /\ reserved = [b \in Buyers |-> 0]
  /\ mirrored = [b \in Buyers |-> 0]
  /\ observed = {}
  /\ leg = [i \in Legs |-> NoLeg]
  /\ cursor = 0
  /\ batch = <<>>
  /\ settleFees \in FeeModes
  /\ poll = [p \in Pollers |-> Resting]
  /\ work = [w \in Workers |-> Resting]
  /\ overlapped = FALSE
  /\ replayed = FALSE
  /\ unlocked = FALSE
  /\ shortfall = [b \in Buyers |-> 0]
  /\ wrapped = FALSE
  /\ forfeited = [b \in Buyers |-> 0]

-----------------------------------------------------------------------------
(* The buyers on chain.                                                    *)

SetAccount(b, exists, n) ==
  /\ slot < MaxSlot
  /\ account' = [account EXCEPT ![b] = [exists |-> exists, delegated |-> n]]
  /\ slot' = slot + 1
  /\ UNCHANGED <<registryVars, creditVars, claimVars, poll, work, ghostVars>>

\* SPL approve, also with another amount than before; revoke, or approval of
\* another delegate; the token account is closed.
Approve(b) == account[b].exists /\ \E n \in Approvals : SetAccount(b, TRUE, n)
RevokeOnChain(b) == account[b].delegated > 0 /\ SetAccount(b, TRUE, 0)
CloseAccount(b) == account[b].exists /\ SetAccount(b, FALSE, 0)
ReopenAccount(b) == ~account[b].exists /\ SetAccount(b, TRUE, 0)

-----------------------------------------------------------------------------
(* The poller: observeWallet and UpsertAllowance.                          *)

\* TokenDelegation: an account that does not exist is answered without a slot.
TokenDelegation(b) ==
  IF account[b].exists THEN [amount |-> account[b].delegated, slot |-> slot]
  ELSE [amount |-> 0, slot |-> 0]

\* int64(x) of a uint64 or of an int64 sum: what exceeds MaxRaw turns negative.
ToInt64(n) == IF n > MaxRaw THEN n - 2 * (MaxRaw + 1) ELSE n

Active(b) == ~revoked[b] /\ allowance[b] > 0

\* Mutant: an account that does not exist is taken for a failed read.
Readable_Existing(b) == account[b].exists

\* A missing account is an observation like any other.
Readable(b) == TRUE

ObserveWallet(p, b) ==
  /\ poll[p].at = "idle"
  /\ b \in Linked /\ Readable(b)
  /\ poll' = [poll EXCEPT ![p] =
                [at |-> IF TokenDelegation(b).amount > 0 THEN "upsert" ELSE "check",
                 buyer |-> b, slot |-> TokenDelegation(b).slot,
                 amount |-> ToInt64(TokenDelegation(b).amount)]]
  /\ UNCHANGED <<chainVars, registryVars, creditVars, claimVars, work, ghostVars>>

\* AccountAllowances: nothing is written for an account that held nothing.
CheckRegistry(p) ==
  /\ poll[p].at = "check"
  /\ poll' = [poll EXCEPT ![p] =
                IF Active(poll[p].buyer) THEN [poll[p] EXCEPT !.at = "upsert"] ELSE Resting]
  /\ UNCHANGED <<chainVars, registryVars, creditVars, claimVars, work, ghostVars>>

\* The observation is written against the amount prev that was read.  The
\* registry takes the absolute amount; the delta is mirrored into ledger and
\* credit unless the ledger has a leg of this ref already.  A revocation is
\* clamped at the open reservations.
MirrorDelta(p, prev) ==
  LET b == poll[p].buyer
      n == poll[p].amount
      delta == n - prev
      ref == <<b, poll[p].slot, IF delta < 0 THEN "revoke" ELSE "grant">>
      newCredit == ToInt64(credit[b] + delta) IN
  /\ allowance' = [allowance EXCEPT ![b] = n]
  /\ registered' = [registered EXCEPT ![b] = TRUE]
  /\ revoked' = [revoked EXCEPT ![b] = (n = 0)]
  /\ IF delta # 0 /\ ref \notin observed
       THEN /\ observed' = observed \cup {ref}
            /\ mirrored' = [mirrored EXCEPT ![b] = @ + delta]
            /\ credit' = [credit EXCEPT ![b] = Max({reserved[b], newCredit})]
            /\ shortfall' = [shortfall EXCEPT ![b] = @ + Max({0, reserved[b] - newCredit})]
            /\ wrapped' = (wrapped \/ credit[b] + delta > MaxRaw)
       ELSE UNCHANGED <<observed, mirrored, credit, shortfall, wrapped>>
  /\ replayed' = (replayed \/ (delta # 0 /\ ref \in observed))
  /\ unlocked' = (unlocked \/ prev # allowance[b])
  /\ poll' = [poll EXCEPT ![p] = Resting]
  /\ UNCHANGED <<chainVars, reserved, claimVars, work, overlapped, forfeited>>

\* The row is locked from the read of its amount to the commit.
UpsertAllowance(p) ==
  /\ poll[p].at = "upsert" /\ poll[p].amount >= 0
  /\ registered[poll[p].buyer]
  /\ MirrorDelta(p, allowance[poll[p].buyer])

\* FOR UPDATE finds no row and locks nothing (the account has its credit row,
\* on whose insertion first observations would wait for each other) ...
SelectMissing(p) ==
  /\ poll[p].at = "upsert" /\ poll[p].amount >= 0
  /\ ~registered[poll[p].buyer]
  /\ poll' = [poll EXCEPT ![p].at = "insert"]
  /\ UNCHANGED <<chainVars, registryVars, creditVars, claimVars, work, ghostVars>>

\* ... and the row is inserted, or overwritten if there is one by now.
InsertAllowance(p) == poll[p].at = "insert" /\ MirrorDelta(p, 0)

\* ErrInvalid: the amount was above MaxRaw on chain.
RefuseNegative(p) ==
  /\ poll[p].at = "upsert" /\ poll[p].amount < 0
  /\ poll' = [poll EXCEPT ![p] = Resting]
  /\ UNCHANGED <<chainVars, registryVars, creditVars, claimVars, work, ghostVars>>

\* A failed read or write is logged; the next wallet is looked at.
PollFails(p) ==
  /\ poll[p].at # "idle"
  /\ poll' = [poll EXCEPT ![p] = Resting]
  /\ UNCHANGED <<chainVars, registryVars, creditVars, claimVars, work, ghostVars>>

-----------------------------------------------------------------------------
(* Charges: the part of the billing store that meets the registry.         *)

\* ReserveBilling, bounded by the credit left and by the active allowance; the
\* settlement will draw place i of the ledger.
Charge(i, b, s) ==
  LET left == credit[b] - reserved[b] IN
  /\ leg[i] = NoLeg
  /\ \A k \in 1 .. i - 1 : leg[k] # NoLeg
  /\ ChargeRaw <= (IF Active(b) THEN Min({left, allowance[b]}) ELSE left)
  /\ reserved' = [reserved EXCEPT ![b] = @ + ChargeRaw]
  /\ leg' = [leg EXCEPT ![i] = [state |-> "drawn", buyer |-> b, seller |-> s]]
  /\ UNCHANGED <<chainVars, registryVars, credit, cursor, batch, settleFees, poll, work, ghostVars>>

\* The settlement commits: earn and fee leg become visible.
CommitLegs(i) ==
  LET b == leg[i].buyer IN
  /\ leg[i].state = "drawn"
  /\ leg' = [leg EXCEPT ![i].state = "committed"]
  /\ credit' = [credit EXCEPT ![b] = @ - ChargeRaw]
  /\ reserved' = [reserved EXCEPT ![b] = @ - ChargeRaw]
  /\ UNCHANGED <<chainVars, registryVars, cursor, batch, settleFees, poll, work, ghostVars>>

-----------------------------------------------------------------------------
(* The claim: ClaimDelegationSettlements.                                  *)

\* The oldest legs past the cursor whose buyer has an active allowance.
Window ==
  LET open == {i \in Legs : i > cursor /\ leg[i].state = "committed" /\ Active(leg[i].buyer)} IN
  {i \in open : Cardinality({k \in open : k < i}) < LegLimit}

\* Cursor, legs and wallets are read.  An empty window leaves the cursor.
ClaimRead(w) ==
  /\ work[w].at = "idle"
  /\ Window # {}
  /\ work' = [work EXCEPT ![w] = [at |-> "claim", legs |-> Window, from |-> cursor]]
  /\ UNCHANGED <<chainVars, registryVars, creditVars, claimVars, poll, ghostVars>>

BuyersOf(is) == {leg[i].buyer : i \in is}
LegsOf(is, b) == {i \in is : leg[i].buyer = b}

\* A buyer without a wallet, or with a leg for a seller without one, is skipped.
Payable(is, b) == b \in Linked /\ \A i \in LegsOf(is, b) : leg[i].seller \in Linked

\* buyerSource: the wallet of the last buyer of the pass that has one.
LastSource(is) == leg[Max({i \in is : leg[i].buyer \in Linked})].buyer

Ref(b, dest, is) == [buyer |-> b, dest |-> dest, min |-> Min(is), max |-> Max(is)]
NewBatch(source, is, raw) ==
  [source |-> source, legs |-> is, amount |-> raw * Cardinality(is),
   state |-> "pending", tx |-> "none", expired |-> FALSE]

\* The batches of one buyer: one per seller, and one for the fees.
BatchesFor(is, b) ==
  LET mine == LegsOf(is, b)
      to(s) == {i \in mine : leg[i].seller = s}
      earned == {Ref(b, s, to(s)) : s \in {leg[i].seller : i \in mine}}
      fees == IF settleFees THEN {Ref(b, Treasury, mine)} ELSE {} IN
  [r \in earned \cup fees |->
     IF r.dest = Treasury THEN NewBatch(LastSource(is), mine, FeeRaw)
     ELSE NewBatch(b, to(r.dest), EarnRaw)]

\* Mutant: the pass leaves the cursor where it was.
NewCursor_Kept(is) == cursor

\* The cursor is overwritten, whatever it has become.
NewCursor(is) == Max(is)

\* Per buyer: the allowance is deducted if it covers the total, then the
\* batches are inserted unless their refs exist.
ClaimCommit(w) ==
  LET is == work[w].legs
      total(b) == (IF settleFees THEN ChargeRaw ELSE EarnRaw) * Cardinality(LegsOf(is, b))
      served == {b \in BuyersOf(is) : /\ Payable(is, b)
                                      /\ ~revoked[b] /\ allowance[b] >= total(b)}
      planned == UNION {DOMAIN BatchesFor(is, b) : b \in served} IN
  /\ work[w].at = "claim"
  /\ allowance' = [b \in Buyers |-> allowance[b] - (IF b \in served THEN total(b) ELSE 0)]
  /\ batch' = [r \in DOMAIN batch \cup planned |->
                 IF r \in DOMAIN batch THEN batch[r] ELSE BatchesFor(is, r.buyer)[r]]
  /\ cursor' = NewCursor(is)
  /\ overlapped' = (overlapped \/ cursor # work[w].from)
  /\ work' = [work EXCEPT ![w] = Resting]
  /\ UNCHANGED <<chainVars, registered, revoked, mirrored, observed, creditVars, leg, settleFees, poll,
                 bookVars, forfeited>>

-----------------------------------------------------------------------------
(* The worker: advance moves a copy of a batch by one state.               *)

\* What a sweep copied and the RPCs answered; the row lock ends with the query.
Learn(w, r, what) == work[w].at = "idle" /\ work' = [work EXCEPT ![w] = [at |-> what, ref |-> r]]
Done(w) == work' = [work EXCEPT ![w] = Resting]

\* signAndStore: of several replicas the first persists its wire.
MarkSettlementSigned(r) ==
  /\ batch[r].state = "pending"
  /\ batch' = [batch EXCEPT ![r].state = "signed"]
  /\ UNCHANGED <<chainVars, registryVars, creditVars, leg, cursor, settleFees, poll, work, ghostVars>>

Executed(r) == batch[r].tx \in {"landed", "failed"}

\* broadcastStored: the node takes the wire or knows it, and the worker may or
\* may not hear of it.
SendTransaction(w, r) ==
  /\ batch[r].state = "signed"
  /\ ~batch[r].expired \/ Executed(r)
  /\ batch' = IF batch[r].tx = "none" THEN [batch EXCEPT ![r].tx = "network"] ELSE batch
  /\ Learn(w, r, "sent") \/ UNCHANGED work
  /\ UNCHANGED <<chainVars, registryVars, creditVars, leg, cursor, settleFees, poll, ghostVars>>

\* broadcastStored: the node refuses an expired blockhash.
SendExpired(w, r) ==
  /\ batch[r].state = "signed" /\ batch[r].expired
  /\ Learn(w, r, "dead")
  /\ UNCHANGED <<chainVars, registryVars, creditVars, claimVars, poll, ghostVars>>

MarkSettlementBroadcast(w) ==
  LET r == work[w].ref IN
  /\ work[w].at = "sent"
  /\ batch' = IF batch[r].state = "signed" THEN [batch EXCEPT ![r].state = "broadcast"] ELSE batch
  /\ Done(w)
  /\ UNCHANGED <<chainVars, registryVars, creditVars, leg, cursor, settleFees, poll, ghostVars>>

\* finalizeOrRestore: the status, then for an unknown signature the height.
SignatureStatus(w, r) ==
  /\ batch[r].state = "broadcast"
  /\ \/ batch[r].tx = "landed" /\ Learn(w, r, "final")
     \/ batch[r].tx = "failed" /\ Learn(w, r, "dead")
     \/ ~Executed(r) /\ batch[r].expired /\ Learn(w, r, "dead")
  /\ UNCHANGED <<chainVars, registryVars, creditVars, claimVars, poll, ghostVars>>

FinalizeSettlement(w) ==
  LET r == work[w].ref IN
  /\ work[w].at = "final"
  /\ batch' = IF batch[r].state = "broadcast" THEN [batch EXCEPT ![r].state = "finalized"] ELSE batch
  /\ Done(w)
  /\ UNCHANGED <<chainVars, registryVars, creditVars, leg, cursor, settleFees, poll, ghostVars>>

\* Mutant: a batch is restored in whatever state it is.
Restorable_Always(r) == TRUE

Restorable(r) == batch[r].state \in OpenStates

\* RestoreSettlement: the allowance comes back unless it was revoked.
RestoreSettlement(w) ==
  LET r == work[w].ref
      n == batch[r].amount
      b == r.buyer IN
  /\ work[w].at = "dead"
  /\ IF Restorable(r)
       THEN /\ batch' = [batch EXCEPT ![r].state = "restored"]
            /\ allowance' = [allowance EXCEPT ![b] = IF revoked[b] THEN @ ELSE @ + n]
            /\ forfeited' = [forfeited EXCEPT ![b] = IF revoked[b] THEN @ + n ELSE @]
       ELSE UNCHANGED <<batch, allowance, forfeited>>
  /\ Done(w)
  /\ UNCHANGED <<chainVars, registered, revoked, mirrored, observed, creditVars, leg, cursor, settleFees,
                 poll, overlapped, bookVars>>

\* A failed call, a rolled-back claim or a crash: what the worker held is gone.
WorkFails(w) ==
  /\ work[w].at # "idle"
  /\ Done(w)
  /\ UNCHANGED <<chainVars, registryVars, creditVars, claimVars, poll, ghostVars>>

-----------------------------------------------------------------------------
(* The chain.                                                              *)

\* transfer_checked by the delegate; it fails when less is delegated.
Execute(r) ==
  LET b == batch[r].source
      n == batch[r].amount
      ok == account[b].delegated >= n IN
  /\ batch[r].tx = "network" /\ ~batch[r].expired
  /\ batch' = [batch EXCEPT ![r].tx = IF ok THEN "landed" ELSE "failed"]
  /\ account' = IF ok THEN [account EXCEPT ![b].delegated = @ - n] ELSE account
  /\ slot' = slot + 1
  /\ UNCHANGED <<registryVars, creditVars, leg, cursor, settleFees, poll, work, ghostVars>>

ExpireBlockhash(r) ==
  /\ batch[r].state # "pending" /\ ~batch[r].expired
  /\ batch' = [batch EXCEPT ![r].expired = TRUE]
  /\ UNCHANGED <<chainVars, registryVars, creditVars, leg, cursor, settleFees, poll, work, ghostVars>>

\* Slots pass.
NextSlot ==
  /\ slot < MaxSlot
  /\ slot' = slot + 1
  /\ UNCHANGED <<account, registryVars, creditVars, claimVars, poll, work, ghostVars>>

-----------------------------------------------------------------------------
Upsert(p) == UpsertAllowance(p) \/ SelectMissing(p) \/ RefuseNegative(p)
Poll(p) == CheckRegistry(p) \/ Upsert(p) \/ InsertAllowance(p)

Next ==
  \/ \E b \in Buyers : Approve(b) \/ RevokeOnChain(b) \/ CloseAccount(b) \/ ReopenAccount(b)
  \/ \E p \in Pollers : (\E b \in Buyers : ObserveWallet(p, b)) \/ Poll(p) \/ PollFails(p)
  \/ \E i \in Legs : (\E b \in Buyers, s \in Sellers : Charge(i, b, s)) \/ CommitLegs(i)
  \/ \E w \in Workers :
       \/ ClaimRead(w) \/ ClaimCommit(w) \/ WorkFails(w)
       \/ MarkSettlementBroadcast(w) \/ FinalizeSettlement(w) \/ RestoreSettlement(w)
       \/ \E r \in DOMAIN batch :
            SendTransaction(w, r) \/ SendExpired(w, r) \/ SignatureStatus(w, r)
  \/ \E r \in DOMAIN batch : MarkSettlementSigned(r) \/ Execute(r) \/ ExpireBlockhash(r)
  \/ NextSlot

Spec == Init /\ [][Next]_vars

\* The poll ticker fires for ever, each pass looks at every wallet, and of
\* calls repeated again and again some succeed.
Fairness ==
  \A p \in Pollers :
    /\ \A b \in Buyers : SF_vars(ObserveWallet(p, b))
    /\ SF_vars(CheckRegistry(p)) /\ SF_vars(Upsert(p)) /\ SF_vars(InsertAllowance(p))

FairSpec == Spec /\ Fairness

-----------------------------------------------------------------------------
(* Properties.                                                             *)

BatchAmount == [r \in DOMAIN batch |-> batch[r].amount]
BatchesOf(b, states) == {r \in DOMAIN batch : r.buyer = b /\ batch[r].state \in states}

TypeOK ==
  /\ account \in [Buyers -> [exists : BOOLEAN, delegated : Nat]]
  /\ slot \in Nat
  /\ allowance \in [Buyers -> Nat] /\ {registered, revoked} \subseteq [Buyers -> BOOLEAN]
  /\ credit \in [Buyers -> Nat] /\ reserved \in [Buyers -> Nat]
  /\ mirrored \in [Buyers -> Int]
  /\ cursor \in 0 .. MaxLeg
  /\ DOMAIN batch \subseteq Refs
  /\ \A r \in DOMAIN batch : batch[r].state \in OpenStates \cup {"finalized", "restored"}

\* What open batches have deducted and the chain has not moved yet.
InFlight(b) == Total(BatchAmount, BatchesOf(b, OpenStates))

\* The charges a buyer has paid.
ChargesOf(b) == {i \in Legs : leg[i].state = "committed" /\ leg[i].buyer = b}

\* The registry is a ledger: what was mirrored is the allowance left, plus what
\* settlement batches took and did not give back.
RegistryBalanced ==
  \A b \in Buyers :
    allowance[b] + Total(BatchAmount, BatchesOf(b, OpenStates \cup {"finalized"})) + forfeited[b]
      = mirrored[b]

\* The credit follows it: what was mirrored, and what revocations could not
\* take back, is the credit left plus the charges.
CreditFollows ==
  \A b \in Buyers :
    credit[b] + ChargeRaw * Cardinality(ChargesOf(b)) = mirrored[b] + shortfall[b]

\* UpsertAllowance keeps registry, ledger and credit together, whatever polls,
\* charges, claims, restores and crashes of several replicas interleave.  The
\* credit follows the ledger unless an amount exceeds int64, even when the
\* registry does not; the registry loses track, and is excluded, when claims
\* overlap, when an observation is refused as a replay, and when one that
\* found no row to lock is booked after another replica's: "All writers take
\* the (account, delegate) registry row FOR UPDATE" fails for the first two.
AllowanceAccounted ==
  /\ ~overlapped /\ ~replayed /\ ~unlocked => RegistryBalanced
  /\ ~wrapped => CreditFollows

\* A leg is paid on chain at most once: as long as claims do not overlap, no
\* two batches with a transfer that may land carry the same leg to the same
\* kind of destination.
LegPaidOnce ==
  ~overlapped =>
    \A q, r \in DOMAIN batch :
      /\ q # r
      /\ (q.dest = Treasury) <=> (r.dest = Treasury)
      => batch[q].legs \cap batch[r].legs = {}

\* The poller repairs the registry: again and again it agrees with the chain
\* or a settlement is under way, after every approval, revocation, closed
\* account, wrong restore or late write.  An approval above MaxRaw is excluded:
\* every observation of it is refused until it is replaced.
RegistryCatchesUp ==
  \A b \in Linked \cap Buyers :
    []<>(allowance[b] = account[b].delegated \/ InFlight(b) > 0 \/ account[b].delegated > MaxRaw)

\* "this constraint is what makes a cursor regression (or a concurrent worker)
\* harmless": no leg is paid twice whatever claims overlap.
ConcurrentClaimHarmless ==
  \A q, r \in DOMAIN batch :
    /\ q # r
    /\ (q.dest = Treasury) <=> (r.dest = Treasury)
    /\ batch[q].legs \cap batch[r].legs # {}
    => ~(batch[q].tx = "landed" /\ batch[r].tx = "landed")
=============================================================================
