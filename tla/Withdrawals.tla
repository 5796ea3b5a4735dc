----------------------------- MODULE Withdrawals -----------------------------
(***************************************************************************)
(* Withdrawals: off-chain credit to on-chain tokens.  The withdrawals      *)
(* table and its row-locked transitions (internal/store/withdrawal.go),    *)
(* the API handler that reserves (internal/billingapi), the worker of      *)
(* every replica (internal/withdraw), and the Solana cluster it talks to,  *)
(* which is external and modelled from how the worker uses it.             *)
(*                                                                         *)
(* A row is named by its idempotency key, which is UNIQUE.  Every store    *)
(* transition locks the row, checks its state and commits, so it is one    *)
(* step; the worker acts on copies it read earlier, with one or two RPCs   *)
(* between the read and the transition.                                    *)
(*                                                                         *)
(* A transaction is its message: destination, amount and blockhash (the    *)
(* destination's token account exists already, so none is created).  The   *)
(* signature is a function of the message (ed25519), so equal messages are *)
(* one transaction to the cluster.  A blockhash is valid while it is in    *)
(* "recent"; leaving it stands for the block height passing the            *)
(* last-valid height that came with the blockhash.                         *)
(***************************************************************************)
EXTENDS Totals, FiniteSetsExt

CONSTANTS Keys,            \* idempotency keys clients choose
          Accounts,
          Amounts,         \* amounts clients ask for
          Opening,         \* credit_raw of each account at the start
          Locked,          \* reserved_raw of each account: open inference requests
          Workers,         \* one withdrawal worker per replica
          BatchLimit,      \* rows per sweep: 20 in the code
          Hashes,          \* blockhashes
          Paces,           \* the values "prompt" may have
          NoHash, NoTx, Nobody

Tx == [to : Accounts, amount : Amounts, hash : Hashes]
OpenStates == {"reserved", "signed", "broadcast"}
Copies == [key : Keys, state : OpenStates, wire : Tx \cup {NoTx}]

ASSUME WithdrawalsAssumption ==
  /\ IsFiniteSet(Keys)
  /\ Amounts \subseteq Nat \ {0}
  /\ Opening \in [Accounts -> Nat]
  /\ Locked \in [Accounts -> Nat]
  /\ BatchLimit \in Nat \ {0}
  /\ Paces \subseteq BOOLEAN
  /\ NoHash \notin Hashes
  /\ NoTx \notin Tx
  /\ Nobody \notin Accounts

VARIABLES state,      \* withdrawals.state, "none" before the insert
          owner,      \* withdrawals.account_id; the destination is its wallet
          amount,     \* withdrawals.amount_raw
          wire,       \* withdrawals.signed_wire, with its blockhash
          order,      \* withdrawals.reserved_at, as a rank
          credit,     \* account_credits.credit_raw
          due,        \* copies of the rows a worker has still to advance
          at,         \* what a worker knows about the oldest of them
          hash,       \* the blockhash a worker is signing against
          tip,        \* the cluster's latest blockhash
          recent,     \* the blockhashes still valid
          network,    \* transactions some node has accepted
          landed,     \* transactions executed
          rejected,   \* transactions that failed on chain
          final,      \* executed transactions that are finalized
          prompt      \* TRUE: workers act within the lifetime of a blockhash

rowVars == <<state, owner, amount, wire, order, credit>>
workerVars == <<due, at, hash>>
chainVars == <<tip, recent, network, landed, rejected, final, prompt>>
vars == <<rowVars, workerVars, chainVars>>

Init ==
  /\ state = [k \in Keys |-> "none"]
  /\ owner = [k \in Keys |-> Nobody]
  /\ amount = [k \in Keys |-> 0]
  /\ wire = [k \in Keys |-> NoTx]
  /\ order = [k \in Keys |-> 0]
  /\ credit = Opening
  /\ due = [w \in Workers |-> {}]
  /\ at = [w \in Workers |-> "idle"]
  /\ hash = [w \in Workers |-> NoHash]
  /\ tip \in Hashes
  /\ recent = {tip}
  /\ network = {} /\ landed = {} /\ rejected = {} /\ final = {}
  /\ prompt \in Paces

-----------------------------------------------------------------------------
(* The API handler and ReserveWithdrawal.                                  *)

\* The CHECK constraints of account_credits under applyDelta(-amount).
Covers(a, n) == credit[a] - n >= 0 /\ Locked[a] <= credit[a] - n

\* ReserveWithdrawal: a new key debits the account; a known one is returned
\* to its own account, refused to another, and changes nothing.  The handler's
\* pre-check passed on an earlier read of the credit, which was at most
\* Opening.
ReserveWithdrawal(k, a, n) ==
  /\ Opening[a] - Locked[a] >= n
  /\ IF state[k] = "none"
       THEN /\ Covers(a, n)
            /\ state' = [state EXCEPT ![k] = "reserved"]
            /\ owner' = [owner EXCEPT ![k] = a]
            /\ amount' = [amount EXCEPT ![k] = n]
            /\ order' = [order EXCEPT ![k] = 1 + Cardinality({x \in Keys : state[x] # "none"})]
            /\ credit' = [credit EXCEPT ![a] = @ - n]
            /\ UNCHANGED wire
       ELSE UNCHANGED rowVars
  /\ UNCHANGED <<workerVars, chainVars>>

-----------------------------------------------------------------------------
(* The worker: RunOnce takes copies of the oldest open rows and advances   *)
(* each by one transition.                                                 *)

\* Mutant: a row whose broadcast failed is not swept again.
DueStates_NotSigned == {"reserved", "broadcast"}

DueStates == OpenStates

Copy(k) == [key |-> k, state |-> state[k], wire |-> wire[k]]

\* Rows some other replica may be holding locked for a moment: FOR UPDATE SKIP
\* LOCKED passes over them.
LockedByOthers(w) == UNION {{c.key : c \in due[v]} : v \in Workers \ {w}}

\* SweepWithdrawalsDue: the oldest open rows that are not locked; its own row
\* locks end with its transaction.
SweepWithdrawalsDue(w) ==
  /\ due[w] = {}
  /\ \E skipped \in SUBSET LockedByOthers(w) :
       LET open == {k \in Keys \ skipped : state[k] \in DueStates} IN
       \E b \in SUBSET open :
         /\ b # {}
         /\ Cardinality(b) = Min({BatchLimit, Cardinality(open)})
         /\ \A x \in b, y \in open \ b : order[x] < order[y]
         /\ due' = [due EXCEPT ![w] = {Copy(k) : k \in b}]
  /\ UNCHANGED <<rowVars, at, hash, chainVars>>

\* The copy a worker is advancing: the oldest one.
Oldest(w) == {c \in due[w] : \A d \in due[w] : order[c.key] <= order[d.key]}
Current(w) == CHOOSE c \in Oldest(w) : TRUE

Working(w, stage, s) == due[w] # {} /\ at[w] = stage /\ Current(w).state = s

\* The worker is done with the copy, whatever became of it.
NextRow(w) ==
  /\ due' = [due EXCEPT ![w] = @ \ {Current(w)}]
  /\ at' = [at EXCEPT ![w] = "idle"]
  /\ hash' = [hash EXCEPT ![w] = NoHash]

Learn(w, what) == at' = [at EXCEPT ![w] = what] /\ UNCHANGED <<due, hash>>

\* signAndStore: AccountExists and LatestBlockhash.
LatestBlockhash(w) ==
  /\ Working(w, "idle", "reserved")
  /\ at' = [at EXCEPT ![w] = "signing"]
  /\ hash' = [hash EXCEPT ![w] = tip]
  /\ UNCHANGED <<rowVars, due, chainVars>>

\* Mutant: MarkWithdrawalSigned does not check that the row is still reserved.
MaySign_Always(k) == state[k] \in OpenStates

\* The state guards of the four transitions.
MaySign(k) == state[k] = "reserved"
MayBroadcast(k) == state[k] = "signed"

\* Mutant: FinalizeWithdrawal takes a row in any state.
MayFinalize_Always(k) == TRUE

MayFinalize(k) == state[k] \in {"signed", "broadcast"}

\* Mutant: RestoreWithdrawal does not check the state it finds.
MayRestore_Always(k) == TRUE

MayRestore(k) == state[k] \in OpenStates

\* MarkWithdrawalSigned persists the wire of the first replica to get there.
MarkWithdrawalSigned(w) ==
  LET k == Current(w).key IN
  /\ Working(w, "signing", "reserved")
  /\ IF MaySign(k)
       THEN /\ state' = [state EXCEPT ![k] = "signed"]
            /\ wire' = [wire EXCEPT ![k] =
                          [to |-> owner[k], amount |-> amount[k], hash |-> hash[w]]]
            /\ UNCHANGED <<owner, amount, order, credit>>
       ELSE UNCHANGED rowVars
  /\ NextRow(w)
  /\ UNCHANGED chainVars

Executed(t) == t \in landed \cup rejected
Valid(t) == t.hash \in recent

\* broadcastStored: the node takes the wire, or already knows it.
SendAccepted(w) ==
  LET t == Current(w).wire IN
  /\ Working(w, "idle", "signed")
  /\ Valid(t) \/ Executed(t)
  /\ network' = IF Valid(t) THEN network \cup {t} ELSE network
  /\ Learn(w, "sent")
  /\ UNCHANGED <<rowVars, tip, recent, landed, rejected, final, prompt>>

\* broadcastStored: no answer, or an error that proves nothing.  The node may
\* have taken the wire all the same; the row stays signed.
SendAmbiguous(w) ==
  LET t == Current(w).wire IN
  /\ Working(w, "idle", "signed")
  /\ network' \in {network} \cup {network \cup {x} : x \in {y \in {t} : Valid(y)}}
  /\ NextRow(w)
  /\ UNCHANGED <<rowVars, tip, recent, landed, rejected, final, prompt>>

\* Mutant: any failed send is taken for an expired blockhash.
Expired_AnyError(t) == TRUE

\* "blockhash not found", "blockhash expired", "block has expired".
Expired(t) == ~Valid(t)

\* broadcastStored: the node refuses the blockhash.
SendExpired(w) ==
  /\ Working(w, "idle", "signed")
  /\ Expired(Current(w).wire)
  /\ Learn(w, "dead")
  /\ UNCHANGED <<rowVars, chainVars>>

MarkWithdrawalBroadcast(w) ==
  LET k == Current(w).key IN
  /\ Working(w, "sent", "signed")
  /\ state' = IF MayBroadcast(k) THEN [state EXCEPT ![k] = "broadcast"] ELSE state
  /\ NextRow(w)
  /\ UNCHANGED <<owner, amount, wire, order, credit, chainVars>>

\* SignatureStatusValue.Finalized.
ReportedFinal(t) == t \in final

\* A node remembers statuses only for a while after the blockhash expired.
Forgotten(t) == ~prompt /\ ~Valid(t)

\* finalizeOrRestore: GetSignatureStatuses.
SignatureStatus(w) ==
  LET t == Current(w).wire IN
  /\ Working(w, "idle", "broadcast")
  /\ \/ ReportedFinal(t) /\ Learn(w, "final")
     \/ t \in rejected /\ Learn(w, "dead")
     \/ (~Executed(t) \/ Forgotten(t)) /\ Learn(w, "unknown")
     \/ t \in landed \ final /\ NextRow(w)
  /\ UNCHANGED <<rowVars, chainVars>>

\* finalizeOrRestore: GetBlockHeight, asked only for an unknown signature.
BlockHeight(w) ==
  /\ Working(w, "unknown", "broadcast")
  /\ IF Expired(Current(w).wire) THEN Learn(w, "dead") ELSE NextRow(w)
  /\ UNCHANGED <<rowVars, chainVars>>

FinalizeWithdrawal(w) ==
  LET k == Current(w).key IN
  /\ Working(w, "final", "broadcast")
  /\ state' = IF MayFinalize(k) THEN [state EXCEPT ![k] = "finalized"] ELSE state
  /\ NextRow(w)
  /\ UNCHANGED <<owner, amount, wire, order, credit, chainVars>>

RestoreWithdrawal(w) ==
  LET k == Current(w).key IN
  /\ due[w] # {} /\ at[w] = "dead"
  /\ IF MayRestore(k)
       THEN /\ state' = [state EXCEPT ![k] = "restored"]
            /\ credit' = [credit EXCEPT ![owner[k]] = @ + amount[k]]
       ELSE UNCHANGED <<state, credit>>
  /\ NextRow(w)
  /\ UNCHANGED <<owner, amount, wire, order, chainVars>>

\* A failed RPC or store call: the error is logged and the row waits for the
\* next sweep.
SkipRow(w) ==
  /\ due[w] # {}
  /\ NextRow(w)
  /\ UNCHANGED <<rowVars, chainVars>>

\* The replica stops; its copies are gone.
CrashWorker(w) ==
  /\ due[w] # {}
  /\ due' = [due EXCEPT ![w] = {}]
  /\ at' = [at EXCEPT ![w] = "idle"]
  /\ hash' = [hash EXCEPT ![w] = NoHash]
  /\ UNCHANGED <<rowVars, chainVars>>

-----------------------------------------------------------------------------
(* The cluster.                                                            *)

\* A blockhash nobody has seen before.
Fresh(h) ==
  /\ h \notin recent
  /\ \A k \in Keys : wire[k] # NoTx => wire[k].hash # h
  /\ \A w \in Workers : hash[w] # h
  /\ \A t \in network : t.hash # h

NewBlockhash ==
  /\ \E h \in Hashes : Fresh(h) /\ tip' = h /\ recent' = recent \cup {h}
  /\ UNCHANGED <<rowVars, workerVars, network, landed, rejected, final, prompt>>

\* A worker has yet to hear, or to record, what became of a transaction with
\* this blockhash that the cluster already has.
MidStep(h) ==
  \/ \E k \in Keys : state[k] = "signed" /\ wire[k] \in network /\ wire[k].hash = h
  \/ \E w \in Workers : \E c \in due[w] :
       c.state = "signed" /\ c.wire \in network /\ c.wire.hash = h
  \/ \E w \in Workers : at[w] = "unknown" /\ Current(w).wire.hash = h

ExpireBlockhash(h) ==
  /\ h \in recent \ {tip}
  /\ prompt => ~MidStep(h)
  /\ recent' = recent \ {h}
  /\ UNCHANGED <<rowVars, workerVars, tip, network, landed, rejected, final, prompt>>

\* A transaction executes at most once, and only while its blockhash is valid.
Execute(t) ==
  /\ t \in network /\ Valid(t) /\ ~Executed(t)
  /\ \/ landed' = landed \cup {t} /\ UNCHANGED rejected
     \/ rejected' = rejected \cup {t} /\ UNCHANGED landed
  /\ UNCHANGED <<rowVars, workerVars, tip, recent, network, final, prompt>>

FinalizeTx(t) ==
  /\ t \in landed \ final
  /\ final' = final \cup {t}
  /\ UNCHANGED <<rowVars, workerVars, tip, recent, network, landed, rejected, prompt>>

-----------------------------------------------------------------------------
Advance(w) ==
  \/ LatestBlockhash(w) \/ MarkWithdrawalSigned(w)
  \/ SendAccepted(w) \/ SendExpired(w) \/ MarkWithdrawalBroadcast(w)
  \/ SignatureStatus(w) \/ BlockHeight(w)
  \/ FinalizeWithdrawal(w) \/ RestoreWithdrawal(w)

Request == \E k \in Keys, a \in Accounts, n \in Amounts : ReserveWithdrawal(k, a, n)

Cluster ==
  \/ NewBlockhash
  \/ \E h \in Hashes : ExpireBlockhash(h)
  \/ \E t \in network : Execute(t) \/ FinalizeTx(t)

Next ==
  \/ Request
  \/ \E w \in Workers : \/ SweepWithdrawalsDue(w) \/ Advance(w)
                        \/ SendAmbiguous(w) \/ SkipRow(w) \/ CrashWorker(w)
  \/ Cluster

Spec == Init /\ [][Next]_vars

\* The poll ticker keeps firing; of RPCs tried again and again some succeed,
\* and a worker that restarts for ever is not restarted at the same point for
\* ever; blockhashes are replaced and expire, and executed transactions become
\* final.  Nothing makes a node include a transaction.
Fairness ==
  /\ \A w \in Workers :
       /\ WF_vars(SweepWithdrawalsDue(w))
       /\ SF_vars(LatestBlockhash(w)) /\ SF_vars(MarkWithdrawalSigned(w))
       /\ SF_vars(SendAccepted(w)) /\ SF_vars(SendExpired(w))
       /\ SF_vars(MarkWithdrawalBroadcast(w))
       /\ SF_vars(SignatureStatus(w)) /\ SF_vars(BlockHeight(w))
       /\ SF_vars(FinalizeWithdrawal(w)) /\ SF_vars(RestoreWithdrawal(w))
  /\ WF_vars(NewBlockhash)
  /\ \A h \in Hashes : SF_vars(ExpireBlockhash(h))
  /\ WF_vars(\E t \in network : FinalizeTx(t))

FairSpec == Spec /\ Fairness

-----------------------------------------------------------------------------
(* Properties.                                                             *)

Stages == {"idle", "signing", "sent", "unknown", "final", "dead"}

(* The types of the rows, of the workers' copies and of the cluster.       *)
TypeOK ==
  /\ state \in [Keys -> OpenStates \cup {"none", "finalized", "restored"}]
  /\ owner \in [Keys -> Accounts \cup {Nobody}]
  /\ amount \in [Keys -> Nat]
  /\ wire \in [Keys -> Tx \cup {NoTx}]
  /\ order \in [Keys -> Nat]
  /\ credit \in [Accounts -> Nat]
  /\ due \in [Workers -> SUBSET Copies]
  /\ at \in [Workers -> Stages]
  /\ hash \in [Workers -> Hashes \cup {NoHash}]
  /\ tip \in recent /\ recent \subseteq Hashes
  /\ network \subseteq Tx
  /\ landed \cup rejected \subseteq network
  /\ final \subseteq landed
  /\ prompt \in BOOLEAN

\* The withdrawals of account a that its credit has paid for.
Debited(a) == {k \in Keys : owner[k] = a /\ state[k] \notin {"none", "restored"}}

(* Reserve and restore are balanced: whatever replicas race, repeat or     *)
(* crash, an account has lost exactly the amounts of its withdrawals that  *)
(* were not restored, and never what its open requests hold.               *)
CreditConserved ==
  \A a \in Accounts :
    /\ credit[a] + Total(amount, Debited(a)) = Opening[a]
    /\ credit[a] >= Min({Locked[a], Opening[a]})

(* "two replicas racing cannot broadcast different transactions for the    *)
(* same withdrawal": what the nodes have accepted are persisted wires, and *)
(* every wire pays its withdrawal's account its amount.                    *)
OnlyPersistedWires ==
  /\ \A t \in network : \E k \in Keys : wire[k] = t
  /\ \A k \in Keys : wire[k] # NoTx => wire[k].to = owner[k] /\ wire[k].amount = amount[k]

(* A finalized or restored withdrawal stays so, and a persisted wire is    *)
(* never replaced: "a concurrent finalize beats a late restore cleanly".   *)
OutcomesStay ==
  [][\A k \in Keys :
       /\ state[k] \in {"finalized", "restored"} => state'[k] = state[k]
       /\ wire[k] # NoTx => wire'[k] = wire[k]]_vars

(* A withdrawal is finalized only when its own transfer has executed for   *)
(* good: the tokens an account received cover its finalized withdrawals.   *)
FinalizedPaid ==
  \A a \in Accounts :
    Total(amount, {k \in Keys : owner[k] = a /\ state[k] = "finalized"})
      <= Total([t \in final |-> t.amount], {t \in final : t.to = a})

\* What an account still has and the tokens it was sent are not more than
\* what it had.
NothingTwice(a) ==
  credit[a] + Total([t \in landed |-> t.amount], {t \in landed : t.to = a}) <= Opening[a]

(* No credit comes back for a transfer that was paid, as long as a worker  *)
(* hears of a transaction it sent before the blockhash expires.            *)
RestoredNeverPaid == prompt => \A a \in Accounts : NothingTwice(a)

(* "Credit is restored only after blockhash expiry proves the transaction  *)
(* cannot land": the same at every pace of the workers.                    *)
RestoreProvesDead == \A a \in Accounts : NothingTwice(a)

(* Every withdrawal is finalized or restored in the end, although nodes    *)
(* may drop its transaction and replicas may fail at any step.             *)
EventuallyDecided ==
  \A k \in Keys : state[k] \in OpenStates ~> state[k] \in {"finalized", "restored"}

\* What the database says of a withdrawal is what became of its transaction
\* on chain, although it is decided from a status and a height read at
\* different times: the tokens received cover the finalized withdrawals, and
\* no credit comes back for a transfer that was paid, as long as a worker
\* hears of a transaction before its blockhash expires.
OutcomeMatchesChain == FinalizedPaid /\ RestoredNeverPaid
=============================================================================
