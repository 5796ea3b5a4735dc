------------------------------ MODULE Deposits ------------------------------
(***************************************************************************)
(* Deposits: tokens sent to the treasury become credit of the account that *)
(* has linked the sender's wallet.  The watcher of every replica           *)
(* (internal/deposits) walks the treasury's finalized signatures, persists *)
(* each transfer and credits it; the wallet API (internal/walletsapi)      *)
(* links a wallet and then credits what it had sent before.  The two share *)
(* the deposit_events, deposit_cursors and user_wallets tables             *)
(* (internal/store).                                                       *)
(*                                                                         *)
(* A signature is its place in the chain's history.  Its transaction moves *)
(* one unit from each of a set of wallets: none if it failed or did not    *)
(* pay the treasury.  Store calls lock the event they change and commit,   *)
(* so each is one step.  The RPC nodes are external; a node may lag behind *)
(* the chain.                                                              *)
(***************************************************************************)
EXTENDS Naturals, FiniteSets, Sequences, FiniteSetsExt

CONSTANTS Wallets,
          Accounts,
          Watchers,           \* one per replica
          PageLimit,          \* signatures per page: 100 in the code
          MaxChain,           \* bound on the signatures of the history
          InUse,              \* wallets that prove an active instance: kept linked
          Nobody, NoWallet

ASSUME DepositsAssumption ==
  /\ IsFiniteSet(Wallets)
  /\ PageLimit \in Nat \ {0}
  /\ MaxChain \in Nat \ {0}
  /\ InUse \subseteq Wallets
  /\ Nobody \notin Accounts
  /\ NoWallet \notin Wallets

Signatures == 1 .. MaxChain
Events == Signatures \X Wallets

VARIABLES chain,      \* the senders of each finalized signature, oldest first
          event,      \* deposit_events.assignment_state, "none" before the insert
          assignee,   \* deposit_events.assigned_account_id
          credit,     \* credit_raw that deposits have added
          cursor,     \* deposit_cursors.last_signature, 0 for no row
          link,       \* user_wallets: the account of each wallet
          linking,    \* handlers between LinkWallet and the reconciliation
          abandoned,  \* wallets whose last reconciliation failed
          at,         \* where a watcher's pass is
          base,       \* the cursor a pass believes in
          pending,    \* signatures a pass has still to process
          blocked,    \* advanceBlocked
          todo,       \* transfers of the oldest pending signature still to handle
          from,       \* the sender of the transfer being handled
          account,    \* the account looked up for it
          start       \* the first cursor that was persisted, 0 before

storeVars == <<event, assignee, credit, cursor, link>>
passVars == <<at, base, pending, blocked, todo, from, account>>
linkVars == <<linking, abandoned>>
vars == <<chain, storeVars, linkVars, passVars, start>>

Init ==
  /\ chain = <<{}>>
  /\ event = [e \in Events |-> "none"]
  /\ assignee = [e \in Events |-> Nobody]
  /\ credit = [a \in Accounts |-> 0]
  /\ cursor = 0
  /\ link = [x \in Wallets |-> Nobody]
  /\ linking = {}
  /\ abandoned = {}
  /\ at = [w \in Watchers |-> "idle"]
  /\ base = [w \in Watchers |-> 0]
  /\ pending = [w \in Watchers |-> {}]
  /\ blocked = [w \in Watchers |-> FALSE]
  /\ todo = [w \in Watchers |-> {}]
  /\ from = [w \in Watchers |-> NoWallet]
  /\ account = [w \in Watchers |-> Nobody]
  /\ start = 0

-----------------------------------------------------------------------------
(* Crediting, shared by the watcher and the link handler.                  *)

\* Mutant: neither the state of the event nor its ledger leg is looked at.
Creditable_Always(e) == event[e] # "none"

\* The event is still unassigned when its row is locked.
Creditable(e) == event[e] = "unassigned"

\* creditDepositLocked for every event of a set.
CreditDeposits(es, a) ==
  /\ event' = [e \in Events |-> IF e \in es THEN "assigned" ELSE event[e]]
  /\ assignee' = [e \in Events |-> IF e \in es THEN a ELSE assignee[e]]
  /\ credit' = [credit EXCEPT ![a] = @ + Cardinality(es)]

-----------------------------------------------------------------------------
(* The watcher: RunOnce.                                                   *)

Oldest(w) == Min(pending[w])
Current(w) == <<Oldest(w), from[w]>>

Go(w, place) == at' = [at EXCEPT ![w] = place]

\* The transaction in hand is forgotten.
ClearTransaction(w) ==
  /\ todo' = [todo EXCEPT ![w] = {}]
  /\ from' = [from EXCEPT ![w] = NoWallet]
  /\ account' = [account EXCEPT ![w] = Nobody]

EndPass(w) ==
  /\ Go(w, "idle")
  /\ base' = [base EXCEPT ![w] = 0]
  /\ pending' = [pending EXCEPT ![w] = {}]
  /\ blocked' = [blocked EXCEPT ![w] = FALSE]
  /\ ClearTransaction(w)

\* On to the next signature, with the cursor the pass now believes in.
NextSignature(w, newBase, isBlocked) ==
  LET rest == pending[w] \ {Oldest(w)} IN
  IF rest = {}
    THEN EndPass(w)
    ELSE /\ Go(w, "fetch")
         /\ base' = [base EXCEPT ![w] = newBase]
         /\ pending' = [pending EXCEPT ![w] = rest]
         /\ blocked' = [blocked EXCEPT ![w] = isBlocked]
         /\ ClearTransaction(w)

DepositCursor(w) ==
  /\ at[w] = "idle"
  /\ Go(w, "page")
  /\ base' = [base EXCEPT ![w] = cursor]
  /\ UNCHANGED <<chain, storeVars, linkVars, pending, blocked, todo, from, account, start>>

\* Mutant: paging stops after the newest page, as on the first pass.
Candidates_NewestPage(c, n) == {i \in 1 .. n : i > c /\ i > n - PageLimit}

\* The signatures newer than cursor c that a node with n signatures reports,
\* paging backward: only the newest page when there is no cursor; when the
\* node does not have the cursor's signature, its whole history, or nothing
\* if the history ends with a full page.
Candidates(c, n) ==
  IF c = 0 THEN {i \in 1 .. n : i > n - PageLimit}
  ELSE IF c <= n THEN {i \in 1 .. n : i > c}
  ELSE IF n % PageLimit = 0 THEN {}
  ELSE 1 .. n

GetSignaturesForAddress(w) ==
  \E n \in 0 .. Len(chain) :
    LET span == Candidates(base[w], n) IN
    /\ at[w] = "page"
    /\ IF span = {}
         THEN EndPass(w)
         ELSE /\ Go(w, "fetch")
              /\ pending' = [pending EXCEPT ![w] = span]
              /\ UNCHANGED <<base, blocked, todo, from, account>>
    /\ UNCHANGED <<chain, storeVars, linkVars, start>>

\* processSignature: a transaction without transfers is done at once.
GetTransaction(w) ==
  LET senders == chain[Oldest(w)] IN
  /\ at[w] = "fetch"
  /\ todo' = [todo EXCEPT ![w] = senders]
  /\ Go(w, IF senders = {} THEN "done" ELSE "insert")
  /\ UNCHANGED <<chain, storeVars, linkVars, base, pending, blocked, from, account, start>>

\* ON CONFLICT DO NOTHING: an event that is there keeps its state.
InsertDepositEvent(w, x) ==
  /\ at[w] = "insert"
  /\ x \in todo[w]
  /\ from' = [from EXCEPT ![w] = x]
  /\ event' = [event EXCEPT ![<<Oldest(w), x>>] = IF @ = "none" THEN "unassigned" ELSE @]
  /\ Go(w, "lookup")
  /\ UNCHANGED <<chain, assignee, credit, cursor, link, linkVars,
                 base, pending, blocked, todo, account, start>>

NextTransfer(w) ==
  LET rest == todo[w] \ {from[w]} IN
  /\ todo' = [todo EXCEPT ![w] = rest]
  /\ from' = [from EXCEPT ![w] = NoWallet]
  /\ account' = [account EXCEPT ![w] = Nobody]
  /\ Go(w, IF rest = {} THEN "done" ELSE "insert")

AccountForWallet(w) ==
  LET a == link[from[w]] IN
  /\ at[w] = "lookup"
  /\ IF a = Nobody
       THEN NextTransfer(w)
       ELSE /\ account' = [account EXCEPT ![w] = a]
            /\ Go(w, "apply")
            /\ UNCHANGED <<todo, from>>
  /\ UNCHANGED <<chain, storeVars, linkVars, base, pending, blocked, start>>

\* ApplyDeposit: credits an unassigned event, is done with one assigned to
\* the same account, and fails on one assigned to another.
ApplyDeposit(w) ==
  /\ at[w] = "apply"
  /\ IF Creditable(Current(w))
       THEN CreditDeposits({Current(w)}, account[w])
       ELSE UNCHANGED <<event, assignee, credit>>
  /\ IF Creditable(Current(w)) \/ assignee[Current(w)] = account[w]
       THEN NextTransfer(w) /\ UNCHANGED <<base, pending, blocked>>
       ELSE NextSignature(w, base[w], TRUE)
  /\ UNCHANGED <<chain, cursor, link, linkVars, start>>

HeldBack(w) == blocked[w]

\* AdvanceDepositCursor compares and sets; the pass ends when another replica
\* has moved the cursor.
AdvanceDepositCursor(w) ==
  /\ at[w] = "done"
  /\ IF HeldBack(w)
       THEN NextSignature(w, base[w], TRUE) /\ UNCHANGED cursor
       ELSE IF cursor = base[w]
         THEN cursor' = Oldest(w) /\ NextSignature(w, Oldest(w), FALSE)
         ELSE EndPass(w) /\ UNCHANGED cursor
  /\ start' = IF start = 0 THEN cursor' ELSE start
  /\ UNCHANGED <<chain, event, assignee, credit, link, linkVars>>

\* An RPC or store call of processSignature fails: the signature is skipped
\* in this pass and the cursor stays before it.
SignatureFails(w) ==
  /\ at[w] \in {"fetch", "insert", "lookup", "apply"}
  /\ NextSignature(w, base[w], TRUE)
  /\ UNCHANGED <<chain, storeVars, linkVars, start>>

\* A call of RunOnce itself fails, or the replica stops.
PassFails(w) ==
  /\ at[w] # "idle"
  /\ EndPass(w)
  /\ UNCHANGED <<chain, storeVars, linkVars, start>>

-----------------------------------------------------------------------------
(* Wallet links.                                                           *)

\* LinkWallet: a free wallet, an account without one.  Linking it again is
\* refused with a conflict, before any reconciliation.
LinkWallet(a, x) ==
  /\ link[x] = Nobody
  /\ \A y \in Wallets : link[y] # a
  /\ link' = [link EXCEPT ![x] = a]
  /\ linking' = linking \cup {<<a, x>>}
  /\ UNCHANGED <<chain, event, assignee, credit, cursor, abandoned, passVars, start>>

\* Mutant: only events the cursor has passed are looked for.
Reconcilable_Passed(e, x) == e[2] = x /\ event[e] = "unassigned" /\ e[1] <= cursor

Reconcilable(e, x) == e[2] = x /\ event[e] = "unassigned"

\* ReconcileDepositsForWallet after the link has been committed.
ReconcileDepositsForWallet(a, x) ==
  /\ <<a, x>> \in linking
  /\ CreditDeposits({e \in Events : Reconcilable(e, x)}, a)
  /\ linking' = linking \ {<<a, x>>}
  /\ abandoned' = abandoned \ {x}
  /\ UNCHANGED <<chain, cursor, link, passVars, start>>

\* The reconciliation fails, or the client has gone: only logged.
AbandonReconcile(a, x) ==
  /\ <<a, x>> \in linking
  /\ linking' = linking \ {<<a, x>>}
  /\ abandoned' = abandoned \cup {x}
  /\ UNCHANGED <<chain, storeVars, passVars, start>>

\* A wallet that proves an active instance cannot be unlinked.
DeleteWallet(x) ==
  /\ x \notin InUse
  /\ link[x] # Nobody
  /\ link' = [link EXCEPT ![x] = Nobody]
  /\ UNCHANGED <<chain, event, assignee, credit, cursor, linkVars, passVars, start>>

-----------------------------------------------------------------------------
\* A transaction that touches the treasury becomes final.
Transfer(senders) ==
  /\ Len(chain) < MaxChain
  /\ chain' = Append(chain, senders)
  /\ UNCHANGED <<storeVars, linkVars, passVars, start>>

WatcherStep(w) ==
  \/ DepositCursor(w) \/ GetSignaturesForAddress(w) \/ GetTransaction(w)
  \/ \E x \in Wallets : InsertDepositEvent(w, x)
  \/ AccountForWallet(w) \/ ApplyDeposit(w) \/ AdvanceDepositCursor(w)

Next ==
  \/ \E senders \in SUBSET Wallets : Transfer(senders)
  \/ \E w \in Watchers : WatcherStep(w) \/ SignatureFails(w) \/ PassFails(w)
  \/ \E a \in Accounts, x \in Wallets :
       LinkWallet(a, x) \/ ReconcileDepositsForWallet(a, x) \/ AbandonReconcile(a, x)
  \/ \E x \in Wallets : DeleteWallet(x)

Spec == Init /\ [][Next]_vars

\* The node that answers has the whole history.
UpToDate(w) ==
  GetSignaturesForAddress(w) /\ pending'[w] = Candidates(base[w], Len(chain))

\* A watcher is processing signature i.
WorksOn(w, i) == pending[w] # {} /\ Oldest(w) = i

\* The poll ticker keeps firing; of the calls a watcher makes again for a
\* signature on every pass some succeed, and some pages come from a node that
\* is up to date; a link handler runs to its end.  The first signature pays
\* nobody.
Fairness ==
  /\ \A w \in Watchers :
       /\ WF_vars(DepositCursor(w))
       /\ SF_vars(UpToDate(w))
       /\ \A i \in Signatures \ {1} :
            /\ SF_vars(WorksOn(w, i) /\ GetTransaction(w))
            /\ SF_vars(WorksOn(w, i) /\ \E x \in Wallets : InsertDepositEvent(w, x))
            /\ SF_vars(WorksOn(w, i) /\ AccountForWallet(w))
            /\ SF_vars(WorksOn(w, i) /\ ApplyDeposit(w))
            /\ SF_vars(WorksOn(w, i) /\ AdvanceDepositCursor(w))
  /\ \A a \in Accounts, x \in Wallets : WF_vars(ReconcileDepositsForWallet(a, x))

FairSpec == Spec /\ Fairness

-----------------------------------------------------------------------------
(* Properties.                                                             *)

Places == {"idle", "page", "fetch", "insert", "lookup", "apply", "done"}

(* The types of the tables and of the watchers' passes.                    *)
TypeOK ==
  /\ chain \in Seq(SUBSET Wallets) /\ Len(chain) <= MaxChain
  /\ event \in [Events -> {"none", "unassigned", "assigned"}]
  /\ assignee \in [Events -> Accounts \cup {Nobody}]
  /\ credit \in [Accounts -> Nat]
  /\ cursor \in 0 .. Len(chain)
  /\ link \in [Wallets -> Accounts \cup {Nobody}]
  /\ linking \subseteq Accounts \X Wallets
  /\ abandoned \subseteq Wallets
  /\ at \in [Watchers -> Places]
  /\ base \in [Watchers -> 0 .. Len(chain)]
  /\ pending \in [Watchers -> SUBSET (1 .. Len(chain))]
  /\ blocked \in [Watchers -> BOOLEAN]
  /\ todo \in [Watchers -> SUBSET Wallets]
  /\ from \in [Watchers -> Wallets \cup {NoWallet}]
  /\ account \in [Watchers -> Accounts \cup {Nobody}]
  /\ start \in 0 .. Len(chain)

(* "a crash mid-watch can never lose or double-count a deposit": however   *)
(* replicas, retries and link handlers race, the credit an account got     *)
(* from deposits is the number of the units assigned to it.                *)
CreditedOnce ==
  \A a \in Accounts : credit[a] = Cardinality({e \in Events : assignee[e] = a})

\* Newer than the first cursor.
Followed(i) == start # 0 /\ i > start

(* "transient transaction/store/linker failures are retried and never      *)
(* skipped": once there is a cursor, it only passes signatures whose       *)
(* transfers have all been persisted, whatever fails and however replicas  *)
(* and lagging nodes move it forth and back.                               *)
NeverSkipped ==
  \A i \in 1 .. cursor : Followed(i) => \A x \in chain[i] : event[<<i, x>>] # "none"

(* "transfers that arrived before linkage are not lost": the watcher looks *)
(* the link up after persisting, the link handler reconciles after         *)
(* linking, so an unassigned transfer of a linked wallet is one the        *)
(* watchers will come back to, or a handler is about to credit it or has   *)
(* failed to.  What a pass persisted before there was a cursor is not      *)
(* covered: the next first pass may start after it.                        *)
NoneStranded ==
  \A i \in 1 .. cursor : Followed(i) => \A x \in chain[i] :
    event[<<i, x>>] = "unassigned" /\ link[x] # Nobody
      => <<link[x], x>> \in linking \/ x \in abandoned

\* A transfer of a linked wallet.
Due(i, x) == i \in DOMAIN chain /\ Followed(i) /\ x \in chain[i] /\ link[x] # Nobody

(* A transfer whose sender has linked a wallet for good is credited in     *)
(* the end, unless the reconciliation at link time failed: whatever calls  *)
(* of the watcher fail and however many pages of signatures arrive.        *)
EventuallyCredited ==
  \A i \in Signatures, x \in InUse :
    Due(i, x) ~> (event[<<i, x>>] = "assigned" \/ x \in abandoned)

(* "a subsequent deposit watcher poll or a retry on the next link attempt  *)
(* picks up anything left uncredited": the same when the reconciliation    *)
(* has failed.                                                             *)
LeftoversPickedUp ==
  \A i \in Signatures, x \in InUse : Due(i, x) ~> event[<<i, x>>] = "assigned"

\* No deposit is lost between the watchers, their shared cursor and the
\* handler that links a wallet: once there is a cursor, it passes over nothing
\* unprocessed, and an event of a linked wallet that it has passed is
\* unassigned only while a handler is about to credit it or after one has
\* failed to.
NoneLost == NeverSkipped /\ NoneStranded
=============================================================================
