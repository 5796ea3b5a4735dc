# TLA+ models of api.opentela.ai

`api.opentela.ai` is the front door of an inference market: it authenticates
API keys, routes requests to the peers of a mesh, meters the tokens a response
used, moves prepaid credit from buyers to sellers, and connects that credit to
tokens on Solana. Everything that must not be lost lives in PostgreSQL; several
replicas of the server run at once and share nothing else.

The modules here follow the source in control (guards, early returns, the order of
statements, row locks and remote calls) and abstract data to what the properties
tell apart. `PROJECT.json` maps every definition to the lines it models.

## Inventory

| Part | State | Operations | Hard behaviour | What makes it correct |
|---|---|---|---|---|
| Pricing arithmetic (`internal/billing`) | none | `Cost`, `Fee`, `ReserveAmount`, `MergeCaps`, `Affordable` over checked int64 | overflow, rounding, clamping | exact or an error; a charge never exceeds its reservation; fee and seller share make up the charge |
| Billing store (`internal/store/billing.go`, migration 0006) | `account_credits`, `billing_requests`, `credit_ledger` | reserve, settle, release, sweep | statements of several transactions interleave; row locks, deadlocks, CHECK and UNIQUE violations | credit = sum of the ledger, reserved = sum of open reservations, one charge per request, final states stay; in short: an escrow |
| Settlement callback and sweeper (`internal/settlement`, `internal/perf/hook.go`) | the callback's place, a sweep's batch | end of a response body, sweep tick | lost or failed callbacks, slow responses overtaken by the sweep | every reservation is finalized some day |
| Billing gate and inspection (`internal/billinggate`, `internal/gate`) | none | inspect and clamp a body, caps, quotes, reserve, forward | a body larger than what is inspected, modes, many ways out | no metered request passes unbounded or unreserved |
| Withdrawals (`internal/store/withdrawal.go`, `internal/withdraw`, `internal/billingapi`) | `withdrawals` rows; copies held by workers; the cluster | reserve, sweep, sign, broadcast, finalize, restore | replicas race on stale copies, RPC answers are lost, blockhashes expire, crashes | credit is taken and given back once; a finalized withdrawal was paid, a restored one never is; each is decided |
| Deposits (`internal/deposits`, `internal/store/deposit.go`, `internal/walletsapi`) | `deposit_events`, cursor, wallet links | poll, insert, apply, reconcile at link time, advance cursor | link races observation, replicas race on the cursor, partial failure | every deposit of a linked wallet is credited once and in the end |
| Delegated allowances (`internal/delegations`, `internal/store/allowance.go`, `delegation_settlement.go`) | allowances, settlement batches, claim cursor | poll chain, claim legs, sign, broadcast, finalize, restore | two replicas claim the same legs or make the first observation together, the poller observes an in-flight settlement | a leg is paid once; allowance and batches add up to what was mirrored, and so do credit and charges |
| Asks (`internal/pricingapi`, `internal/askrefresh`, `internal/billingapi/model_pricing.go`, `internal/store/model_pricing.go`) | price sheet, market rows with a TTL and a revision | publish by node, console and refresher, expire | a refresher works on a sheet that was withdrawn; the peer changes hands | prices of nobody, or withdrawn ones, leave the market |
| Ledger proofs (`internal/billing/merkle.go`, `internal/store/reconciliation.go`) | none (reads) | page through the ledger, root, audit path, verify | rows commit between the reads, out of id order | a served proof verifies against the served root |
| API keys (`internal/auth`, `internal/cache`, `internal/keysvc`, `cmd/keyctl`) | key rows, a TTL cache per replica | validate, create, revoke, purge | a validation in flight during a revocation, the cap under concurrent creation | a revoked key stops working |
| Faucet (`internal/faucetapi`, `internal/faucet`, `internal/store/faucet.go`) | claim rows | claim, send, clear, complete, take over | lost answer of a send, TTL of a pending claim | one payout per account |
| Deploy keys, challenges, node credentials (`internal/deploykeys`, `internal/nodecred`) | keys with uses and expiry, challenges | create, redeem, revoke; challenge, consume, sign, check | concurrent redemption at the use limit; membership changes between read and use | uses never exceed the limit, challenges grant once, credentials mean what they said |
| Trusted regions (`internal/regionsapi`, `internal/store/policy.go`) | regions, invitations, memberships with revisions, service bindings | invite, accept, patch, release, bind | read, check, write back; invitations that expire | bindings and credentials follow memberships |
| Instances (`internal/instancesapi`) | instance rows with mode, rules, observed wallet | claim, reclaim, manage, unlink | stale copies written back, rules replaced during a reclaim, lookups that fail | the policy in force is the owner's |
| Access lists (`internal/aclapi`) | rate buckets | evaluate (two protocols), limit | rules and observations change while they are evaluated | partitions stay apart, trusted decisions fail closed |
| Views of the mesh (`internal/peers`, `internal/catalog`, `internal/perf/resolver.go`) | cached snapshots | fetch, filter, serve, refresh | overlapping fetches, stacked TTLs | what is hidden leaves within the TTLs |
| Samples (`internal/perf`) | queue, batch | observe, flush, final flush | full queue, lost answers, stop | an accepted sample is stored |
| Think-tag repair (`internal/thinkfix`) | scanner and stream rewriter | feed, flush, renumber | markers split over deltas | streamed and whole repair agree |
| Proxy, server, configuration, identity, leaderboard, Solana wire formats | none that lasts | | plain I/O, parsing, cryptography | not modelled |

The parts meet in the database (an account's credit row is written by billing,
deposits, withdrawals and allowances; a peer's row by instances, deploy keys and
regions) and in callbacks (the gate stamps a request that the response hook later
settles).

The hazards the properties aim at are listed, each at its line, in
`PROJECT.json`.

## Modules

| Module | Models |
|---|---|
| `Totals` | sums over a finite set of rows, as SQL's `SUM` in `ReconcileAccount`. A total is the cardinality of a set of units, so that it can be reasoned about without recursion. |
| `Pricing` | the arithmetic of `internal/billing` with wrapped machine integers: `MaxInt` stands for 2^63-1, `Million` and `BasisPoints` for the two scales. |
| `PricingFlow` | one request's price: the buyer's three layers of caps admit quotes to the snapshot, the worst case is reserved, a response within the ceilings is charged. |
| `Billing` | the billing tables, the settlement callbacks and the sweepers. |
| `Escrow`, `BillingEscrow` | what the billing store promises, and the mapping under which it does. |
| `Withdrawals` | the withdrawals table, the API handler, the workers and the cluster. |
| `Deposits` | the treasury watchers, their cursor, the event table and the wallet links. |
| `Delegations` | token accounts, pollers, the allowance registry, claims and settlement batches. |
| `Admission` | the inspection of a request and the decisions of the gate. |
| `Asks` | price sheet, market rows and their three writers. |
| `Merkle` | the tree, its proofs and the reads they are made of. |
| `ThinkFix` | the marker scanner and the two rewriters. |
| `Snapshots` | the cached node table, the catalogue's view of it and the GPU resolver. |
| `Sinks` | the ClickHouse and Tinybird sample writers. |
| `ApiKeys` | keys, the verdict cache of each replica, creation and revocation. |
| `Faucet` | claim rows, claim handlers and the chain. |
| `Challenges` | the single-use challenges of three flows. |
| `DeployKeys` | deploy keys and the link flow; extends `Challenges`. |
| `Regions` | regions, memberships and node credentials; extends `Challenges`. |
| `Instances` | instance rows and the requests that manage them. |
| `Acl` | the access evaluator, both protocols. |
| `RateLimiter` | its token buckets. |
| `MCBilling`, `MCWithdrawals`, `MCDeposits`, `MCDelegations` | instances of one component. |
| `MCRequests`, `MCAccounts`, `MCMarket`, `MCNodes`, `MCProgress` | instances of several: a behaviour runs one of them, chosen in the initial state by `part`, and the others rest. They share a run because they answer one question, not because they interact; where they do interact (`Deposits` with wallet links, `DeployKeys` and `Regions` with `Challenges`, `Withdrawals` and `Delegations` with the cluster) the interaction is inside a module. |
| `AmountsProofs` | lemmas about `Totals` and `Pricing`, on which the other proofs rest. |
| `AccountsProofs`, `BillingProofs`, `LedgerProofs`, `WithdrawalsProofs`, `StreamProofs`, `NodesProofs`, `RequestsProofs` | theorems about `PricingFlow`, `ApiKeys`, `Faucet`, `Deposits`; `Billing`; `Billing`, `BillingEscrow` and `Merkle`; `Withdrawals`; `ThinkFix`; `DeployKeys`, `Regions`, `Instances`, `Acl`, `RateLimiter` and their instance `MCNodes`; `Admission`, `Snapshots`, `Asks`, `Sinks`, `Delegations`. |

### Billing: state and actions

`credit`, `reserved`, `ledger` are `account_credits` and `credit_ledger`;
`state`, `buyer`, `quotes`, `held`, `reservedAt` are the columns of
`billing_requests`. A settlement callback `<<r, f>>` walks through `pc`:
`BeginSettle` or `BeginRelease` is the plain SELECT that opens its transaction,
`DebitBuyer`, `CreditSeller`, `CreditTreasury` are the three `applyDelta`
statements, each of which needs the account row to be free, and `FinishSettle`
the ledger inserts, the update of the request and the commit, or the refusal of a
second charge. `Unreserve` and
`CommitRelease` are the two halves of `releaseLocked`. A sweep selects with
`FOR UPDATE SKIP LOCKED` (`SweepSelect`), releases its rows one by one
(`SweepRelease`) and commits (`SweepCommit`). Writes become visible at commit;
until then the transaction owns the rows it updated. `CallbackFails` and
`SweepFails` are errors, timeouts and crashes (bounded by `MaxFaults`);
`DeadlockVictim` is PostgreSQL ending one member of a cycle of waiting
transactions. `Finalizers` has one element in the code, two in the run that asks
what the store guarantees by itself.

`AgeExceedsLifetime` is the assumption of the code that no response is still
running when its reservation is older than `BILLING_SWEEP_AGE`
(`cmd/server/main.go`: "the age is well above the upstream request timeout";
`internal/proxy` sets no such timeout). With it the books are exact; without it
the run `billing_drift` shows what happens; `EventuallyFinal` then fails too, since a
sweep whose batch holds another reservation of the account violates its CHECK on
every tick and rolls back.

### The escrow

`Escrow` is the store as a caller sees it: a balance per party; a job puts an
amount aside (`Hold`), and ends once, paid (`Pay`) or given back (`GiveBack`, several
at a time, as a sweep does). Holds never exceed the balance and paying makes or loses
no money. `BillingEscrow` maps `credit_raw` to balances and request states to
stages; `reserved_raw`, the ledger, locks and pending transactions have no
counterpart, so a transaction's statements are stuttering steps and its commit is one
step of the escrow. The run `billing` checks the refinement where no response
outlives the sweep age; without that assumption it fails with `ReservedMatchesOpen`.

### Withdrawals: state and actions

A row is named by its idempotency key. Every store transition locks the row,
checks its state and commits: one step. What interleaves is the worker, which
works through *copies* read by an earlier sweep (`due`), with RPCs between the
read and the transition; `at` is what it has learned about the copy it is
advancing. `SendAccepted`, `SendAmbiguous`, `SendExpired` are the three branches
of `broadcastStored`; `SignatureStatus` and `BlockHeight` the two reads of
`finalizeOrRestore`; `SkipRow` any error that is logged and left to the next
sweep; `CrashWorker` a replica that stops.

The cluster is external: a transaction is its message (destination, amount,
blockhash), executes at most once and only while its blockhash is valid, and may
be rejected or dropped. `NewBlockhash` and `ExpireBlockhash` replace block
heights. `prompt` assumes that a worker hears and records what became of
a transaction it sent before the blockhash expires (about a minute), and that
nodes still remember the status when it asks. The destination's token account is
taken to exist already. In the run `withdrawals` no account can pay for two
withdrawals at a time; `withdrawals_twins` shows what equal ones lead to.

The API's answers are left out: a key that is known changes nothing. The handler
checks the available credit before the store looks the key up, so a client that
posts an accepted withdrawal again may be told 402, where its comment promises the
original record.

`FailWithdrawal` has no caller, and the restores for an undecodable destination
or wire cannot be reached, since both were validated when they were written; they
are left out. The workers are modelled against their `rpcClient` interface: the
JSON decoding of `internal/solana/rpc.go` is not part of the model (its `call`
already unwraps `result`, while several callers unwrap it once more).

### Deposits: state and actions

`chain` is the treasury's finalized history, `event` and `assignee` are
`deposit_events`, `cursor` is `deposit_cursors`, `link` is `user_wallets`. A
watcher's pass is `RunOnce` call by call, in the order of the code:
`DepositCursor`, `GetSignaturesForAddress` (from a node that may lag behind:
`Candidates` is the paging loop), then for each signature, oldest first,
`GetTransaction`, and for each of its transfers `InsertDepositEvent`,
`AccountForWallet`, `ApplyDeposit`; then `AdvanceDepositCursor`, a compare and
set. `SignatureFails` is an error inside `processSignature`, which sets
`advanceBlocked`; `PassFails` an error of `RunOnce` itself or a crash. The wallet
API is `LinkWallet`, then `ReconcileDepositsForWallet` or, when that fails,
`AbandonReconcile`, and `DeleteWallet`. Two history variables: `start` is the
first cursor that was persisted, `abandoned` the wallets whose last
reconciliation failed.

Before a cursor exists a pass takes the newest page only. A signature that failed
then blocks the cursor, so the next pass is a first pass again and may find that
newer signatures have pushed it off the page; the guarantees are therefore stated
for signatures newer than `start` (`Followed`).

`InUse` says which wallets cannot be unlinked because they prove an active instance.
Every transfer moves one unit; the runs have one wallet, so that a transaction has at
most one transfer there. One case holds the cursor back on every pass: a transfer that
was credited to one account before its wallet was linked to another (`ApplyDeposit`
reports the conflict). A transfer of zero units is dropped by the decoder (`rpc.go`), so
that it never meets the table's CHECK. The state `skipped` of the table is never
written.

### Delegations: state and actions

`account` is the buyer's token account on chain, `allowance`, `registered`, `revoked` are
`account_allowances`, `leg` the earn legs of the ledger, `cursor`
`delegation_settlement_cursors`, `batch` `delegation_settlements`. The poller of each
replica reads the chain (`ObserveWallet`, with the conversion of the uint64 to int64),
looks at the registry where the code does (`CheckRegistry`) and writes the absolute
amount with its credit delta (`MirrorDelta`, credit clamped at `reserved`). With a
registry row this is one step, the row being locked from the read of its amount
(`UpsertAllowance`). Without one, `FOR UPDATE` locks nothing: `SelectMissing` and
`InsertAllowance` are two steps, between which another replica may insert the row. An
amount that turned negative is refused (`RefuseNegative`). A charge draws its leg ids
(`Charge`) before they are visible (`CommitLegs`). A claim reads the cursor and the
legs (`ClaimRead`) and later inserts batches, deducts allowances and overwrites the
cursor (`ClaimCommit`). Batches are signed, sent, finalized or restored as
withdrawals are, with copies older than the row.

`mirrored`, `forfeited` and `shortfall` are history: the delegation legs of the ledger,
what the registry dropped when a restore found the allowance revoked, and what
revocations could not take because it was reserved. `AllowanceAccounted` has two parts.
`CreditFollows`: credit and charges add up to what was mirrored, unless an amount
exceeded int64 (`wrapped`). `RegistryBalanced`: so do the allowance left and what
batches took; it is stated for histories without overlapping claims (`overlapped`,
shown by `delegations_twice`), without an observation refused as a replay (`replayed`)
and without a first observation that was booked after another replica's (`unlocked`:
both computed their delta from 0, and the credit was granted twice).

### The request's way: Admission, Snapshots, Sinks

`Admission` takes one request through `gate.Inspect` (route, what the decoder reads
of the body before `InspectCap`, output ceiling, clamped body) and `serve`: caps,
quotes, reservation, in observe and enforce mode. `OutputBounded` says that what is forwarded
asks for no more output than was reserved for, `NeverServedFree` that an enforcing
gate forwards a metered request only with a reservation. One way around it is in the code
and excepted by name: an embeddings request whose input size cannot be bounded is
not `Supported` and not `Generative`, and is forwarded, although the comment above
`serve` says the gate never serves a paid request free.

`Snapshots` has concurrent callers of `peers.Snapshot`, each between fetch of the
node table, the instance rows and the store into the cache, and `catalog.view` on
top. What a caller is shown of a hidden or unlisted service is at most as old as both
TTLs and a fetch allow. The GPU resolver refreshes without a lock; its retry floor
being longer than its timeout keeps refreshes apart.

`Sinks` runs either sink: `Observe` into the bounded queue, `Flush` on a tick,
`Insert`, `InsertFails` (stored or not), `ContextDone`, `Drain`, `LastInsert`. Samples
are stored in order, repeated only after a lost answer, and missing only if the queue
was full, the last insert failed or they came after the last drain. The ClickHouse
sink leaves the queue alone when it stops with a kept batch; `FlushedAtStop`, a part of
`SamplesAccounted`, names this exception.

### Asks, Merkle, ThinkFix

The three writers of `Asks` (node, console, refresher) share the steps
`GetInstanceByPeerID`, `LookupPeer`, `Publish` with everything in between free to
change. The refresher republishes a sheet it read before the owner withdrew it, so the
promise is one of time: withdrawn and orphaned prices are gone after a TTL from the
last publication that could still carry them (`StalePricesExpire`). Revisions restart
at 1 when an empty sheet was published.

`Merkle` has the tree as the code has it: levels halved and padded until one node is
left (`Levels`, `Height`), the siblings on the way up (`MerklePath`, `Ancestor` for
`index /= 2`), and the verifier, which knows the number of leaves and puts the pad where
a level has no real sibling (`VerifiedSibling`, `Climbed`). The loops are recursive
functions over the level, not recursive operators, so that they can be proved about.
The requests read as the code does: index, pages by id, index again. Rows draw ids
before they commit. Of the parts of `ServedAnswersVerify`, `ServedProofVerifies` excepts
a smaller id committing meanwhile (the index then moved), `ServedRootIsWhole` a row that
commits behind the page cursor.

`ThinkFix` cuts a text of pieces (a marker is two or three of them) into deltas in
every way. A delta is of the type of its block; `onSignatureDelta` stands for the
signatures and citations of a text or thinking block, which are not scanned. The stream
ends by `finish` (`message_stop` or EOF) or by `readFails`, any other error, after which
nothing is closed. The client's reconstruction of the stream is compared with the rewrite of
the whole message; `StreamRepaired` also wants the stream well formed and ordinary text
never held back. Signatures must go to the open block; those that come before any text
of a block that started after the first marker carry the index -1, which the property
excepts by name. The scanner's loop is a recursive function over its turns (`Scan` is
one of them); `Feed` takes as many turns as the data can need, and a turn without data
changes nothing.

### Accounts: ApiKeys, Faucet

`ApiKeys` splits a lookup at the query and the cache write. A revocation purges the
cache of its replica only; `keyctl` purges none. `RevokedKeysStop` has two parts:
`RevocationPropagates` bounds how long any replica may still say yes, `PurgeIsFinal`
says that on the purging replica only lookups in flight can bring a key back. `Faucet`
has handlers between reservation, blockhash, send and record, and the chain;
`FaucetPaysOnce` excepts what the code cannot rule out, a transaction that lands after
its send was reported as failed or after its row could not be recorded.

### Nodes: Challenges, DeployKeys, Regions, Instances, Acl, RateLimiter

`Challenges` is the table shared by the link flow and two credential flows; creation
prunes, counts and caps per peer (for credentials over all audiences, so pending link
challenges count against them). `DeployKeys` takes a link request through its five
statements; a use may be spent without a link, never the reverse. `Regions` follows one
instance: an accepted invitation, its membership revision, a credential and its check.
Of the parts of `MembershipGoverns`, `HonouredAsIssued` excepts a revision that
restarted after a release. `AcceptedInTime` bounds lateness by the age of the
observation the code compares with. `UpdateMembershipState` passes a parameter its
statement does not reference, which PostgreSQL may refuse, so the update may succeed or
fail. An invitation expires after its TTL or when the caller asked for
(`InviteExpiries`).

`Instances` keeps the copy of the row a request works on. A reclaim is two steps, as in
the code: the rules are deleted (`ReclaimDelete`) before the row is locked and changes
hands (`Reclaim`), and rules that a request of the previous owner commits in between
are `left`. `OwnerInCharge` is two things: `PolicyOfOwner` says that mode and rules were
set by whoever owns the row, so that a stale mode written back is at worst an older one of
the same owner, excepting such rules (`raced`); `UncheckedOnlyAfterFailure` that the
ownership check is skipped on a claimed row only after a lookup failed, or by a request
that had read the row while it was linked and outlived its reclaim (`outlived`).

`Acl` states decisions as operators over rows, observations and credentials, which
change under them. A peer has several services, each with an exposure and a policy of
its own. A request's partition and route come in two spellings, canonical and other: the
handler lowers its own copies, and `evaluateV2` compares what the request wrote. The
parts of `DecisionsFailClosed` cover every spelling that the handler admits.
`PartitionsDisjoint`: no service answers permissionless requests and canonical trusted
ones, and a peer with one policy serves one of the partitions only.
`SpellingOpensNothing`: no spelling of a permissionless request opens more than the
canonical one. `TrustedFailsClosed`: a peer allowed in a region is managed and, unless the
service is permissionless, a live member with a fresh observation; for the canonical
spelling also the requester is, as its credential says, and roles and upstream are
checked. `V1AgreesV2` compares the two protocols. What another spelling of a trusted
request escapes (requester and upstream checks, for a peer with one policy the role, and
that a permissionless service is refused) is left out of the second half and listed below.

`RateLimiter` counts tokens in parts, `CallCost` of them for a call; it assumes what the
code's numbers satisfy, that an idle bucket is full when it is reaped.

## Runs

| Run | Question | Bounds |
|---|---|---|
| `billing` | Are the books exact, is a reservation a guarantee of payment, is everything finalized, is it an escrow? | three requests of two accounts that sell to each other, two sweepers, one lost transaction |
| `requests` | What holds on a request's way: of the store under every race, late responses and repeated callbacks included; of the gate, the views and the sinks? | two requests, two callbacks each, two sweepers; every body of four fields, two providers; two callers; queue of three, six samples |
| `withdrawals` | Is credit taken and given back once, one transaction sent per withdrawal, the first outcome kept; is a finalized withdrawal paid and, by prompt workers, a restored one never? | two accounts, two keys, two workers, three blockhashes, prompt workers or not |
| `accounts` | Is a charge exact, within reservation and caps; is each transfer credited once and none missed; does a revoked key stop; is a faucet claim paid once? | integers up to 11, two quotes, rates 0, 1, 9, tokens 0, 1, 3 (sums and products overflow, some wrapped products are positive); a wallet that moves between two accounts, two replicas, three signatures, pages of two; two keys, two creators, two caches; two claim handlers, three attempts |
| `market` | Do allowances add up, do prices leave the market, do proofs verify, does the repaired stream equal the repaired message? | two buyers, two sellers, two workers, two pollers, two charges, three slots, approvals of 4 and of 15 where the largest int64 is 7; two owners, two prices; five ledger rows, pages of two; responses of six pieces in deltas of two |
| `nodes` | Do challenges, deploy keys, regions, instances, the evaluator and its limiter keep their promises? | three challenges, one key with one use, two link requests; two regions, two invitations, three membership writes; two providers, two managing requests, three claims; two peers with two services each and any roles, four spellings of partition and three of route, two edits; two callers, five ticks |
| `progress` | Does what must happen happen: deposits credited, withdrawals decided, the registry in step with the chain? | one replica; pages of one, so that the backlog spans pages; one key, three blockhashes; one buyer, three slots, an approval that fits and one that does not |
| `billing_drift` | the finding about sweeps that overtake a response | two requests, one sweeper |
| `withdrawals_late`, `withdrawals_twins` | the two findings about withdrawals | one or two keys, one worker |
| `deposits_stranded` | the finding about deposits | one wallet, one replica, pages of one |
| `delegations_twice` | the finding about claims | one buyer, two legs, two workers |

Why the bounds are enough: the interesting cases of billing need two requests of
one account (one released twice, one left with too little), or two accounts that
lock each other's rows; a third request lets a sweep hold a batch while a
callback runs. In the withdrawals, three blockhashes allow one that expired, one that is
signed against and a fresh one; two keys a batch of two. In the
deposits, three signatures give a cursor, one that fails and one behind it, and
more than a page. Delegations need two legs for a claim that sees one more than
another, and two buyers for a pass over both. Five ledger rows give trees with padding
on two levels and three pages. Six pieces hold two complete markers with a separator.
Caches need one tick more than the TTLs they add up. Two requests on one deploy key
are enough to race for its last use.

The constraint `Bounded` of `market` and `nodes` cuts combinations: states after an
overlapping claim, a replay or an unlocked first observation, of which the accounting
says little (the states themselves are checked, their successors are not), two pollers
at a time where fees stay off chain, a poller beside a worker once there are two
charges, a third writer of asks at the same time, long responses with few markers, a
second challenge of a region, a challenge at the second tick beside a second invitation,
late ticks of deploy keys. Replicas, keys, wallets, accounts, buyers, callers,
providers, peers, regions and services are interchangeable and treated as symmetric in
runs without liveness. `CHECK_DEADLOCK FALSE` stands where instances end when their
requests, attempts or ticks are used up.

Fairness in `Billing`: a begun response ends and a begun transaction runs on (strong
fairness of `CallbackStep`, since PostgreSQL hands a freed row to the transaction that
waits first in its queue), the sweep ticker keeps firing, deadlocks are resolved.
Reservations and deposits are not fair. Fairness in `Withdrawals`: the poll ticker keeps
firing, and of RPCs and store calls tried again on every tick some succeed (strong
fairness of each step of the worker); blocks are produced, blockhashes expire, executed
transactions become final. Nothing makes a node include a transaction, so that the
restore path is needed for `EventuallyDecided`. Fairness in `Deposits`: the poll ticker
keeps firing, a node with the whole history answers now and then, of the calls repeated
for one signature on every pass some succeed, and a link handler runs to its end. No
transfer and no link is fair, and failures may go on for ever. Fairness in
`Delegations`: the poller's calls (`ObserveWallet`, `CheckRegistry`, `Upsert`,
`InsertAllowance`), repeated on every tick, sometimes succeed, or are refused where the
amount is too large; approvals, claims and the settlement worker are not fair.
`MCProgress` pairs conditions of components that never run in the same behaviour into
one condition each; for a behaviour this says the same as the `Fairness` of the
component that runs.

### Findings

1. `billing_drift`: `ReleaseBilling` and `SettleBilling` read the request without
   a lock. A sweep that reclaims the row in between gives the reservation back
   twice.
2. `withdrawals_late`: a send whose answer was lost, repeated after the blockhash
   expired, is answered "blockhash not found" and restored although the transfer
   was executed; a status that nodes no longer remember has the same effect.
3. `withdrawals_twins`: two equal withdrawals signed against one blockhash are one
   transaction; both rows are finalized, one transfer is made.
4. `deposits_stranded`: a reconciliation that failed after a link is never
   repeated, neither by the watcher nor by another link attempt.
5. `delegations_twice`: two claims at the same time, one of which sees a leg more,
   put one leg into two batches that are both paid.

Smaller disagreements seen while modelling, visible in the modules and without a run:
the faucet's comment that a payout that could not be recorded cannot be claimed again
holds until the pending TTL only; the key cap, counted before the insert, may be
exceeded by one for every concurrent creator, where `keysvc.go` speaks of one in all;
`gate.go` says the allow-list header is overwritten on every forwarded request, which
enforcing does and observing does not; a test speaks of streams being rejected without
`include_usage`, which nothing reads; the refusal of an expired invitation rolls back
the update that marks it expired; a refused or label-only request may write an older
access mode back. And these, each an exception that a property names:

- `allowance.go:17` says all writers take the registry row `FOR UPDATE` and serialize; two
  first observations have no row to take, and each books the whole grant (`unlocked`).
- `poller.go:165` says the delta math handles grant, raise and lower; an approval above
  2^63-1 turns negative at line 170 and is refused on every pass, so that
  `RegistryCatchesUp` speaks of smaller ones.
- `store/postgres_test.go:213` wants a reclaimed instance "restricted owner-only"; rules
  committed between the two statements of a reclaim stay in force (`raced`).
- A managing request that read a linked row is not checked against the mesh, and may write
  the row after its reclaim if it is of the new owner's account again (`outlived`).
- `aclapi/api.go:203` admits a partition and a route in any letter case; lines 330, 337, 392
  and 455 compare them as written, so that a trusted request in another case is decided
  without the checks of the requester, the upstream and the partition. On the worker route
  only rows of the subject and the requested peers are loaded, so that an upstream passes
  only if it is the subject itself, with the role `combined`.
- `anthropic_sse.go:195` forwards a signature delta with the index -1 when its block has
  not started downstream.

## Proofs

The theorems hold for every value of the constants that satisfies the named
assumptions of the modules (`BillingAssumption`, `WithdrawalsAssumption`, ...), which
say that bounds are numbers, sets of rows finite and the "nothing" values distinct
from real ones; TLC evaluates them on the instances of the runs. Some theorems need
more, and say so in their statement:

| Hypothesis | Theorems | What it means |
|---|---|---|
| `BoundedAge` | those of `LedgerProofs` marked * below | one callback per request, no response outlives the sweep age; `billing_drift` shows what happens without it |
| `ReservationsOutlive` | `FaucetPaysAccountsOnce` | the pending TTL (2 min) is longer than what can come between reserving and the last moment the transaction can land: send timeout, recording, and the life of a blockhash |
| `[]NoTwins` | `OutcomesAreTrue` | no finalized transaction is the wire of two withdrawals; `withdrawals_twins` shows it otherwise |

Every invariant below is inductive only together with others; what had to be added is
the reason the code works.

- `AmountsProofs`: sums over finite sets (disjoint sets add, a changed row changes the
  sum by the difference, an injection bounds it); `checkedMul`, `checkedAdd`,
  `ceilDiv` are exact or an error at every width (`CheckedMulExact`); `Cost` is
  monotonic in rates and tokens.
- `AccountsProofs`, prices: `ReserveCoversCharge`, `ChargesRoundUp`, `FeesSplitCharges`
  (together `ChargesExact`), `ChargesWithinCaps`, from `FlowInv`: every quote of the
  snapshot is within the merged caps, the reservation is the priced worst case of the
  snapshot (which takes the dearer of the two input rates), usage is within the ceilings.
- `AccountsProofs`, keys and faucet: `RevokedKeysStopEverywhere` from `KeysInv`, which
  bounds the age of what a lookup in flight has read and of what a cache may still
  say, and says that a purge that is over left neither behind. `FaucetPaysAccountsOnce` from `FaucetInv`: a handler at work is the
  only one on its attempt and within its timeouts, and the blockhash of the attempt a
  row stands for was taken at most a send timeout after the reservation.
- `BillingProofs`: `TypeCorrect`. Balances are natural numbers only because CHECK
  constraints tested early still hold at commit, so `BillingInv`
  says which rows each transaction owns (`RowsExclusive`), that what it tested
  stays true (`PendingSound`), that a pending settlement's split is exact
  (`SettlementsExact`) and where requests are in their life (`Lifecycle`).
- `LedgerProofs`: `ReservationsBacked` from `BillingInv` alone. `OneChargePerRequest` and
  `CreditReconciles` need `LedgerInv`: a request
  has all the legs of one settlement, which add up to zero, or none, so that testing
  one leg tests all. Then (*)
  `ReservationsExact`, `ReservationsPay`, `FinalStatesStay`, `StateTellsCharge`, from
  `BooksInv`, which adds that callbacks and sweeps take turns on a request
  (`TakingTurns`) and that reserved amounts match: only then is the reservation being
  paid still part of `reserved_raw`. `StoreIsEscrow` (*) is the refinement: initial
  states map to initial states, a commit of a reservation, settlement, release, sweep or
  deposit to one step of `Escrow`, every other statement to a stutter.
- `LedgerProofs`, the commitments: `ServedAnswersStayVerified` and `PathsStayBinding`, for
  ledgers and pages of any size. The provers have no induction, so `InductiveSet` states
  it for sets of numbers, and `SizeStep`, `AncestorStep`, `LevelsStep`, `ClimbedStep` show
  that the recursive functions exist and satisfy their equations. `HeightFound`: the
  levels shrink to one node. `TreeClimbs`: one step of the verifier with the sibling of a
  padded level leads from a leaf's ancestor to the next. Upwards this makes every path
  verify (`PathVerifies`); downwards, since a hash determines what was hashed, it makes
  any path of the tree's height that verifies start from the leaf of its rank
  (`PathBinds`). The reads need `ReadsInv`: what was read is in
  order and complete up to the last page (`ReadInOrder`, `ReadWhole`), where rows that
  commit behind a page spoil the root but below the row asked for nothing goes missing
  unnoticed; so the rank counted first stays the rank (`RankStands`), and the row's place
  in what was read is its rank (`RankAtPlace`).
- `WithdrawalsProofs`: `WithdrawalsTyped`, `WiresPersisted`, `OutcomesAreFinal` and
  `WithdrawalsConserveCredit` from `WithdrawalsInv`: rows have a wire exactly when they
  have been signed (`RowsSound`), a copy differs from its row only by being older
  (`CopiesSound`), what a worker has learned about its copy was true when it learned it
  and is still usable (`StagesSound`), and nodes know persisted wires only, rows are finalized
  when their transaction is final and restored when it can no longer execute
  (`ChainSound`). `PaidIsNotRestored` adds `PaidGuarded`: for prompt workers, an
  executed transaction is the wire of a row that is not restored and that no worker is
  about to restore (whoever still takes it for signed will find its blockhash valid);
  distinct transactions have distinct rows, so what was paid is
  covered by debits. `OutcomesAreTrue` follows with `NoTwins`, the injection from
  rows to transactions going the other way.
- `AccountsProofs`, deposits: `DepositsTyped`, `NoDepositLost`, `DepositsCreditedOnce` from
  `DepositsInv`: a pass works through consecutive signatures that start right after
  the cursor it believes in, until it fails on one; of the transaction in hand, the
  transfers no longer to do are `Handled`; so is what the cursor has passed. The attempt to prove
  the second half of `NoneLost` for all signatures failed for a good reason: a first
  pass that persists a transfer and stops before crediting it leaves no cursor, and the
  next first pass may start after it. `NoneStranded` is therefore stated for
  the signatures `NeverSkipped` speaks of, those newer than `start`.
- `NodesProofs`: `GrantsStayBounded` from `ChallengesInv` (a pending challenge has let
  nothing through) and `DeployInv` (the links made and those still to come
  from requests past the guarded update are at most the uses spent). `OwnersStayInCharge` from `InstanceInv`,
  which ties the copy a request holds to the account that owned the row when it was
  read, unless it is excepted, and says which requests may have passed unchecked. `MembershipsGovern` from `RegionInv`, which orders revisions, writes and
  releases. `EvaluatorFailsClosed` states the four conjuncts of `DecisionsFailClosed`
  for every state of `AclInv`, and `NodesFailClosed` carries them to the instance that
  the run `nodes` checks. `RateStaysKept` from `RateInv`, which puts the bucket
  into the sum: for every window of the past, what was granted in it and what is in the
  bucket now are together at most the burst and the window's refill (`WindowKept`), and a
  caller told to wait has, at the time told, what a call costs (`WaitKept`). Reaping is
  harmless because an idle bucket is full, as a new one is (`ReapingIsHarmless`).
- `RequestsProofs`: `MeteredIsReserved` and `ReservedIsClamped` from `GateInv` (a
  supported plan has a bounded input and an output ceiling the forwarded body keeps,
  and quotes being reserved against exist and are within the cap). `OneRefreshAtATime` from `GpuInv`: the one refresh in flight is as old as
  the last attempt. `CachesLetGo` from `SnapInv`, which bounds the age of what every
  cache and every caller holds. `MarketForgets` from `AsksInv`: the
  histories count from the moment at which no table and no writer in flight carries the
  sheet any more. `SamplesAreAccounted` from `SinkInv`: stored rows, pending batch
  and queue are one growing sequence of everything seen and not dropped, without
  repeats unless an answer was lost.
  `LegsPaidOnce` from `ClaimsInv`: batches carry only legs the cursor has passed, and a
  claim only committed legs beyond the cursor it read. `AllowancesAccounted` from
  `RegistryInv`, which adds that a batch's name is its first leg's (`NamedByLeg`), so that
  the batches of a claim are new rows, and that rows are sound: what a claim deducts
  from an allowance is the total of the batches it inserts because they partition
  the claim's legs (`PlannedTotal`, with `TotalPartition` of `AmountsProofs`); and from
  `CreditInv`, which adds the types of credit and reservations: a revocation's clamp is
  what `shortfall` records, and only a sum beyond int64 breaks the equation.
- `StreamProofs`: `StreamsStayRepaired`, for responses of any length, deltas of any size
  and markers anywhere. Every turn of the scanner's loop takes a measure down (text left,
  counted twice, and whether a section is starting), so the loop ends within the turns
  `Feed` gives it, and two loops that meet end alike. With that `FeedSplits`: text
  cut anywhere is classified as if it were not; what is held back is all of the data, at the start of a
  section, or the `<|` the data ends with. `RewriteWords`: rewriting a response keeps every ordinary piece,
  since only tokens are dropped or held. The invariant `ThinkInv` says that the scanner is in the
  state that rewriting the response so far leaves it in, and gives the shapes of rewriter and
  client: before the first marker the client has what the rewritten response has
  (`Copies`); after it, between blocks, nothing is open (`Rests`), and within a block the one
  downstream block open is the last run of the block's classified text
  (`RepairsLast`); in each case the two agree on all blocks that are not empty. `StrayInv` adds that a block
  that has started downstream is the open one (`Placed`), which puts signatures where they
  belong. Sums
  and loops over sequences are handled by the sets of inputs for which a claim holds
  (`ScanInduction` and its like), with a measure or the length as the number
  to descend on, since the library's induction theorems cannot be instantiated.

Only model-checked, and why: the liveness properties (`EventuallyFinal`,
`EventuallyDecided`, `RegistryCatchesUp`, ...), since the prover has no fairness. Every
safety property of the passing runs is stated by a theorem.

## Not modelled

- Reads that change nothing (listings, balances, the leaderboard), the drift report of
  `delegations/reconcile.go`, which only logs, and the tables of metered events and of
  saved caps, which nothing that moves money writes back to.
- Formats: JSON and event-stream decoding, JWTs, Solana transactions and
  `solana/rpc.go`'s decoding, base58. Signatures and hashes are taken to be sound.
- Routing, CORS, configuration, logging and process start. Two facts of it are used:
  the proxy sets no upstream timeout, and the sinks stop on the signal that stops
  the server.
- Sessions and identity tokens, which are verified by a library.
- The wallet challenge (`walletsapi`), a single-use challenge like those of
  `Challenges` with a signature over it.
- Upstream streams whose blocks overlap or never start, bodies with duplicate keys,
  and instances linked in several regions at once, which the code excludes or leaves
  to the other side.

## Plan

What is left are the parts listed under "Not modelled" that keep state: the wallet
challenge, and streams whose blocks overlap.
