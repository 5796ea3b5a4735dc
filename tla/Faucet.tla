------------------------------- MODULE Faucet -------------------------------
(***************************************************************************)
(* The faucet pays an account once.  A claim handler (internal/faucetapi)  *)
(* reserves the account's row in faucet_claims, sends a transfer           *)
(* (internal/faucet) and completes the row with its signature, or deletes  *)
(* the row when the send failed.  A reservation that a crash left behind   *)
(* may be taken over once it is older than PendingTTL (internal/store).    *)
(*                                                                         *)
(* Time is in ticks of the blockhash lifetime's order.  StoreTimeout is an *)
(* assumption: the calls that complete or clear a row have no timeout of   *)
(* their own.  The chain is external: a submitted transaction lands while  *)
(* its blockhash is valid and the faucet wallet can pay, or never.         *)
(***************************************************************************)
EXTENDS Naturals, FiniteSets

CONSTANTS Claimants,       \* accounts
          Handlers,        \* claim requests being served, on any replica
          MaxAttempts,     \* bound on the reservations ever made
          MaxTime,         \* bound on the clock
          Funds,           \* payouts the faucet wallet holds
          PendingTTL, SendTimeout, BlockhashLife, StoreTimeout,
          NoClaimant

ASSUME FaucetAssumption ==
  /\ {MaxAttempts, MaxTime, Funds, PendingTTL, SendTimeout, BlockhashLife, StoreTimeout}
       \subseteq Nat
  /\ NoClaimant \notin Claimants

Attempts == 1 .. MaxAttempts

VARIABLES time,
          claim,    \* faucet_claims: the attempt a row stands for, its state and age
          attempt,  \* per reservation: whose it is, what became of it
          transfer, \* per reservation: its transaction on the chain
          handler,  \* the claim handlers
          fund      \* payouts left in the faucet wallet

faucetVars == <<time, claim, attempt, transfer, handler, fund>>

NoClaim == [state |-> "none", by |-> 0, claimedAt |-> 0]
Idle == [at |-> "idle", for |-> NoClaimant, attempt |-> 0, since |-> 0]

FaucetTypeOK ==
  /\ time \in 0 .. MaxTime
  /\ claim \in [Claimants -> [state : {"none", "pending", "completed"},
                              by : 0 .. MaxAttempts, claimedAt : 0 .. MaxTime]]
  /\ attempt \in [Attempts -> [account : Claimants \cup {NoClaimant},
                               end : {"open", "completed", "doubtful", "failed"}]]
  /\ transfer \in [Attempts -> [state : {"none", "built", "sent", "landed"},
                                blockhash : 0 .. MaxTime]]
  /\ handler \in [Handlers -> [at : {"idle", "checked", "sending", "clear", "complete"},
                               for : Claimants \cup {NoClaimant},
                               attempt : 0 .. MaxAttempts, since : 0 .. MaxTime]]
  /\ fund \in 0 .. Funds

FaucetInit ==
  /\ time = 0
  /\ claim = [a \in Claimants |-> NoClaim]
  /\ attempt = [n \in Attempts |-> [account |-> NoClaimant, end |-> "open"]]
  /\ transfer = [n \in Attempts |-> [state |-> "none", blockhash |-> 0]]
  /\ handler = [h \in Handlers |-> Idle]
  /\ fund = Funds

-----------------------------------------------------------------------------
(* The handler: handleClaim.                                               *)

\* The checks before anything is written: the wallet is funded, or the check
\* failed and is skipped, and the row, read without a lock, has no signature.
CheckClaim(h, a) ==
  /\ handler[h].at = "idle"
  /\ \E rpcOK \in BOOLEAN : rpcOK => fund > 0
  /\ claim[a].state # "completed"
  /\ handler' = [handler EXCEPT ![h] = [Idle EXCEPT !.at = "checked", !.for = a]]
  /\ UNCHANGED <<time, claim, attempt, transfer, fund>>

\* claimed_at < now() - FaucetPendingTTL.
Stale(a) == claim[a].claimedAt + PendingTTL < time

\* Mutant: any pending row is taken over.
Claimable_Pending(a) == claim[a].state # "completed"

\* INSERT ... ON CONFLICT DO UPDATE ... WHERE.
Claimable(a) ==
  \/ claim[a].state = "none"
  \/ claim[a].state = "pending" /\ Stale(a)

ClaimFaucet(h, n) ==
  LET a == handler[h].for IN
  /\ handler[h].at = "checked"
  /\ Claimable(a)
  /\ attempt[n].account = NoClaimant
  /\ \A k \in 1 .. n - 1 : attempt[k].account # NoClaimant
  /\ claim' = [claim EXCEPT ![a] = [state |-> "pending", by |-> n, claimedAt |-> time]]
  /\ attempt' = [attempt EXCEPT ![n].account = a]
  /\ handler' = [handler EXCEPT ![h] = [at |-> "sending", for |-> a, attempt |-> n, since |-> time]]
  /\ UNCHANGED <<time, transfer, fund>>

\* The row is taken or the store fails: 409 or 503.
ClaimRefused(h) ==
  /\ handler[h].at = "checked"
  /\ handler' = [handler EXCEPT ![h] = Idle]
  /\ UNCHANGED <<time, claim, attempt, transfer, fund>>

Turn(h, place) ==
  handler' = [handler EXCEPT ![h].at = place, ![h].since = time]

\* Send: accountExists and latestBlockhash.
LatestBlockhash(h) ==
  LET n == handler[h].attempt IN
  /\ handler[h].at = "sending"
  /\ transfer[n].state = "none"
  /\ transfer' = [transfer EXCEPT ![n] = [state |-> "built", blockhash |-> time]]
  /\ UNCHANGED <<time, claim, attempt, handler, fund>>

\* The node has the transaction and the handler its signature.
SendTransaction(h) ==
  LET n == handler[h].attempt IN
  /\ handler[h].at = "sending"
  /\ transfer[n].state = "built"
  /\ transfer' = [transfer EXCEPT ![n].state = "sent"]
  /\ Turn(h, "complete")
  /\ UNCHANGED <<time, claim, attempt, fund>>

\* Any call of Send fails or times out; the node may have the transaction.
SendFails(h) ==
  LET n == handler[h].attempt IN
  /\ handler[h].at = "sending"
  /\ \/ UNCHANGED transfer
     \/ /\ transfer[n].state = "built"
        /\ transfer' = [transfer EXCEPT ![n].state = "sent"]
  /\ Turn(h, "clear")
  /\ UNCHANGED <<time, claim, attempt, fund>>

\* How an attempt ends without a recorded signature.
Unrecorded(n) ==
  attempt' = [attempt EXCEPT ![n].end =
                IF transfer[n].state \in {"none", "built"} THEN "failed" ELSE "doubtful"]

\* ClearFaucetClaim: whichever pending row the account has.
ClearFaucetClaim(h) ==
  LET a == handler[h].for IN
  /\ handler[h].at = "clear"
  /\ claim' = IF claim[a].state = "pending" THEN [claim EXCEPT ![a] = NoClaim] ELSE claim
  /\ Unrecorded(handler[h].attempt)
  /\ handler' = [handler EXCEPT ![h] = Idle]
  /\ UNCHANGED <<time, transfer, fund>>

\* WHERE tx_signature = ''.
Completable(a) == claim[a].state = "pending"

\* CompleteFaucetClaim.
CompleteFaucetClaim(h) ==
  LET a == handler[h].for
      n == handler[h].attempt IN
  /\ handler[h].at = "complete"
  /\ IF Completable(a)
       THEN /\ claim' = [claim EXCEPT ![a].state = "completed", ![a].by = n]
            /\ attempt' = [attempt EXCEPT ![n].end = "completed"]
       ELSE Unrecorded(n) /\ UNCHANGED claim
  /\ handler' = [handler EXCEPT ![h] = Idle]
  /\ UNCHANGED <<time, transfer, fund>>

\* The store call fails, the client is gone or the replica stops: the row
\* stays as it is.
ClaimAborts(h) ==
  /\ handler[h].at \in {"sending", "clear", "complete"}
  /\ Unrecorded(handler[h].attempt)
  /\ handler' = [handler EXCEPT ![h] = Idle]
  /\ UNCHANGED <<time, claim, transfer, fund>>

-----------------------------------------------------------------------------
(* The chain and the clock.                                                *)

CanLand(n) ==
  /\ transfer[n].state = "sent"
  /\ time <= transfer[n].blockhash + BlockhashLife

Land(n) ==
  /\ CanLand(n)
  /\ fund > 0
  /\ fund' = fund - 1
  /\ transfer' = [transfer EXCEPT ![n].state = "landed"]
  /\ UNCHANGED <<time, claim, attempt, handler>>

FaucetTick ==
  /\ time < MaxTime
  /\ \A h \in Handlers :
       /\ handler[h].at = "sending" => time < handler[h].since + SendTimeout
       /\ handler[h].at \in {"clear", "complete"} => time < handler[h].since + StoreTimeout
  /\ time' = time + 1
  /\ UNCHANGED <<claim, attempt, transfer, handler, fund>>

FaucetNext ==
  \/ FaucetTick
  \/ \E n \in Attempts : Land(n)
  \/ \E h \in Handlers :
       \/ \E a \in Claimants : CheckClaim(h, a)
       \/ \E n \in Attempts : ClaimFaucet(h, n)
       \/ ClaimRefused(h)
       \/ LatestBlockhash(h)
       \/ SendTransaction(h)
       \/ SendFails(h)
       \/ ClearFaucetClaim(h)
       \/ CompleteFaucetClaim(h)
       \/ ClaimAborts(h)

FaucetSpec == FaucetInit /\ [][FaucetNext]_faucetVars

-----------------------------------------------------------------------------
(* Properties.                                                             *)

\* An account is paid once, whatever the order of concurrent claims, retries
\* and takeovers; only an attempt that submitted its transfer and could not
\* record it, after a lost answer, a failed completion or a crash, may have
\* paid besides.
PaidOnce ==
  \A a \in Claimants :
    Cardinality({n \in Attempts : /\ attempt[n].account = a
                                  /\ transfer[n].state = "landed"
                                  /\ attempt[n].end # "doubtful"}) <= 1

\* The TTL of a reservation is long enough: when a row may be taken over, no
\* transfer of the attempt it stands for can land any more.
TakeoverIsLate ==
  \A a \in Claimants :
    claim[a].state = "pending" /\ Stale(a) =>
      LET n == claim[a].by IN
      /\ ~CanLand(n)
      /\ \A h \in Handlers : handler[h].attempt # n

\* The faucet pays a claimant once, not counting attempts that ended in doubt
\* (a lost answer, a failed record, a crash), and a pending claim is taken
\* over only when the attempt it stands for can no longer pay.
FaucetPaysOnce == PaidOnce /\ TakeoverIsLate
=============================================================================
