----------------------------- MODULE MCProgress -----------------------------
(* What must eventually happen in the components with a background loop:   *)
(* deposits, withdrawals and delegations.  They share no state, so one     *)
(* behaviour runs one of them; the others rest in their initial states.    *)
EXTENDS Deposits

VARIABLES part,
          wState, wOwner, wAmount, wWire, wOrder, wCredit, wDue, wAt, wHash, wTip,
          wRecent, wNetwork, wLanded, wRejected, wFinal, wPrompt,
          gAccount, gSlot, gAllowance, gRegistered, gRevoked, gCredit, gReserved, gMirrored,
          gObserved, gLeg, gCursor, gBatch, gSettleFees, gPoll, gWork, gOverlapped,
          gReplayed, gUnlocked, gShortfall, gWrapped, gForfeited

CONSTANTS k1, alice, w1, h1, h2, h3, NoHash, NoTx, treasury, b1, s1

W == INSTANCE Withdrawals WITH
       Keys <- {k1}, Accounts <- {alice}, Amounts <- {1, 2},
       Opening <- [a \in {alice} |-> 4], Locked <- [a \in {alice} |-> 1],
       Workers <- {w1}, BatchLimit <- 1, Hashes <- {h1, h2, h3}, Paces <- {TRUE},
       state <- wState, owner <- wOwner, amount <- wAmount, wire <- wWire,
       order <- wOrder, credit <- wCredit, due <- wDue, at <- wAt, hash <- wHash,
       tip <- wTip, recent <- wRecent, network <- wNetwork, landed <- wLanded,
       rejected <- wRejected, final <- wFinal, prompt <- wPrompt

G == INSTANCE Delegations WITH
       Buyers <- {b1}, Sellers <- {s1}, Treasury <- treasury, Linked <- {b1, s1},
       Workers <- {w1}, Pollers <- {w1}, Approvals <- {2, 3}, MaxRaw <- 2, EarnRaw <- 1, FeeRaw <- 1,
       MaxLeg <- 1, LegLimit <- 2, FeeModes <- {FALSE}, MaxSlot <- 3,
       account <- gAccount, slot <- gSlot, allowance <- gAllowance,
       registered <- gRegistered, revoked <- gRevoked, credit <- gCredit, reserved <- gReserved,
       mirrored <- gMirrored, observed <- gObserved, leg <- gLeg, cursor <- gCursor,
       batch <- gBatch, settleFees <- gSettleFees, poll <- gPoll, work <- gWork,
       overlapped <- gOverlapped, replayed <- gReplayed, unlocked <- gUnlocked,
       shortfall <- gShortfall, wrapped <- gWrapped, forfeited <- gForfeited

wVars == <<wState, wOwner, wAmount, wWire, wOrder, wCredit, wDue, wAt, wHash, wTip,
           wRecent, wNetwork, wLanded, wRejected, wFinal, wPrompt>>
gVars == <<gAccount, gSlot, gAllowance, gRegistered, gRevoked, gCredit, gReserved, gMirrored,
           gObserved, gLeg, gCursor, gBatch, gSettleFees, gPoll, gWork, gOverlapped,
           gReplayed, gUnlocked, gShortfall, gWrapped, gForfeited>>
allVars == <<part, vars, wVars, gVars>>

ProgressInit ==
  /\ part \in {"deposits", "withdrawals", "delegations"}
  /\ Init /\ W!Init /\ G!Init
  /\ part # "withdrawals" => wTip = h1

DepositsStep(A) == part = "deposits" /\ A /\ UNCHANGED <<part, wVars, gVars>>
WithdrawalsStep(A) == part = "withdrawals" /\ A /\ UNCHANGED <<part, vars, gVars>>
DelegationsStep(A) == part = "delegations" /\ A /\ UNCHANGED <<part, vars, wVars>>

ProgressNext ==
  \/ DepositsStep(Next)
  \/ WithdrawalsStep(W!Next)
  \/ DelegationsStep(G!Next)

\* Each component is fair while it runs, as the Fairness of its module says.  Only
\* one of them runs in a behaviour, so conditions of different components are
\* paired into one: TLC's effort is exponential in their number.
ProgressFairness ==
  /\ WF_allVars(DepositsStep(DepositCursor(w1)) \/ WithdrawalsStep(W!SweepWithdrawalsDue(w1)))
  /\ WF_allVars(\/ DepositsStep(\E a \in Accounts, x \in Wallets : ReconcileDepositsForWallet(a, x))
                \/ WithdrawalsStep(W!NewBlockhash))
  /\ WF_allVars(WithdrawalsStep(\E t \in wNetwork : W!FinalizeTx(t)))
  /\ SF_allVars(\/ DepositsStep(UpToDate(w1))
                \/ WithdrawalsStep(W!LatestBlockhash(w1))
                \/ DelegationsStep(G!ObserveWallet(w1, b1)))
  /\ SF_allVars(\/ DepositsStep(WorksOn(w1, 2) /\ GetTransaction(w1))
                \/ WithdrawalsStep(W!MarkWithdrawalSigned(w1))
                \/ DelegationsStep(G!CheckRegistry(w1)))
  /\ SF_allVars(\/ DepositsStep(WorksOn(w1, 3) /\ GetTransaction(w1))
                \/ WithdrawalsStep(W!SendAccepted(w1))
                \/ DelegationsStep(G!Upsert(w1)))
  /\ SF_allVars(\/ DepositsStep(WorksOn(w1, 2) /\ \E x \in Wallets : InsertDepositEvent(w1, x))
                \/ WithdrawalsStep(W!SendExpired(w1))
                \/ DelegationsStep(G!InsertAllowance(w1)))
  /\ SF_allVars(\/ DepositsStep(WorksOn(w1, 3) /\ \E x \in Wallets : InsertDepositEvent(w1, x))
                \/ WithdrawalsStep(W!MarkWithdrawalBroadcast(w1)))
  /\ SF_allVars(\/ DepositsStep(WorksOn(w1, 2) /\ AccountForWallet(w1))
                \/ WithdrawalsStep(W!SignatureStatus(w1)))
  /\ SF_allVars(\/ DepositsStep(WorksOn(w1, 3) /\ AccountForWallet(w1))
                \/ WithdrawalsStep(W!BlockHeight(w1)))
  /\ SF_allVars(\/ DepositsStep(WorksOn(w1, 2) /\ ApplyDeposit(w1))
                \/ WithdrawalsStep(W!FinalizeWithdrawal(w1)))
  /\ SF_allVars(\/ DepositsStep(WorksOn(w1, 3) /\ ApplyDeposit(w1))
                \/ WithdrawalsStep(W!RestoreWithdrawal(w1)))
  /\ SF_allVars(\/ DepositsStep(WorksOn(w1, 2) /\ AdvanceDepositCursor(w1))
                \/ WithdrawalsStep(W!ExpireBlockhash(h1)))
  /\ SF_allVars(\/ DepositsStep(WorksOn(w1, 3) /\ AdvanceDepositCursor(w1))
                \/ WithdrawalsStep(W!ExpireBlockhash(h2)))
  /\ SF_allVars(WithdrawalsStep(W!ExpireBlockhash(h3)))

ProgressSpec == ProgressInit /\ [][ProgressNext]_allVars /\ ProgressFairness

\* A withdrawal is finalized or restored in the end (Withdrawals).
EventuallyDecided == W!EventuallyDecided

\* The allowance registry agrees with the chain again and again (Delegations).
RegistryCatchesUp == G!RegistryCatchesUp
=============================================================================
