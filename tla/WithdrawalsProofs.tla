-------------------------- MODULE WithdrawalsProofs --------------------------
(***************************************************************************)
(* Withdrawals are safe for any number of keys, accounts, replicas and     *)
(* blockhashes: no credit is lost or made, the nodes only ever see wires   *)
(* that are persisted, an outcome is final, and credit never comes back    *)
(* for a transfer that was paid.                                           *)
(***************************************************************************)
EXTENDS Withdrawals, AmountsProofs

-----------------------------------------------------------------------------
(* The inductive invariant.                                                *)

SignedStates == {"signed", "broadcast", "finalized"}

\* A row has an owner and an amount from the start, and a wire, that pays
\* them, from its signing on.
RowsSound ==
  \A k \in Keys :
    /\ state[k] # "none" => owner[k] \in Accounts /\ amount[k] \in Amounts
    /\ state[k] \in {"none", "reserved"} => wire[k] = NoTx
    /\ state[k] \in SignedStates \cup {"restored"} =>
         wire[k] \in Tx /\ wire[k].to = owner[k] /\ wire[k].amount = amount[k]

\* A worker's copy is of a row that exists, and the wire of a signed copy is
\* the row's.
CopySound(c) ==
  /\ state[c.key] # "none"
  /\ c.state # "reserved" => wire[c.key] \in Tx /\ c.wire = wire[c.key]

CopiesSound == \A w \in Workers : \A c \in due[w] : CopySound(c)

\* A transaction that can execute no more: its blockhash expired or it failed.
Doomed(t) == ~Valid(t) \/ t \in rejected

\* What a worker has learned about the copy it is advancing.
StageSound(w) ==
  /\ at[w] # "idle" => due[w] # {}
  /\ at[w] = "signing" => hash[w] \in Hashes
  /\ at[w] \in {"unknown", "final"} => Current(w).state = "broadcast"
  /\ at[w] = "final" => Current(w).wire \in final
  /\ at[w] = "dead" => /\ Current(w).state # "reserved"
                       /\ Doomed(Current(w).wire)

StagesSound == \A w \in Workers : StageSound(w)

\* The cluster executes a transaction once and knows only persisted wires; the
\* rows say finalized of what is final, and restored of what cannot execute
\* any more.
ChainSound ==
  /\ landed \cap rejected = {}
  /\ \A t \in network : \E k \in Keys : wire[k] = t
  /\ \A k \in Keys : state[k] = "finalized" => wire[k] \in final
  /\ \A k \in Keys : state[k] = "restored" => Doomed(wire[k])

\* The withdrawal is not restored and no worker is about to restore it: while
\* somebody takes it for signed, or asks for the block height, its blockhash
\* is valid.
Guarded(k) ==
  /\ state[k] \in SignedStates
  /\ state[k] = "signed" => Valid(wire[k])
  /\ \A w \in Workers : \A c \in due[w] :
       c.key = k => /\ c.state = "signed" => Valid(wire[k])
                    /\ c = Current(w) => /\ at[w] # "dead"
                                         /\ at[w] = "unknown" => Valid(wire[k])

\* Every transfer that was paid has such a withdrawal.
PaidGuarded == prompt => \A t \in landed : \E k \in Keys : wire[k] = t /\ Guarded(k)

WithdrawalsInv ==
  /\ TypeOK
  /\ RowsSound
  /\ CopiesSound
  /\ StagesSound
  /\ ChainSound

-----------------------------------------------------------------------------
(* The copy a worker is advancing.                                         *)

LEMMA CopyType ==
  ASSUME TypeOK, NEW w \in Workers, NEW c \in due[w]
  PROVE  /\ c \in Copies
         /\ c.key \in Keys /\ c.state \in OpenStates /\ c.wire \in Tx \cup {NoTx}
  BY DEF TypeOK, Copies

\* The oldest copy exists.
LEMMA CurrentIn ==
  ASSUME TypeOK, NEW w \in Workers, due[w] # {}
  PROVE  Current(w) \in due[w] /\ Current(w).key \in Keys
  <1> DEFINE R == OpToRel(<, Nat)
             T == {order[c.key] : c \in due[w]}
  <1>1. \A c \in due[w] : order[c.key] \in Nat
    BY CopyType DEF TypeOK
  <1>2. T \subseteq Nat /\ T # {}
    BY <1>1
  <1>3. PICK n \in T : \A m \in T : ~(<<m, n>> \in R)
    BY <1>2, NatLessThanWellFounded, WFMin
  <1>4. PICK c \in due[w] : order[c.key] = n
    BY <1>3
  <1>5. ASSUME NEW d \in due[w] PROVE order[c.key] <= order[d.key]
    <2>1. order[d.key] \in T /\ order[d.key] \in Nat /\ order[c.key] \in Nat
      BY <1>1
    <2>2. ~(order[d.key] < order[c.key])
      BY <1>3, <1>4, <2>1 DEF OpToRel
    <2>3. QED
      BY <2>1, <2>2
  <1>6. c \in Oldest(w)
    BY <1>5 DEF Oldest
  <1>7. Current(w) \in Oldest(w)
    BY <1>6 DEF Current
  <1>8. QED
    BY <1>7, CopyType DEF Oldest

LEMMA CurrentSame ==
  ASSUME NEW w \in Workers, due'[w] = due[w],
         \A c \in due[w] : order'[c.key] = order[c.key]
  PROVE  Current(w)' = Current(w)
  <1>1. Oldest(w)' = Oldest(w)
    BY DEF Oldest
  <1>2. QED
    BY <1>1 DEF Current

-----------------------------------------------------------------------------
(* What no step undoes.                                                    *)

\* Rows keep their place and their wire, expired blockhashes stay expired, and
\* the chain only grows.
Forward ==
  /\ \A k \in Keys : state[k] # "none" => state'[k] # "none" /\ order'[k] = order[k]
  /\ \A k \in Keys : wire[k] \in Tx =>
       /\ wire'[k] = wire[k]
       /\ ~Valid(wire[k]) => ~Valid(wire[k])'
  /\ landed \subseteq landed' /\ rejected \subseteq rejected' /\ final \subseteq final'

\* A row's transition keeps its wire once it has one.
LEMMA ForwardStep ==
  ASSUME WithdrawalsInv, [Next]_vars
  PROVE  Forward
  <1> USE DEF WithdrawalsInv
  <1>1. ASSUME UNCHANGED <<state, wire, order>>, recent' \subseteq recent,
               landed \subseteq landed', rejected \subseteq rejected', final \subseteq final'
        PROVE  Forward
    BY <1>1 DEF Forward, Valid
  <1>2. ASSUME NEW k \in Keys, NEW a \in Accounts, NEW n \in Amounts, ReserveWithdrawal(k, a, n)
        PROVE  Forward
    <2>1. CASE state[k] = "none"
      BY <1>2, <2>1 DEF ReserveWithdrawal, chainVars, Forward, TypeOK, Valid
    <2>2. CASE state[k] # "none"
      BY <1>1, <1>2, <2>2 DEF ReserveWithdrawal, rowVars, chainVars
    <2>3. QED
      BY <2>1, <2>2
  <1>3. ASSUME NEW w \in Workers, SweepWithdrawalsDue(w) PROVE Forward
    BY <1>1, <1>3 DEF SweepWithdrawalsDue, rowVars, chainVars
  <1>4. ASSUME NEW w \in Workers,
               \/ LatestBlockhash(w) \/ SendAccepted(w) \/ SendExpired(w) \/ SignatureStatus(w)
               \/ BlockHeight(w) \/ SendAmbiguous(w) \/ SkipRow(w) \/ CrashWorker(w)
        PROVE  Forward
    BY <1>1, <1>4 DEF LatestBlockhash, SendAccepted, SendExpired, SignatureStatus, BlockHeight,
                      SendAmbiguous, SkipRow, CrashWorker, rowVars, chainVars
  <1>5. ASSUME NEW w \in Workers, MarkWithdrawalSigned(w) PROVE Forward
    <2> DEFINE k == Current(w).key
    <2>1. due[w] # {}
      BY <1>5 DEF MarkWithdrawalSigned, Working
    <2>2. k \in Keys
      BY <2>1, CurrentIn
    <2>3. UNCHANGED <<order, chainVars>>
      BY <1>5 DEF MarkWithdrawalSigned, rowVars
    <2> HIDE DEF k
    <2>4. CASE MaySign(k)
      <3>1. /\ state' = [state EXCEPT ![k] = "signed"] /\ state[k] = "reserved"
            /\ \A j \in Keys : j # k => wire'[j] = wire[j]
        BY <1>5, <2>4 DEF MarkWithdrawalSigned, MaySign, TypeOK, k
      <3>2. wire[k] \notin Tx
        BY <2>2, <3>1, WithdrawalsAssumption DEF RowsSound
      <3>3. QED
        BY <2>2, <2>3, <3>1, <3>2 DEF Forward, TypeOK, Valid, chainVars
    <2>5. CASE ~MaySign(k)
      BY <1>1, <1>5, <2>5 DEF MarkWithdrawalSigned, rowVars, chainVars, k
    <2>6. QED
      BY <2>4, <2>5
  <1>6. ASSUME NEW w \in Workers, NEW k, NEW s, s # "none",
               state' \in {state, [state EXCEPT ![k] = s]}, UNCHANGED <<wire, order, chainVars>>
        PROVE  Forward
    BY <1>6 DEF Forward, TypeOK, Valid, chainVars
  <1>7. ASSUME NEW w \in Workers, MarkWithdrawalBroadcast(w) PROVE Forward
    BY <1>6, <1>7 DEF MarkWithdrawalBroadcast
  <1>8. ASSUME NEW w \in Workers, FinalizeWithdrawal(w) PROVE Forward
    BY <1>6, <1>8 DEF FinalizeWithdrawal
  <1>9. ASSUME NEW w \in Workers, RestoreWithdrawal(w) PROVE Forward
    BY <1>6, <1>9 DEF RestoreWithdrawal
  <1>10. ASSUME NewBlockhash PROVE Forward
    <2>1. PICK h \in Hashes : Fresh(h) /\ recent' = recent \cup {h}
      BY <1>10 DEF NewBlockhash
    <2>2. UNCHANGED <<state, wire, order, landed, rejected, final>>
      BY <1>10 DEF NewBlockhash, rowVars
    <2>3. \A k \in Keys : wire[k] \in Tx => wire[k].hash # h
      BY <2>1, WithdrawalsAssumption DEF Fresh
    <2>4. QED
      BY <2>1, <2>2, <2>3 DEF Forward, Valid
  <1>11. ASSUME NEW h \in Hashes, ExpireBlockhash(h) PROVE Forward
    BY <1>1, <1>11 DEF ExpireBlockhash, rowVars
  <1>12. ASSUME NEW t \in network, Execute(t) \/ FinalizeTx(t) PROVE Forward
    BY <1>1, <1>12 DEF Execute, FinalizeTx, rowVars
  <1>13. CASE UNCHANGED vars
    BY <1>1, <1>13 DEF vars, rowVars, chainVars
  <1>14. QED
    BY <1>2, <1>3, <1>4, <1>5, <1>7, <1>8, <1>9, <1>10, <1>11, <1>12, <1>13
    DEF Next, Request, Advance, Cluster

-----------------------------------------------------------------------------
(* Types.                                                                  *)

LEMMA RankType == Cardinality({x \in Keys : state[x] # "none"}) \in Nat
  <1>1. IsFiniteSet({x \in Keys : state[x] # "none"})
    BY WithdrawalsAssumption, FS_Subset
  <1>2. QED
    BY <1>1, FS_CardinalityType

\* The row a worker is about to change.
LEMMA CurrentRow ==
  ASSUME WithdrawalsInv, NEW w \in Workers, due[w] # {}
  PROVE  LET k == Current(w).key IN
         /\ Current(w) \in due[w] /\ k \in Keys /\ state[k] # "none"
         /\ owner[k] \in Accounts /\ amount[k] \in Amounts
         /\ Current(w).state # "reserved" => wire[k] \in Tx /\ Current(w).wire = wire[k]
  <1>1. Current(w) \in due[w] /\ Current(w).key \in Keys
    BY CurrentIn DEF WithdrawalsInv
  <1>2. CopySound(Current(w))
    BY <1>1 DEF WithdrawalsInv, CopiesSound
  <1>3. QED
    BY <1>1, <1>2 DEF CopySound, WithdrawalsInv, RowsSound

LEMMA NextRowType ==
  ASSUME TypeOK, NEW w \in Workers, NextRow(w)
  PROVE  /\ due' \in [Workers -> SUBSET Copies]
         /\ at' \in [Workers -> Stages]
         /\ hash' \in [Workers -> Hashes \cup {NoHash}]
  BY DEF TypeOK, NextRow, Stages

LEMMA LearnType ==
  ASSUME TypeOK, NEW w \in Workers, NEW s \in Stages, Learn(w, s)
  PROVE  /\ due' \in [Workers -> SUBSET Copies]
         /\ at' \in [Workers -> Stages]
         /\ hash' \in [Workers -> Hashes \cup {NoHash}]
  BY DEF TypeOK, Learn

\* A wire that a worker signs for its row is a transaction.
LEMMA SignedWire ==
  ASSUME WithdrawalsInv, NEW w \in Workers, Working(w, "signing", "reserved")
  PROVE  LET k == Current(w).key IN
         [to |-> owner[k], amount |-> amount[k], hash |-> hash[w]] \in Tx
  <1>1. due[w] # {} /\ at[w] = "signing"
    BY DEF Working
  <1>2. hash[w] \in Hashes
    BY <1>1 DEF WithdrawalsInv, StagesSound, StageSound
  <1>3. owner[Current(w).key] \in Accounts /\ amount[Current(w).key] \in Amounts
    BY <1>1, CurrentRow
  <1>4. QED
    BY <1>2, <1>3 DEF Tx

LEMMA TypeStep ==
  ASSUME WithdrawalsInv, [Next]_vars
  PROVE  TypeOK'
  <1>0. TypeOK
    BY DEF WithdrawalsInv
  <1>1. ASSUME NEW k \in Keys, NEW a \in Accounts, NEW n \in Amounts, ReserveWithdrawal(k, a, n)
        PROVE  TypeOK'
    <2>1. UNCHANGED <<due, at, hash, tip, recent, network, landed, rejected, final, prompt>>
      BY <1>1 DEF ReserveWithdrawal, workerVars, chainVars
    <2>2. CASE state[k] = "none"
      <3>1. n \in Nat /\ credit[a] \in Nat /\ credit[a] - n >= 0
        BY <1>0, <1>1, <2>2, WithdrawalsAssumption DEF ReserveWithdrawal, Covers, TypeOK
      <3>2. credit' \in [Accounts -> Nat]
        BY <1>0, <1>1, <2>2, <3>1 DEF ReserveWithdrawal, TypeOK
      <3>3. order' \in [Keys -> Nat]
        BY <1>0, <1>1, <2>2, RankType DEF ReserveWithdrawal, TypeOK
      <3>4. QED
        BY <1>0, <1>1, <2>1, <2>2, <3>1, <3>2, <3>3 DEF ReserveWithdrawal, TypeOK, OpenStates
    <2>3. CASE state[k] # "none"
      BY <1>0, <1>1, <2>1, <2>3 DEF ReserveWithdrawal, rowVars, TypeOK
    <2>4. QED
      BY <2>2, <2>3
  <1>2. ASSUME NEW w \in Workers, SweepWithdrawalsDue(w) PROVE TypeOK'
    <2>1. PICK b \in SUBSET Keys :
            /\ \A k \in b : state[k] \in OpenStates
            /\ due' = [due EXCEPT ![w] = {Copy(k) : k \in b}]
      BY <1>2 DEF SweepWithdrawalsDue, DueStates
    <2>2. {Copy(k) : k \in b} \subseteq Copies
      BY <1>0, <2>1 DEF Copy, Copies, TypeOK
    <2>3. UNCHANGED <<rowVars, at, hash, chainVars>>
      BY <1>2 DEF SweepWithdrawalsDue
    <2>4. QED
      BY <1>0, <2>1, <2>2, <2>3 DEF TypeOK, rowVars, chainVars
  <1>3. ASSUME NEW w \in Workers, UNCHANGED <<rowVars, chainVars>>,
               NextRow(w) \/ \E s \in Stages : Learn(w, s)
        PROVE  TypeOK'
    BY <1>0, <1>3, NextRowType, LearnType DEF TypeOK, rowVars, chainVars
  <1>4. ASSUME NEW w \in Workers, LatestBlockhash(w) PROVE TypeOK'
    BY <1>0, <1>4 DEF LatestBlockhash, TypeOK, Stages, rowVars, chainVars
  <1>5. ASSUME NEW w \in Workers, MarkWithdrawalSigned(w) PROVE TypeOK'
    <2> DEFINE k == Current(w).key
               t == [to |-> owner[k], amount |-> amount[k], hash |-> hash[w]]
    <2>1. Working(w, "signing", "reserved") /\ NextRow(w) /\ UNCHANGED chainVars
      BY <1>5 DEF MarkWithdrawalSigned
    <2>2. k \in Keys /\ t \in Tx
      BY <2>1, CurrentRow, SignedWire DEF Working
    <2>3. \/ UNCHANGED rowVars
          \/ /\ state' = [state EXCEPT ![k] = "signed"] /\ wire' = [wire EXCEPT ![k] = t]
             /\ UNCHANGED <<owner, amount, order, credit>>
      BY <1>5 DEF MarkWithdrawalSigned
    <2> HIDE DEF k, t
    <2>4. QED
      BY <1>0, <2>1, <2>2, <2>3, NextRowType DEF TypeOK, OpenStates, rowVars, chainVars
  <1>6. ASSUME NEW w \in Workers, SendAccepted(w) \/ SendAmbiguous(w) PROVE TypeOK'
    <2> DEFINE t == Current(w).wire
    <2>1. /\ Working(w, "idle", "signed") /\ network' \in {network, network \cup {t}}
          /\ NextRow(w) \/ Learn(w, "sent")
          /\ UNCHANGED <<rowVars, tip, recent, landed, rejected, final, prompt>>
      BY <1>6 DEF SendAccepted, SendAmbiguous
    <2>2. t \in Tx
      BY <2>1, CurrentRow DEF Working
    <2> HIDE DEF t
    <2>3. /\ due' \in [Workers -> SUBSET Copies]
          /\ at' \in [Workers -> Stages]
          /\ hash' \in [Workers -> Hashes \cup {NoHash}]
      BY <1>0, <2>1, NextRowType, LearnType DEF Stages
    <2>4. QED
      BY <1>0, <2>1, <2>2, <2>3 DEF TypeOK, rowVars
  <1>7. ASSUME NEW w \in Workers, SendExpired(w) \/ SignatureStatus(w) \/ BlockHeight(w) \/ SkipRow(w)
        PROVE  TypeOK'
    BY <1>3, <1>7 DEF SendExpired, SignatureStatus, BlockHeight, SkipRow, Stages
  <1>8. ASSUME NEW w \in Workers, MarkWithdrawalBroadcast(w) \/ FinalizeWithdrawal(w)
        PROVE  TypeOK'
    <2>1. /\ state' \in [Keys -> OpenStates \cup {"none", "finalized", "restored"}]
          /\ NextRow(w) /\ UNCHANGED <<owner, amount, wire, order, credit, chainVars>>
      BY <1>0, <1>8 DEF MarkWithdrawalBroadcast, FinalizeWithdrawal, TypeOK, OpenStates
    <2>2. QED
      BY <1>0, <2>1, NextRowType DEF TypeOK, chainVars
  <1>9. ASSUME NEW w \in Workers, RestoreWithdrawal(w) PROVE TypeOK'
    <2>1. /\ state' \in [Keys -> OpenStates \cup {"none", "finalized", "restored"}]
          /\ NextRow(w) /\ UNCHANGED <<owner, amount, wire, order, chainVars>>
      BY <1>0, <1>9 DEF RestoreWithdrawal, TypeOK, OpenStates
    <2>2. amount[Current(w).key] \in Nat /\ owner[Current(w).key] \in Accounts
      BY <1>9, CurrentRow, WithdrawalsAssumption DEF RestoreWithdrawal
    <2>3. credit' \in [Accounts -> Nat]
      BY <1>0, <1>9, <2>2 DEF RestoreWithdrawal, TypeOK
    <2>4. QED
      BY <1>0, <2>1, <2>3, NextRowType DEF TypeOK, chainVars
  <1>10. ASSUME NEW w \in Workers, CrashWorker(w) PROVE TypeOK'
    BY <1>0, <1>10 DEF CrashWorker, TypeOK, Stages, rowVars, chainVars
  <1>11. ASSUME Cluster PROVE TypeOK'
    <2>1. UNCHANGED <<rowVars, workerVars, prompt>>
      BY <1>11 DEF Cluster, NewBlockhash, ExpireBlockhash, Execute, FinalizeTx
    <2>2. /\ tip' \in recent' /\ recent' \subseteq Hashes
          /\ network' \subseteq Tx /\ landed' \cup rejected' \subseteq network' /\ final' \subseteq landed'
      BY <1>0, <1>11 DEF Cluster, NewBlockhash, ExpireBlockhash, Execute, FinalizeTx, TypeOK
    <2>3. QED
      BY <1>0, <2>1, <2>2 DEF TypeOK, rowVars, workerVars
  <1>12. CASE UNCHANGED vars
    BY <1>0, <1>12 DEF vars, rowVars, workerVars, chainVars, TypeOK
  <1>13. QED
    BY <1>1, <1>2, <1>4, <1>5, <1>6, <1>7, <1>8, <1>9, <1>10, <1>11, <1>12
    DEF Next, Request, Advance

-----------------------------------------------------------------------------
(* The workers' copies and what they know of them.                         *)

LEMMA CopyKeeps ==
  ASSUME Forward, NEW c, c.key \in Keys, CopySound(c)
  PROVE  CopySound(c)'
  BY DEF Forward, CopySound

LEMMA StageKeeps ==
  ASSUME WithdrawalsInv, Forward, NEW w \in Workers,
         due'[w] = due[w], at'[w] = at[w], hash'[w] = hash[w]
  PROVE  StageSound(w)'
  <1>1. StageSound(w)
    BY DEF WithdrawalsInv, StagesSound
  <1>2. CASE at[w] = "idle"
    BY <1>2 DEF StageSound
  <1>3. CASE at[w] # "idle"
    <2>1. due[w] # {}
      BY <1>1, <1>3 DEF StageSound
    <2>2. \A c \in due[w] : c.key \in Keys /\ state[c.key] # "none"
      BY CopyType DEF WithdrawalsInv, CopiesSound, CopySound
    <2>3. Current(w)' = Current(w)
      BY <2>2, CurrentSame DEF Forward
    <2>4. /\ Current(w).key \in Keys
          /\ Current(w).state # "reserved" =>
               wire[Current(w).key] \in Tx /\ Current(w).wire = wire[Current(w).key]
      BY <2>1, CurrentRow
    <2>5. Current(w).state # "reserved" /\ Doomed(Current(w).wire) => Doomed(Current(w).wire)'
      BY <2>3, <2>4 DEF Forward, Doomed, Valid
    <2>6. QED
      BY <1>1, <2>1, <2>3, <2>5 DEF StageSound, Forward
  <1>4. QED
    BY <1>2, <1>3

\* One worker moves, with no new copies.
LEMMA MoveKeeps ==
  ASSUME WithdrawalsInv, Forward, NEW w \in Workers,
         \A v \in Workers : v # w => due'[v] = due[v] /\ at'[v] = at[v] /\ hash'[v] = hash[v],
         due'[w] \subseteq due[w], StageSound(w)'
  PROVE  CopiesSound' /\ StagesSound'
  <1>1. ASSUME NEW v \in Workers, NEW c \in due'[v] PROVE CopySound(c)'
    <2>1. c \in due[v]
      OBVIOUS
    <2>2. CopySound(c) /\ c.key \in Keys
      BY <2>1, CopyType DEF WithdrawalsInv, CopiesSound
    <2>3. QED
      BY <2>2, CopyKeeps
  <1>2. \A v \in Workers : v # w => StageSound(v)'
    BY StageKeeps
  <1>3. QED
    BY <1>1, <1>2 DEF CopiesSound, StagesSound

LEMMA NextRowKeeps ==
  ASSUME WithdrawalsInv, Forward, NEW w \in Workers, NextRow(w)
  PROVE  CopiesSound' /\ StagesSound'
  <1>1. /\ \A v \in Workers : v # w => due'[v] = due[v] /\ at'[v] = at[v] /\ hash'[v] = hash[v]
        /\ due'[w] \subseteq due[w] /\ at'[w] = "idle"
    BY DEF NextRow, WithdrawalsInv, TypeOK
  <1>2. StageSound(w)'
    BY <1>1 DEF StageSound
  <1>3. QED
    BY <1>1, <1>2, MoveKeeps

\* A worker that learns something keeps its copy.
LEMMA LearnKeeps ==
  ASSUME WithdrawalsInv, Forward, NEW w \in Workers, due[w] # {}, UNCHANGED order,
         NEW s \in {"sent", "unknown", "final", "dead"}, Learn(w, s),
         s \in {"unknown", "final"} => Current(w).state = "broadcast",
         s = "final" => Current(w).wire \in final,
         s = "dead" => Current(w).state # "reserved" /\ Doomed(Current(w).wire)
  PROVE  CopiesSound' /\ StagesSound'
  <1>1. /\ \A v \in Workers : v # w => due'[v] = due[v] /\ at'[v] = at[v] /\ hash'[v] = hash[v]
        /\ due'[w] = due[w] /\ at'[w] = s
    BY DEF Learn, WithdrawalsInv, TypeOK
  <1>2. Current(w)' = Current(w)
    BY <1>1, CurrentSame
  <1>3. s = "dead" => Doomed(Current(w).wire)'
    BY <1>2, CurrentRow DEF Forward, Doomed, Valid
  <1>4. StageSound(w)'
    BY <1>1, <1>2, <1>3 DEF StageSound, Forward
  <1>5. QED
    BY <1>1, <1>4, MoveKeeps

LEMMA WorkersStep ==
  ASSUME WithdrawalsInv, [Next]_vars
  PROVE  CopiesSound' /\ StagesSound'
  <1>0. Forward
    BY ForwardStep
  <1>1. ASSUME UNCHANGED <<due, at, hash>> PROVE CopiesSound' /\ StagesSound'
    <2>1. \A w \in Workers : StageSound(w)'
      BY <1>0, <1>1, StageKeeps
    <2>2. ASSUME NEW w \in Workers, NEW c \in due'[w] PROVE CopySound(c)'
      BY <1>0, <1>1, CopyType, CopyKeeps DEF WithdrawalsInv, CopiesSound
    <2>3. QED
      BY <2>1, <2>2 DEF CopiesSound, StagesSound
  <1>2. ASSUME Request \/ Cluster \/ UNCHANGED vars PROVE UNCHANGED <<due, at, hash>>
    BY <1>2 DEF Request, ReserveWithdrawal, Cluster, NewBlockhash, ExpireBlockhash, Execute,
                FinalizeTx, vars, workerVars
  <1>3. ASSUME NEW w \in Workers,
               \/ MarkWithdrawalSigned(w) \/ MarkWithdrawalBroadcast(w) \/ FinalizeWithdrawal(w)
               \/ RestoreWithdrawal(w) \/ SkipRow(w) \/ SendAmbiguous(w)
        PROVE  CopiesSound' /\ StagesSound'
    BY <1>0, <1>3, NextRowKeeps
    DEF MarkWithdrawalSigned, MarkWithdrawalBroadcast, FinalizeWithdrawal, RestoreWithdrawal,
        SkipRow, SendAmbiguous
  <1>4. ASSUME NEW w \in Workers, CrashWorker(w) PROVE CopiesSound' /\ StagesSound'
    <2>1. /\ \A v \in Workers : v # w => due'[v] = due[v] /\ at'[v] = at[v] /\ hash'[v] = hash[v]
          /\ due'[w] \subseteq due[w] /\ at'[w] = "idle"
      BY <1>4 DEF CrashWorker, WithdrawalsInv, TypeOK
    <2>2. StageSound(w)'
      BY <2>1 DEF StageSound
    <2>3. QED
      BY <1>0, <2>1, <2>2, MoveKeeps
  <1>5. ASSUME NEW w \in Workers, LatestBlockhash(w) PROVE CopiesSound' /\ StagesSound'
    <2>1. /\ \A v \in Workers : v # w => due'[v] = due[v] /\ at'[v] = at[v] /\ hash'[v] = hash[v]
          /\ due'[w] \subseteq due[w] /\ at'[w] = "signing" /\ due'[w] # {} /\ hash'[w] \in Hashes
      BY <1>5 DEF LatestBlockhash, Working, WithdrawalsInv, TypeOK
    <2>2. StageSound(w)'
      BY <2>1 DEF StageSound
    <2>3. QED
      BY <1>0, <2>1, <2>2, MoveKeeps
  <1>6. ASSUME NEW w \in Workers, SendAccepted(w) PROVE CopiesSound' /\ StagesSound'
    BY <1>0, <1>6, LearnKeeps DEF SendAccepted, Working, rowVars
  <1>7. ASSUME NEW w \in Workers, SendExpired(w) PROVE CopiesSound' /\ StagesSound'
    BY <1>0, <1>7, LearnKeeps DEF SendExpired, Working, Expired, Doomed, rowVars
  <1>8. ASSUME NEW w \in Workers, SignatureStatus(w) PROVE CopiesSound' /\ StagesSound'
    <2>1. due[w] # {} /\ Current(w).state = "broadcast" /\ UNCHANGED order
      BY <1>8 DEF SignatureStatus, Working, rowVars
    <2>2. \/ Current(w).wire \in final /\ Learn(w, "final")
          \/ Doomed(Current(w).wire) /\ Learn(w, "dead")
          \/ Learn(w, "unknown")
          \/ NextRow(w)
      BY <1>8 DEF SignatureStatus, ReportedFinal, Doomed
    <2>3. QED
      BY <1>0, <2>1, <2>2, LearnKeeps, NextRowKeeps
  <1>9. ASSUME NEW w \in Workers, BlockHeight(w) PROVE CopiesSound' /\ StagesSound'
    <2>1. due[w] # {} /\ Current(w).state = "broadcast" /\ UNCHANGED order
      BY <1>9 DEF BlockHeight, Working, rowVars
    <2>2. (Doomed(Current(w).wire) /\ Learn(w, "dead")) \/ NextRow(w)
      BY <1>9 DEF BlockHeight, Expired, Doomed
    <2>3. QED
      BY <1>0, <2>1, <2>2, LearnKeeps, NextRowKeeps
  <1>10. ASSUME NEW w \in Workers, SweepWithdrawalsDue(w) PROVE CopiesSound' /\ StagesSound'
    <2>1. PICK b \in SUBSET Keys :
            /\ \A k \in b : state[k] \in OpenStates
            /\ due' = [due EXCEPT ![w] = {Copy(k) : k \in b}]
      BY <1>10 DEF SweepWithdrawalsDue, DueStates
    <2>2. due[w] = {} /\ UNCHANGED <<rowVars, at, hash, chainVars>>
      BY <1>10 DEF SweepWithdrawalsDue
    <2>3. at[w] = "idle"
      BY <2>2 DEF WithdrawalsInv, StagesSound, StageSound
    <2>4. \A v \in Workers : v # w => due'[v] = due[v]
      BY <2>1 DEF WithdrawalsInv, TypeOK
    <2>5. ASSUME NEW k \in b PROVE CopySound(Copy(k))'
      <3>1. state'[k] = state[k] /\ wire'[k] = wire[k] /\ k \in Keys
        BY <2>2 DEF rowVars
      <3>2. state[k] \in OpenStates /\ (state[k] # "reserved" => wire[k] \in Tx)
        BY <2>1 DEF WithdrawalsInv, RowsSound, SignedStates, OpenStates
      <3>3. QED
        BY <2>2, <3>1, <3>2 DEF CopySound, Copy, OpenStates, rowVars
    <2>6. ASSUME NEW v \in Workers, NEW c \in due'[v] PROVE CopySound(c)'
      <3>1. CASE v = w
        <4>1. PICK k \in b : c = Copy(k)
          BY <2>1, <3>1 DEF WithdrawalsInv, TypeOK
        <4>2. Copy(k)' = Copy(k)
          BY <2>2 DEF Copy, rowVars
        <4>3. QED
          BY <2>5, <4>1, <4>2
      <3>2. CASE v # w
        BY <1>0, <2>4, <3>2, CopyType, CopyKeeps DEF WithdrawalsInv, CopiesSound
      <3>3. QED
        BY <3>1, <3>2
    <2>7. ASSUME NEW v \in Workers PROVE StageSound(v)'
      <3>1. CASE v = w
        BY <2>2, <2>3, <3>1 DEF StageSound
      <3>2. CASE v # w
        BY <1>0, <2>2, <2>4, <3>2, StageKeeps
      <3>3. QED
        BY <3>1, <3>2
    <2>8. QED
      BY <2>6, <2>7 DEF CopiesSound, StagesSound
  <1>11. QED
    BY <1>1, <1>2, <1>3, <1>4, <1>5, <1>6, <1>7, <1>8, <1>9, <1>10 DEF Next, Advance

-----------------------------------------------------------------------------
(* The rows and the chain.                                                 *)

\* The transitions after the signing change only the state.
LEMMA RowMoves ==
  ASSUME WithdrawalsInv, NEW k \in Keys, wire[k] \in Tx,
         NEW s \in SignedStates \cup {"restored"},
         state' \in {state, [state EXCEPT ![k] = s]}, UNCHANGED <<owner, amount, wire>>
  PROVE  RowsSound'
  <1>1. state[k] \in SignedStates \cup {"restored"}
    BY WithdrawalsAssumption DEF WithdrawalsInv, TypeOK, RowsSound, SignedStates, OpenStates
  <1>2. QED
    BY <1>1 DEF WithdrawalsInv, TypeOK, RowsSound, SignedStates

LEMMA RowsStep ==
  ASSUME WithdrawalsInv, [Next]_vars
  PROVE  RowsSound'
  <1>1. ASSUME UNCHANGED <<state, owner, amount, wire>> PROVE RowsSound'
    BY <1>1 DEF WithdrawalsInv, RowsSound
  <1>2. ASSUME NEW k \in Keys, NEW a \in Accounts, NEW n \in Amounts, ReserveWithdrawal(k, a, n)
        PROVE  RowsSound'
    <2>1. CASE state[k] = "none"
      BY <1>2, <2>1 DEF ReserveWithdrawal, WithdrawalsInv, TypeOK, RowsSound, SignedStates
    <2>2. CASE state[k] # "none"
      BY <1>1, <1>2, <2>2 DEF ReserveWithdrawal, rowVars
    <2>3. QED
      BY <2>1, <2>2
  <1>3. ASSUME NEW w \in Workers, MarkWithdrawalSigned(w) PROVE RowsSound'
    <2> DEFINE k == Current(w).key
               t == [to |-> owner[k], amount |-> amount[k], hash |-> hash[w]]
    <2>1. Working(w, "signing", "reserved")
      BY <1>3 DEF MarkWithdrawalSigned
    <2>2. k \in Keys /\ state[k] # "none" /\ t \in Tx /\ t.to = owner[k] /\ t.amount = amount[k]
      BY <2>1, CurrentRow, SignedWire DEF Working
    <2>3. \/ UNCHANGED rowVars
          \/ /\ state' = [state EXCEPT ![k] = "signed"] /\ wire' = [wire EXCEPT ![k] = t]
             /\ UNCHANGED <<owner, amount>>
      BY <1>3 DEF MarkWithdrawalSigned
    <2> HIDE DEF k, t
    <2>4. CASE UNCHANGED rowVars
      BY <1>1, <2>4 DEF rowVars
    <2>5. CASE /\ state' = [state EXCEPT ![k] = "signed"] /\ wire' = [wire EXCEPT ![k] = t]
               /\ UNCHANGED <<owner, amount>>
      BY <2>2, <2>5 DEF WithdrawalsInv, TypeOK, RowsSound, SignedStates
    <2>6. QED
      BY <2>3, <2>4, <2>5
  <1>4. ASSUME NEW w \in Workers,
               MarkWithdrawalBroadcast(w) \/ FinalizeWithdrawal(w) \/ RestoreWithdrawal(w)
        PROVE  RowsSound'
    <2> DEFINE k == Current(w).key
    <2>1. due[w] # {} /\ (Current(w).state # "reserved")
      BY <1>4 DEF MarkWithdrawalBroadcast, FinalizeWithdrawal, RestoreWithdrawal, Working,
                  WithdrawalsInv, StagesSound, StageSound
    <2>2. k \in Keys /\ wire[k] \in Tx
      BY <2>1, CurrentRow
    <2>3. UNCHANGED <<owner, amount, wire>>
      BY <1>4 DEF MarkWithdrawalBroadcast, FinalizeWithdrawal, RestoreWithdrawal
    <2>4. \E s \in SignedStates \cup {"restored"} : state' \in {state, [state EXCEPT ![k] = s]}
      BY <1>4 DEF MarkWithdrawalBroadcast, FinalizeWithdrawal, RestoreWithdrawal, SignedStates
    <2> HIDE DEF k
    <2>5. QED
      BY <2>2, <2>3, <2>4, RowMoves
  <1>5. ASSUME NEW w \in Workers,
               \/ SweepWithdrawalsDue(w) \/ LatestBlockhash(w) \/ SendAccepted(w) \/ SendExpired(w)
               \/ SignatureStatus(w) \/ BlockHeight(w) \/ SendAmbiguous(w) \/ SkipRow(w)
               \/ CrashWorker(w)
        PROVE  RowsSound'
    BY <1>1, <1>5 DEF SweepWithdrawalsDue, LatestBlockhash, SendAccepted, SendExpired,
                      SignatureStatus, BlockHeight, SendAmbiguous, SkipRow, CrashWorker, rowVars
  <1>6. ASSUME Cluster \/ UNCHANGED vars PROVE RowsSound'
    BY <1>1, <1>6 DEF Cluster, NewBlockhash, ExpireBlockhash, Execute, FinalizeTx, vars, rowVars
  <1>7. QED
    BY <1>2, <1>3, <1>4, <1>5, <1>6 DEF Next, Request, Advance

\* Of a step that decides no withdrawal: the nodes may get one more persisted
\* wire, and outcomes on chain are kept.
LEMMA ChainKeeps ==
  ASSUME WithdrawalsInv, Forward, landed' \cap rejected' = {},
         \A k \in Keys : state'[k] \in {"finalized", "restored"} => state'[k] = state[k],
         \A t \in network' : t \in network \/ \E k \in Keys : wire[k] = t /\ t \in Tx
  PROVE  ChainSound'
  <1>1. \A t \in network' : \E k \in Keys : wire'[k] = t
    BY DEF WithdrawalsInv, ChainSound, TypeOK, Forward
  <1>2. ASSUME NEW k \in Keys, state'[k] = "finalized" PROVE wire'[k] \in final'
    BY <1>2 DEF WithdrawalsInv, ChainSound, RowsSound, SignedStates, Forward
  <1>3. ASSUME NEW k \in Keys, state'[k] = "restored" PROVE Doomed(wire[k])'
    <2>1. wire[k] \in Tx /\ Doomed(wire[k])
      BY <1>3 DEF WithdrawalsInv, ChainSound, RowsSound
    <2>2. QED
      BY <2>1 DEF Forward, Doomed, Valid
  <1>4. QED
    BY <1>1, <1>2, <1>3 DEF ChainSound

LEMMA ChainStep ==
  ASSUME WithdrawalsInv, [Next]_vars
  PROVE  ChainSound'
  <1>0. Forward /\ landed \cap rejected = {}
    BY ForwardStep DEF WithdrawalsInv, ChainSound
  <1>1. ASSUME UNCHANGED <<state, landed, rejected, network>> PROVE ChainSound'
    BY <1>0, <1>1, ChainKeeps
  <1>2. ASSUME NEW k \in Keys, NEW a \in Accounts, NEW n \in Amounts, ReserveWithdrawal(k, a, n)
        PROVE  ChainSound'
    <2>1. UNCHANGED <<landed, rejected, network>> /\ state' \in {state, [state EXCEPT ![k] = "reserved"]}
      BY <1>2 DEF ReserveWithdrawal, rowVars, chainVars
    <2>2. QED
      BY <1>0, <2>1, ChainKeeps DEF WithdrawalsInv, TypeOK
  <1>3. ASSUME NEW w \in Workers,
               \/ SweepWithdrawalsDue(w) \/ LatestBlockhash(w) \/ SendExpired(w)
               \/ SignatureStatus(w) \/ BlockHeight(w) \/ SkipRow(w) \/ CrashWorker(w)
        PROVE  ChainSound'
    BY <1>1, <1>3 DEF SweepWithdrawalsDue, LatestBlockhash, SendExpired, SignatureStatus,
                      BlockHeight, SkipRow, CrashWorker, rowVars, chainVars
  <1>4. ASSUME NEW w \in Workers, MarkWithdrawalSigned(w) \/ MarkWithdrawalBroadcast(w)
        PROVE  ChainSound'
    <2>1. /\ UNCHANGED <<landed, rejected, network>>
          /\ \/ state' \in {state, [state EXCEPT ![Current(w).key] = "signed"]}
             \/ state' = [state EXCEPT ![Current(w).key] = "broadcast"]
      BY <1>4 DEF MarkWithdrawalSigned, MarkWithdrawalBroadcast, rowVars, chainVars
    <2>2. \A k \in Keys : state'[k] \in {"finalized", "restored"} => state'[k] = state[k]
      BY <2>1 DEF WithdrawalsInv, TypeOK
    <2>3. QED
      BY <1>0, <2>1, <2>2, ChainKeeps
  <1>5. ASSUME NEW w \in Workers, SendAccepted(w) \/ SendAmbiguous(w) PROVE ChainSound'
    <2> DEFINE t == Current(w).wire
    <2>1. /\ due[w] # {} /\ Current(w).state = "signed"
          /\ network' \in {network, network \cup {t}} /\ UNCHANGED <<state, landed, rejected>>
      BY <1>5 DEF SendAccepted, SendAmbiguous, Working, rowVars
    <2>2. Current(w).key \in Keys /\ wire[Current(w).key] = t /\ t \in Tx
      BY <2>1, CurrentRow
    <2> HIDE DEF t
    <2>3. QED
      BY <1>0, <2>1, <2>2, ChainKeeps
  <1>6. ASSUME NEW w \in Workers, FinalizeWithdrawal(w) PROVE ChainSound'
    <2> DEFINE k == Current(w).key
    <2>1. /\ due[w] # {} /\ at[w] = "final" /\ Current(w).state = "broadcast"
          /\ UNCHANGED <<wire, chainVars>> /\ state' \in {state, [state EXCEPT ![k] = "finalized"]}
      BY <1>6 DEF FinalizeWithdrawal, Working
    <2>2. k \in Keys /\ wire[k] \in final
      BY <2>1, CurrentRow DEF WithdrawalsInv, StagesSound, StageSound
    <2> HIDE DEF k
    <2>3. QED
      BY <2>1, <2>2 DEF WithdrawalsInv, TypeOK, ChainSound, Doomed, Valid, chainVars
  <1>7. ASSUME NEW w \in Workers, RestoreWithdrawal(w) PROVE ChainSound'
    <2> DEFINE k == Current(w).key
    <2>1. /\ due[w] # {} /\ at[w] = "dead"
          /\ UNCHANGED <<wire, chainVars>> /\ state' \in {state, [state EXCEPT ![k] = "restored"]}
      BY <1>7 DEF RestoreWithdrawal
    <2>2. Current(w).state # "reserved" /\ Doomed(Current(w).wire)
      BY <2>1 DEF WithdrawalsInv, StagesSound, StageSound
    <2>3. k \in Keys /\ Doomed(wire[k])
      BY <2>1, <2>2, CurrentRow
    <2> HIDE DEF k
    <2>4. QED
      BY <2>1, <2>3 DEF WithdrawalsInv, TypeOK, ChainSound, Doomed, Valid, chainVars
  <1>8. ASSUME NEW t \in network, Execute(t) PROVE ChainSound'
    <2>1. landed' \cap rejected' = {} /\ UNCHANGED <<state, network>>
      BY <1>0, <1>8 DEF Execute, Executed, rowVars
    <2>2. QED
      BY <1>0, <2>1, ChainKeeps
  <1>9. ASSUME \/ NewBlockhash \/ \E h \in Hashes : ExpireBlockhash(h)
               \/ \E t \in network : FinalizeTx(t) \/ UNCHANGED vars
        PROVE  ChainSound'
    BY <1>1, <1>9 DEF NewBlockhash, ExpireBlockhash, FinalizeTx, vars, rowVars, chainVars
  <1>10. ASSUME UNCHANGED vars PROVE ChainSound'
    BY <1>1, <1>10 DEF vars, rowVars, chainVars
  <1>11. QED
    BY <1>2, <1>3, <1>4, <1>5, <1>6, <1>7, <1>8, <1>9, <1>10 DEF Next, Request, Advance, Cluster

LEMMA WithdrawalsInvInit == Init => WithdrawalsInv
  <1> SUFFICES ASSUME Init PROVE WithdrawalsInv
    OBVIOUS
  <1>1. TypeOK
    BY WithdrawalsAssumption DEF Init, TypeOK, Stages
  <1>2. RowsSound /\ CopiesSound /\ StagesSound
    BY DEF Init, RowsSound, SignedStates, CopiesSound, StagesSound, StageSound
  <1>3. ChainSound
    BY DEF Init, ChainSound
  <1>4. QED
    BY <1>1, <1>2, <1>3 DEF WithdrawalsInv

LEMMA WithdrawalsInvStep == WithdrawalsInv /\ [Next]_vars => WithdrawalsInv'
  BY TypeStep, WorkersStep, RowsStep, ChainStep DEF WithdrawalsInv

LEMMA WithdrawalsInvHolds == Spec => []WithdrawalsInv
  BY WithdrawalsInvInit, WithdrawalsInvStep, PTL DEF Spec

-----------------------------------------------------------------------------
(* Theorems.                                                               *)

(* Rows, copies and the cluster keep their types whatever replicas race.   *)
THEOREM WithdrawalsTyped == Spec => []TypeOK
  <1>1. WithdrawalsInv => TypeOK
    BY DEF WithdrawalsInv
  <1>2. QED
    BY <1>1, WithdrawalsInvHolds, PTL

(* However many replicas sign, send and crash, what the nodes have accepted *)
(* are wires that MarkWithdrawalSigned persisted, and a wire pays its       *)
(* withdrawal's account exactly its amount.                                 *)
THEOREM WiresPersisted == Spec => []OnlyPersistedWires
  <1>1. ASSUME WithdrawalsInv PROVE OnlyPersistedWires
    <2>1. \A t \in network : \E k \in Keys : wire[k] = t
      BY <1>1 DEF WithdrawalsInv, ChainSound
    <2>2. ASSUME NEW k \in Keys, wire[k] # NoTx
          PROVE  wire[k].to = owner[k] /\ wire[k].amount = amount[k]
      <3>1. state[k] \in SignedStates \cup {"restored"}
        BY <1>1, <2>2 DEF WithdrawalsInv, TypeOK, RowsSound, SignedStates, OpenStates
      <3>2. QED
        BY <1>1, <3>1 DEF WithdrawalsInv, RowsSound
    <2>3. QED
      BY <2>1, <2>2 DEF OnlyPersistedWires
  <1>2. QED
    BY <1>1, WithdrawalsInvHolds, PTL

\* The guards of the transitions let no decided row move.
LEMMA DecidedStays ==
  ASSUME WithdrawalsInv, [Next]_vars, NEW k \in Keys, state[k] \in {"finalized", "restored"}
  PROVE  state'[k] = state[k]
  <1>1. ASSUME UNCHANGED state PROVE state'[k] = state[k]
    BY <1>1
  <1>2. ASSUME Request PROVE state'[k] = state[k]
    BY <1>2 DEF Request, ReserveWithdrawal, rowVars, WithdrawalsInv, TypeOK
  <1>3. ASSUME NEW w \in Workers,
               \/ MarkWithdrawalSigned(w) \/ MarkWithdrawalBroadcast(w)
               \/ FinalizeWithdrawal(w) \/ RestoreWithdrawal(w)
        PROVE  state'[k] = state[k]
    <2> DEFINE j == Current(w).key
    <2>1. \/ UNCHANGED state
          \/ state[j] \in OpenStates /\ \A i \in Keys : i # j => state'[i] = state[i]
      <3>1. MarkWithdrawalSigned(w) =>
              UNCHANGED state \/ (state[j] = "reserved" /\ state' = [state EXCEPT ![j] = "signed"])
        BY DEF MarkWithdrawalSigned, MaySign, rowVars
      <3>2. MarkWithdrawalBroadcast(w) =>
              UNCHANGED state \/ (state[j] = "signed" /\ state' = [state EXCEPT ![j] = "broadcast"])
        BY DEF MarkWithdrawalBroadcast, MayBroadcast
      <3>3. FinalizeWithdrawal(w) =>
              \/ UNCHANGED state
              \/ state[j] \in OpenStates /\ state' = [state EXCEPT ![j] = "finalized"]
        BY DEF FinalizeWithdrawal, MayFinalize, OpenStates
      <3>4. RestoreWithdrawal(w) =>
              UNCHANGED state \/ (state[j] \in OpenStates /\ state' = [state EXCEPT ![j] = "restored"])
        BY DEF RestoreWithdrawal, MayRestore
      <3>5. QED
        BY <1>3, <3>1, <3>2, <3>3, <3>4 DEF OpenStates, WithdrawalsInv, TypeOK
    <2> HIDE DEF j
    <2>2. QED
      BY <2>1 DEF OpenStates, WithdrawalsInv, TypeOK
  <1>4. ASSUME NEW w \in Workers,
               \/ SweepWithdrawalsDue(w) \/ LatestBlockhash(w) \/ SendAccepted(w) \/ SendExpired(w)
               \/ SignatureStatus(w) \/ BlockHeight(w) \/ SendAmbiguous(w) \/ SkipRow(w)
               \/ CrashWorker(w)
        PROVE  UNCHANGED state
    BY <1>4 DEF SweepWithdrawalsDue, LatestBlockhash, SendAccepted, SendExpired,
                SignatureStatus, BlockHeight, SendAmbiguous, SkipRow, CrashWorker, rowVars
  <1>5. ASSUME Cluster \/ UNCHANGED vars PROVE UNCHANGED state
    BY <1>5 DEF Cluster, NewBlockhash, ExpireBlockhash, Execute, FinalizeTx, vars, rowVars
  <1>6. QED
    BY <1>1, <1>2, <1>3, <1>4, <1>5 DEF Next, Advance

(* A finalized or a restored withdrawal never changes again, and no replica *)
(* replaces a persisted wire: a late restore loses to a finalize.           *)
THEOREM OutcomesAreFinal == Spec => OutcomesStay
  <1>1. ASSUME WithdrawalsInv, [Next]_vars
        PROVE  [\A k \in Keys :
                  /\ state[k] \in {"finalized", "restored"} => state'[k] = state[k]
                  /\ wire[k] # NoTx => wire'[k] = wire[k]]_vars
    <2>1. \A k \in Keys : wire[k] # NoTx => wire[k] \in Tx
      BY <1>1 DEF WithdrawalsInv, TypeOK
    <2>2. QED
      BY <1>1, <2>1, ForwardStep, DecidedStays DEF Forward
  <1>2. QED
    BY <1>1, WithdrawalsInvHolds, PTL DEF Spec, OutcomesStay

-----------------------------------------------------------------------------
(* Credit.                                                                 *)

LEMMA MinOfTwo ==
  ASSUME NEW m \in Nat, NEW n \in Nat
  PROVE  Min({m, n}) \in {m, n} /\ Min({m, n}) <= m /\ Min({m, n}) <= n
  <1>1. \E x \in {m, n} : \A y \in {m, n} : x <= y
    OBVIOUS
  <1>2. QED
    BY <1>1 DEF Min

\* CreditConserved for one account.
Conserved(a) ==
  /\ credit[a] + Total(amount, Debited(a)) = Opening[a]
  /\ credit[a] >= Min({Locked[a], Opening[a]})

LEMMA DebitedFinite ==
  ASSUME TypeOK, NEW a \in Accounts
  PROVE  /\ IsFiniteSet(Debited(a)) /\ \A k \in Debited(a) : amount[k] \in Nat
         /\ Total(amount, Debited(a)) \in Nat
  <1>1. IsFiniteSet(Debited(a))
    BY WithdrawalsAssumption, FS_Subset DEF Debited
  <1>2. \A k \in Debited(a) : amount[k] \in Nat
    BY DEF TypeOK, Debited
  <1>3. QED
    BY <1>1, <1>2, TotalType

LEMMA ConservedKeeps ==
  ASSUME NEW a \in Accounts, Conserved(a), credit'[a] = credit[a], Debited(a)' = Debited(a),
         \A k \in Debited(a) : amount'[k] = amount[k]
  PROVE  Conserved(a)'
  <1>1. Total(amount', Debited(a)) = Total(amount, Debited(a))
    BY TotalSame
  <1>2. QED
    BY <1>1 DEF Conserved

LEMMA ReserveConserves ==
  ASSUME WithdrawalsInv, NEW k \in Keys, NEW a \in Accounts, NEW n \in Amounts,
         ReserveWithdrawal(k, a, n), state[k] = "none",
         NEW b \in Accounts, Conserved(b)
  PROVE  Conserved(b)'
  <1>1. /\ state' = [state EXCEPT ![k] = "reserved"] /\ owner' = [owner EXCEPT ![k] = a]
        /\ amount' = [amount EXCEPT ![k] = n] /\ credit' = [credit EXCEPT ![a] = @ - n]
        /\ Covers(a, n)
    BY DEF ReserveWithdrawal
  <1>2. TypeOK
    BY DEF WithdrawalsInv
  <1>3. k \notin Debited(b) /\ \A j \in Debited(b) : j # k /\ amount'[j] = amount[j]
    BY <1>1, <1>2 DEF Debited, TypeOK
  <1>4. CASE b # a
    <2>1. Debited(b)' = Debited(b)
      BY <1>1, <1>2, <1>4 DEF Debited, TypeOK
    <2>2. QED
      BY <1>1, <1>2, <1>3, <1>4, <2>1, ConservedKeeps DEF TypeOK
  <1>5. CASE b = a
    <2>1. Debited(b)' = Debited(b) \cup {k}
      BY <1>1, <1>2, <1>5 DEF Debited, TypeOK
    <2>2. amount'[k] = n /\ n \in Nat /\ credit[b] \in Nat /\ credit'[b] = credit[b] - n
      BY <1>1, <1>2, <1>5, WithdrawalsAssumption DEF TypeOK
    <2>3. Total(amount', Debited(b) \cup {k}) = Total(amount', Debited(b)) + n
      BY <1>2, <1>3, <2>2, DebitedFinite, TotalAdd
    <2>4. Total(amount', Debited(b)) = Total(amount, Debited(b)) /\ Total(amount, Debited(b)) \in Nat
      BY <1>2, <1>3, TotalSame, DebitedFinite
    <2>5. Locked[b] \in Nat /\ Opening[b] \in Nat
      BY WithdrawalsAssumption
    <2>6. credit'[b] >= Min({Locked[b], Opening[b]})
      <3>1. Min({Locked[b], Opening[b]}) \in Nat /\ Min({Locked[b], Opening[b]}) <= Locked[b]
        BY <2>5, MinOfTwo
      <3>2. credit[b] - n >= Locked[b]
        BY <1>1, <1>5, <2>2, <2>5 DEF Covers
      <3>3. QED
        BY <2>2, <2>5, <3>1, <3>2
    <2>7. credit[b] + Total(amount, Debited(b)) = Opening[b]
      BY DEF Conserved
    <2>8. credit'[b] + Total(amount', Debited(b)') = Opening[b]
      BY <2>1, <2>2, <2>3, <2>4, <2>5, <2>7
    <2>9. QED
      BY <2>6, <2>8 DEF Conserved
  <1>6. QED
    BY <1>4, <1>5

LEMMA RestoreConserves ==
  ASSUME WithdrawalsInv, NEW w \in Workers, RestoreWithdrawal(w), MayRestore(Current(w).key),
         NEW b \in Accounts, Conserved(b)
  PROVE  Conserved(b)'
  <1> DEFINE k == Current(w).key
  <1>1. /\ state' = [state EXCEPT ![k] = "restored"]
        /\ credit' = [credit EXCEPT ![owner[k]] = @ + amount[k]]
        /\ UNCHANGED <<owner, amount>> /\ state[k] \in OpenStates
    BY DEF RestoreWithdrawal, MayRestore
  <1>2. TypeOK
    BY DEF WithdrawalsInv
  <1>3. k \in Keys /\ owner[k] \in Accounts /\ amount[k] \in Nat
    BY <1>2, CurrentRow DEF RestoreWithdrawal, TypeOK
  <1> HIDE DEF k
  <1>4. CASE b # owner[k]
    <2>1. Debited(b)' = Debited(b)
      BY <1>1, <1>2, <1>3, <1>4 DEF Debited, TypeOK
    <2>2. QED
      BY <1>1, <1>2, <1>4, <2>1, ConservedKeeps DEF TypeOK
  <1>5. CASE b = owner[k]
    <2>1. Debited(b)' = Debited(b) \ {k} /\ k \in Debited(b)
      BY <1>1, <1>2, <1>3, <1>5 DEF Debited, TypeOK, OpenStates
    <2>2. credit[b] \in Nat /\ credit'[b] = credit[b] + amount[k]
      BY <1>1, <1>2, <1>5 DEF TypeOK
    <2>3. Total(amount, Debited(b) \ {k}) = Total(amount, Debited(b)) - amount[k]
      <3>1. {k} \in SUBSET Debited(b)
        BY <2>1
      <3>2. Total(amount, Debited(b) \ {k}) = Total(amount, Debited(b)) - Total(amount, {k})
        BY <1>2, <3>1, DebitedFinite, TotalRemove
      <3>3. QED
        BY <1>3, <3>2, TotalSingleton
    <2>4. Total(amount, Debited(b)) \in Nat
      BY <1>2, DebitedFinite
    <2>5. Locked[b] \in Nat /\ Opening[b] \in Nat
      BY WithdrawalsAssumption
    <2>6. Min({Locked[b], Opening[b]}) \in Nat
      BY <2>5, MinOfTwo
    <2>7. credit[b] + Total(amount, Debited(b)) = Opening[b] /\ credit[b] >= Min({Locked[b], Opening[b]})
      BY DEF Conserved
    <2>8. credit'[b] + Total(amount, Debited(b) \ {k}) = Opening[b]
      BY <1>3, <2>2, <2>3, <2>4, <2>5, <2>7
    <2>9. credit'[b] >= Min({Locked[b], Opening[b]})
      BY <1>3, <2>2, <2>6, <2>7
    <2>10. QED
      BY <1>1, <2>1, <2>8, <2>9 DEF Conserved
  <1>6. QED
    BY <1>4, <1>5

LEMMA ConservedStep ==
  ASSUME WithdrawalsInv, [Next]_vars, NEW b \in Accounts, Conserved(b)
  PROVE  Conserved(b)'
  <1>1. ASSUME UNCHANGED <<state, owner, amount, credit>> PROVE Conserved(b)'
    BY <1>1, ConservedKeeps DEF Debited
  <1>2. ASSUME NEW k \in Keys, NEW a \in Accounts, NEW n \in Amounts, ReserveWithdrawal(k, a, n)
        PROVE  Conserved(b)'
    <2>1. CASE state[k] = "none"
      BY <1>2, <2>1, ReserveConserves
    <2>2. CASE state[k] # "none"
      BY <1>1, <1>2, <2>2 DEF ReserveWithdrawal, rowVars
    <2>3. QED
      BY <2>1, <2>2
  <1>3. ASSUME NEW k \in Keys, NEW s \in SignedStates, state[k] \in OpenStates,
               state' = [state EXCEPT ![k] = s], UNCHANGED <<owner, amount, credit>>
        PROVE  Conserved(b)'
    <2>1. Debited(b)' = Debited(b)
      BY <1>3 DEF Debited, SignedStates, OpenStates, WithdrawalsInv, TypeOK
    <2>2. QED
      BY <1>3, <2>1, ConservedKeeps
  <1>4. ASSUME NEW w \in Workers,
               MarkWithdrawalSigned(w) \/ MarkWithdrawalBroadcast(w) \/ FinalizeWithdrawal(w)
        PROVE  Conserved(b)'
    <2> DEFINE k == Current(w).key
    <2>1. k \in Keys
      BY <1>4, CurrentRow
      DEF MarkWithdrawalSigned, MarkWithdrawalBroadcast, FinalizeWithdrawal, Working
    <2>2. UNCHANGED <<owner, amount, credit>>
      BY <1>4 DEF MarkWithdrawalSigned, MarkWithdrawalBroadcast, FinalizeWithdrawal, rowVars
    <2>3. \/ UNCHANGED state
          \/ state[k] \in OpenStates /\ \E s \in SignedStates : state' = [state EXCEPT ![k] = s]
      <3>1. MarkWithdrawalSigned(w) =>
              UNCHANGED state \/ (state[k] = "reserved" /\ state' = [state EXCEPT ![k] = "signed"])
        BY DEF MarkWithdrawalSigned, MaySign, rowVars
      <3>2. MarkWithdrawalBroadcast(w) =>
              UNCHANGED state \/ (state[k] = "signed" /\ state' = [state EXCEPT ![k] = "broadcast"])
        BY DEF MarkWithdrawalBroadcast, MayBroadcast
      <3>3. FinalizeWithdrawal(w) =>
              \/ UNCHANGED state
              \/ state[k] \in OpenStates /\ state' = [state EXCEPT ![k] = "finalized"]
        BY DEF FinalizeWithdrawal, MayFinalize, OpenStates
      <3>4. QED
        BY <1>4, <3>1, <3>2, <3>3 DEF OpenStates, SignedStates
    <2> HIDE DEF k
    <2>4. QED
      BY <1>1, <1>3, <2>1, <2>2, <2>3
  <1>5. ASSUME NEW w \in Workers, RestoreWithdrawal(w) PROVE Conserved(b)'
    <2>1. CASE MayRestore(Current(w).key)
      BY <1>5, <2>1, RestoreConserves
    <2>2. CASE ~MayRestore(Current(w).key)
      BY <1>1, <1>5, <2>2 DEF RestoreWithdrawal
    <2>3. QED
      BY <2>1, <2>2
  <1>6. ASSUME NEW w \in Workers,
               \/ SweepWithdrawalsDue(w) \/ LatestBlockhash(w) \/ SendAccepted(w) \/ SendExpired(w)
               \/ SignatureStatus(w) \/ BlockHeight(w) \/ SendAmbiguous(w) \/ SkipRow(w)
               \/ CrashWorker(w)
        PROVE  Conserved(b)'
    BY <1>1, <1>6 DEF SweepWithdrawalsDue, LatestBlockhash, SendAccepted, SendExpired,
                      SignatureStatus, BlockHeight, SendAmbiguous, SkipRow, CrashWorker, rowVars
  <1>7. ASSUME Cluster \/ UNCHANGED vars PROVE Conserved(b)'
    BY <1>1, <1>7 DEF Cluster, NewBlockhash, ExpireBlockhash, Execute, FinalizeTx, vars, rowVars
  <1>8. QED
    BY <1>2, <1>4, <1>5, <1>6, <1>7 DEF Next, Request, Advance

LEMMA CreditInit == Init => CreditConserved
  <1> SUFFICES ASSUME Init, NEW a \in Accounts PROVE Conserved(a)
    BY DEF CreditConserved, Conserved
  <1>1. Debited(a) = {} /\ credit[a] = Opening[a]
    BY DEF Init, Debited
  <1>2. Total(amount, {}) = 0
    BY TotalEmpty
  <1>3. Opening[a] \in Nat /\ Locked[a] \in Nat
    BY WithdrawalsAssumption
  <1>4. QED
    BY <1>1, <1>2, <1>3, MinOfTwo DEF Conserved

(* Reserving and restoring balance: whatever replicas race, repeat or       *)
(* crash, an account has lost exactly the amounts of its withdrawals that   *)
(* were not restored, and never what its open requests hold.                *)
THEOREM WithdrawalsConserveCredit == Spec => []CreditConserved
  <1>1. ASSUME WithdrawalsInv, CreditConserved, [Next]_vars PROVE CreditConserved'
    <2>1. \A a \in Accounts : Conserved(a)'
      BY <1>1, ConservedStep DEF CreditConserved, Conserved
    <2>2. QED
      BY <2>1 DEF CreditConserved, Conserved
  <1>2. QED
    BY <1>1, CreditInit, WithdrawalsInvHolds, PTL DEF Spec

-----------------------------------------------------------------------------
(* No credit comes back for a transfer that was paid.                      *)

\* Worker v gets no new copy, and does not learn of a copy of row k that its
\* transaction is dead or unknown.
Undisturbed(v, k) ==
  /\ due'[v] \subseteq due[v]
  /\ \/ at'[v] \notin {"dead", "unknown"}
     \/ due'[v] = due[v] /\ at'[v] = at[v]
     \/ due'[v] = due[v] /\ Current(v).key # k

LEMMA GuardKeeps ==
  ASSUME WithdrawalsInv, Forward, NEW k \in Keys, Guarded(k),
         state'[k] \in SignedStates, state'[k] = "signed" => state[k] = "signed",
         Valid(wire[k]) => wire[k].hash \in recent',
         \A v \in Workers : Undisturbed(v, k)
  PROVE  Guarded(k)'
  <1>1. wire'[k] = wire[k]
    BY DEF WithdrawalsInv, RowsSound, Guarded, Forward
  <1>2. Valid(wire[k]) => Valid(wire[k])'
    BY <1>1 DEF Valid
  <1>3. ASSUME NEW v \in Workers, NEW c \in due'[v], c.key = k
        PROVE  /\ c.state = "signed" => Valid(wire[k])'
               /\ c = Current(v)' => /\ at'[v] # "dead"
                                     /\ at'[v] = "unknown" => Valid(wire[k])'
    <2>1. c \in due[v] /\ (c.state = "signed" => Valid(wire[k]))
      BY <1>3 DEF Undisturbed, Guarded
    <2>2. ASSUME c = Current(v)', at'[v] \in {"dead", "unknown"}
          PROVE  at'[v] = "unknown" /\ Valid(wire[k])
      <3>1. due'[v] = due[v] /\ (at'[v] = at[v] \/ Current(v).key # k)
        BY <2>2 DEF Undisturbed
      <3>2. \A d \in due[v] : d.key \in Keys /\ state[d.key] # "none"
        BY CopyType DEF WithdrawalsInv, CopiesSound, CopySound
      <3>3. Current(v)' = Current(v)
        BY <3>1, <3>2, CurrentSame DEF Forward
      <3>4. QED
        BY <1>3, <2>1, <2>2, <3>1, <3>3 DEF Guarded
    <2>3. QED
      BY <1>2, <2>1, <2>2
  <1>4. QED
    BY <1>2, <1>3 DEF Guarded

LEMMA NextRowUndisturbed ==
  ASSUME TypeOK, NEW w \in Workers, NextRow(w), NEW k
  PROVE  \A v \in Workers : Undisturbed(v, k)
  BY DEF TypeOK, NextRow, Undisturbed

LEMMA LearnUndisturbed ==
  ASSUME TypeOK, NEW w \in Workers, NEW s, Learn(w, s), NEW k,
         s \notin {"dead", "unknown"} \/ Current(w).key # k
  PROVE  \A v \in Workers : Undisturbed(v, k)
  BY DEF TypeOK, Learn, Undisturbed

\* A guarded withdrawal whose transfer was paid stays guarded.
LEMMA GuardStep ==
  ASSUME WithdrawalsInv, [Next]_vars, prompt, NEW k \in Keys, wire[k] \in landed, Guarded(k)
  PROVE  Guarded(k)'
  <1>0. /\ Forward /\ TypeOK /\ state[k] \in SignedStates /\ wire[k] \in Tx
        /\ wire[k] \in network /\ wire[k] \notin rejected
    BY ForwardStep DEF WithdrawalsInv, Guarded, RowsSound, ChainSound, TypeOK
  \* What a worker that advances row k has in hand.
  <1>1. ASSUME NEW w \in Workers, due[w] # {}, Current(w).key = k
        PROVE  /\ Current(w) \in due[w] /\ at[w] # "dead"
               /\ Current(w).state # "reserved" => Current(w).wire = wire[k]
               /\ Current(w).state = "signed" \/ at[w] = "unknown" => Valid(wire[k])
    BY <1>1, CurrentRow DEF Guarded
  <1>2. ASSUME UNCHANGED <<state, recent>>, \A v \in Workers : Undisturbed(v, k)
        PROVE  Guarded(k)'
    BY <1>0, <1>2, GuardKeeps DEF Valid
  <1>3. ASSUME UNCHANGED <<due, at>> PROVE \A v \in Workers : Undisturbed(v, k)
    BY <1>3 DEF Undisturbed
  <1>4. ASSUME NEW j \in Keys, NEW a \in Accounts, NEW n \in Amounts, ReserveWithdrawal(j, a, n)
        PROVE  Guarded(k)'
    <2>1. /\ state' = state \/ (state[j] = "none" /\ state' = [state EXCEPT ![j] = "reserved"])
          /\ UNCHANGED <<due, at, recent>>
      BY <1>4 DEF ReserveWithdrawal, rowVars, workerVars, chainVars
    <2>2. state'[k] = state[k]
      BY <1>0, <2>1 DEF TypeOK, SignedStates
    <2>3. QED
      BY <1>0, <1>3, <2>1, <2>2, GuardKeeps DEF Valid
  <1>5. ASSUME NEW w \in Workers, SweepWithdrawalsDue(w) PROVE Guarded(k)'
    <2>1. PICK b \in SUBSET Keys : due' = [due EXCEPT ![w] = {Copy(j) : j \in b}]
      BY <1>5 DEF SweepWithdrawalsDue
    <2>2. due[w] = {} /\ UNCHANGED <<state, wire, order, at, recent>>
      BY <1>5 DEF SweepWithdrawalsDue, rowVars, chainVars
    <2>3. at[w] = "idle"
      BY <2>2 DEF WithdrawalsInv, StagesSound, StageSound
    <2>4. ASSUME NEW c \in due'[w], c.key = k PROVE c.state = "signed" => Valid(wire[k])
      <3>1. PICK j \in b : c = Copy(j)
        BY <1>0, <2>1 DEF TypeOK
      <3>2. QED
        BY <2>4, <3>1 DEF Copy, Guarded
    <2>5. ASSUME NEW v \in Workers, v # w
          PROVE  due'[v] = due[v] /\ Current(v)' = Current(v)
      BY <1>0, <2>1, <2>2, <2>5, CurrentSame DEF TypeOK
    <2>6. QED
      BY <2>2, <2>3, <2>4, <2>5 DEF Guarded, Valid
  <1>6. ASSUME NEW w \in Workers, LatestBlockhash(w) PROVE Guarded(k)'
    <2>1. \A v \in Workers : Undisturbed(v, k)
      BY <1>0, <1>6 DEF LatestBlockhash, Undisturbed, TypeOK
    <2>2. QED
      BY <1>2, <1>6, <2>1 DEF LatestBlockhash, rowVars, chainVars
  <1>7. ASSUME NEW w \in Workers, CrashWorker(w) PROVE Guarded(k)'
    <2>1. \A v \in Workers : Undisturbed(v, k)
      BY <1>0, <1>7 DEF CrashWorker, Undisturbed, TypeOK
    <2>2. QED
      BY <1>2, <1>7, <2>1 DEF CrashWorker, rowVars, chainVars
  <1>8. ASSUME NEW w \in Workers, SendAmbiguous(w) \/ SkipRow(w) PROVE Guarded(k)'
    BY <1>0, <1>2, <1>8, NextRowUndisturbed DEF SendAmbiguous, SkipRow, rowVars, chainVars
  <1>9. ASSUME NEW w \in Workers, SendAccepted(w) PROVE Guarded(k)'
    <2>1. \A v \in Workers : Undisturbed(v, k)
      BY <1>0, <1>9, LearnUndisturbed DEF SendAccepted
    <2>2. QED
      BY <1>2, <1>9, <2>1 DEF SendAccepted, rowVars
  <1>10. ASSUME NEW w \in Workers, SendExpired(w) PROVE Guarded(k)'
    <2>1. Current(w).key # k
      BY <1>1, <1>10 DEF SendExpired, Working, Expired
    <2>2. QED
      BY <1>0, <1>2, <1>10, <2>1, LearnUndisturbed DEF SendExpired, rowVars, chainVars
  <1>11. ASSUME NEW w \in Workers, SignatureStatus(w) PROVE Guarded(k)'
    <2>1. Current(w).key = k => Learn(w, "final") \/ NextRow(w)
      BY <1>0, <1>1, <1>11 DEF SignatureStatus, Working, Executed, Forgotten
    <2>2. NextRow(w) \/ Learn(w, "final") \/ Learn(w, "dead") \/ Learn(w, "unknown")
      BY <1>11 DEF SignatureStatus
    <2>3. \A v \in Workers : Undisturbed(v, k)
      BY <1>0, <2>1, <2>2, NextRowUndisturbed, LearnUndisturbed
    <2>4. QED
      BY <1>2, <1>11, <2>3 DEF SignatureStatus, rowVars, chainVars
  <1>12. ASSUME NEW w \in Workers, BlockHeight(w) PROVE Guarded(k)'
    <2>1. at[w] = "unknown" /\ Current(w).state = "broadcast" /\ due[w] # {}
      BY <1>12 DEF BlockHeight, Working
    <2>2. Current(w).key = k => NextRow(w)
      BY <1>1, <1>12, <2>1 DEF BlockHeight, Expired
    <2>3. NextRow(w) \/ Learn(w, "dead")
      BY <1>12 DEF BlockHeight
    <2>4. \A v \in Workers : Undisturbed(v, k)
      BY <1>0, <2>2, <2>3, NextRowUndisturbed, LearnUndisturbed
    <2>5. QED
      BY <1>2, <1>12, <2>4 DEF BlockHeight, rowVars, chainVars
  <1>13. ASSUME NEW w \in Workers,
                \/ MarkWithdrawalSigned(w) \/ MarkWithdrawalBroadcast(w)
                \/ FinalizeWithdrawal(w) \/ RestoreWithdrawal(w)
         PROVE  Guarded(k)'
    <2> DEFINE j == Current(w).key
    <2>1. NextRow(w) /\ UNCHANGED recent
      BY <1>13 DEF MarkWithdrawalSigned, MarkWithdrawalBroadcast, FinalizeWithdrawal,
                   RestoreWithdrawal, chainVars
    <2>2. MarkWithdrawalSigned(w) => state' = state \/ (j # k /\ state' = [state EXCEPT ![j] = "signed"])
      BY <1>0 DEF MarkWithdrawalSigned, MaySign, SignedStates, rowVars
    <2>3. MarkWithdrawalBroadcast(w) => state' \in {state, [state EXCEPT ![j] = "broadcast"]}
      BY DEF MarkWithdrawalBroadcast
    <2>4. FinalizeWithdrawal(w) => state' \in {state, [state EXCEPT ![j] = "finalized"]}
      BY DEF FinalizeWithdrawal
    <2>5. RestoreWithdrawal(w) => j # k /\ state' \in {state, [state EXCEPT ![j] = "restored"]}
      BY <1>1 DEF RestoreWithdrawal
    <2> HIDE DEF j
    <2>6. state'[k] \in SignedStates /\ (state'[k] = "signed" => state[k] = "signed")
      BY <1>0, <1>13, <2>2, <2>3, <2>4, <2>5 DEF TypeOK, SignedStates
    <2>7. \A v \in Workers : Undisturbed(v, k)
      BY <1>0, <2>1, NextRowUndisturbed
    <2>8. QED
      BY <1>0, <2>1, <2>6, <2>7, GuardKeeps DEF Valid
  <1>14. ASSUME NewBlockhash PROVE Guarded(k)'
    <2>1. UNCHANGED <<state, due, at>> /\ recent \subseteq recent'
      BY <1>14 DEF NewBlockhash, rowVars, workerVars
    <2>2. QED
      BY <1>0, <1>3, <2>1, GuardKeeps DEF Valid
  <1>15. ASSUME NEW h \in Hashes, ExpireBlockhash(h) PROVE Guarded(k)'
    <2>1. ~MidStep(h) /\ recent' = recent \ {h} /\ UNCHANGED <<state, wire, order, due, at>>
      BY <1>15 DEF ExpireBlockhash, rowVars, workerVars
    <2>2. CASE wire[k].hash # h
      BY <1>0, <1>3, <2>1, <2>2, GuardKeeps DEF Valid
    <2>3. CASE wire[k].hash = h
      <3>1. state[k] # "signed"
        BY <1>0, <2>1, <2>3 DEF MidStep
      <3>2. ASSUME NEW v \in Workers, NEW c \in due[v], c.key = k PROVE c.state # "signed"
        <4>1. c.state = "signed" => c.wire = wire[k]
          BY <3>2 DEF WithdrawalsInv, CopiesSound, CopySound
        <4>2. QED
          BY <1>0, <2>1, <2>3, <3>2, <4>1 DEF MidStep
      <3>3. ASSUME NEW v \in Workers, due[v] # {}, Current(v).key = k PROVE at[v] # "unknown"
        <4>1. at[v] = "unknown" => Current(v).state = "broadcast"
          BY DEF WithdrawalsInv, StagesSound, StageSound
        <4>2. at[v] = "unknown" => Current(v).wire = wire[k]
          BY <1>1, <3>3, <4>1
        <4>3. QED
          BY <2>1, <2>3, <4>2 DEF MidStep
      <3>4. \A v \in Workers : Current(v)' = Current(v)
        BY <2>1, CurrentSame
      <3>5. QED
        BY <1>0, <2>1, <3>1, <3>2, <3>3, <3>4 DEF Guarded
    <2>4. QED
      BY <2>2, <2>3
  <1>16. ASSUME (\E t \in network : Execute(t) \/ FinalizeTx(t)) \/ UNCHANGED vars
         PROVE  Guarded(k)'
    <2>1. UNCHANGED <<state, recent, due, at>>
      BY <1>16 DEF Execute, FinalizeTx, vars, rowVars, workerVars, chainVars
    <2>2. QED
      BY <1>2, <1>3, <2>1
  <1>17. QED
    BY <1>4, <1>5, <1>6, <1>7, <1>8, <1>9, <1>10, <1>11, <1>12, <1>13, <1>14, <1>15, <1>16
    DEF Next, Request, Advance, Cluster

LEMMA PaidStep ==
  ASSUME WithdrawalsInv, PaidGuarded, [Next]_vars
  PROVE  PaidGuarded'
  <1>0. Forward /\ prompt' = prompt
    BY ForwardStep
    DEF Next, vars, Request, ReserveWithdrawal, SweepWithdrawalsDue, Advance, LatestBlockhash,
        MarkWithdrawalSigned, SendAccepted, SendExpired, MarkWithdrawalBroadcast, SignatureStatus,
        BlockHeight, FinalizeWithdrawal, RestoreWithdrawal, SendAmbiguous, SkipRow, CrashWorker,
        Cluster, NewBlockhash, ExpireBlockhash, Execute, FinalizeTx, chainVars
  <1>1. SUFFICES ASSUME prompt, NEW t \in landed' PROVE \E k \in Keys : wire'[k] = t /\ Guarded(k)'
    BY <1>0 DEF PaidGuarded
  <1>2. CASE t \in landed
    <2>1. PICK k \in Keys : wire[k] = t /\ Guarded(k)
      BY <1>1, <1>2 DEF PaidGuarded
    <2>2. Guarded(k)' /\ t \in Tx
      BY <1>1, <1>2, <2>1, GuardStep DEF WithdrawalsInv, TypeOK
    <2>3. QED
      BY <1>0, <2>1, <2>2 DEF Forward
  <1>3. CASE t \notin landed
    <2>1. Execute(t)
      BY <1>1, <1>3
      DEF Next, vars, Request, ReserveWithdrawal, SweepWithdrawalsDue, Advance, LatestBlockhash,
          MarkWithdrawalSigned, SendAccepted, SendExpired, MarkWithdrawalBroadcast, SignatureStatus,
          BlockHeight, FinalizeWithdrawal, RestoreWithdrawal, SendAmbiguous, SkipRow, CrashWorker,
          Cluster, NewBlockhash, ExpireBlockhash, Execute, FinalizeTx, chainVars
    <2>2. /\ t \in network /\ Valid(t) /\ t \notin rejected
          /\ UNCHANGED <<state, wire, order, due, at, recent>>
      BY <2>1 DEF Execute, Executed, rowVars, workerVars
    <2>3. PICK k \in Keys : wire[k] = t /\ t \in Tx
      BY <2>2 DEF WithdrawalsInv, ChainSound, TypeOK
    <2>4. state[k] \in SignedStates
      BY <2>2, <2>3, WithdrawalsAssumption
      DEF WithdrawalsInv, RowsSound, ChainSound, TypeOK, Doomed, SignedStates, OpenStates
    <2>5. ASSUME NEW v \in Workers, NEW c \in due[v], c.key = k, c = Current(v)
          PROVE  at[v] # "dead"
      <3>1. c.state # "reserved" => c.wire = wire[k]
        BY <2>5 DEF WithdrawalsInv, CopiesSound, CopySound
      <3>2. at[v] = "dead" => c.state # "reserved" /\ Doomed(c.wire)
        BY <2>5 DEF WithdrawalsInv, StagesSound, StageSound
      <3>3. QED
        BY <2>2, <2>3, <3>1, <3>2 DEF Doomed
    <2>6. \A v \in Workers : Current(v)' = Current(v)
      BY <2>2, CurrentSame
    <2>7. Guarded(k)'
      BY <2>2, <2>3, <2>4, <2>5, <2>6 DEF Guarded, Valid
    <2>8. QED
      BY <2>2, <2>3, <2>7
  <1>4. QED
    BY <1>2, <1>3

\* The transfers that were paid to an account have withdrawals of their own
\* that its credit paid for.
LEMMA PaidWithinDebits ==
  ASSUME WithdrawalsInv, CreditConserved, PaidGuarded
  PROVE  RestoredNeverPaid
  <1>1. SUFFICES ASSUME prompt, NEW a \in Accounts PROVE NothingTwice(a)
    BY DEF RestoredNeverPaid
  <1> DEFINE P == {t \in landed : t.to = a}
             paid == [t \in landed |-> t.amount]
             f == [t \in P |-> CHOOSE k \in Keys : wire[k] = t /\ Guarded(k)]
  <1>2. ASSUME NEW t \in P PROVE f[t] \in Keys /\ wire[f[t]] = t /\ Guarded(f[t])
    <2>1. \E k \in Keys : wire[k] = t /\ Guarded(k)
      BY <1>1 DEF PaidGuarded
    <2>2. QED
      BY <2>1
  <1>3. ASSUME NEW t \in P PROVE f[t] \in Debited(a) /\ paid[t] = amount[f[t]]
    <2>1. state[f[t]] \in SignedStates /\ t.to = a /\ paid[t] = t.amount
      BY <1>2 DEF Guarded
    <2>2. t.to = owner[f[t]] /\ t.amount = amount[f[t]]
      BY <1>2, <2>1 DEF WithdrawalsInv, RowsSound
    <2>3. QED
      BY <1>2, <2>1, <2>2 DEF Debited, SignedStates
  <1>4. f \in [P -> Debited(a)] /\ \A t, u \in P : f[t] = f[u] => t = u
    BY <1>2, <1>3
  <1>5. IsFiniteSet(Debited(a)) /\ \A k \in Debited(a) : amount[k] \in Nat
    BY DebitedFinite DEF WithdrawalsInv
  <1>6. \A t \in P : paid[t] = amount[f[t]]
    BY <1>3
  <1> HIDE DEF P, paid, f
  <1>7. Total(paid, P) <= Total(amount, Debited(a))
    BY <1>4, <1>5, <1>6, TotalInject
  <1>8. IsFiniteSet(P)
    BY <1>4, <1>5, FS_Injection DEF Injection, IsInjective
  <1>9. \A t \in P : paid[t] \in Nat
    BY <1>4, <1>5, <1>6
  <1>10. Total(paid, P) \in Nat /\ Total(amount, Debited(a)) \in Nat
    BY <1>8, <1>9, <1>5, TotalType
  <1>11. credit[a] \in Nat /\ credit[a] + Total(amount, Debited(a)) = Opening[a]
    BY DEF WithdrawalsInv, TypeOK, CreditConserved
  <1>12. credit[a] + Total(paid, P) <= Opening[a]
    BY <1>7, <1>10, <1>11
  <1>13. QED
    BY <1>12 DEF NothingTwice, P, paid

(* No credit comes back for a transfer that was paid, however replicas race *)
(* and crash and messages to the nodes are lost or repeated, as long as a   *)
(* worker hears of a transaction before its blockhash expires.              *)
THEOREM PaidIsNotRestored == Spec => []RestoredNeverPaid
  <1>1. Init => PaidGuarded
    BY DEF Init, PaidGuarded
  <1>2. QED
    BY <1>1, PaidStep, PaidWithinDebits, WithdrawalsInvHolds, WithdrawalsConserveCredit, PTL
    DEF Spec

-----------------------------------------------------------------------------
(* What the tables say is what happened on chain.                          *)

\* No finalized transaction is the wire of two withdrawals.
NoTwins ==
  \A j, k \in Keys : j # k /\ wire[j] # NoTx /\ wire[j] = wire[k] => wire[j] \notin final

\* The persisted wires bound what the cluster can have finalized.
LEMMA FinalFinite ==
  ASSUME WithdrawalsInv
  PROVE  IsFiniteSet(final)
  <1> DEFINE f == [t \in final |-> CHOOSE k \in Keys : wire[k] = t]
  <1>1. \A t \in final : \E k \in Keys : wire[k] = t
    BY DEF WithdrawalsInv, ChainSound, TypeOK
  <1>2. \A t \in final : f[t] \in Keys /\ wire[f[t]] = t
    BY <1>1
  <1>3. f \in Injection(final, Keys)
    BY <1>2 DEF Injection, IsInjective
  <1>4. QED
    BY <1>3, WithdrawalsAssumption, FS_Injection

LEMMA FinalizedCovered ==
  ASSUME WithdrawalsInv, NoTwins
  PROVE  FinalizedPaid
  <1>1. SUFFICES ASSUME NEW a \in Accounts
                 PROVE  Total(amount, {k \in Keys : owner[k] = a /\ state[k] = "finalized"})
                          <= Total([t \in final |-> t.amount], {t \in final : t.to = a})
    BY DEF FinalizedPaid
  <1> DEFINE F == {k \in Keys : owner[k] = a /\ state[k] = "finalized"}
             P == {t \in final : t.to = a}
             paid == [t \in final |-> t.amount]
             f == [k \in F |-> wire[k]]
  <1>2. ASSUME NEW k \in F
        PROVE  wire[k] \in P /\ wire[k] \in Tx /\ amount[k] = paid[wire[k]]
    BY DEF WithdrawalsInv, RowsSound, ChainSound, SignedStates
  <1>3. f \in [F -> P] /\ \A k \in F : amount[k] = paid[f[k]]
    BY <1>2
  <1>4. \A j, k \in F : f[j] = f[k] => j = k
    BY <1>2, WithdrawalsAssumption DEF NoTwins
  <1>5. IsFiniteSet(P)
    BY FinalFinite, FS_Subset
  <1>6. ASSUME NEW t \in P PROVE paid[t] \in Nat
    <2>1. t \in Tx
      BY DEF WithdrawalsInv, TypeOK
    <2>2. QED
      BY <2>1, WithdrawalsAssumption DEF Tx
  <1> HIDE DEF F, P, paid, f
  <1>7. Total(amount, F) <= Total(paid, P)
    BY <1>3, <1>4, <1>5, <1>6, TotalInject
  <1>8. QED
    BY <1>7 DEF F, P, paid

(* A withdrawal is finalized only when its own transfer executed for good,  *)
(* and restored only when it can no longer execute.  What has to be assumed *)
(* is that no finalized transaction is the wire of two withdrawals: two     *)
(* withdrawals of one account with one amount and one blockhash are one     *)
(* transaction to the cluster, and the code does nothing to keep them apart.*)
THEOREM OutcomesAreTrue == Spec /\ []NoTwins => []OutcomeMatchesChain
  <1>1. WithdrawalsInv /\ NoTwins /\ RestoredNeverPaid => OutcomeMatchesChain
    BY FinalizedCovered DEF OutcomeMatchesChain
  <1>2. QED
    BY <1>1, WithdrawalsInvHolds, PaidIsNotRestored, PTL
=============================================================================
