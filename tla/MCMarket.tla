------------------------------ MODULE MCMarket ------------------------------
(* Safety of what surrounds a charge: the delegations it is paid from, the  *)
(* asks that price it, the proofs of its ledger rows and the stream that    *)
(* is paid for.  One behaviour runs one of them; the others rest in their   *)
(* initial states.                                                          *)
EXTENDS Delegations, Asks, Merkle, ThinkFix

VARIABLE part

marketVars == <<part, vars, askVars, merkleVars, thinkVars>>

MarketInit ==
  /\ part \in {"delegations", "asks", "merkle", "think"}
  /\ Init /\ AskInit /\ MerkleInit /\ ThinkInit
  /\ part # "delegations" => settleFees = CHOOSE f \in FeeModes : TRUE
  /\ part # "asks" => mesh = [wallet |-> CHOOSE o \in Owners : TRUE, serves |-> {}]

MarketNext ==
  \/ part = "delegations" /\ Next /\ UNCHANGED <<part, askVars, merkleVars, thinkVars>>
  \/ part = "asks" /\ AskNext /\ UNCHANGED <<part, vars, merkleVars, thinkVars>>
  \/ part = "merkle" /\ MerkleNext /\ UNCHANGED <<part, vars, askVars, thinkVars>>
  \/ part = "think" /\ ThinkNext /\ UNCHANGED <<part, vars, askVars, merkleVars>>

MarketSpec == MarketInit /\ [][MarketNext]_marketVars

\* What pollers and settlement workers are in the middle of.
Polls == Cardinality({p \in Pollers : poll[p].at # "idle"})
Jobs == Polls + Cardinality({w \in Workers : work[w].at # "idle"})

\* Delegations: the properties say little of what follows an overlapping claim,
\* a replayed observation or one booked against a stale amount.  With fees on
\* chain one charge has two batches already; there two pollers may meet, and
\* approvals exceed int64, and from the first batch on one job runs at a time.
\* Without fees there are more charges, one poller and two jobs at a time; with
\* the second charge the poller and the workers take turns.
\* Asks: two of the three writers at a time.  Responses: a long one is one
\* block with two markers.
Bounded ==
  /\ ~overlapped /\ ~replayed /\ ~unlocked
  /\ settleFees => /\ \A i \in Legs : i > 1 => leg[i] = NoLeg
                   /\ leg[1] # NoLeg => Jobs <= 1 \/ DOMAIN batch = {}
  /\ ~settleFees => /\ Polls <= 1 /\ Jobs <= 2 /\ \A b \in Buyers : account[b].delegated <= MaxRaw
                    /\ Polls = 1 /\ leg[2] # NoLeg => Jobs <= 1
  /\ Cardinality({w \in Publishers : ~Busy(w, "idle")}) <= 2
  /\ Len(sent) = 2 => PiecesSent <= 3
  /\ PiecesSent > 4 => Len(SelectSeq(sent[1].text, LAMBDA p : p = "Lead")) > 1

\* Buyers are interchangeable, and so are workers and pollers; the prices of the
\* asks are the buyers' values, so that they are permuted along.
Symmetry == Permutations(Buyers) \cup Permutations(Workers) \cup Permutations(Pollers)
=============================================================================
