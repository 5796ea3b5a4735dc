------------------------------- MODULE Merkle -------------------------------
(***************************************************************************)
(* The Merkle commitments over one account's ledger: the tree rules of     *)
(* internal/billing/merkle.go and the reads that build a root or a proof   *)
(* (internal/store/reconciliation.go, internal/billingapi), which page     *)
(* through the ledger in queries of their own while rows are committed.    *)
(* A row takes its id before its transaction commits, so rows may become   *)
(* visible out of id order.                                                *)
(*                                                                         *)
(* SHA-256 with its domain prefix is a free constructor: equal hashes are  *)
(* equal terms.                                                            *)
(***************************************************************************)
EXTENDS Integers, Sequences, FiniteSets, FiniteSetsExt

CONSTANTS LedgerIds,    \* 1 .. n: the ids of the account's ledger rows
          PageLimit     \* rows of a page (1000 in the code)

ASSUME MerkleAssumption == LedgerIds \subseteq Nat \ {0} /\ PageLimit \in Nat \ {0}
----------------------------------------------------------------------------
(* The tree.  Indices are 0-based, as in the code.                         *)

LedgerLeaf(id) == <<"leaf", id>>

\* Mutant: the children are hashed in no order.
merkleNode_Unordered(l, r) == <<"node", {l, r}, 2>>

merkleNode(l, r) == <<"node", l, r>>

merklePadHash == <<"pad">>

\* A level with an odd number of nodes gets a pad.
Even(level) == IF Len(level) % 2 = 1 THEN Append(level, merklePadHash) ELSE level

Parents(level) ==
  LET e == Even(level)
  IN  [i \in 1 .. Len(e) \div 2 |-> merkleNode(e[2 * i - 1], e[2 * i])]

\* The real nodes of a level: the leaves, halved and rounded up at every level.
sizeAtLevel(leaves, level) ==
  LET n[i \in Nat] == IF i = 0 THEN leaves ELSE (n[i - 1] + 1) \div 2 IN n[level]

\* The ancestor of a leaf on a level: index /= 2, level times.
Ancestor(index, level) ==
  LET n[i \in Nat] == IF i = 0 THEN index ELSE n[i - 1] \div 2 IN n[level]

\* Levels are built until one node is left.
Height(leaves) == Min({h \in 0 .. leaves : sizeAtLevel(leaves, h) <= 1})

\* The levels of the tree over the leaves, from the bottom.
Levels(leaves) ==
  LET level[k \in 0 .. Height(Len(leaves))] ==
        IF k = 0 THEN leaves ELSE Parents(level[k - 1])
  IN  level

MerkleRoot(leaves) ==
  IF leaves = <<>> THEN merklePadHash ELSE Levels(leaves)[Height(Len(leaves))][1]

Sibling(i) == IF i % 2 = 0 THEN i + 1 ELSE i - 1

\* The sibling of the path at every level below the root.
MerklePath(leaves, index) ==
  LET level == Levels(leaves)
  IN  [k \in 1 .. Height(Len(leaves)) |->
        Even(level[k - 1])[Sibling(Ancestor(index, k - 1)) + 1]]

Climb(cur, sib, idx) == IF idx % 2 = 0 THEN merkleNode(cur, sib) ELSE merkleNode(sib, cur)

\* The verifier puts the pad where the level has no real sibling.
VerifiedSibling(path, index, leafCount, k) ==
  IF Sibling(Ancestor(index, k - 1)) >= sizeAtLevel(leafCount, k - 1)
    THEN merklePadHash ELSE path[k]

\* The node of every level that the leaf and its path lead to.
Climbed(leaf, path, index, leafCount) ==
  LET cur[k \in 0 .. Len(path)] ==
        IF k = 0 THEN leaf
        ELSE Climb(cur[k - 1], VerifiedSibling(path, index, leafCount, k), Ancestor(index, k - 1))
  IN  cur

VerifyMerklePath(leaf, path, index, leafCount, root) ==
  /\ 0 <= index /\ index < leafCount
  /\ root = Climbed(leaf, path, index, leafCount)[Len(path)]
----------------------------------------------------------------------------
(* The ledger, one reader of it, and the history of its request.           *)

VARIABLES drawn,       \* ids taken by transactions that have not committed
          committed,   \* rows of credit_ledger
          reader       \* the request being served

merkleVars == <<drawn, committed, reader>>

NoReader == [step |-> "idle"]

MerkleInit == drawn = {} /\ committed = {} /\ reader = NoReader

DrawId ==
  /\ \E id \in LedgerIds : /\ id \notin drawn \cup committed
                           /\ \A k \in LedgerIds : k < id => k \in drawn \cup committed
                           /\ drawn' = drawn \cup {id}
  /\ UNCHANGED <<committed, reader>>

\* The row becomes visible; "behind" records that it did so below the row
\* that is asked for or below the page that was read last.
CommitRow(id) ==
  /\ id \in drawn
  /\ drawn' = drawn \ {id} /\ committed' = committed \cup {id}
  /\ reader' = IF reader = NoReader THEN reader
               ELSE [reader EXCEPT
                      !.below = @ \/ (id < reader.row /\ reader.step # "answered"),
                      !.behind = @ \/ id < reader.after]

\* ORDER BY id: at place k the id with k - 1 smaller ones.
Ascending(ids) ==
  [k \in 1 .. Cardinality(ids) |->
    CHOOSE i \in ids : Cardinality({j \in ids : j < i}) = k - 1]

\* The next page of rows, in id order.
LedgerLeafPage(after) ==
  LET rest == Ascending({i \in committed : i > after})
  IN  SubSeq(rest, 1, IF Len(rest) < PageLimit THEN Len(rest) ELSE PageLimit)

\* Mutant: the rank counts the row itself.
LedgerLeafIndex_Inclusive(row) == Cardinality({i \in committed : i <= row})

\* The number of rows with a smaller id.
LedgerLeafIndex(row) == Cardinality({i \in committed : i < row})

Request(step, row, index) ==
  [step |-> step, row |-> row, index |-> index, after |-> 0, read |-> <<>>,
   answer |-> -1, below |-> FALSE, behind |-> FALSE]

\* GET merkle-proof for any id: the smaller rows are counted first.
MerkleProofForLedgerRow(row) ==
  /\ reader = NoReader
  /\ reader' = Request("exists", row, LedgerLeafIndex(row))
  /\ UNCHANGED <<drawn, committed>>

\* Then a second query looks for the row itself; 404 when it is not there.
RowExists ==
  /\ reader.step = "exists"
  /\ reader' = IF reader.row \in committed THEN [reader EXCEPT !.step = "page"] ELSE NoReader
  /\ UNCHANGED <<drawn, committed>>

\* GET reconciliation: the same pages for the root alone.  Row 0 is no row.
AccountMerkleSummary ==
  /\ reader = NoReader
  /\ reader' = Request("page", 0, 0)
  /\ UNCHANGED <<drawn, committed>>

\* Pages are read until one is short.
ReadPage ==
  /\ reader.step = "page"
  /\ LET page == LedgerLeafPage(reader.after)
     IN  reader' = [reader EXCEPT
           !.read = @ \o page,
           !.after = IF page = <<>> THEN @ ELSE page[Len(page)],
           !.step = IF Len(page) = PageLimit THEN "page"
                    ELSE IF reader.row = 0 THEN "answered" ELSE "index"]
  /\ UNCHANGED <<drawn, committed>>

\* The handler reads the rank again for its answer.
handleMerkleProof ==
  /\ reader.step = "index"
  /\ reader' = [reader EXCEPT !.step = "answered", !.answer = LedgerLeafIndex(reader.row)]
  /\ UNCHANGED <<drawn, committed>>

\* The client has its answer.
EndRead ==
  /\ reader.step = "answered" /\ reader' = NoReader
  /\ UNCHANGED <<drawn, committed>>

MerkleNext ==
  \/ DrawId \/ AccountMerkleSummary \/ RowExists \/ ReadPage \/ handleMerkleProof \/ EndRead
  \/ \E id \in LedgerIds : CommitRow(id) \/ MerkleProofForLedgerRow(id)

MerkleSpec == MerkleInit /\ [][MerkleNext]_merkleVars
----------------------------------------------------------------------------
(* Properties.                                                             *)

Leaves(rows) == [i \in DOMAIN rows |-> LedgerLeaf(rows[i])]

Proof == MerklePath(Leaves(reader.read), reader.index)

Served == reader.step = "answered" /\ reader.row # 0

\* A served proof verifies against the served root, for the row that was
\* asked for and at the rank that the answer states, whatever commits while
\* the pages are read, except a row with a smaller id: that one moves the
\* rank between the reads, and is the hole this leaves.
ServedProofVerifies ==
  Served /\ ~reader.below =>
    /\ reader.index + 1 \in DOMAIN reader.read
    /\ reader.read[reader.index + 1] = reader.row
    /\ VerifyMerklePath(LedgerLeaf(reader.row), Proof, reader.answer,
                        Len(reader.read), MerkleRoot(Leaves(reader.read)))

\* A served root commits to every row up to the last one it covers, each
\* once and in id order, whatever the page boundaries are, unless a row was
\* committed behind a page that had been read.
ServedRootIsWhole ==
  reader.step = "answered" /\ ~reader.behind =>
    reader.read = Ascending({i \in committed : i <= reader.after})

\* A path proves one leaf at one rank: the proof of a row verifies neither
\* for another row at its rank nor for itself at another rank, for every
\* number of leaves, the odd ones with their pads included.
PathBindsLeafAndRank ==
  LET rows == Ascending(committed)
      root == MerkleRoot(Leaves(rows))
  IN  \A i, j, k \in 0 .. Len(rows) - 1 :
        VerifyMerklePath(LedgerLeaf(rows[i + 1]), MerklePath(Leaves(rows), k), j, Len(rows), root)
          => i = j

\* What the handler serves while rows commit verifies: a proof leads from its
\* row, at the rank stated, to the root, and the root commits to every row up
\* to the last; rows that commit behind the reads are the exceptions.
ServedAnswersVerify == ServedProofVerifies /\ ServedRootIsWhole
=============================================================================
