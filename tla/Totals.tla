------------------------------- MODULE Totals -------------------------------
(***************************************************************************)
(* SQL's COALESCE(SUM(column), 0) over a finite set of rows, for a column  *)
(* of non-negative amounts.  The sum is the number of base units the rows  *)
(* hold: each row owns as many units as its amount, and no two rows share  *)
(* a unit.  Counting units instead of recursing over the rows is what lets *)
(* the proofs reason about sums with the theorems on cardinalities.        *)
(***************************************************************************)
EXTENDS Integers, FiniteSets

\* The base units held by the rows of S, the row r holding amount[r] of them.
Units(amount, S) == UNION {{r} \X (1 .. amount[r]) : r \in S}

\* SUM(amount) over the rows of S; 0 when there is none.
Total(amount, S) == Cardinality(Units(amount, S))
=============================================================================
