------------------------------- MODULE Money -------------------------------
(***************************************************************************)
(* Sums of integer cents over the rows of a table.                         *)
(*                                                                         *)
(* The code asks SQLite for COALESCE(SUM(amount_cents), 0) over the rows   *)
(* that match a condition.  Every amount it sums is a positive integer     *)
(* (CHECK (amount_cents > 0)), so the sum is the number of cents in those  *)
(* rows: the cardinality of the set that holds, for each row, one element  *)
(* per cent.  Written this way the sum needs no recursion, and its laws    *)
(* (LedgerProofs) follow from those of Cardinality.                        *)
(***************************************************************************)
EXTENDS Naturals, FiniteSets

(***************************************************************************)
(* The cents of a set R of rows, each a record with an "amount" field.     *)
(***************************************************************************)
Cents(R) == UNION { {r} \X (1 .. r.amount) : r \in R }

(***************************************************************************)
(* SELECT COALESCE(SUM(amount_cents), 0) over the rows R.                  *)
(***************************************************************************)
Total(R) == Cardinality(Cents(R))

=============================================================================
