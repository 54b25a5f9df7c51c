------------------------------ MODULE MCLedger ------------------------------
(***************************************************************************)
(* Instances of Ledger for TLC.                                            *)
(***************************************************************************)
EXTENDS Ledger, FiniteSetsExt, TLC

CONSTANTS e1, e2, k1, x1, x2

(* The current parser reads less in e1 than the earlier one did, so that a *)
(* rebuild can collide with allocations, and more in e2.                   *)
MCLegacyFacts ==
    [e \in Emails |-> [amount |-> IF e = e1 THEN 2 ELSE 1, key |-> k1, text |-> x1]]
MCParsedFacts ==
    [e \in Emails |-> [amount |-> IF e = e1 THEN 1 ELSE 2, key |-> k1, text |-> x1]]

(* Every plan of two links, those that repeat a pair or exceed a limit     *)
(* included.                                                               *)
MCPlans == {L \in SUBSET RentRow : Cardinality(L) = 2}
NoPlans == {}

(* Manual payments are interchangeable, and late fees are.                  *)
Interchangeable == Permutations(Manuals) \cup Permutations(Fees)

(* The sum the model uses is the sum SQL computes.                         *)
ASSUME TotalIsSum ==
    \A L \in SUBSET [payment : {k1}, target : {x1, x2}, amount : Amounts] :
      Total(L) = MapThenSumSet(LAMBDA r : r.amount, L)
=============================================================================
