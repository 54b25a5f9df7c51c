------------------------------ MODULE MCIntake ------------------------------
(* Instances of Intake for TLC. *)
EXTENDS Intake

CONSTANTS e1, e2, k1, x1

(* The current parser reads nothing in e1 where the earlier one read money, *)
(* and does not read e3; the earlier one read all three.                   *)
MCLegacyFacts == [e \in Emails |-> [amount |-> 1, key |-> k1, text |-> x1]]
MCParsedFacts ==
    [e \in Emails |-> [amount |-> IF e = e1 THEN 0 ELSE 1, key |-> k1, text |-> x1]]

NoPlans == {}
=============================================================================
