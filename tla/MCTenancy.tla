----------------------------- MODULE MCTenancy -----------------------------
(* Finite instances of Tenancy: a calendar of two-day months. *)
EXTENDS TenancyUse, TLC

CONSTANTS a1, s1, s2, s3, c1

OneAccount     == {a1}
TwoSchedules   == {s1, s2}
ThreeSchedules == {s1, s2, s3}
OneSession     == {c1}
TwoMonths      == [m \in 0 .. 2 |-> 2 * m]
ThreeMonths    == [m \in 0 .. 3 |-> 2 * m]
NoSession      == {}
OneAmount      == {1}
TwoAmounts     == {1, 2}

Symmetry == Permutations(Schedules)
=============================================================================
