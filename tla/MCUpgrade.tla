----------------------------- MODULE MCUpgrade ------------------------------
(* Instances of Upgrade for TLC. *)
EXTENDS Upgrade, TLC

CONSTANTS u1, u2

(* Two migrations away, recorded or not, and current but not recorded.     *)
MCOrigins == {[schema |-> 1, version |-> 1], [schema |-> 1, version |-> 0],
              [schema |-> 3, version |-> 0]}

(***************************************************************************)
(* Upgrades are interchangeable.                                           *)
(***************************************************************************)
MCSymmetry == Permutations({u1, u2})
=============================================================================
