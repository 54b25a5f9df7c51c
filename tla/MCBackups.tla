----------------------------- MODULE MCBackups ------------------------------
(* Instances of Backups for TLC. *)
EXTENDS Backups, TLC

CONSTANTS w1, w2

(***************************************************************************)
(* Committed changes are interchangeable.                                  *)
(***************************************************************************)
MCSymmetry == Permutations({w1, w2})
=============================================================================
