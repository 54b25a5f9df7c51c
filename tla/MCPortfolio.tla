---------------------------- MODULE MCPortfolio -----------------------------
(* Instances of Portfolio for TLC. *)
EXTENDS Portfolio, TLC

(***************************************************************************)
(* Rows of one table, names and commands are interchangeable.              *)
(***************************************************************************)
MCSymmetry ==
    UNION {Permutations(S) : S \in {Properties, Units, Payers, Accounts, Senders, Setups}}
=============================================================================
