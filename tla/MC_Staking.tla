----------------------------- MODULE MC_Staking -----------------------------
(* A small instance of the delegations, for TLC.                           *)
EXTENDS Staking, TLC

Symmetry == Permutations(Validator)
=============================================================================
