--------------------------- MODULE MC_EnsembleState ---------------------------
(* A small instance of the journal, for TLC.                               *)
EXTENDS EnsembleState, TLC

Symmetry == Permutations(Address) \cup Permutations(Key) \cup Permutations(Value)
=============================================================================
