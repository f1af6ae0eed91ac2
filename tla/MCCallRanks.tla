----------------------------- MODULE MCCallRanks -----------------------------
(* Every call graph on a few interchangeable functions.                     *)
EXTENDS CallRanks, TLC

Symmetry == Permutations(Functions)
=============================================================================
