---------------------------- MODULE MCWriteback ----------------------------
(* A caller and a callee; operations of each kind; results and operations of  *)
(* one kind are interchangeable.                                             *)
EXTENDS Writeback, TLC

CONSTANTS top, leaf

Calling == {<<top, leaf>>}

Interchangeable == Permutations(Results)
=============================================================================
