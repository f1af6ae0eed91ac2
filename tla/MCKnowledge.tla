----------------------------- MODULE MCKnowledge -----------------------------
(* A caller and a callee; results are interchangeable.                       *)
EXTENDS Knowledge, TLC

CONSTANTS top, leaf

Calling == {<<top, leaf>>}

SelfAlso == {<<top, leaf>>, <<leaf, leaf>>}

Interchangeable == Permutations(Results)
=============================================================================
