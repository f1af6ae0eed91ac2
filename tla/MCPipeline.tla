------------------------------ MODULE MCPipeline ------------------------------
(* Small binaries for the queue.                                             *)
EXTENDS Pipeline, TLC

CONSTANTS left, right, leaf

\* left and right are mutually recursive; right calls leaf, which calls itself.
RecursionEdges == {<<left, right>>, <<right, left>>, <<right, leaf>>, <<leaf, leaf>>}

\* left calls leaf, and a recording may show that leaf calls left back.
ChainEdges == {<<left, leaf>>}

CallBack == {<<leaf, left>>}

Symmetry == Permutations(Workers)
=============================================================================
