------------------------------- MODULE MCBatch -------------------------------
(* Two functions whose jobs go through batches and workers.                  *)
EXTENDS Batch, TLC

CONSTANTS left, leaf

ChainEdges == {<<left, leaf>>}

CallBack == {<<leaf, left>>}
=============================================================================
