----------------------------- MODULE MCRecording -----------------------------
(***************************************************************************)
(* One binary and two recordings of it: the second one is there for the    *)
(* rule that one recording is active at a time, and for the recorder that  *)
(* an earlier server has left behind.                                      *)
(***************************************************************************)
EXTENDS Recording
=============================================================================
