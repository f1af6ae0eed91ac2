----------------------------- MODULE MCRecovery -----------------------------
(* One function, whose result may be assessed, written, tried with another   *)
(* prototype and asked for again; any act of the operator at any await.      *)
EXTENDS Recovery

AllActs == {"pause", "all", "retry", "scope", "review", "correct"}
=============================================================================
