------------------------------ MODULE MCDesktop ------------------------------
(* One operation, tried again and again; two desktops, of which the second    *)
(* may find what the first has left.                                          *)
EXTENDS Desktop
=============================================================================
