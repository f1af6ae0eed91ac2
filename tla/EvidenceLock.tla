----------------------------- MODULE EvidenceLock -----------------------------
(***************************************************************************)
(* What the parts of the program promise each other about the evidence of  *)
(* one binary: a provider request reasons about one fixed state of it.     *)
(* Any number of requests may be open at once, each of them reading; a     *)
(* writer, which changes names, types and decompilation, is alone.         *)
(* While the binary is held neither begins: what is open may end, and then *)
(* it stays quiet until somebody lets the binary go on.                    *)
(***************************************************************************)
CONSTANT Requests

VARIABLES
    readers,        \* the requests that are, or may still be, open
    writing,        \* whether a writer has the evidence
    held            \* whether the binary is paused

vars == <<readers, writing, held>>

Init == readers = {} /\ writing = FALSE /\ held \in BOOLEAN

Enter ==
    /\ ~writing /\ ~held
    /\ readers \subseteq readers' /\ readers' \subseteq Requests
    /\ UNCHANGED <<writing, held>>

\* Requests are answered, or given up by whoever knows that they are dead.  What becomes
\* of one may pause the binary, and never lets it go on.
Leave ==
    /\ readers' \subseteq readers
    /\ held' \in {held, TRUE}
    /\ UNCHANGED writing

Acquire ==
    /\ ~writing /\ ~held
    /\ readers = {}
    /\ writing' = TRUE
    /\ UNCHANGED <<readers, held>>

\* The writer is done, or was lost with its process, which may leave the binary paused.
Release ==
    /\ writing' = FALSE
    /\ held' \in {held, TRUE}
    /\ UNCHANGED readers

\* Somebody pauses the binary, or lets it go on.
Control == held' \in BOOLEAN /\ UNCHANGED <<readers, writing>>

Next == Enter \/ Leave \/ Acquire \/ Release \/ Control

Spec == Init /\ [][Next]_vars

-----------------------------------------------------------------------------
TypeOK == readers \subseteq Requests /\ writing \in BOOLEAN /\ held \in BOOLEAN

Exclusion == writing => readers = {}
=============================================================================
