------------------------------ MODULE CallRanks ------------------------------
(***************************************************************************)
(* graph::dependency_ranks, which gives every function the depth of its    *)
(* component above the leaves; ghidra::import_export stores its negation   *)
(* as the job's priority.  The order in which petgraph's kosaraju_scc      *)
(* lists the components is external: all that the code relies on is that   *)
(* callees come before callers, so a step takes any component all of whose *)
(* other callees have been taken.                                          *)
(***************************************************************************)
EXTENDS CallGraph, Integers, FiniteSets, FiniteSetsExt

CONSTANTS
    Functions,      \* the functions of the binary
    SelfCalls       \* whether graphs with self calls are examined too

ASSUME RankAssumption ==
    /\ IsFiniteSet(Functions)
    /\ SelfCalls \in BOOLEAN

VARIABLES
    edges,          \* the call edges, fixed during the computation
    rank            \* the map built so far, on the functions already ranked

vars == <<edges, rank>>

Calls == {e \in Functions \X Functions : SelfCalls \/ e[1] # e[2]}

Ranked == DOMAIN rank

Init == edges \in SUBSET Calls /\ rank = <<>>

\* kosaraju_scc may list component c next.
Listed(c) ==
    /\ c \cap Ranked = {}
    /\ Callees(Functions, edges, c) \subseteq c \cup Ranked

\* Mutant: the place in the list.
DepthByPlace(c) == Cardinality(Ranked)

\* One more than the deepest ranked callee, and 0 without one.
Depth(c) ==
    LET below == {rank[g] : g \in Callees(Functions, edges, c) \cap Ranked}
    IN  IF below = {} THEN 0 ELSE Max(below) + 1

Rank(c) ==
    /\ Listed(c)
    /\ rank' = [f \in Ranked \cup c |-> IF f \in c THEN Depth(c) ELSE rank[f]]
    /\ UNCHANGED edges

Next == LET same == SameComponent(Functions, edges)
            Comp(f) == {g \in Functions : <<f, g>> \in same}
        IN  \E c \in {Comp(f) : f \in Functions} : Rank(c)

Spec == Init /\ [][Next]_vars

-----------------------------------------------------------------------------
\* The priority order never contradicts the dependency barrier: a caller ranks
\* strictly above everything it depends on, and the members of a recursive
\* component rank equal.  Ranks carry no gap either: a function of rank r > 0
\* depends on one of rank r - 1, so a rank is the number of barriers below the
\* function and does not depend on the order kosaraju_scc happened to choose.
RanksAreDepths ==
    LET below == StrictlyBelow(Functions, edges)
        same == SameComponent(Functions, edges)
    IN  \A f \in Ranked :
            /\ \A g \in Ranked : /\ <<f, g>> \in below => rank[f] > rank[g]
                                 /\ <<f, g>> \in same => rank[f] = rank[g]
            /\ rank[f] > 0 =>
                \E g \in Ranked : <<f, g>> \in below /\ rank[g] = rank[f] - 1

=============================================================================
