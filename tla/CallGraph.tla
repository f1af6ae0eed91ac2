------------------------------ MODULE CallGraph ------------------------------
(***************************************************************************)
(* The call graph of one binary as graph.rs and the READY predicate of     *)
(* pipeline.rs see it.  A call edge <<f, g>> points from caller f to       *)
(* callee g.  petgraph's kosaraju_scc partitions the functions into        *)
(* strongly connected components; graph::rebuild stores a component id     *)
(* with every function, and READY closes over those ids to find the        *)
(* functions a job waits for.                                              *)
(*                                                                         *)
(* A closure is the intersection of the sets closed under a step, so that  *)
(* no operator here is recursive and every module may be reasoned about    *)
(* with TLAPS.  Relations are sets of pairs.                               *)
(***************************************************************************)

\* The functions called from inside S.
Callees(V, E, S) == {g \in V : \E f \in S : <<f, g>> \in E}

\* f reaches g along one call or more.
Reach(V, E) ==
    LET closed == {C \in SUBSET V : Callees(V, E, C) \subseteq C}
    IN  {p \in V \X V :
            \A C \in closed : Callees(V, E, {p[1]}) \subseteq C => p[2] \in C}

\* f and g are mutually recursive, or the same function.
SameComponent(V, E) ==
    LET reach == Reach(V, E)
    IN  {p \in V \X V : p[1] = p[2] \/ {p, <<p[2], p[1]>>} \subseteq reach}

\* The code names a component by its least member; here the set is the name.
Component(V, E, f) == {g \in V : <<f, g>> \in SameComponent(V, E)}

\* Mutant: the query starts from the component itself.
DownstreamWithOwn(V, E) == Reach(V, E)

\* READY's recursive query: start from the components called from f's
\* component, itself excluded, and follow the calls of every member found; f
\* with each member of a component in the closure.
Downstream(V, E) ==
    LET same == SameComponent(V, E)
        Comp(f) == {g \in V : <<f, g>> \in same}
        Targets(S) == {Comp(g) : g \in Callees(V, E, S)}
        Seeds(f) == Targets(Comp(f)) \ {Comp(f)}
        closed == {D \in SUBSET {Comp(f) : f \in V} : Targets(UNION D) \subseteq D}
    IN  {p \in V \X V :
            \A D \in closed : Seeds(p[1]) \subseteq D => Comp(p[2]) \in D}

-----------------------------------------------------------------------------
\* The meaning the scheduling document gives that query: what f reaches and is
\* not reached from.
StrictlyBelow(V, E) ==
    LET reach == Reach(V, E)
    IN  {p \in reach : <<p[2], p[1]>> \notin reach}
=============================================================================
