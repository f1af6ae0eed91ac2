---------------------------- MODULE CallGraphProofs ----------------------------
(***************************************************************************)
(* The closure that READY computes over component ids is the relation the  *)
(* scheduling document describes, on every call graph: a function waits    *)
(* for exactly the functions it reaches and is not reached from.           *)
(***************************************************************************)
EXTENDS CallGraph, FiniteSetTheorems, TLAPS

\* A function reaches the functions it calls.
LEMMA ReachCall ==
    ASSUME NEW V, NEW E, NEW f \in V, NEW g \in V, <<f, g>> \in E
    PROVE  <<f, g>> \in Reach(V, E)
BY DEF Reach, Callees

\* A function reaches what a function it reaches calls.
LEMMA ReachThenCall ==
    ASSUME NEW V, NEW E, NEW f \in V, NEW g \in V, NEW h \in V,
           <<f, g>> \in Reach(V, E), <<g, h>> \in E
    PROVE  <<f, h>> \in Reach(V, E)
<1> DEFINE closed == {C \in SUBSET V : Callees(V, E, C) \subseteq C}
<1>1. SUFFICES ASSUME NEW C \in closed, Callees(V, E, {f}) \subseteq C
               PROVE  h \in C
    BY DEF Reach
<1>2. g \in C
    BY <1>1 DEF Reach
<1>3. h \in Callees(V, E, C)
    BY <1>2 DEF Callees
<1> QED BY <1>1, <1>3

\* Reaching is transitive.
LEMMA ReachTransitive ==
    ASSUME NEW V, NEW E, NEW f \in V, NEW g \in V, NEW h \in V,
           <<f, g>> \in Reach(V, E), <<g, h>> \in Reach(V, E)
    PROVE  <<f, h>> \in Reach(V, E)
<1> DEFINE C == {x \in V : <<f, x>> \in Reach(V, E)}
<1>1. Callees(V, E, C) \subseteq C
    BY ReachThenCall DEF Callees
<1>2. Callees(V, E, {g}) \subseteq C
    BY ReachThenCall DEF Callees
<1>3. h \in C
    BY <1>1, <1>2 DEF Reach
<1> QED BY <1>3

\* Functions of one component reach the same functions and are reached from the same.
LEMMA SameReach ==
    ASSUME NEW V, NEW E, NEW f \in V, NEW g \in V, NEW h \in V,
           <<f, g>> \in SameComponent(V, E)
    PROVE  /\ <<g, f>> \in SameComponent(V, E)
           /\ <<f, h>> \in SameComponent(V, E) <=> <<g, h>> \in SameComponent(V, E)
           /\ <<f, h>> \in Reach(V, E) <=> <<g, h>> \in Reach(V, E)
           /\ <<h, f>> \in Reach(V, E) <=> <<h, g>> \in Reach(V, E)
<1> DEFINE same(x, y) == x = y \/ (<<x, y>> \in Reach(V, E) /\ <<y, x>> \in Reach(V, E))
<1>1. \A x, y \in V : <<x, y>> \in SameComponent(V, E) <=> same(x, y)
    BY DEF SameComponent
<1>2. same(f, g)
    BY <1>1
<1>3. /\ <<f, h>> \in Reach(V, E) <=> <<g, h>> \in Reach(V, E)
      /\ <<h, f>> \in Reach(V, E) <=> <<h, g>> \in Reach(V, E)
    BY <1>2, ReachTransitive
<1>4. same(g, f) /\ (same(f, h) <=> same(g, h))
    BY <1>2, <1>3
<1> HIDE DEF same
<1> QED BY <1>1, <1>3, <1>4

\* READY's query finds exactly the functions strictly downstream, on every call graph.
THEOREM DownstreamIsStrictlyBelow ==
    ASSUME NEW V, NEW E
    PROVE  Downstream(V, E) = StrictlyBelow(V, E)
<1> DEFINE same == SameComponent(V, E)
           reach == Reach(V, E)
           Comp(f) == {g \in V : <<f, g>> \in same}
           Targets(S) == {Comp(g) : g \in Callees(V, E, S)}
           Seeds(f) == Targets(Comp(f)) \ {Comp(f)}
           closed == {D \in SUBSET {Comp(f) : f \in V} : Targets(UNION D) \subseteq D}
           below(f, g) == <<f, g>> \in reach /\ <<g, f>> \notin reach
<1>1. \A f, g \in V : <<f, g>> \in Downstream(V, E)
                        <=> \A D \in closed : Seeds(f) \subseteq D => Comp(g) \in D
    BY DEF Downstream
<1>2. \A f, g \in V : <<f, g>> \in StrictlyBelow(V, E) <=> below(f, g)
    BY DEF StrictlyBelow
<1>3. \A f \in V : f \in Comp(f)
    BY DEF SameComponent
<1>4. \A f, g \in V : g \in Comp(f) => Comp(g) = Comp(f)
    BY SameReach
<1>5. \A f, g, h \in V : h \in Comp(g) => (below(f, g) <=> below(f, h))
    BY SameReach
<1>6. \A f, g \in V : below(f, g) => g \notin Comp(f)
    BY DEF SameComponent
<1>7. ASSUME NEW f \in V, NEW g \in V, <<f, g>> \in Downstream(V, E)
      PROVE  below(f, g)
  <2> DEFINE D == {Comp(x) : x \in {y \in V : below(f, y)}}
  <2>1. \A x \in UNION D : x \in V /\ below(f, x)
    <3>1. SUFFICES ASSUME NEW x \in UNION D PROVE x \in V /\ below(f, x)
        OBVIOUS
    <3>2. PICK y \in V : below(f, y) /\ x \in Comp(y)
        OBVIOUS
    <3> QED BY <3>2, <1>5
  <2>2. ASSUME NEW y \in Callees(V, E, UNION D) PROVE Comp(y) \in D
    <3>1. PICK x \in UNION D : <<x, y>> \in E /\ y \in V
        BY DEF Callees
    <3>2. below(f, x) /\ x \in V
        BY <2>1
    <3>3. <<f, y>> \in reach
        BY <3>1, <3>2, ReachThenCall
    <3>4. <<y, f>> \notin reach
        BY <3>1, <3>2, ReachCall, ReachTransitive
    <3> QED BY <3>1, <3>3, <3>4
  <2>3. D \in closed
      BY <2>2
  <2>4. ASSUME NEW y \in Callees(V, E, Comp(f)), Comp(y) # Comp(f) PROVE Comp(y) \in D
    <3>1. PICK x \in Comp(f) : <<x, y>> \in E /\ y \in V
        BY DEF Callees
    <3>2. <<f, y>> \in reach
        BY <3>1, SameReach, ReachCall
    <3>3. <<y, f>> \notin reach
      <4>1. SUFFICES ASSUME <<y, f>> \in reach PROVE y \in Comp(f)
          BY <1>4, <2>4, <3>1
      <4> QED BY <3>1, <3>2, <4>1 DEF SameComponent
    <3> QED BY <3>1, <3>2, <3>3
  <2>5. Seeds(f) \subseteq D
      BY <2>4
  <2>6. Comp(g) \in D
      BY <1>1, <1>7, <2>3, <2>5
  <2>7. PICK x \in V : below(f, x) /\ Comp(g) = Comp(x)
      BY <2>6
  <2> QED BY <2>7, <1>3, <1>5
<1>8. ASSUME NEW f \in V, NEW g \in V, below(f, g),
             NEW D \in closed, Seeds(f) \subseteq D
      PROVE  Comp(g) \in D
  <2> DEFINE C == Comp(f) \cup UNION D
  <2>1. C \in SUBSET V
      OBVIOUS
  <2>2. ASSUME NEW y \in Callees(V, E, C) PROVE y \in C
    <3>1. y \in Callees(V, E, Comp(f)) \/ y \in Callees(V, E, UNION D)
        BY DEF Callees
    <3>2. Comp(y) = Comp(f) \/ Comp(y) \in D
        BY <3>1, <1>8
    <3>3. y \in V
        BY DEF Callees
    <3> QED BY <3>2, <3>3, <1>3
  <2>3. Callees(V, E, {f}) \subseteq C
      BY <2>2, <1>3 DEF Callees
  <2>4. g \in C
      BY <2>1, <2>2, <2>3, <1>8 DEF Reach
  <2>5. g \notin Comp(f)
      BY <1>6, <1>8
  <2>6. PICK x \in V : Comp(x) \in D /\ g \in Comp(x)
      BY <2>4, <2>5
  <2> QED BY <2>6, <1>4
<1>9. \A f, g \in V : <<f, g>> \in Downstream(V, E) <=> <<f, g>> \in StrictlyBelow(V, E)
  <2> HIDE DEF below, closed, Comp, Seeds
  <2> QED BY <1>1, <1>2, <1>7, <1>8
<1>10. Downstream(V, E) \subseteq V \X V /\ StrictlyBelow(V, E) \subseteq V \X V
    BY DEF Downstream, StrictlyBelow, Reach
<1> QED BY <1>9, <1>10
-----------------------------------------------------------------------------
(***************************************************************************)
(* The order below a function has no infinite descent on a finite graph.   *)
(* The library proves that the subsets of a finite set are well founded,   *)
(* and a well-founded order has minimal elements: with the right family of *)
(* subsets this replaces an induction.                                     *)
(***************************************************************************)

\* A strict order on a finite set that is not empty has a last element.
LEMMA LastElement ==
    ASSUME NEW S, IsFiniteSet(S), S # {}, NEW R,
           \A x \in S : <<x, x>> \notin R,
           \A x, y, z \in S : <<x, y>> \in R /\ <<y, z>> \in R => <<x, z>> \in R
    PROVE  \E x \in S : \A y \in S : <<x, y>> \notin R
<1> DEFINE after(x) == {y \in S : <<x, y>> \in R}
           T == {after(x) : x \in S}
<1>1. IsWellFoundedOn(StrictSubsetOrdering(S), SUBSET S)
    BY FS_StrictSubsetOrderingWellFounded, FS_FiniteSubsetsOfFinite
<1>2. T \subseteq SUBSET S /\ T # {}
    <2>1. \A x \in S : after(x) \in SUBSET S /\ after(x) \in T
        OBVIOUS
    <2> QED BY <2>1
<1>3. \E A \in T : \A B \in T : ~ (<<B, A>> \in StrictSubsetOrdering(S))
  <2> HIDE DEF T
  <2> QED BY <1>1, <1>2, WFMin
<1>4. PICK x \in S : \A y \in S : ~ (<<after(y), after(x)>> \in StrictSubsetOrdering(S))
  <2> HIDE DEF after
  <2> QED BY <1>3
<1>5. ASSUME NEW y \in S, <<x, y>> \in R PROVE FALSE
    <2>1. after(y) \subseteq after(x)
        BY <1>5
    <2>2. y \in after(x) /\ y \notin after(y)
        BY <1>5
    <2> QED BY <1>4, <2>1, <2>2 DEF StrictSubsetOrdering
<1> QED BY <1>5

\* A finite set of naturals that is not empty has a greatest element.
LEMMA GreatestElement ==
    ASSUME NEW S \in SUBSET Nat, IsFiniteSet(S), S # {}
    PROVE  \E m \in S : \A n \in S : m >= n
<1> DEFINE R == {p \in S \X S : p[1] < p[2]}
<1>1. \A x, y \in S : <<x, y>> \in R <=> x < y
    OBVIOUS
<1>2. \A x \in S : x \in Nat
    OBVIOUS
<1> HIDE DEF R
<1>3. /\ \A x \in S : <<x, x>> \notin R
      /\ \A x, y, z \in S : <<x, y>> \in R /\ <<y, z>> \in R => <<x, z>> \in R
    BY <1>1, <1>2
<1>4. PICK m \in S : \A n \in S : <<m, n>> \notin R
    BY <1>3, LastElement
<1>5. ASSUME NEW n \in S PROVE m >= n
    <2>1. m \in Nat /\ n \in Nat /\ ~(m < n)
        BY <1>1, <1>2, <1>4
    <2> QED BY <2>1
<1> QED BY <1>5

\* What is strictly below what is strictly below is so itself, and nothing is below itself.
LEMMA BelowIsOrder ==
    ASSUME NEW V, NEW E
    PROVE  /\ \A f \in V : <<f, f>> \notin StrictlyBelow(V, E)
           /\ \A f, g, h \in V :
                <<f, g>> \in StrictlyBelow(V, E) /\ <<g, h>> \in StrictlyBelow(V, E)
                    => <<f, h>> \in StrictlyBelow(V, E)
BY ReachTransitive DEF StrictlyBelow

\* Among some functions of a finite binary there is one with none of the others
\* strictly below it.
LEMMA LowestFunction ==
    ASSUME NEW V, NEW E, IsFiniteSet(V), NEW S \in SUBSET V, S # {}
    PROVE  \E f \in S : \A g \in S : <<f, g>> \notin StrictlyBelow(V, E)
<1>1. IsFiniteSet(S)
    BY FS_Subset
<1> QED BY <1>1, BelowIsOrder, LastElement
=============================================================================
