---------------------------- MODULE CallRanksProofs ----------------------------
(***************************************************************************)
(* The ranks that dependency_ranks computes are the depths of the          *)
(* components above the leaves, for every binary and every order in which  *)
(* kosaraju_scc may list the components.                                   *)
(***************************************************************************)
EXTENDS CallRanks, CallGraphProofs

RankTypes ==
    /\ edges \subseteq Functions \X Functions
    /\ Ranked \subseteq Functions
    /\ rank \in [Ranked -> Nat]

\* What a ranked function calls is ranked.
RankedIsClosed == \A f \in Ranked : \A g \in Functions : <<f, g>> \in edges => g \in Ranked

RanksInv == RankTypes /\ RankedIsClosed /\ RanksAreDepths

-----------------------------------------------------------------------------
\* What a ranked function reaches is ranked.
LEMMA ReachedIsRanked ==
    ASSUME RankTypes, RankedIsClosed, NEW f \in Ranked, NEW g \in Functions,
           <<f, g>> \in Reach(Functions, edges)
    PROVE  g \in Ranked
<1>1. Ranked \in SUBSET Functions
    BY DEF RankTypes
<1>2. Callees(Functions, edges, Ranked) \subseteq Ranked
    BY DEF RankedIsClosed, Callees
<1>3. Callees(Functions, edges, {f}) \subseteq Ranked
    BY DEF RankedIsClosed, Callees
<1> QED BY <1>1, <1>2, <1>3 DEF Reach

\* A function outside a component that its members reach is a callee of the component or
\* below one: a call leads out of the component on the way.
LEMMA WayOut ==
    ASSUME NEW V, NEW E, NEW c \in SUBSET V, NEW f \in c, NEW g \in V \ c,
           <<f, g>> \in Reach(V, E)
    PROVE  \E h \in Callees(V, E, c) \ c : h = g \/ <<h, g>> \in Reach(V, E)
<1> DEFINE out == Callees(V, E, c) \ c
           C == c \cup {x \in V : \E h \in out : h = x \/ <<h, x>> \in Reach(V, E)}
<1>1. out \subseteq V
    BY DEF Callees
<1>2. ASSUME NEW y \in V, NEW x \in C, <<x, y>> \in E PROVE y \in C
    <2>1. CASE x \in c
      <3>1. y \in Callees(V, E, c)
          BY <1>2, <2>1 DEF Callees
      <3> QED BY <3>1, <1>2
    <2>2. ASSUME NEW h \in out, h = x \/ <<h, x>> \in Reach(V, E) PROVE y \in C
      <3>1. <<h, y>> \in Reach(V, E)
          BY <1>1, <1>2, <2>2, ReachCall, ReachThenCall
      <3> QED BY <1>2, <3>1
    <2> QED BY <1>2, <2>1, <2>2
<1>3. C \in SUBSET V
    OBVIOUS
<1>4. Callees(V, E, C) \subseteq C
    BY <1>2 DEF Callees
<1>5. Callees(V, E, {f}) \subseteq C
    BY <1>2 DEF Callees
<1> HIDE DEF C
<1>6. g \in C
    BY <1>3, <1>4, <1>5 DEF Reach
<1> QED BY <1>6 DEF C

\* The depth of a component is a natural number, one above a deepest ranked callee.
LEMMA DepthIs ==
    ASSUME RankTypes, NEW c
    PROVE  LET callees == Callees(Functions, edges, c) \cap Ranked
           IN  /\ Depth(c) \in Nat
               /\ \A g \in callees : Depth(c) > rank[g]
               /\ Depth(c) > 0 => \E g \in callees : rank[g] = Depth(c) - 1
<1> DEFINE callees == Callees(Functions, edges, c) \cap Ranked
           below == {rank[g] : g \in callees}
<1>1. IsFiniteSet(callees)
    BY FS_Subset, RankAssumption DEF Callees
<1>2. IsFiniteSet(below)
    <2>1. [g \in callees |-> rank[g]] \in Surjection(callees, below)
        BY DEF Surjection
    <2> HIDE DEF callees, below
    <2> QED BY <1>1, <2>1, FS_Surjection
<1>3. below \in SUBSET Nat
    BY DEF RankTypes
<1>4. Depth(c) = IF below = {} THEN 0 ELSE Max(below) + 1
    BY DEF Depth
<1>5. CASE callees = {}
    <2>1. Depth(c) = 0
        BY <1>4, <1>5
    <2> QED BY <1>5, <2>1
<1>6. CASE callees # {}
    <2>1. below # {}
        BY <1>6
    <2>2. \E m \in below : \A n \in below : m >= n
      <3> HIDE DEF below
      <3> QED BY <1>2, <1>3, <2>1, GreatestElement
    <2>3. Max(below) \in below /\ \A n \in below : Max(below) >= n
      <3> HIDE DEF below
      <3> QED BY <2>2 DEF Max
    <2>4. Max(below) \in Nat
        BY <1>3, <2>3
    <2>5. Depth(c) = Max(below) + 1
        BY <1>4, <2>1
    <2>6. PICK g \in callees : rank[g] = Max(below)
        BY <2>3
    <2>7. \A h \in callees : rank[h] \in Nat /\ Max(below) >= rank[h]
        BY <1>3, <2>3
    <2> HIDE DEF below
    <2>8. Depth(c) - 1 = rank[g]
        BY <2>4, <2>5, <2>6
    <2> QED BY <2>4, <2>5, <2>6, <2>7, <2>8
<1> QED BY <1>5, <1>6

-----------------------------------------------------------------------------
\* A step ranks the component of one function, none of whose members was ranked.
LEMMA RankStep ==
    ASSUME RanksInv, NEW f0 \in Functions, NEW c, c = Component(Functions, edges, f0),
           Rank(c)
    PROVE  RanksInv'
<1> DEFINE reach == Reach(Functions, edges)
           same == SameComponent(Functions, edges)
           below == StrictlyBelow(Functions, edges)
<1>1. /\ c \subseteq Functions /\ c \cap Ranked = {}
      /\ Callees(Functions, edges, c) \subseteq c \cup Ranked
      /\ rank' = [f \in Ranked \cup c |-> IF f \in c THEN Depth(c) ELSE rank[f]]
      /\ edges' = edges
    BY DEF Rank, Listed, Component
<1>2. /\ edges \subseteq Functions \X Functions
      /\ Ranked \subseteq Functions
      /\ rank \in [Ranked -> Nat]
      /\ Depth(c) \in Nat
    BY DepthIs DEF RanksInv, RankTypes
<1>3. Ranked' = Ranked \cup c
    BY <1>1 DEF Ranked
<1>4. /\ \A f \in Ranked : rank'[f] = rank[f]
      /\ \A f \in c : rank'[f] = Depth(c)
    BY <1>1
<1>5. /\ \A f, g \in c : <<f, g>> \in same
      /\ \A f \in c : \A g \in Functions : <<f, g>> \in same => g \in c
    BY SameReach DEF Component
<1>6. \A f, g \in Functions :
        /\ <<f, g>> \in below <=> <<f, g>> \in reach /\ <<g, f>> \notin reach
        /\ <<f, g>> \in same <=> f = g \/ (<<f, g>> \in reach /\ <<g, f>> \in reach)
  <2>1. \A f, g \in Functions : <<f, g>> \in below <=> <<f, g>> \in reach /\ <<g, f>> \notin reach
      BY DEF StrictlyBelow
  <2>2. \A f, g \in Functions : <<f, g>> \in same
                                    <=> f = g \/ (<<f, g>> \in reach /\ <<g, f>> \in reach)
      BY DEF SameComponent
  <2> QED BY <2>1, <2>2
<1>7. \A f \in Ranked : \A g \in Functions : <<f, g>> \in reach => g \in Ranked
    BY ReachedIsRanked DEF RanksInv
<1>8. RankTypes'
    BY <1>1, <1>2, <1>3 DEF RankTypes
<1>9. RankedIsClosed'
  <2>1. \A f \in c : \A g \in Functions : <<f, g>> \in edges => g \in c \cup Ranked
      BY <1>1 DEF Callees
  <2> QED BY <2>1, <1>1, <1>3 DEF RankedIsClosed, RanksInv
<1> HIDE DEF reach, same, below
<1>10. \A f, g \in Ranked : /\ <<f, g>> \in below => rank[f] > rank[g]
                            /\ <<f, g>> \in same => rank[f] = rank[g]
    BY DEF RanksInv, RanksAreDepths, below, same
<1>11. ASSUME NEW f \in Ranked', NEW g \in Ranked', <<f, g>> \in below PROVE rank'[f] > rank'[g]
  <2>1. <<f, g>> \in reach /\ <<g, f>> \notin reach /\ f \in Functions /\ g \in Functions
      BY <1>1, <1>2, <1>3, <1>6, <1>11
  <2>2. CASE f \in Ranked
      BY <2>1, <2>2, <1>4, <1>7, <1>10, <1>11
  <2>3. CASE f \in c
    <3>1. g \in Ranked
        BY <1>3, <1>5, <1>6, <2>1, <2>3
    <3>2. PICK h \in Callees(Functions, edges, c) \ c : h = g \/ <<h, g>> \in reach
        BY <1>1, <2>1, <2>3, <3>1, WayOut DEF reach
    <3>3. h \in Ranked /\ h \in Functions
        BY <1>1, <1>2
    <3>4. rank[h] \in Nat /\ rank[g] \in Nat /\ Depth(c) > rank[h]
        BY <1>1, <1>2, <3>1, <3>3, DepthIs DEF RanksInv
    <3>5. rank[h] = rank[g] \/ rank[h] > rank[g]
        BY <1>6, <1>10, <2>1, <3>1, <3>2, <3>3
    <3>6. Depth(c) > rank[g]
        BY <1>2, <3>4, <3>5
    <3> QED BY <1>4, <2>3, <3>1, <3>6
  <2> QED BY <1>3, <2>2, <2>3
<1>12. ASSUME NEW f \in Ranked', NEW g \in Ranked', <<f, g>> \in same PROVE rank'[f] = rank'[g]
  <2>1. f \in Functions /\ g \in Functions /\ <<g, f>> \in same
      BY <1>1, <1>2, <1>3, <1>6, <1>12
  <2>2. f \in c <=> g \in c
      BY <1>5, <1>12, <2>1
  <2> QED BY <1>3, <1>4, <1>10, <1>12, <2>2
<1>13. ASSUME NEW f \in Ranked', rank'[f] > 0
       PROVE  \E g \in Ranked' : <<f, g>> \in below /\ rank'[g] = rank'[f] - 1
  <2>1. CASE f \in Ranked
    <3>1. PICK g \in Ranked : <<f, g>> \in below /\ rank[g] = rank[f] - 1
        BY <1>4, <1>13, <2>1 DEF RanksInv, RanksAreDepths, below
    <3> QED BY <1>3, <1>4, <2>1, <3>1
  <2>2. CASE f \in c
    <3>1. PICK g \in Callees(Functions, edges, c) \cap Ranked : rank[g] = Depth(c) - 1
        BY <1>4, <1>13, <2>2, DepthIs DEF RanksInv
    <3>2. PICK e \in c : <<e, g>> \in edges
        BY DEF Callees
    <3>3. e \in Functions /\ g \in Functions /\ f \in Functions
        BY <1>1, <1>2, <2>2
    <3>4. <<e, g>> \in reach
        BY <3>2, <3>3, ReachCall DEF reach
    <3>5. <<f, g>> \in reach
        BY <1>5, <2>2, <3>3, <3>4, SameReach DEF reach, same
    <3>6. <<g, f>> \notin reach
        BY <1>1, <1>7, <2>2, <3>3
    <3> QED BY <1>3, <1>4, <1>6, <2>2, <3>1, <3>3, <3>5, <3>6
  <2> QED BY <1>3, <2>1, <2>2
<1>14. (below = StrictlyBelow(Functions, edges'))  /\ (same = SameComponent(Functions, edges'))
    BY <1>1 DEF below, same
<1>15. RanksAreDepths'
    BY <1>11, <1>12, <1>13, <1>14 DEF RanksAreDepths
<1> QED BY <1>8, <1>9, <1>15 DEF RanksInv

\* Every step of dependency_ranks leaves the map right as far as it goes.
LEMMA RanksAlways == Spec => []RanksInv
<1>1. Init => RanksInv
  <2> SUFFICES ASSUME Init PROVE RanksInv
      OBVIOUS
  <2>1. Ranked = {} /\ rank \in [{} -> Nat]
      BY DEF Init, Ranked
  <2>2. edges \subseteq Functions \X Functions
      BY DEF Init, Calls
  <2> QED BY <2>1, <2>2 DEF RanksInv, RankTypes, RankedIsClosed, RanksAreDepths
<1>2. RanksInv /\ [Next]_vars => RanksInv'
  <2> SUFFICES ASSUME RanksInv, [Next]_vars PROVE RanksInv'
      OBVIOUS
  <2>1. CASE Next
    <3>1. PICK f0 \in Functions : Rank(Component(Functions, edges, f0))
        BY <2>1 DEF Next, Component
    <3> QED BY <3>1, RankStep
  <2>2. CASE UNCHANGED vars
      BY <2>2 DEF vars, RanksInv, RankTypes, RankedIsClosed, RanksAreDepths, Ranked
  <2> QED BY <2>1, <2>2
<1> QED BY <1>1, <1>2, PTL DEF Spec

\* However far the ranking has come and in whatever order the components were listed, what
\* is ranked has its depth above the leaves (graph::dependency_ranks).
THEOREM RanksAreTrue == Spec => []RanksAreDepths
<1>1. RanksInv => RanksAreDepths
    BY DEF RanksInv
<1> QED BY <1>1, RanksAlways, PTL

-----------------------------------------------------------------------------
\* r gives every function its depth above the leaves.
AreDepths(V, E, r) ==
    \A f \in V :
        /\ \A g \in V : <<f, g>> \in StrictlyBelow(V, E) => r[f] > r[g]
        /\ r[f] > 0 => \E g \in V : <<f, g>> \in StrictlyBelow(V, E) /\ r[g] = r[f] - 1

\* There is one such map at most: where two differ, they differ at a lowest function.
LEMMA DepthsAgree ==
    ASSUME NEW V, NEW E, IsFiniteSet(V), NEW r \in [V -> Nat], NEW s \in [V -> Nat],
           AreDepths(V, E, r), AreDepths(V, E, s)
    PROVE  r = s
<1> DEFINE S == {f \in V : r[f] # s[f]}
<1>1. SUFFICES ASSUME S # {} PROVE FALSE
    OBVIOUS
<1>2. PICK f \in S : \A g \in S : <<f, g>> \notin StrictlyBelow(V, E)
  <2>1. S \in SUBSET V
      OBVIOUS
  <2> HIDE DEF S
  <2> QED BY <1>1, <2>1, LowestFunction
<1>3. \A g \in V : <<f, g>> \in StrictlyBelow(V, E) => r[g] = s[g]
    BY <1>2
<1>4. /\ f \in V /\ r[f] # s[f]
      /\ \A g \in V : r[g] \in Nat /\ s[g] \in Nat
    OBVIOUS
<1>5. CASE r[f] > s[f]
  <2>1. f \in V /\ r[f] > 0
      BY <1>4, <1>5
  <2>2. PICK g \in V : <<f, g>> \in StrictlyBelow(V, E) /\ r[g] = r[f] - 1
      BY <2>1 DEF AreDepths
  <2>3. s[f] > s[g]
      BY <2>1, <2>2 DEF AreDepths
  <2>4. /\ r[g] = s[g]
        /\ r[f] \in Nat /\ s[f] \in Nat /\ r[g] \in Nat
      BY <1>3, <1>4, <2>1, <2>2
  <2> QED BY <1>5, <2>2, <2>3, <2>4
<1>6. CASE s[f] > r[f]
  <2>1. f \in V /\ s[f] > 0
      BY <1>4, <1>6
  <2>2. PICK g \in V : <<f, g>> \in StrictlyBelow(V, E) /\ s[g] = s[f] - 1
      BY <2>1 DEF AreDepths
  <2>3. r[f] > r[g]
      BY <2>1, <2>2 DEF AreDepths
  <2>4. /\ r[g] = s[g]
        /\ r[f] \in Nat /\ s[f] \in Nat /\ r[g] \in Nat
      BY <1>3, <1>4, <2>1, <2>2
  <2> QED BY <1>6, <2>2, <2>3, <2>4
<1> QED BY <1>4, <1>5, <1>6

\* The ranks do not depend on the order in which kosaraju_scc lists the components: once
\* all functions are ranked, there is no other way to give every function its depth.
THEOREM RanksAreUnique ==
    Spec => [](Ranked = Functions
                => \A r \in [Functions -> Nat] : AreDepths(Functions, edges, r) => rank = r)
<1>1. ASSUME RanksInv, Ranked = Functions, NEW r \in [Functions -> Nat],
             AreDepths(Functions, edges, r)
      PROVE  rank = r
  <2>1. rank \in [Functions -> Nat]
      BY <1>1 DEF RanksInv, RankTypes
  <2>2. AreDepths(Functions, edges, rank)
      BY <1>1 DEF RanksInv, RanksAreDepths, AreDepths
  <2> QED BY <1>1, <2>1, <2>2, DepthsAgree, RankAssumption
<1>2. RanksInv => (Ranked = Functions
                => \A r \in [Functions -> Nat] : AreDepths(Functions, edges, r) => rank = r)
    BY <1>1
<1> QED BY <1>2, RanksAlways, PTL
=============================================================================
