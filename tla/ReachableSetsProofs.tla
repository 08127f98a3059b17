------------------------- MODULE ReachableSetsProofs -------------------------
(* Facts about Reach and SCC, and about the counters of the ranks, that    *)
(* the proofs about the searches and the trims cite.                       *)
EXTENDS ReachableSets, FiniteSetsExt, FiniteSetTheorems, WellFoundedInduction,
        TLAPS

\* A vertex reaches itself (the pivot is reached before any edge is followed).
LEMMA ReachSelf ==
  ASSUME NEW E, NEW u \in Vertices
  PROVE  u \in Reach(E, u)
BY DEF Reach

\* One more edge: what a drained vertex's neighbours inherit.
LEMMA ReachStep ==
  ASSUME NEW E, NEW u \in Vertices, NEW v \in Reach(E, u),
         NEW w \in Vertices, <<v, w>> \in E
  PROVE  w \in Reach(E, u)
<1>1. ASSUME NEW C \in SUBSET Vertices, u \in C, IsClosed(E, C)
      PROVE  w \in C
  <2>1. v \in C /\ v \in Vertices
    BY <1>1 DEF Reach
  <2> QED BY <2>1, <1>1 DEF IsClosed
<1> QED BY <1>1 DEF Reach

\* A closed set that contains a vertex contains all it reaches.
LEMMA ReachInClosed ==
  ASSUME NEW E, NEW u \in Vertices, NEW C \in SUBSET Vertices,
         u \in C, IsClosed(E, C)
  PROVE  Reach(E, u) \subseteq C
BY DEF Reach

\* Reachability is transitive.
LEMMA ReachTransitive ==
  ASSUME NEW E, NEW u \in Vertices, NEW v \in Reach(E, u)
  PROVE  Reach(E, v) \subseteq Reach(E, u)
<1>1. v \in Vertices /\ Reach(E, u) \in SUBSET Vertices
  BY DEF Reach
<1>2. IsClosed(E, Reach(E, u))
  BY <1>1, ReachStep DEF IsClosed
<1> QED BY <1>1, <1>2, ReachInClosed

\* The vertices that do not reach r form a closed set.
LEMMA NotReachingClosed ==
  ASSUME NEW E, NEW r \in Vertices
  PROVE  IsClosed(E, {x \in Vertices : r \notin Reach(E, x)})
<1> SUFFICES ASSUME NEW x \in Vertices, NEW y \in Vertices,
                    r \notin Reach(E, x), <<x, y>> \in E
             PROVE  r \notin Reach(E, y)
  BY DEF IsClosed
<1>1. y \in Reach(E, x)
  BY ReachSelf, ReachStep
<1> QED BY <1>1, ReachTransitive

\* SCC is an equivalence: membership is symmetric and components coincide.
LEMMA SccClass ==
  ASSUME NEW E, NEW u \in Vertices, NEW v \in SCC(E, u)
  PROVE  /\ v \in Vertices
         /\ u \in SCC(E, v)
         /\ SCC(E, v) = SCC(E, u)
<1>1. v \in Vertices /\ v \in Reach(E, u) /\ u \in Reach(E, v)
  BY DEF SCC, Reach
<1>2. Reach(E, u) = Reach(E, v)
  BY <1>1, ReachTransitive
<1>3. \A w \in Reach(E, u) : w \in Vertices /\ (u \in Reach(E, w) <=> v \in Reach(E, w))
  BY <1>1, ReachTransitive DEF Reach
<1> QED BY <1>1, <1>2, <1>3 DEF SCC

\* Every vertex is in its own component.
LEMMA SccSelf ==
  ASSUME NEW E, NEW u \in Vertices
  PROVE  u \in SCC(E, u)
BY ReachSelf DEF SCC

\* A vertex is reached from another one over an edge into it.
LEMMA LastEdge ==
  ASSUME NEW E, NEW w \in Vertices, NEW u \in Reach(E, w), u # w
  PROVE  \E x \in Reach(E, w) : <<x, u>> \in E
<1> SUFFICES ASSUME \A x \in Reach(E, w) : <<x, u>> \notin E PROVE FALSE
  OBVIOUS
<1> DEFINE C == Reach(E, w) \ {u}
<1>1. C \in SUBSET Vertices /\ w \in C
  BY ReachSelf DEF Reach
<1>2. ASSUME NEW x \in Vertices, NEW y \in Vertices, x \in C, <<x, y>> \in E
      PROVE  y \in C
  BY <1>2, ReachStep
<1>3. IsClosed(E, C)
  BY <1>2 DEF IsClosed
<1>4. Reach(E, w) \subseteq C
  BY <1>1, <1>3, ReachInClosed
<1> QED BY <1>4

\* A vertex reaches another one over an edge out of it.
LEMMA FirstEdge ==
  ASSUME NEW E, NEW u \in Vertices, NEW w \in Reach(E, u), w # u
  PROVE  \E x \in Vertices : <<u, x>> \in E /\ w \in Reach(E, x)
<1> SUFFICES ASSUME \A x \in Vertices : <<u, x>> \in E => w \notin Reach(E, x)
             PROVE  FALSE
  OBVIOUS
<1> DEFINE Missing == {x \in Vertices : w \notin Reach(E, x)}
           C == Missing \cup {u}
<1>1. w \in Vertices
  BY DEF Reach
<1>2. IsClosed(E, Missing)
  BY <1>1, NotReachingClosed
<1>3. IsClosed(E, C)
  BY <1>2 DEF IsClosed
<1>4. Reach(E, u) \subseteq C
  BY <1>3, ReachInClosed
<1> QED BY <1>1, <1>4, ReachSelf

\* What a trim decides: if S holds the whole component of u, and all that
\* precede u, or all that succeed it, are outside S, then u is alone.
LEMMA TrimmedAlone ==
  ASSUME NEW E, NEW S \in SUBSET Vertices, NEW u \in S, SCC(E, u) \subseteq S,
         Pred(E, u) \cap S = {} \/ Succ(E, u) \cap S = {}
  PROVE  SCC(E, u) = {u}
<1>1. u \in SCC(E, u)
  BY SccSelf
<1> SUFFICES ASSUME NEW w \in SCC(E, u), w # u PROVE FALSE
  BY <1>1
<1>2. w \in Vertices /\ w \in Reach(E, u) /\ u \in Reach(E, w)
  BY DEF SCC, Reach
<1>3. Reach(E, u) = Reach(E, w)
  BY <1>2, ReachTransitive
<1>4. CASE Pred(E, u) \cap S = {}
  <2>1. PICK x \in Reach(E, w) : <<x, u>> \in E
    BY <1>2, LastEdge
  <2>2. x \in Vertices /\ u \in Reach(E, x) /\ x \in Reach(E, u)
    BY <1>3, <2>1, ReachSelf, ReachStep DEF Reach
  <2> QED BY <1>4, <2>1, <2>2 DEF SCC, Pred
<1>5. CASE Succ(E, u) \cap S = {}
  <2>1. PICK x \in Vertices : <<u, x>> \in E /\ w \in Reach(E, x)
    BY <1>2, FirstEdge
  <2>2. x \in Reach(E, u) /\ u \in Reach(E, x)
    BY <1>2, <2>1, ReachSelf, ReachStep, ReachTransitive
  <2> QED BY <1>5, <2>1, <2>2 DEF SCC, Succ
<1> QED BY <1>4, <1>5

\* Along an edge between vertices of S the numbers of f never rise.
NeverRise(E, S, f) ==
  /\ \A v \in S : f[v] \in Nat
  /\ \A e \in E \cap (S \X S) : f[e[2]] <= f[e[1]]

\* Then they are equal within a component that is in S (settled labels).
LEMMA PeersShareNumbers ==
  ASSUME NEW E, NEW S \in SUBSET Vertices, NEW f, NeverRise(E, S, f),
         NEW x \in S, SCC(E, x) \subseteq S, NEW y \in SCC(E, x)
  PROVE  f[y] <= f[x]
<1> DEFINE C == {z \in SCC(E, x) : f[z] <= f[x]}
                \cup {z \in Vertices : x \notin Reach(E, z)}
<1>0. SCC(E, x) \in SUBSET Vertices
  BY DEF SCC, Reach
<1>1. C \in SUBSET Vertices /\ x \in C
  BY <1>0, SccSelf DEF NeverRise
<1>2. ASSUME NEW v \in Vertices, NEW w \in Vertices, v \in C, <<v, w>> \in E
      PROVE  w \in C
  <2>1. CASE x \notin Reach(E, v)
    BY <1>2, <2>1, NotReachingClosed DEF IsClosed
  <2>2. CASE v \in SCC(E, x) /\ f[v] <= f[x] /\ x \in Reach(E, w)
    <3>1. w \in SCC(E, x)
      BY <1>2, <2>2, ReachStep DEF SCC
    <3>2. <<v, w>> \in E \cap (S \X S)
      BY <1>2, <2>2, <3>1
    <3>3. f[w] <= f[v] /\ f[w] \in Nat /\ f[v] \in Nat /\ f[x] \in Nat
      BY <2>2, <3>1, <3>2 DEF NeverRise
    <3> QED BY <2>2, <3>1, <3>3
  <2> QED BY <1>2, <2>1, <2>2
<1>3. IsClosed(E, C)
  BY <1>2 DEF IsClosed
<1>x. Reach(E, x) \subseteq C
  BY <1>1, <1>3, ReachInClosed
<1>4. y \in C /\ x \in Reach(E, y)
  BY <1>x DEF SCC
<1> QED BY <1>4
-----------------------------------------------------------------------------
(* Labellings                                                              *)

\* Canonical of SccLabelling, in terms of the SCC of this module: an id is a
\* vertex of its component, and the component has no other id.
IsLabelling(E, id, Undecided) ==
  \A u \in Vertices : id[u] # Undecided =>
    /\ id[u] \in SCC(E, u)
    /\ \A v \in SCC(E, u) : id[v] # Undecided => id[v] = id[u]

\* Deciding vertices of the component of root as root, when that component has
\* no other id, keeps a labelling.
LEMMA LabellingExtended ==
  ASSUME NEW E, NEW Undecided, NEW root \in Vertices, NEW D \in SUBSET SCC(E, root),
         NEW id, IsLabelling(E, id, Undecided),
         \A v \in SCC(E, root) \ D : id[v] \in {Undecided, root},
         NEW new, \A v \in Vertices : new[v] = IF v \in D THEN root ELSE id[v]
  PROVE  IsLabelling(E, new, Undecided)
<1>1. SCC(E, root) \in SUBSET Vertices
  BY SccClass
<1>2. \A v \in SCC(E, root) : new[v] \in {Undecided, root}
  BY <1>1
<1>3. ASSUME NEW u \in Vertices, new[u] # Undecided
      PROVE  /\ new[u] \in SCC(E, u)
             /\ \A v \in SCC(E, u) : new[v] # Undecided => new[v] = new[u]
  <2>1. CASE u \in SCC(E, root)
    <3>1. root \in SCC(E, u) /\ SCC(E, u) = SCC(E, root)
      BY <2>1, SccClass
    <3> QED BY <1>2, <1>3, <2>1, <3>1
  <2>2. CASE u \notin SCC(E, root)
    <3>1. \A v \in SCC(E, u) : v \in Vertices /\ v \notin SCC(E, root)
      BY <1>3, <2>2, SccClass
    <3>2. u \in SCC(E, u)
      BY SccSelf
    <3>3. \A v \in SCC(E, u) : new[v] = id[v]
      BY <3>1
    <3> QED BY <1>3, <3>2, <3>3 DEF IsLabelling
  <2> QED BY <2>1, <2>2
<1> QED BY <1>3 DEF IsLabelling
-----------------------------------------------------------------------------
(* The counters                                                            *)

\* Every rank of R counts its members of S.
CountsMembers(count, S, R, rank) ==
  /\ \A v \in S : rank[v] \in R
  /\ DOMAIN count = R
  /\ \A r \in R : count[r] = Cardinality({v \in S : rank[v] = r})

\* If every rank counts its members of a finite set, the sum over the ranks
\* is the size of the set.
LEMMA SumCountsAll ==
  ASSUME NEW S, IsFiniteSet(S), NEW R, NEW rank, NEW count, CountsMembers(count, S, R, rank)
  PROVE  SumOverRanks(count) = Cardinality(S)
<1>0. /\ \A v \in S : rank[v] \in R
      /\ DOMAIN count = R
      /\ \A r \in R : count[r] = Cardinality({v \in S : rank[v] = r})
  BY DEF CountsMembers
<1> USE <1>0
<1> DEFINE Of(r) == {v \in S : rank[v] = r}
           Pairs == UNION {{r} \X (1 .. count[r]) : r \in DOMAIN count}
           num == [r \in R |-> CHOOSE f : f \in Bijection(1 .. count[r], Of(r))]
           pair == [p \in Pairs |-> num[p[1]][p[2]]]
<1>1. ASSUME NEW r \in R
      PROVE  /\ num[r] \in [1 .. count[r] -> Of(r)]
             /\ \A i, j \in 1 .. count[r] : num[r][i] = num[r][j] => i = j
             /\ \A v \in Of(r) : \E i \in 1 .. count[r] : num[r][i] = v
  <2>1. IsFiniteSet(Of(r)) /\ count[r] = Cardinality(Of(r))
    BY FS_Subset
  <2> HIDE DEF Of
  <2>2. ExistsBijection(1 .. count[r], Of(r))
    BY <2>1, FS_CardinalityType
  <2>3. num[r] \in Bijection(1 .. count[r], Of(r))
    <3>1. \E f : f \in Bijection(1 .. count[r], Of(r))
      BY <2>2 DEF ExistsBijection
    <3>2. num[r] = CHOOSE f : f \in Bijection(1 .. count[r], Of(r))
      OBVIOUS
    <3> QED BY <3>1, <3>2, Zenon
  <2> HIDE DEF num
  <2> QED BY <2>3 DEF Bijection, Injection, Surjection, IsInjective
<1>2. ASSUME NEW p \in Pairs
      PROVE  p[1] \in R /\ p[2] \in 1 .. count[p[1]] /\ p = <<p[1], p[2]>>
  OBVIOUS
<1>3. ASSUME NEW r \in R, NEW i \in 1 .. count[r] PROVE <<r, i>> \in Pairs
  OBVIOUS
<1> HIDE DEF num, Pairs
<1>p. pair = [p \in Pairs |-> num[p[1]][p[2]]]
  OBVIOUS
<1> HIDE DEF pair
<1>4. ASSUME NEW p \in Pairs PROVE pair[p] \in S /\ rank[pair[p]] = p[1]
  <2>1. num[p[1]][p[2]] \in Of(p[1])
    <3> HIDE DEF Of
    <3>1. num[p[1]] \in [1 .. count[p[1]] -> Of(p[1])]
      BY <1>1, <1>2
    <3> QED BY <1>2, <3>1
  <2> QED BY <1>p, <2>1
<1>5. pair \in Injection(Pairs, S)
  <2>1. ASSUME NEW p \in Pairs, NEW q \in Pairs, pair[p] = pair[q] PROVE p = q
    <3>1. p[1] = q[1]
      BY <1>4, <2>1
    <3>2. p[2] = q[2]
      BY <1>p, <1>1, <1>2, <2>1, <3>1
    <3> QED BY <1>2, <3>1, <3>2
  <2> QED BY <1>4, <1>p, <2>1 DEF Injection, IsInjective
<1>6. pair \in Surjection(Pairs, S)
  <2>1. ASSUME NEW v \in S PROVE \E p \in Pairs : pair[p] = v
    <3>1. PICK i \in 1 .. count[rank[v]] : num[rank[v]][i] = v
      BY <1>1
    <3>2. <<rank[v], i>> \in Pairs
      BY <1>3
    <3> QED BY <1>p, <3>1, <3>2
  <2> QED BY <1>4, <1>p, <2>1 DEF Surjection
<1>7. IsFiniteSet(Pairs)
  BY <1>5, FS_Injection
<1>8. ExistsBijection(Pairs, S)
  BY <1>5, <1>6 DEF ExistsBijection, Bijection
<1>9. Cardinality(S) = Cardinality(Pairs)
  BY <1>7, <1>8, FS_Bijection
<1> QED BY <1>9 DEF SumOverRanks, Pairs

\* The counters grow by what is decided.
LEMMA CountMore ==
  ASSUME NEW L, IsFiniteSet(L), NEW U, NEW D \in SUBSET U
  PROVE  /\ Cardinality(L \ (U \ D)) = Cardinality(L \ U) + Cardinality(L \cap D)
         /\ Cardinality(L \ (U \ D)) \in Nat
<1> DEFINE Old == L \ U
           New == L \cap D
           All == L \ (U \ D)
<1>1. IsFiniteSet(Old) /\ IsFiniteSet(New) /\ IsFiniteSet(All)
  BY FS_Subset
<1>2. Cardinality(Old) \in Nat /\ Cardinality(New) \in Nat /\ Cardinality(All) \in Nat
  BY <1>1, FS_CardinalityType
<1>3. All = Old \cup New /\ Old \cap New = {}
  OBVIOUS
<1> HIDE DEF Old, New, All
<1>4. Cardinality(Old \cap New) = 0
  BY <1>3, FS_EmptySet, Zenon
<1>5. Cardinality(Old \cup New) = Cardinality(Old) + Cardinality(New) - Cardinality(Old \cap New)
  BY <1>1, FS_Union
<1>6. Cardinality(All) = Cardinality(Old) + Cardinality(New)
  BY <1>2, <1>3, <1>4, <1>5
<1> QED BY <1>2, <1>6 DEF Old, New, All
-----------------------------------------------------------------------------
(* Least and greatest elements                                             *)

\* Of finitely many things with numbers, one has the smallest number.
LEMMA LeastOf ==
  ASSUME NEW S, IsFiniteSet(S), S # {}, NEW f, \A x \in S : f[x] \in Int
  PROVE  \E x \in S : \A y \in S : f[x] <= f[y]
<1> DEFINE Below == [x \in S |-> {y \in S : f[y] < f[x]}]
           T == {Below[x] : x \in S}
<1>1. T \subseteq SUBSET S /\ T # {}
  OBVIOUS
<1>2. IsWellFoundedOn(StrictSubsetOrdering(S), SUBSET S)
  BY FS_StrictSubsetOrderingWellFounded, FS_FiniteSubsetsOfFinite
<1> HIDE DEF T
<1>3. PICK A \in T : \A B \in T : ~ (<<B, A>> \in StrictSubsetOrdering(S))
  BY <1>1, <1>2, WFMin
<1>4. PICK x \in S : A = Below[x]
  BY <1>3 DEF T
<1>5. ASSUME NEW y \in S, f[y] < f[x] PROVE FALSE
  <2>1. Below[y] \in T /\ Below[y] \in SUBSET S /\ A \in SUBSET S
    BY <1>1, <1>3 DEF T
  <2>2. \A z \in S : f[z] \in Int
    OBVIOUS
  <2>3. Below[y] \subseteq A
    BY <1>4, <1>5, <2>2
  <2>4. y \in A /\ y \notin Below[y]
    BY <1>4, <1>5, <2>2
  <2> HIDE DEF Below
  <2> QED BY <1>3, <2>1, <2>3, <2>4 DEF StrictSubsetOrdering
<1> QED BY <1>5

\* Of some vertices, one has the smallest number.
LEMMA LeastVertex ==
  ASSUME NEW f \in [Vertices -> Nat], NEW S \in SUBSET Vertices, S # {}
  PROVE  \E x \in S : \A y \in S : f[x] <= f[y]
<1>1. IsFiniteSet(S) /\ \A x \in S : f[x] \in Int
  BY VerticesAssumption, FS_Subset
<1> QED BY <1>1, LeastOf

\* Of finitely many things with numbers, one has the largest number.
LEMMA GreatestOf ==
  ASSUME NEW S, IsFiniteSet(S), S # {}, NEW f, \A x \in S : f[x] \in Int
  PROVE  \E x \in S : \A y \in S : f[y] <= f[x]
<1> DEFINE g == [x \in S |-> 0 - f[x]]
<1>1. \A x \in S : g[x] \in Int /\ g[x] = 0 - f[x]
  OBVIOUS
<1> HIDE DEF g
<1>2. PICK x \in S : \A y \in S : g[x] <= g[y]
  BY <1>1, LeastOf
<1>3. \A y \in S : f[y] <= f[x]
  BY <1>1, <1>2
<1> QED BY <1>3

\* What is no larger than the others is the minimum.
LEMMA MinIs ==
  ASSUME NEW S \in SUBSET Nat, NEW x \in S, \A y \in S : x <= y
  PROVE  Min(S) = x
<1>1. x \in S /\ \A y \in S : x <= y
  OBVIOUS
<1>2. \E z \in S : \A y \in S : z <= y
  BY <1>1
<1>3. Min(S) \in S /\ \A y \in S : Min(S) <= y
  BY <1>2 DEF Min
<1>4. \A m \in S : (\A y \in S : m <= y) => m = x
  BY <1>1
<1> QED BY <1>3, <1>4, Zenon

\* Max is the greatest element, where there is one.
LEMMA MaxIs ==
  ASSUME NEW S \in SUBSET Nat, NEW x \in S, \A y \in S : y <= x
  PROVE  Max(S) = x
<1>1. x \in S /\ \A y \in S : x >= y
  OBVIOUS
<1>2. \E z \in S : \A y \in S : z >= y
  BY <1>1
<1>3. Max(S) \in S /\ \A y \in S : Max(S) >= y
  BY <1>2 DEF Max
<1>4. \A m \in S : (\A y \in S : m >= y) => m = x
  BY <1>1
<1> QED BY <1>3, <1>4, Zenon
=============================================================================
