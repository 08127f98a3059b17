--------------------------- MODULE SccDriverProofs ---------------------------
(***************************************************************************)
(* Proofs about SccDriver, for every graph, every partition, any number of *)
(* ranks and each of the drivers: every stage is entered as it expects,    *)
(* the counters are right, the ranks leave together, and what is written   *)
(* is the abstract labelling.                                              *)
(***************************************************************************)
EXTENDS SccDriver, ReachableSetsProofs

\* What the assumption says of the current input.
LEMMA InputFacts ==
  ASSUME input \in Inputs
  PROVE  /\ edges \in SUBSET (Vertices \X Vertices)
         /\ \A v \in Vertices : input.owner[v] \in Ranks
         /\ input.driver \in DOMAIN Drivers
<1>1. input \in [edges : Graphs, owner : [Vertices -> Ranks], driver : DOMAIN Drivers]
  BY InputsAssumption
<1> QED BY <1>1 DEF edges, Graphs

\* There are n vertices, from 0 to n - 1.
LEMMA NumberFacts ==
  /\ n \in Nat /\ n \notin Vertices
  /\ Vertices \subseteq Nat /\ \A v \in Vertices : v < n
  /\ \A S \in SUBSET Vertices : IsFiniteSet(S) /\ Cardinality(S) \in 0 .. n
<1>1. n \in Nat
  BY VerticesAssumption, FS_CardinalityType DEF n
<1>2. Vertices = 0 .. n - 1
  BY NumbersAssumption DEF n
<1>3. ASSUME NEW S \in SUBSET Vertices
      PROVE  IsFiniteSet(S) /\ Cardinality(S) \in 0 .. n
  <2>1. IsFiniteSet(S) /\ Cardinality(S) <= n
    BY VerticesAssumption, FS_Subset DEF n
  <2>2. Cardinality(S) \in Nat
    BY <2>1, FS_CardinalityType
  <2> QED BY <1>1, <2>1, <2>2
<1> QED BY <1>1, <1>2, <1>3
-----------------------------------------------------------------------------
(* Components of what is left                                              *)

\* As long as components are whole, those of the graph that is left are those
\* of the graph (the searches look at undecided vertices only).
LEMMA ComponentOfRest ==
  ASSUME NEW U \in SUBSET Vertices, \A v \in U : SCC(edges, v) \subseteq U,
         NEW u \in U, edges \in SUBSET (Vertices \X Vertices)
  PROVE  SCC(Induced(U), u) = SCC(edges, u)
<1>1. ASSUME NEW r \in U PROVE SCC(edges, r) \subseteq Reach(Induced(U), r)
  <2> DEFINE C == {x \in Reach(edges, r) : x \in SCC(edges, r) => x \in Reach(Induced(U), r)}
  <2>1. C \in SUBSET Vertices /\ r \in C
    BY <1>1, ReachSelf DEF Reach
  <2>2. ASSUME NEW x \in Vertices, NEW y \in Vertices, x \in C, <<x, y>> \in edges
        PROVE  y \in C
    <3>1. x \in Reach(edges, r) /\ y \in Reach(edges, r)
      BY <2>2, ReachStep
    <3>2. ASSUME y \in SCC(edges, r) PROVE y \in Reach(Induced(U), r)
      <4>1. r \in Reach(edges, x)
        <5>1. y \in Reach(edges, x)
          BY <2>2, ReachSelf, ReachStep
        <5> QED BY <3>2, <5>1, ReachTransitive DEF SCC
      <4>2. x \in SCC(edges, r)
        BY <3>1, <4>1 DEF SCC
      <4>3. x \in U /\ y \in U /\ x \in Reach(Induced(U), r)
        BY <1>1, <2>2, <3>2, <4>2
      <4>4. <<x, y>> \in Induced(U)
        BY <2>2, <4>3 DEF Induced
      <4> QED BY <1>1, <4>3, <4>4, ReachStep
    <3> QED BY <3>1, <3>2
  <2> HIDE DEF C
  <2>3. Reach(edges, r) \subseteq C
    BY <1>1, <2>1, <2>2, ReachInClosed DEF IsClosed
  <2> QED BY <2>3 DEF C, SCC
<1>2. ASSUME NEW x \in Vertices PROVE Reach(Induced(U), x) \subseteq Reach(edges, x)
  <2>1. IsClosed(Induced(U), Reach(edges, x))
    BY <1>2, ReachStep DEF IsClosed, Induced
  <2>2. Reach(edges, x) \in SUBSET Vertices
    BY DEF Reach
  <2> QED BY <1>2, <2>1, <2>2, ReachSelf, ReachInClosed
<1>3. SCC(Induced(U), u) \subseteq SCC(edges, u)
  <2>1. \A v \in Reach(Induced(U), u) : v \in Vertices
    BY DEF Reach
  <2> QED BY <1>2, <2>1 DEF SCC
<1>4. ASSUME NEW v \in SCC(edges, u) PROVE v \in SCC(Induced(U), u)
  <2>1. v \in U /\ u \in SCC(edges, v)
    BY SccClass
  <2> QED BY <1>1, <1>4, <2>1 DEF SCC
<1> QED BY <1>3, <1>4

\* A vertex without an edge in, or without an edge out, is alone.
LEMMA MissingDegreeAlone ==
  ASSUME NEW v \in Vertices \ HasBothDegrees(edges)
  PROVE  SCC(edges, v) = {v}
<1>1. Pred(edges, v) \cap Vertices = {} \/ Succ(edges, v) \cap Vertices = {}
  BY DEF HasBothDegrees
<1>2. SCC(edges, v) \subseteq Vertices
  BY DEF SCC, Reach
<1> QED BY <1>1, <1>2, TrimmedAlone

\* What is left of S by trimming in both directions: each vertex that is
\* trimmed is a component of its own.
LEMMA TrimmedByCore ==
  ASSUME NEW U \in SUBSET Vertices, edges \in SUBSET (Vertices \X Vertices),
         \A v \in U : SCC(edges, v) \subseteq U
  PROVE  /\ Core(edges, Core(Reversed(edges), U)) \subseteq U
         /\ \A v \in U \ Core(edges, Core(Reversed(edges), U)) : SCC(edges, v) = {v}
<1>1. Core(edges, Core(Reversed(edges), U)) \subseteq U
  BY DEF Core
<1>2. ASSUME NEW v \in U, SCC(edges, v) # {v}
      PROVE  v \in Core(edges, Core(Reversed(edges), U))
  <2> DEFINE C == SCC(edges, v)
  <2>1. v \in C /\ C \in SUBSET Vertices /\ C \subseteq U
    BY SccSelf DEF SCC, Reach
  <2>2. ASSUME NEW x \in C
        PROVE  Succ(edges, x) \cap C # {} /\ Pred(edges, x) \cap C # {}
    <3>1. x \in Vertices /\ SCC(edges, x) = C
      BY <2>1, SccClass
    <3>2. SCC(edges, x) # {x}
      BY <1>2, <2>1, <3>1
    <3> QED BY <2>1, <3>1, <3>2, TrimmedAlone
  <2> HIDE DEF C
  <2>3. \A x \in C : Succ(Reversed(edges), x) \cap C # {}
    <3>1. \A x \in C, y \in C : <<y, x>> \in edges => <<x, y>> \in Reversed(edges)
      BY DEF Reversed
    <3> QED BY <2>1, <2>2, <3>1 DEF Succ, Pred
  <2>4. C \subseteq Core(Reversed(edges), U)
    BY <2>1, <2>3 DEF Core
  <2>5. C \subseteq Core(edges, Core(Reversed(edges), U))
    <3> DEFINE K == Core(Reversed(edges), U)
    <3>1. C \subseteq K
      BY <2>4
    <3> HIDE DEF K
    <3>2. C \subseteq Core(edges, K)
      BY <2>2, <3>1 DEF Core
    <3> QED BY <3>2 DEF K
  <2> QED BY <2>1, <2>5
<1> QED BY <1>1, <1>2

\* What is left has neighbours in both directions among itself.
LEMMA CoreNeighbours ==
  ASSUME NEW E \in SUBSET (Vertices \X Vertices), NEW U \in SUBSET Vertices,
         NEW L, L = Core(E, Core(Reversed(E), U))
  PROVE  \A v \in L : Succ(E, v) \cap L # {} /\ Pred(E, v) \cap L # {}
<1> DEFINE K == Core(Reversed(E), U)
<1>0. \A F, S : \A v \in Core(F, S) : v \in S /\ Succ(F, v) \cap Core(F, S) # {}
  <2> SUFFICES ASSUME NEW F, NEW S, NEW v \in Core(F, S)
               PROVE  v \in S /\ Succ(F, v) \cap Core(F, S) # {}
    OBVIOUS
  <2>1. PICK C \in SUBSET S : v \in C /\ \A x \in C : Succ(F, x) \cap C # {}
    BY DEF Core
  <2>2. C \subseteq Core(F, S)
    BY <2>1 DEF Core
  <2> QED BY <2>1, <2>2
<1>1. \A v \in K : Succ(Reversed(E), v) \cap K # {}
  BY <1>0
<1>2. K \subseteq Vertices
  BY <1>0
<1> HIDE DEF K
<1>3. ASSUME NEW v \in K PROVE Pred(E, v) \cap K # {}
  <2>1. PICK w \in K : w \in Vertices /\ <<v, w>> \in Reversed(E)
    BY <1>1 DEF Succ
  <2>2. PICK e \in E : <<v, w>> = <<e[2], e[1]>>
    BY <2>1 DEF Reversed
  <2>3. <<w, v>> \in E
    BY <2>2
  <2> QED BY <2>1, <2>3 DEF Pred
<1>4. L = Core(E, K)
  BY DEF K
<1>5. L \subseteq K /\ \A v \in L : Succ(E, v) \cap L # {}
  BY <1>0, <1>4
<1>6. ASSUME NEW v \in L, NEW p \in K, p \in Pred(E, v) PROVE p \in L
  <2> DEFINE C == L \cup {p}
  <2>1. v \in Succ(E, p)
    BY <1>2, <1>5, <1>6 DEF Succ, Pred
  <2>2. C \in SUBSET K /\ \A x \in C : Succ(E, x) \cap C # {}
    BY <1>5, <1>6, <2>1
  <2>3. C \subseteq Core(E, K)
    <3> HIDE DEF C
    <3> QED BY <2>2 DEF Core
  <2> QED BY <1>4, <2>3
<1> QED BY <1>3, <1>5, <1>6
-----------------------------------------------------------------------------
(* The drivers                                                             *)

\* Which stages can follow one another.
LEMMA ProgramFacts ==
  ASSUME input \in Inputs
  PROVE  /\ DOMAIN Program \subseteq {"trim_1_first", "trim_ex_first", "search",
                                      "trim_1_normal", "trim_ex", "color"}
         /\ "search" \in DOMAIN Program
         /\ "trim_1_first" \in DOMAIN Program <=> "trim_ex_first" \notin DOMAIN Program
         /\ "trim_1_first" \in DOMAIN Program => "trim_ex" \notin DOMAIN Program
         /\ \A s \in DOMAIN Program : \A t \in {Program[s].below, Program[s].above} :
              /\ t \in (DOMAIN Program \ {"trim_1_first", "trim_ex_first"})
                       \cup {"select", "trim_1_twice", "residual"}
              /\ t = "search" => s = "trim_1_first"
              /\ t = "select" => s = "trim_ex_first"
              /\ t \in Trims => /\ s = "search" /\ "trim_1_normal" \in DOMAIN Program
                                /\ "trim_ex" \notin DOMAIN Program
<1> DEFINE Right(P) ==
      /\ DOMAIN P \subseteq {"trim_1_first", "trim_ex_first", "search",
                             "trim_1_normal", "trim_ex", "color"}
      /\ "search" \in DOMAIN P
      /\ "trim_1_first" \in DOMAIN P <=> "trim_ex_first" \notin DOMAIN P
      /\ "trim_1_first" \in DOMAIN P => "trim_ex" \notin DOMAIN P
      /\ \A s \in DOMAIN P : \A t \in {P[s].below, P[s].above} :
           /\ t \in (DOMAIN P \ {"trim_1_first", "trim_ex_first"})
                    \cup {"select", "trim_1_twice", "residual"}
           /\ t = "search" => s = "trim_1_first"
           /\ t = "select" => s = "trim_ex_first"
           /\ t \in Trims => /\ s = "search" /\ "trim_1_normal" \in DOMAIN P
                             /\ "trim_ex" \notin DOMAIN P
<1>1. Right(scc)
  BY DEF scc, Then, Trims
<1>2. Right(scc_hpc_like)
  BY DEF scc_hpc_like, Then, Trims
<1>3. Right(scc_hpc_trim_ex)
  BY DEF scc_hpc_trim_ex, Then, Trims
<1>4. Right(scc_ispan_like)
  BY DEF scc_ispan_like, Then, Trims
<1>5. Right(scc_trim_ex)
  BY DEF scc_trim_ex, Then, Trims
<1>6. Right(scc_trim_ex_residual)
  BY DEF scc_trim_ex_residual, Then, Split, Trims
<1>7. Right(scc_trim_ex_light_residual)
  BY DEF scc_trim_ex_light_residual, Then, Split, Trims
<1>8. Program \in {scc, scc_hpc_like, scc_hpc_trim_ex, scc_ispan_like, scc_trim_ex,
                   scc_trim_ex_residual, scc_trim_ex_light_residual}
  <2>1. input.driver \in DOMAIN Drivers
    BY InputFacts
  <2> QED BY <2>1 DEF Program, Drivers
<1> HIDE DEF Right
<1>9. Right(Program)
  BY <1>1, <1>2, <1>3, <1>4, <1>5, <1>6, <1>7, <1>8
<1> QED BY <1>9 DEF Right
-----------------------------------------------------------------------------
(* Deciding vertices                                                       *)

Whole == \A v \in is_undecided : SCC(edges, v) \subseteq is_undecided

Counts == \A r \in Ranks : local_decided[r] = Cardinality(Local(r) \ is_undecided)

Named == IsLabelling(edges, scc_id, Undecided)

IdsStay == \A v \in Vertices : scc_id[v] # Undecided => scc_id'[v] = scc_id[v]

\* Deciding whole components, each under the id of one of its members, keeps
\* what the stages and the abstract labelling ask for.
LEMMA DecideKeeps ==
  ASSUME TypeOK, Whole, Counts, Named, NamesAgree, input' = input,
         NEW D \in SUBSET is_undecided, NEW id, Decide(D, id),
         \A v \in D : /\ SCC(edges, v) \subseteq D /\ id[v] \in SCC(edges, v)
                      /\ \A w \in SCC(edges, v) : id[w] = id[v]
  PROVE  /\ Whole' /\ Counts' /\ Named' /\ NamesAgree'
         /\ is_undecided' \subseteq Vertices
         /\ scc_id' \in [Vertices -> Vertices \cup {Undecided}]
         /\ local_decided' \in [Ranks -> 0 .. n]
         /\ IdsStay
<1>1. edges' = edges /\ \A r : Local(r)' = Local(r)
  BY DEF edges, Local
<1>2. /\ is_undecided' = is_undecided \ D /\ is_undecided \subseteq Vertices
      /\ scc_id' = [v \in Vertices |-> IF v \in D THEN id[v] ELSE scc_id[v]]
      /\ \A v \in Vertices : SCC(edges, v) \subseteq Vertices
  BY DEF Decide, TypeOK, SCC, Reach
<1>3. ASSUME NEW v \in is_undecided \ D, NEW w \in SCC(edges, v) PROVE w \in is_undecided \ D
  <2>1. w \in is_undecided /\ v \in SCC(edges, w)
    BY <1>2, <1>3, SccClass DEF Whole
  <2> QED BY <1>3, <2>1
<1>4. Whole'
  BY <1>1, <1>2, <1>3 DEF Whole
<1>5. ASSUME NEW r \in Ranks
      PROVE  /\ local_decided'[r] = Cardinality(Local(r) \ is_undecided')
             /\ local_decided'[r] \in 0 .. n
  <2>1. local_decided'[r] = Cardinality(Local(r) \ is_undecided) + Cardinality(Local(r) \cap D)
    BY DEF Decide, Counts
  <2>2. /\ Local(r) \ is_undecided \in SUBSET Vertices /\ Local(r) \cap D \in SUBSET Vertices
        /\ Local(r) \ is_undecided' \in SUBSET Vertices
        /\ (Local(r) \ is_undecided) \cup (Local(r) \cap D) = Local(r) \ is_undecided'
        /\ (Local(r) \ is_undecided) \cap (Local(r) \cap D) = {}
    BY <1>2 DEF Local
  <2>3. Cardinality(Local(r) \ is_undecided') =
          Cardinality(Local(r) \ is_undecided) + Cardinality(Local(r) \cap D)
    <3> DEFINE A == Local(r) \ is_undecided
               B == Local(r) \cap D
    <3>1. IsFiniteSet(A) /\ IsFiniteSet(B) /\ Cardinality(A) \in Nat /\ Cardinality(B) \in Nat
      BY <2>2, NumberFacts
    <3>2. A \cap B = {} /\ A \cup B = Local(r) \ is_undecided'
      BY <2>2
    <3> HIDE DEF A, B
    <3>3. Cardinality(A \cup B) = Cardinality(A) + Cardinality(B) - Cardinality({})
      BY <3>1, <3>2, FS_Union
    <3>4. Cardinality(A \cup B) = Cardinality(A) + Cardinality(B)
      BY <3>1, <3>3, FS_EmptySet
    <3> QED BY <3>2, <3>4 DEF A, B
  <2> QED BY <2>1, <2>2, <2>3, NumberFacts
<1>6. Counts' /\ local_decided' \in [Ranks -> 0 .. n]
  BY <1>1, <1>5 DEF Counts, Decide
<1>7. \A v \in D : id[v] \in Vertices
  BY <1>2
<1>8. scc_id' \in [Vertices -> Vertices \cup {Undecided}]
  BY <1>2, <1>7 DEF TypeOK
<1>9. NamesAgree'
  BY <1>2, <1>7, UndecidedAssumption DEF NamesAgree
<1>10. ASSUME NEW u \in Vertices, scc_id'[u] # Undecided
       PROVE  /\ scc_id'[u] \in SCC(edges, u)
              /\ \A v \in SCC(edges, u) : scc_id'[v] # Undecided => scc_id'[v] = scc_id'[u]
  <2>1. CASE u \in D
    BY <1>2, <2>1
  <2>2. CASE u \notin D
    <3>1. \A v \in SCC(edges, u) : v \in Vertices /\ v \notin D
      <4>1. ASSUME NEW v \in SCC(edges, u), v \in D PROVE FALSE
        <5>1. u \in SCC(edges, v)
          BY <4>1, <1>10, SccClass
        <5> QED BY <2>2, <4>1, <5>1
      <4> QED BY <1>2, <1>10, <4>1
    <3> QED BY <1>2, <1>10, <2>2, <3>1 DEF Named, IsLabelling
  <2> QED BY <2>1, <2>2
<1>11. Named'
  BY <1>1, <1>10 DEF Named, IsLabelling
<1>12. IdsStay
  BY <1>2 DEF IdsStay, NamesAgree
<1> QED BY <1>2, <1>4, <1>6, <1>8, <1>9, <1>11, <1>12

\* The same of vertices that are components of their own, decided as themselves.
LEMMA DecideAlone ==
  ASSUME TypeOK, Whole, Counts, Named, NamesAgree, input' = input,
         NEW D \in SUBSET is_undecided, Decide(D, Itself),
         \A v \in D : SCC(edges, v) = {v}
  PROVE  /\ Whole' /\ Counts' /\ Named' /\ NamesAgree'
         /\ is_undecided' \subseteq Vertices
         /\ scc_id' \in [Vertices -> Vertices \cup {Undecided}]
         /\ local_decided' \in [Ranks -> 0 .. n]
         /\ IdsStay
<1>1. D \subseteq Vertices
  BY DEF TypeOK
<1>2. \A v \in D : /\ SCC(edges, v) \subseteq D /\ Itself[v] \in SCC(edges, v)
                   /\ \A w \in SCC(edges, v) : Itself[w] = Itself[v]
  BY <1>1 DEF Itself
<1> QED BY <1>2, DecideKeeps

\* The sum of the counters is the number of decided vertices.
LEMMA SumIsDecided ==
  ASSUME TypeOK, Counts
  PROVE  /\ SumOverRanks(local_decided) = Cardinality(Vertices \ is_undecided)
         /\ SumOverRanks(local_decided) \in 0 .. n
         /\ SumOverRanks(local_decided) = n <=> is_undecided = {}
<1> DEFINE S == Vertices \ is_undecided
<1>1. /\ S \in SUBSET Vertices /\ IsFiniteSet(S) /\ Cardinality(S) \in 0 .. n
      /\ Cardinality(S) = n <=> S = Vertices
  BY NumberFacts, VerticesAssumption, FS_Subset DEF n
<1>2. \A r \in Ranks : local_decided[r] = Cardinality({v \in S : input.owner[v] = r})
  <2>1. \A r \in Ranks : Local(r) \ is_undecided = {v \in S : input.owner[v] = r}
    BY DEF Local
  <2> QED BY <2>1 DEF Counts
<1>3. (\A v \in S : input.owner[v] \in Ranks) /\ DOMAIN local_decided = Ranks
  BY InputFacts DEF TypeOK
<1>4. SumOverRanks(local_decided) = Cardinality(S)
  <2> HIDE DEF S
  <2>1. CountsMembers(local_decided, S, Ranks, input.owner)
    BY <1>2, <1>3 DEF CountsMembers
  <2> QED BY <1>1, <2>1, SumCountsAll
<1> QED BY <1>1, <1>4 DEF TypeOK
-----------------------------------------------------------------------------
(* The candidates for the pivot                                            *)

\* Degrees multiplied are numbers, and so is what a type holds of them.
LEMMA DegreeProdType ==
  ASSUME NEW U, NEW v
  PROVE  exact_prod(Induced(U), v) \in Nat /\ degree_prod(U, v) \in Nat
<1>1. /\ Succ(Induced(U), v) \in SUBSET Vertices
      /\ Pred(Induced(U), v) \in SUBSET Vertices
  BY DEF Succ, Pred
<1>2. /\ Cardinality(Succ(Induced(U), v)) \in Nat
      /\ Cardinality(Pred(Induced(U), v)) \in Nat
  BY <1>1, NumberFacts
<1>3. exact_prod(Induced(U), v) \in Nat
  BY <1>2 DEF exact_prod
<1>4. Limit(input.driver) \in Nat \ {0}
  BY LimitsAssumption DEF Limit
<1>5. \A x \in Nat, l \in Nat \ {0} : x % l \in Nat
  OBVIOUS
<1> QED BY <1>3, <1>4, <1>5 DEF degree_prod

\* Larger numbers have a larger product.
LEMMA ProductsGrow ==
  ASSUME NEW a \in Nat, NEW b \in Nat, NEW c \in Nat, NEW d \in Nat, a <= c, b <= d
  PROVE  a * b <= c * d
<1>1. PICK x \in Nat, y \in Nat : c = a + x /\ d = b + y
  <2>1. c - a \in Nat /\ d - b \in Nat /\ c = a + (c - a) /\ d = b + (d - b)
    OBVIOUS
  <2> QED BY <2>1
<1>2. c * d = a * b + (a * y + x * b + x * y)
  BY <1>1
<1>3. a * b \in Nat /\ a * y \in Nat /\ x * b \in Nat /\ x * y \in Nat
  OBVIOUS
<1> QED BY <1>2, <1>3

\* The products that the drivers compute are exact, in the graph and in any part
\* of it, as those of the graph fit.
LEMMA ProductsFit ==
  ASSUME input \in Inputs, NEW U \in SUBSET Vertices, NEW v \in Vertices
  PROVE  degree_prod(U, v) = exact_prod(Induced(U), v)
<1> DEFINE a == Cardinality(Succ(Induced(U), v))
           b == Cardinality(Pred(Induced(U), v))
           c == Cardinality(Succ(edges, v))
           d == Cardinality(Pred(edges, v))
<1>1. /\ Succ(Induced(U), v) \subseteq Succ(edges, v) /\ Succ(edges, v) \in SUBSET Vertices
      /\ Pred(Induced(U), v) \subseteq Pred(edges, v) /\ Pred(edges, v) \in SUBSET Vertices
  BY DEF Induced, Succ, Pred
<1>2. \A S, T \in SUBSET Vertices :
        S \subseteq T => /\ Cardinality(S) \in Nat /\ Cardinality(T) \in Nat
                         /\ Cardinality(S) <= Cardinality(T)
  <2> SUFFICES ASSUME NEW S \in SUBSET Vertices, NEW T \in SUBSET Vertices, S \subseteq T
               PROVE  /\ Cardinality(S) \in Nat /\ Cardinality(T) \in Nat
                      /\ Cardinality(S) <= Cardinality(T)
    OBVIOUS
  <2>1. IsFiniteSet(T)
    BY NumberFacts
  <2>2. Cardinality(S) <= Cardinality(T)
    BY <2>1, FS_Subset
  <2>3. Cardinality(S) \in Nat /\ Cardinality(T) \in Nat
    BY NumberFacts
  <2> QED BY <2>2, <2>3
<1>3. /\ a \in Nat /\ b \in Nat /\ c \in Nat /\ d \in Nat
      /\ a <= c /\ b <= d
  BY <1>1, <1>2
<1>4. exact_prod(edges, v) = c * d /\ exact_prod(Induced(U), v) = a * b
  BY DEF exact_prod
<1> HIDE DEF a, b, c, d
<1>5. a * b <= c * d /\ a * b \in Nat /\ c * d \in Nat
  BY <1>3, ProductsGrow
<1>6. exact_prod(edges, v) < Limit(input.driver) /\ Limit(input.driver) \in Nat \ {0}
  BY ProductsAssumption, LimitsAssumption DEF edges, Limit
<1>7. \A x \in Nat, l \in Nat \ {0} : x < l => x % l = x
  OBVIOUS
<1>8. a * b < Limit(input.driver)
  BY <1>4, <1>5, <1>6
<1> QED BY <1>4, <1>5, <1>6, <1>7, <1>8 DEF degree_prod

\* A vertex with edges in and out has a product that is not 0.
LEMMA DegreeProdPositive ==
  ASSUME input \in Inputs, NEW U \in SUBSET Vertices, NEW v \in Vertices,
         Succ(Induced(U), v) # {}, Pred(Induced(U), v) # {}
  PROVE  degree_prod(U, v) > 0
<1>1. /\ Succ(Induced(U), v) \in SUBSET Vertices
      /\ Pred(Induced(U), v) \in SUBSET Vertices
  BY DEF Succ, Pred
<1>2. \A S \in SUBSET Vertices : S # {} => Cardinality(S) \in Nat /\ Cardinality(S) > 0
  BY NumberFacts, FS_EmptySet
<1>3. \A a, b \in Nat : a > 0 /\ b > 0 => a * b > 0
  OBVIOUS
<1>4. exact_prod(Induced(U), v) > 0
  BY <1>1, <1>2, <1>3 DEF exact_prod
<1> QED BY <1>4, ProductsFit

\* Of some vertices, the candidate is the least of those with the largest
\* product, if that is not 0.
LEMMA CandidateIs ==
  ASSUME NEW U, NEW S \in SUBSET Vertices
  PROVE  /\ Candidate(U, S) = n <=> \A v \in S : degree_prod(U, v) = 0
         /\ Candidate(U, S) # n =>
              /\ Candidate(U, S) \in S
              /\ \A v \in S : degree_prod(U, v) <= degree_prod(U, Candidate(U, S))
<1>0. CASE \A v \in S : degree_prod(U, v) = 0
  BY <1>0 DEF Candidate
<1> SUFFICES ASSUME ~ \A v \in S : degree_prod(U, v) = 0
             PROVE  /\ Candidate(U, S) \in S
                    /\ \A v \in S : degree_prod(U, v) <= degree_prod(U, Candidate(U, S))
  BY <1>0, NumberFacts
<1> DEFINE prod == [v \in Vertices |-> degree_prod(U, v)]
<1>1. \A v \in Vertices : prod[v] \in Nat /\ prod[v] = degree_prod(U, v)
  BY DegreeProdType
<1> HIDE DEF prod
<1>2. PICK x \in S : \A y \in S : prod[y] <= prod[x]
  <2>1. IsFiniteSet(S) /\ S # {} /\ \A y \in S : prod[y] \in Int
    BY <1>1, NumberFacts
  <2> QED BY <2>1, GreatestOf
<1> DEFINE M == {u \in S : \A y \in S : prod[y] <= prod[u]}
           id == [v \in Vertices |-> v]
<1>3. /\ M # {} /\ M \in SUBSET Vertices /\ id \in [Vertices -> Nat]
      /\ \A v \in Vertices : id[v] = v
  BY <1>2, NumberFacts
<1>4. PICK u \in M : \A y \in M : u <= y
  <2> HIDE DEF M, id
  <2>1. PICK u \in M : \A y \in M : id[u] <= id[y]
    BY <1>3, LeastVertex
  <2> QED BY <1>3, <2>1
<1>5. \A v \in S : \/ prod[v] < prod[u]
                   \/ prod[v] = prod[u] /\ u <= v
  <2> SUFFICES ASSUME NEW v \in S, ~(prod[v] < prod[u]) PROVE prod[v] = prod[u] /\ u <= v
    OBVIOUS
  <2>1. prod[v] = prod[u]
    BY <1>1, <1>4
  <2>2. v \in M
    BY <1>4, <2>1
  <2> QED BY <1>4, <2>1, <2>2
<1>6. u \in S /\ \A v \in S : \/ degree_prod(U, v) < degree_prod(U, u)
                              \/ degree_prod(U, v) = degree_prod(U, u) /\ u <= v
  BY <1>1, <1>4, <1>5
<1>7. Candidate(U, S) = CHOOSE w \in S : \A v \in S :
                          \/ degree_prod(U, v) < degree_prod(U, w)
                          \/ degree_prod(U, v) = degree_prod(U, w) /\ w <= v
  BY DEF Candidate
<1>8. /\ Candidate(U, S) \in S
      /\ \A v \in S : \/ degree_prod(U, v) < degree_prod(U, Candidate(U, S))
                      \/ degree_prod(U, v) = degree_prod(U, Candidate(U, S))
  BY <1>6, <1>7
<1> QED BY <1>8, DegreeProdType
-----------------------------------------------------------------------------
(* The order of the stages                                                 *)

\* What all steps keep: the conjunction is inductive.
DriverCore == TypeOK /\ Whole /\ Counts /\ Named /\ StagesInv

\* The graph and the driver are those of the call, in every step.
LEMMA SameInput ==
  ASSUME input' = input
  PROVE  /\ edges' = edges /\ Program' = Program
         /\ \A r : Local(r)' = Local(r)
         /\ \A U, v : degree_prod(U, v)' = degree_prod(U, v)
BY DEF edges, Program, Local, degree_prod, Induced

\* What can follow a stage.
LEMMA NextStageFacts ==
  ASSUME input \in Inputs, NEW s \in DOMAIN Program \cup {"residual"}
  PROVE  /\ NextStage(s) \in Stages \ {"trim_1_first", "trim_ex_first"}
         /\ NextStage(s) # "done" =>
              s \in DOMAIN Program /\ s # "residual" /\ global_decided # n
         /\ NextStage(s) = "search" => s = "trim_1_first"
         /\ NextStage(s) = "select" => s = "trim_ex_first"
         /\ NextStage(s) \in Trims => /\ s = "search" /\ "trim_1_normal" \in DOMAIN Program
                                      /\ "trim_ex" \notin DOMAIN Program
         /\ NextStage(s) \in {"search", "color", "trim_ex", "trim_1_normal"} =>
              NextStage(s) \in DOMAIN Program
         /\ s \in Stages /\ s # "done" /\ s # "trim_1_twice" /\ s # "select"
<1>1. "residual" \notin DOMAIN Program /\ DOMAIN Program \subseteq Stages
      /\ "done" \notin DOMAIN Program /\ "select" \notin DOMAIN Program
      /\ "trim_1_twice" \notin DOMAIN Program
  BY ProgramFacts DEF Stages
<1>2. s \in Stages /\ s # "done" /\ s # "trim_1_twice" /\ s # "select"
  BY <1>1 DEF Stages
<1>3. CASE NextStage(s) = "done"
  BY <1>2, <1>3 DEF Stages, Trims
<1>4. CASE NextStage(s) # "done"
  <2>1. s # "residual" /\ global_decided # n /\ s \in DOMAIN Program
    BY <1>4 DEF NextStage
  <2>2. NextStage(s) \in {Program[s].below, Program[s].above}
    BY <2>1 DEF NextStage
  <2>3. /\ NextStage(s) \in (DOMAIN Program \ {"trim_1_first", "trim_ex_first"})
                            \cup {"select", "trim_1_twice", "residual"}
        /\ NextStage(s) = "search" => s = "trim_1_first"
        /\ NextStage(s) = "select" => s = "trim_ex_first"
        /\ NextStage(s) \in Trims => /\ s = "search" /\ "trim_1_normal" \in DOMAIN Program
                                     /\ "trim_ex" \notin DOMAIN Program
    BY <2>1, <2>2, ProgramFacts
  <2> QED BY <1>1, <1>2, <2>1, <2>3 DEF Stages
<1> QED BY <1>3, <1>4

\* Where all ranks are when one of them works in a stage of all ranks.
LEMMA Called ==
  ASSUME DriverCore, NEW r \in Ranks, at[r] = "work",
         stage[r] \notin {"trim_1_first", "trim_ex_first"}
  PROVE  \/ \E s \in DOMAIN Program :
              /\ BetweenStages(s)
              /\ NextStage(s) = stage[r] \/ (NextStage(s) \in Trims /\ stage[r] \in Trims)
         \/ stage[r] = "search" /\ CallingSearch
<1>1. CASE \E s \in DOMAIN Program \cup {"residual"} : BetweenStages(s)
  <2>1. PICK s \in DOMAIN Program \cup {"residual"} : BetweenStages(s)
    BY <1>1
  <2>2. /\ NextStage(s) = stage[r] \/ (NextStage(s) \in Trims /\ stage[r] \in Trims)
        /\ NextStage(s) # "done"
    BY <2>1 DEF BetweenStages, Passing, Trims
  <2>3. s \in DOMAIN Program
    BY <2>2, NextStageFacts DEF DriverCore, TypeOK
  <2> QED BY <2>1, <2>2, <2>3
<1>2. CASE ~ \E s \in DOMAIN Program \cup {"residual"} : BetweenStages(s)
  BY <1>2 DEF DriverCore, StagesInv, StagesInOrder, TrimmingFirst, Reducing, Counting,
     CallingTrimEx, CallingSearch, Calls
<1> QED BY <1>1, <1>2

\* Where all ranks are when one of them has got a sum to act on.
LEMMA Leaving ==
  ASSUME DriverCore, NEW r \in Ranks, at[r] = "branch", stage[r] # "done"
  PROVE  \E s \in DOMAIN Program \cup {"residual"} : BetweenStages(s) /\ stage[r] = s
<1>1. PICK s \in DOMAIN Program \cup {"residual"} : BetweenStages(s)
  BY DEF DriverCore, StagesInv, StagesInOrder, TrimmingFirst, Reducing, Counting,
     CallingTrimEx, CallingSearch, Calls
<1>2. stage[r] = s
  BY <1>1 DEF BetweenStages, Passing
<1> QED BY <1>1, <1>2

\* Where all ranks are in trim_1_first.
LEMMA InFirstTrim ==
  ASSUME DriverCore, NEW r \in Ranks, stage[r] = "trim_1_first"
  PROVE  /\ at[r] \in {"work", "max"} => TrimmingFirst
         /\ at[r] = "min" => Reducing
<1>1. ASSUME NEW s \in DOMAIN Program \cup {"residual"}, BetweenStages(s)
      PROVE  at[r] = "branch"
  BY <1>1, NextStageFacts DEF BetweenStages, Passing, Trims, DriverCore, TypeOK
<1> QED
  BY <1>1 DEF DriverCore, StagesInv, StagesInOrder, TrimmingFirst, Reducing, Counting,
     CallingTrimEx, CallingSearch, Calls

\* No vertex is waiting for trim_1_normal while a rank is elsewhere.
LEMMA NothingToVisit ==
  ASSUME DriverCore, \A r \in Ranks : stage[r] \notin Trims \/ at[r] # "work"
  PROVE  todo = {}
<1>1. \A v \in todo : v \in Vertices /\ input.owner[v] \in Ranks
  BY InputFacts DEF DriverCore, TypeOK
<1> QED BY <1>1 DEF DriverCore, StagesInv

\* The drivers start with nothing decided, in one of the first trims.
LEMMA CoreInit == Init => DriverCore
<1> SUFFICES ASSUME Init PROVE DriverCore
  OBVIOUS
<1>1. input \in Inputs /\ Ranks # {}
  BY RanksAssumption DEF Init
<1>2. TypeOK
  BY <1>1, NumberFacts DEF Init, TypeOK, Stages
<1>3. Whole /\ Named /\ NamesAgree
  BY UndecidedAssumption DEF Init, Whole, Named, IsLabelling, NamesAgree, SCC, Reach
<1>4. Counts
  <2>1. \A r \in Ranks : Local(r) \ is_undecided = {}
    BY DEF Init, Local
  <2> QED BY <2>1, FS_EmptySet DEF Init, Counts
<1>5. StagesInOrder
  <2>1. CASE "trim_1_first" \in DOMAIN Program
    <3>1. TrimmingFirst
      BY <1>3, <2>1 DEF Init, TrimmingFirst, Local
    <3> QED BY <3>1 DEF StagesInOrder
  <2>2. CASE "trim_1_first" \notin DOMAIN Program
    <3>1. "trim_ex_first" \in DOMAIN Program
      BY <1>1, <2>2, ProgramFacts
    <3>2. CallingTrimEx
      BY <1>3, <2>2, <3>1 DEF Init, CallingTrimEx, Calls
    <3> QED BY <3>2 DEF StagesInOrder
  <2> QED BY <2>1, <2>2
<1> QED BY <1>2, <1>3, <1>4, <1>5 DEF DriverCore, StagesInv, Init
-----------------------------------------------------------------------------
(* The steps of trim_1_first                                               *)

\* A rank's loop over its own vertices decides those without an edge in or out.
LEMMA TrimFirstStep ==
  ASSUME DriverCore, NEW r \in Ranks, TrimFirst(r)
  PROVE  DriverCore' /\ IdsStay
<1> DEFINE D == Local(r) \ HasBothDegrees(edges)
<1>1. TrimmingFirst /\ TypeOK /\ stage[r] = "trim_1_first" /\ at[r] = "work"
  BY InFirstTrim DEF TrimFirst, DriverCore
<1>2. /\ edges' = edges /\ Program' = Program /\ input' = input
      /\ \A q : Local(q)' = Local(q)
      /\ \A U, v : degree_prod(U, v)' = degree_prod(U, v)
  BY SameInput DEF TrimFirst
<1>3. todo = {}
  BY <1>1, NothingToVisit DEF TrimmingFirst, Trims
<1>4. D \in SUBSET is_undecided /\ D \in SUBSET Vertices /\ \A v \in D : SCC(edges, v) = {v}
  BY <1>1, MissingDegreeAlone DEF TrimmingFirst, Local, TypeOK
<1>5. Decide(D, Itself)
  BY DEF TrimFirst
<1> HIDE DEF D
<1>6. /\ Whole' /\ Counts' /\ Named' /\ NamesAgree'
      /\ is_undecided' \subseteq Vertices
      /\ scc_id' \in [Vertices -> Vertices \cup {Undecided}]
      /\ local_decided' \in [Ranks -> 0 .. n]
      /\ IdsStay
  BY <1>1, <1>2, <1>4, <1>5, DecideAlone DEF DriverCore, TrimmingFirst
<1>7. Candidate(Vertices, Local(r) \cap HasBothDegrees(edges)) \in Vertices \cup {n}
  <2>1. Local(r) \cap HasBothDegrees(edges) \in SUBSET Vertices
    BY DEF Local
  <2> QED BY <2>1, CandidateIs
<1>8. TypeOK'
  BY <1>1, <1>3, <1>6, <1>7 DEF TrimFirst, TypeOK
<1>9. ASSUME NEW q \in Ranks
      PROVE  /\ stage'[q] = "trim_1_first" /\ at'[q] \in {"work", "max"}
             /\ Local(q) \cap is_undecided' =
                  IF at'[q] = "work" THEN Local(q) ELSE Local(q) \cap HasBothDegrees(edges)
             /\ at'[q] = "max" =>
                  pivot'[q] = Candidate(Vertices, Local(q) \cap is_undecided')
  <2>1. /\ is_undecided' = is_undecided \ D
        /\ stage' = stage /\ at' = [at EXCEPT ![r] = "max"]
        /\ pivot' = [pivot EXCEPT ![r] =
                       Candidate(Vertices, Local(r) \cap HasBothDegrees(edges))]
    BY <1>5 DEF TrimFirst, Decide
  <2>2. CASE q = r
    <3>1. Local(r) \cap is_undecided' = Local(r) \cap HasBothDegrees(edges)
      BY <1>1, <2>1 DEF TrimmingFirst, D
    <3> QED BY <1>1, <2>1, <2>2, <3>1 DEF TypeOK
  <2>3. CASE q # r
    <3>1. Local(q) \cap is_undecided' = Local(q) \cap is_undecided
      BY <2>1, <2>3 DEF D, Local
    <3>2. at'[q] = at[q] /\ pivot'[q] = pivot[q]
      BY <1>1, <2>1, <2>3 DEF TypeOK
    <3> QED BY <1>1, <2>1, <3>1, <3>2 DEF TrimmingFirst
  <2> QED BY <2>2, <2>3
<1>10. TrimmingFirst'
  <2>1. \A U, S : Candidate(U, S)' = Candidate(U, S)
    BY <1>2 DEF Candidate, degree_prod, Induced, edges
  <2>2. \A q \in Ranks : Candidate(Vertices, Local(q) \cap is_undecided)' =
                         Candidate(Vertices, Local(q) \cap is_undecided')
    BY <1>2, <2>1
  <2> QED BY <1>1, <1>2, <1>6, <1>9, <2>2 DEF TrimmingFirst
<1>11. StagesInv'
  <2>1. todo' = {} /\ "trim_ex" \notin DOMAIN Program
    BY <1>1, <1>3, ProgramFacts DEF TrimFirst, TypeOK, TrimmingFirst
  <2> QED BY <1>2, <1>10, <2>1 DEF StagesInv, StagesInOrder
<1> QED BY <1>6, <1>8, <1>11 DEF DriverCore

\* Steps that decide nothing.
LEMMA NothingDecided ==
  ASSUME Whole, Counts, Named,
         input' = input, is_undecided' = is_undecided, scc_id' = scc_id,
         local_decided' = local_decided
  PROVE  /\ Whole' /\ Counts' /\ Named'
         /\ NamesAgree' = NamesAgree /\ Trimmed' = Trimmed
         /\ IdsStay
<1>1. edges' = edges /\ \A r : Local(r)' = Local(r)
  BY SameInput
<1> QED BY <1>1 DEF Whole, Counts, Named, NamesAgree, Trimmed, IdsStay

\* A rank's maximum: no undecided vertex of the rank has a larger product, and
\* the vertices that are left have one that is not 0.
LEMMA RankMaximum ==
  ASSUME TrimmingFirst, TypeOK, \A r \in Ranks : at[r] = "max"
  PROVE  /\ Trimmed
         /\ \A r \in Ranks :
              /\ max_degree_prod(r) \in Nat
              /\ pivot[r] # n => /\ pivot[r] \in is_undecided
                                 /\ max_degree_prod(r) = degree_prod(Vertices, pivot[r])
              /\ pivot[r] = n => max_degree_prod(r) = 0
         /\ \A v \in is_undecided :
              /\ pivot[input.owner[v]] # n
              /\ degree_prod(Vertices, v) > 0
              /\ degree_prod(Vertices, v) <= max_degree_prod(input.owner[v])
<1>1. /\ edges \in SUBSET (Vertices \X Vertices)
      /\ \A v \in Vertices : input.owner[v] \in Ranks /\ v \in Local(input.owner[v])
      /\ \A r : Local(r) \in SUBSET Vertices
      /\ is_undecided \in SUBSET Vertices
  BY InputFacts DEF TypeOK, Local
<1>2. \A r \in Ranks :
        /\ Local(r) \cap is_undecided = Local(r) \cap HasBothDegrees(edges)
        /\ pivot[r] = Candidate(Vertices, Local(r) \cap is_undecided)
  BY DEF TrimmingFirst
<1>3. \A v \in Vertices : v \in is_undecided <=> v \in HasBothDegrees(edges)
  BY <1>1, <1>2
<1>4. Trimmed
  BY <1>3, MissingDegreeAlone DEF Trimmed
<1>5. \A v \in is_undecided : degree_prod(Vertices, v) > 0
  <2>1. Induced(Vertices) = edges
    BY <1>1 DEF Induced
  <2> QED BY <1>1, <1>3, <2>1, DegreeProdPositive DEF TypeOK, HasBothDegrees
<1>6. ASSUME NEW r \in Ranks
      PROVE  /\ pivot[r] # n =>
                  /\ pivot[r] \in is_undecided
                  /\ max_degree_prod(r) = degree_prod(Vertices, pivot[r])
             /\ pivot[r] = n => max_degree_prod(r) = 0
             /\ max_degree_prod(r) \in Nat
             /\ \A v \in is_undecided : v \in Local(r) =>
                  pivot[r] # n /\ degree_prod(Vertices, v) <= max_degree_prod(r)
  <2> DEFINE S == Local(r) \cap is_undecided
  <2>1. S \in SUBSET Vertices /\ pivot[r] = Candidate(Vertices, S)
    BY <1>1, <1>2
  <2>2. \A v : v \in S <=> v \in is_undecided /\ v \in Local(r)
    OBVIOUS
  <2> HIDE DEF S
  <2>3. /\ pivot[r] = n <=> \A v \in S : degree_prod(Vertices, v) = 0
        /\ pivot[r] # n =>
             /\ pivot[r] \in S
             /\ \A v \in S : degree_prod(Vertices, v) <= degree_prod(Vertices, pivot[r])
    BY <2>1, CandidateIs
  <2>4. S # {} => pivot[r] # n
    <3>1. \A v \in S : degree_prod(Vertices, v) # 0
      BY <1>5, <2>2
    <3> QED BY <2>3, <3>1
  <2>5. max_degree_prod(r) = IF pivot[r] = n THEN 0 ELSE degree_prod(Vertices, pivot[r])
    BY DEF max_degree_prod
  <2>6. max_degree_prod(r) \in Nat
    BY <2>5, DegreeProdType
  <2> QED BY <2>2, <2>3, <2>4, <2>5, <2>6
<1> QED BY <1>1, <1>4, <1>5, <1>6

\* The first reduction leaves only candidates with the largest product of all.
LEMMA AllreduceMaxStep ==
  ASSUME DriverCore, AllreduceMax
  PROVE  DriverCore' /\ IdsStay
<1>1. /\ TypeOK /\ Whole /\ Counts /\ Named
      /\ \A r \in Ranks : stage[r] = "trim_1_first" /\ at[r] = "max"
  BY DEF DriverCore, AllreduceMax, Together
<1>2. TrimmingFirst /\ todo = {}
  BY <1>1, InFirstTrim, NothingToVisit, RanksAssumption DEF Trims
<1>3. /\ input' = input /\ is_undecided' = is_undecided /\ scc_id' = scc_id
      /\ local_decided' = local_decided /\ stage' = stage /\ todo' = todo
      /\ Program' = Program /\ at' = [r \in Ranks |-> "min"]
      /\ \A U, v : degree_prod(U, v)' = degree_prod(U, v)
  BY SameInput DEF AllreduceMax, Together
<1>4. /\ Whole' /\ Counts' /\ Named'
      /\ NamesAgree' = NamesAgree /\ Trimmed' = Trimmed
      /\ IdsStay
  BY <1>1, <1>3, NothingDecided
<1>5. /\ Trimmed
      /\ \A r \in Ranks :
           /\ max_degree_prod(r) \in Nat
           /\ pivot[r] # n => /\ pivot[r] \in is_undecided
                              /\ max_degree_prod(r) = degree_prod(Vertices, pivot[r])
           /\ pivot[r] = n => max_degree_prod(r) = 0
      /\ \A v \in is_undecided :
           /\ pivot[input.owner[v]] # n
           /\ degree_prod(Vertices, v) > 0
           /\ degree_prod(Vertices, v) <= max_degree_prod(input.owner[v])
  BY <1>1, <1>2, RankMaximum
<1> DEFINE most == [r \in Ranks |-> max_degree_prod(r)]
<1>6. \A r \in Ranks : most[r] = max_degree_prod(r) /\ most[r] \in Nat
  BY <1>5
<1> HIDE DEF most
<1>7. PICK q \in Ranks : \A r \in Ranks : most[r] <= most[q]
  <2>1. IsFiniteSet(Ranks) /\ Ranks # {} /\ \A r \in Ranks : most[r] \in Int
    BY <1>6, RanksAssumption
  <2> QED BY <2>1, GreatestOf
<1>8. Max({max_degree_prod(r) : r \in Ranks}) = most[q]
  <2> DEFINE S == {max_degree_prod(r) : r \in Ranks}
  <2>1. S \in SUBSET Nat /\ most[q] \in S /\ \A y \in S : y <= most[q]
    BY <1>6, <1>7
  <2> HIDE DEF S
  <2>2. Max(S) = most[q]
    BY <2>1, MaxIs
  <2> QED BY <2>2 DEF S
<1>9. \A r \in Ranks : pivot'[r] = IF most[r] # most[q] THEN n ELSE pivot[r]
  BY <1>6, <1>8 DEF AllreduceMax
<1>10. \A v \in is_undecided : /\ input.owner[v] \in Ranks
                               /\ degree_prod(Vertices, v) \in Nat
                               /\ degree_prod(Vertices, v) <= most[q]
  <2>1. \A v \in is_undecided : /\ input.owner[v] \in Ranks
                                /\ degree_prod(Vertices, v) \in Nat
    BY <1>1, InputFacts, DegreeProdType DEF TypeOK
  <2>2. \A v \in is_undecided : most[input.owner[v]] <= most[q]
    BY <1>7, <2>1
  <2> QED BY <1>5, <1>6, <2>1, <2>2
<1>11. is_undecided # {} => \E r \in Ranks : pivot'[r] # n
  <2> SUFFICES ASSUME NEW v \in is_undecided PROVE pivot'[q] # n
    OBVIOUS
  <2>1. most[q] > 0
    BY <1>5, <1>6, <1>10
  <2>2. pivot[q] # n
    BY <1>5, <1>6, <2>1
  <2> QED BY <1>9, <2>2
<1>12. ASSUME NEW r \in Ranks, pivot'[r] # n
       PROVE  /\ pivot'[r] \in is_undecided
              /\ \A v \in is_undecided :
                   degree_prod(Vertices, v) <= degree_prod(Vertices, pivot'[r])
  <2>1. most[r] = most[q] /\ pivot'[r] = pivot[r] /\ pivot[r] # n
    BY <1>9, <1>12
  <2> QED BY <1>5, <1>6, <1>10, <2>1
<1>13. Reducing'
  <2>1. "trim_1_first" \in DOMAIN Program /\ NamesAgree
    BY <1>2 DEF TrimmingFirst
  <2>2. \A r \in Ranks : stage'[r] = "trim_1_first" /\ at'[r] = "min"
    BY <1>1, <1>3
  <2> QED BY <1>3, <1>4, <1>5, <1>11, <1>12, <2>1, <2>2 DEF Reducing
<1>14. TypeOK'
  BY <1>1, <1>3, <1>9 DEF AllreduceMax, TypeOK
<1>15. StagesInv'
  <2>1. "trim_ex" \notin DOMAIN Program
    BY <1>1, <1>2, ProgramFacts DEF TypeOK, TrimmingFirst
  <2> QED BY <1>2, <1>3, <1>13, <2>1 DEF StagesInv, StagesInOrder
<1> QED BY <1>4, <1>14, <1>15 DEF DriverCore

\* The second leaves the same one on all ranks, if a vertex is undecided.
LEMMA AllreduceMinStep ==
  ASSUME DriverCore, AllreduceMin
  PROVE  DriverCore' /\ IdsStay
<1>1. /\ TypeOK /\ Whole /\ Counts /\ Named
      /\ \A r \in Ranks : stage[r] = "trim_1_first" /\ at[r] = "min"
  BY DEF DriverCore, AllreduceMin, Together
<1>2. Reducing /\ todo = {} /\ input \in Inputs
  BY <1>1, InFirstTrim, NothingToVisit, RanksAssumption DEF Trims, TypeOK
<1>3. /\ input' = input /\ is_undecided' = is_undecided /\ scc_id' = scc_id
      /\ local_decided' = local_decided /\ stage' = stage /\ todo' = todo
      /\ Program' = Program /\ at' = [r \in Ranks |-> "count"]
      /\ \A U, v : degree_prod(U, v)' = degree_prod(U, v)
  BY SameInput DEF AllreduceMin, Together
<1>4. /\ Whole' /\ Counts' /\ Named'
      /\ NamesAgree' = NamesAgree /\ Trimmed' = Trimmed
      /\ IdsStay
  BY <1>1, <1>3, NothingDecided
<1>5. \A r \in Ranks : pivot[r] \in Vertices \cup {n} /\ pivot[r] \in Nat
  BY <1>1, NumberFacts DEF TypeOK
<1>6. PICK q \in Ranks : \A r \in Ranks : pivot[q] <= pivot[r]
  <2>1. IsFiniteSet(Ranks) /\ Ranks # {} /\ \A r \in Ranks : pivot[r] \in Int
    BY <1>5, RanksAssumption
  <2> QED BY <2>1, LeastOf
<1>7. Min({pivot[s] : s \in Ranks}) = pivot[q]
  <2> DEFINE S == {pivot[s] : s \in Ranks}
  <2>1. S \in SUBSET Nat /\ pivot[q] \in S /\ \A y \in S : pivot[q] <= y
    BY <1>5, <1>6
  <2> HIDE DEF S
  <2>2. Min(S) = pivot[q]
    BY <2>1, MinIs
  <2> QED BY <2>2 DEF S
<1>8. \A r \in Ranks : pivot'[r] = pivot[q]
  BY <1>7 DEF AllreduceMin
<1>9. is_undecided # {} => OnePivot(Vertices)'
  <2> SUFFICES ASSUME is_undecided # {} PROVE OnePivot(Vertices)'
    OBVIOUS
  <2>1. PICK r \in Ranks : pivot[r] # n
    BY <1>2 DEF Reducing
  <2>2. pivot[q] # n
    BY <1>5, <1>6, <2>1, NumberFacts
  <2>3. /\ pivot[q] \in is_undecided
        /\ \A v \in is_undecided : degree_prod(Vertices, v) <= degree_prod(Vertices, pivot[q])
    BY <1>2, <2>2 DEF Reducing
  <2> QED BY <1>3, <1>8, <2>3 DEF OnePivot
<1>10. Counting("trim_1_first")'
  BY <1>1, <1>2, <1>3, <1>4, <1>9 DEF Counting, LeftBy, Reducing
<1>11. TypeOK'
  BY <1>1, <1>3, <1>5, <1>8 DEF AllreduceMin, TypeOK
<1>12. StagesInv'
  <2>1. "trim_ex" \notin DOMAIN Program /\ "trim_1_first" \in DOMAIN Program
    BY <1>2, ProgramFacts DEF Reducing
  <2> QED BY <1>2, <1>3, <1>10, <2>1 DEF StagesInv, StagesInOrder
<1> QED BY <1>4, <1>11, <1>12 DEF DriverCore
-----------------------------------------------------------------------------
(* From one stage to the next                                              *)

\* A rank that passes does not change what the others are to find.
LEMMA StillBetween ==
  ASSUME NEW s, BetweenStages(s), TypeOK, Whole, Counts, Named,
         input' = input, is_undecided' = is_undecided, scc_id' = scc_id,
         local_decided' = local_decided, global_decided' = global_decided,
         pivot' = pivot, present' = present, decided_stack' = decided_stack,
         \A r \in Ranks : Passing(s, r)'
  PROVE  BetweenStages(s)'
<1>1. /\ Program' = Program /\ edges' = edges
      /\ \A U, v : degree_prod(U, v)' = degree_prod(U, v)
      /\ NamesAgree' = NamesAgree /\ Trimmed' = Trimmed
  BY SameInput, NothingDecided
<1>2. NextStage(s)' = NextStage(s)
  BY <1>1 DEF NextStage
<1>3. OnePivot(Vertices)' = OnePivot(Vertices)
  BY <1>1 DEF OnePivot
<1>4. LeftBy(s)'
  BY <1>1, <1>3 DEF BetweenStages, LeftBy
<1> QED BY <1>2, <1>4 DEF BetweenStages

\* A rank goes on to the stage that the sum says, as the others do or will do.
LEMMA BranchStep ==
  ASSUME DriverCore, NEW r \in Ranks, Branch(r)
  PROVE  DriverCore' /\ IdsStay
<1>1. /\ TypeOK /\ Whole /\ Counts /\ Named /\ StagesInv
      /\ at[r] = "branch" /\ stage[r] # "done"
  BY DEF DriverCore, Branch
<1>2. PICK s \in DOMAIN Program \cup {"residual"} : BetweenStages(s) /\ stage[r] = s
  BY <1>1, Leaving
<1>3. /\ input' = input /\ is_undecided' = is_undecided /\ scc_id' = scc_id
      /\ local_decided' = local_decided /\ global_decided' = global_decided
      /\ pivot' = pivot /\ present' = present /\ decided_stack' = decided_stack
      /\ Program' = Program /\ \A q : Local(q)' = Local(q)
  BY SameInput DEF Branch
<1>4. NextStage(s)' = NextStage(s) /\ NextStage(s) \in Stages
  BY <1>1, <1>3, NextStageFacts DEF NextStage, TypeOK
<1>5. /\ stage' = [stage EXCEPT ![r] = NextStage(s)]
      /\ at' = [at EXCEPT ![r] = IF NextStage(s) = "done" THEN "branch" ELSE "work"]
      /\ todo' = IF NextStage(s) \in Trims THEN todo \cup (is_undecided \cap Local(r)) ELSE todo
  <2>1. stage'[r] = NextStage(s)
    BY <1>1, <1>2 DEF Branch, TypeOK
  <2> QED BY <1>2, <2>1 DEF Branch, Trims
<1>6. \A q \in Ranks : Passing(s, q)'
  <2> SUFFICES ASSUME NEW q \in Ranks PROVE Passing(s, q)'
    OBVIOUS
  <2>1. CASE q = r
    BY <1>1, <1>4, <1>5, <2>1 DEF Passing, TypeOK
  <2>2. CASE q # r
    <3>1. Passing(s, q) /\ stage'[q] = stage[q] /\ at'[q] = at[q]
      BY <1>1, <1>2, <1>5, <2>2 DEF BetweenStages, TypeOK
    <3> QED BY <1>4, <3>1 DEF Passing
  <2> QED BY <2>1, <2>2
<1>7. BetweenStages(s)'
  BY <1>1, <1>2, <1>3, <1>6, StillBetween
<1>8. TypeOK'
  <2> QED BY <1>1, <1>3, <1>4, <1>5 DEF TypeOK
<1>9. \A v \in todo' : stage'[input.owner[v]] \in Trims /\ at'[input.owner[v]] = "work"
  <2> SUFFICES ASSUME NEW v \in todo'
               PROVE  stage'[input.owner[v]] \in Trims /\ at'[input.owner[v]] = "work"
    OBVIOUS
  <2>1. CASE v \in todo
    <3>1. /\ stage[input.owner[v]] \in Trims /\ at[input.owner[v]] = "work"
          /\ input.owner[v] # r
      BY <1>1, <2>1 DEF StagesInv
    <3> QED BY <1>1, <1>5, <3>1 DEF TypeOK
  <2>2. CASE v \notin todo
    <3>1. NextStage(s) \in Trims /\ input.owner[v] = r /\ NextStage(s) # "done"
      BY <1>5, <2>2 DEF Local, Trims
    <3> QED BY <1>1, <1>5, <3>1 DEF TypeOK
  <2> QED BY <2>1, <2>2
<1>10. StagesInv'
  BY <1>1, <1>2, <1>3, <1>7, <1>9 DEF StagesInv, StagesInOrder
<1>11. Whole' /\ Counts' /\ Named' /\ IdsStay
  BY <1>1, <1>3, NothingDecided
<1> QED BY <1>8, <1>10, <1>11 DEF DriverCore

\* The sum tells every rank how many vertices are decided on all of them.
LEMMA CountStep ==
  ASSUME DriverCore, Count
  PROVE  DriverCore' /\ IdsStay
<1>1. /\ TypeOK /\ Whole /\ Counts /\ Named /\ StagesInv
      /\ \A r \in Ranks : stage[r] \in DOMAIN Program /\ at[r] = "count"
  BY DEF DriverCore, Count, Together
<1>2. PICK s \in DOMAIN Program : (\A r \in Ranks : stage[r] = s) /\ LeftBy(s)
  <2>1. CASE \E s \in DOMAIN Program : Counting(s)
    BY <2>1 DEF Counting
  <2>2. CASE \E s \in DOMAIN Program \cup {"residual"} : BetweenStages(s)
    <3>1. PICK s \in DOMAIN Program \cup {"residual"} : BetweenStages(s)
      BY <2>2
    <3>2. /\ \A r \in Ranks : stage[r] = "trim_1_normal"
          /\ NextStage(s) \in Trims
      BY <1>1, <3>1, RanksAssumption DEF BetweenStages, Passing
    <3>3. s = "search" /\ "trim_1_normal" \in DOMAIN Program
      BY <1>1, <3>2, NextStageFacts DEF TypeOK
    <3>4. LeftBy("trim_1_normal")
      BY <3>1, <3>3 DEF BetweenStages, LeftBy
    <3> QED BY <3>2, <3>3, <3>4
  <2> QED BY <1>1, <2>1, <2>2, RanksAssumption
          DEF StagesInv, StagesInOrder, TrimmingFirst, Reducing, CallingTrimEx,
              CallingSearch, Calls
<1>3. /\ input' = input /\ is_undecided' = is_undecided /\ scc_id' = scc_id
      /\ local_decided' = local_decided /\ stage' = stage /\ todo' = todo
      /\ pivot' = pivot /\ present' = present /\ decided_stack' = decided_stack
      /\ Program' = Program /\ edges' = edges /\ at' = [r \in Ranks |-> "branch"]
      /\ \A U, v : degree_prod(U, v)' = degree_prod(U, v)
      /\ global_decided' = SumOverRanks(local_decided)
  BY SameInput DEF Count, Together
<1>4. /\ Whole' /\ Counts' /\ Named'
      /\ NamesAgree' = NamesAgree /\ Trimmed' = Trimmed
      /\ IdsStay
  BY <1>1, <1>3, NothingDecided
<1>5. /\ SumOverRanks(local_decided) = Cardinality(Vertices \ is_undecided)
      /\ SumOverRanks(local_decided) \in 0 .. n
  BY <1>1, SumIsDecided
<1>6. todo = {}
  BY <1>1, NothingToVisit
<1>7. LeftBy(s)'
  <2>1. OnePivot(Vertices)' = OnePivot(Vertices)
    BY <1>3 DEF OnePivot
  <2> QED BY <1>2, <1>3, <1>4, <2>1 DEF LeftBy
<1>8. BetweenStages(s)'
  BY <1>2, <1>3, <1>5, <1>7 DEF BetweenStages, Passing
<1>9. TypeOK'
  BY <1>1, <1>3, <1>5 DEF TypeOK
<1>10. StagesInv'
  BY <1>1, <1>2, <1>3, <1>6, <1>8 DEF StagesInv, StagesInOrder
<1> QED BY <1>4, <1>9, <1>10 DEF DriverCore
-----------------------------------------------------------------------------
(* trim_1_normal                                                           *)

\* A rank trims its own vertices after the search and before any other stage.
LEMMA Trimming ==
  ASSUME DriverCore, NEW r \in Ranks, stage[r] \in Trims, at[r] = "work"
  PROVE  /\ BetweenStages("search") /\ NextStage("search") \in Trims
         /\ "search" \in DOMAIN Program /\ "trim_ex" \notin DOMAIN Program
         /\ NamesAgree
<1>1. PICK s \in DOMAIN Program : BetweenStages(s) /\ NextStage(s) \in Trims
  <2>1. stage[r] \notin {"trim_1_first", "trim_ex_first"} /\ stage[r] # "search"
    BY DEF Trims
  <2> QED BY <2>1, Called
<1>2. s = "search" /\ "trim_ex" \notin DOMAIN Program
  BY <1>1, NextStageFacts DEF DriverCore, TypeOK
<1> QED BY <1>1, <1>2 DEF BetweenStages, LeftBy

\* A vertex without an undecided neighbour in or out is decided alone.
LEMMA TrimVisitStep ==
  ASSUME DriverCore, NEW k \in Vertices, TrimVisit(k)
  PROVE  DriverCore' /\ IdsStay
<1> DEFINE r == input.owner[k]
           D == IF HasDegree(k) THEN {} ELSE {k}
<1>1. /\ TypeOK /\ Whole /\ Counts /\ Named /\ StagesInv
      /\ stage[r] \in Trims /\ at[r] = "work" /\ k \in todo /\ k \in is_undecided
      /\ Decide(D, Itself)
  BY DEF DriverCore, TrimVisit, Trims, TypeOK
<1>2. r \in Ranks
  BY <1>1, InputFacts DEF TypeOK
<1>3. /\ BetweenStages("search") /\ NextStage("search") \in Trims
      /\ "search" \in DOMAIN Program /\ "trim_ex" \notin DOMAIN Program
      /\ NamesAgree
  <2> HIDE DEF r
  <2> QED BY <1>1, <1>2, Trimming
<1>4. /\ input' = input /\ stage' = stage /\ at' = at /\ todo' = todo \ {k}
      /\ global_decided' = global_decided
      /\ pivot' = pivot /\ present' = present /\ decided_stack' = decided_stack
      /\ Program' = Program
  BY SameInput DEF TrimVisit
<1>5. D \in SUBSET is_undecided /\ \A v \in D : SCC(edges, v) = {v}
  <2> SUFFICES ASSUME ~ HasDegree(k) PROVE SCC(edges, k) = {k}
    BY <1>1
  <2>1. Succ(edges, k) \cap is_undecided = {}
    BY DEF HasDegree
  <2>2. SCC(edges, k) \subseteq is_undecided /\ is_undecided \in SUBSET Vertices
    BY <1>1 DEF Whole, TypeOK
  <2> QED BY <1>1, <2>1, <2>2, TrimmedAlone
<1>6. D \subseteq {k}
  OBVIOUS
<1> HIDE DEF D, r
<1>7. /\ Whole' /\ Counts' /\ Named' /\ NamesAgree'
      /\ is_undecided' \subseteq Vertices
      /\ scc_id' \in [Vertices -> Vertices \cup {Undecided}]
      /\ local_decided' \in [Ranks -> 0 .. n]
      /\ IdsStay
  BY <1>1, <1>3, <1>4, <1>5, DecideAlone
<1>8. TypeOK'
  <2>1. todo' \subseteq is_undecided'
    BY <1>1, <1>4, <1>6 DEF Decide, TypeOK
  <2> QED BY <1>1, <1>4, <1>7, <2>1 DEF TypeOK
<1>9. BetweenStages("search")'
  <2>1. NextStage("search")' = NextStage("search")
    BY <1>4 DEF NextStage
  <2>2. \A q \in Ranks : Passing("search", q)'
    <3> QED BY <1>3, <1>4, <2>1 DEF BetweenStages, Passing
  <2>3. LeftBy("search")'
    BY <1>7 DEF LeftBy
  <2> QED BY <1>3, <2>1, <2>2, <2>3 DEF BetweenStages
<1>10. StagesInv'
  BY <1>1, <1>3, <1>4, <1>9 DEF StagesInv, StagesInOrder
<1> QED BY <1>7, <1>8, <1>10 DEF DriverCore

\* A rank leaves trim_1_normal when it has visited all that it had to.
LEMMA TrimReturnStep ==
  ASSUME DriverCore, NEW r \in Ranks, TrimReturn(r)
  PROVE  DriverCore' /\ IdsStay
<1>1. /\ TypeOK /\ Whole /\ Counts /\ Named /\ StagesInv
      /\ stage[r] \in Trims /\ at[r] = "work" /\ todo \cap Local(r) = {}
  BY DEF DriverCore, TrimReturn, Trims
<1>2. /\ BetweenStages("search") /\ NextStage("search") \in Trims
      /\ "search" \in DOMAIN Program /\ "trim_ex" \notin DOMAIN Program
  BY <1>1, Trimming
<1>3. /\ input' = input /\ is_undecided' = is_undecided /\ scc_id' = scc_id
      /\ local_decided' = local_decided /\ global_decided' = global_decided
      /\ pivot' = pivot /\ present' = present /\ decided_stack' = decided_stack
      /\ Program' = Program /\ \A q : Local(q)' = Local(q)
      /\ stage' = [stage EXCEPT ![r] = "trim_1_normal"]
  BY SameInput DEF TrimReturn
<1>4. \/ at' = at /\ todo' = todo \cup (is_undecided \cap Local(r))
      \/ at' = [at EXCEPT ![r] = "count"] /\ todo' = todo
  BY DEF TrimReturn
<1>5. NextStage("search")' = NextStage("search")
  BY <1>3 DEF NextStage
<1>6. \A q \in Ranks : Passing("search", q)'
  <2> SUFFICES ASSUME NEW q \in Ranks PROVE Passing("search", q)'
    OBVIOUS
  <2>1. CASE q = r
    <3>1. stage'[q] = "trim_1_normal" /\ at'[q] \in {"work", "count"}
      BY <1>1, <1>3, <1>4, <2>1 DEF TypeOK
    <3> QED BY <1>2, <1>5, <3>1 DEF Passing, Trims
  <2>2. CASE q # r
    <3>1. Passing("search", q) /\ stage'[q] = stage[q] /\ at'[q] = at[q]
      BY <1>1, <1>2, <1>3, <1>4, <2>2 DEF BetweenStages, TypeOK
    <3> QED BY <1>5, <3>1 DEF Passing
  <2> QED BY <2>1, <2>2
<1>7. BetweenStages("search")'
  BY <1>1, <1>2, <1>3, <1>6, StillBetween
<1>8. TypeOK'
  BY <1>1, <1>3, <1>4 DEF TypeOK, Stages
<1>9. \A v \in todo' : stage'[input.owner[v]] \in Trims /\ at'[input.owner[v]] = "work"
  <2> SUFFICES ASSUME NEW v \in todo'
               PROVE  stage'[input.owner[v]] \in Trims /\ at'[input.owner[v]] = "work"
    OBVIOUS
  <2>1. v \in Vertices
    BY <1>1, <1>4 DEF TypeOK
  <2>2. CASE input.owner[v] = r
    <3>1. v \notin todo
      BY <1>1, <2>1, <2>2 DEF Local
    <3>2. at' = at
      BY <1>4, <3>1
    <3> QED BY <1>1, <1>3, <2>2, <3>2 DEF TypeOK, Trims
  <2>3. CASE input.owner[v] # r
    <3>1. v \in todo
      BY <1>4, <2>3 DEF Local
    <3>2. stage[input.owner[v]] \in Trims /\ at[input.owner[v]] = "work"
      BY <1>1, <3>1 DEF StagesInv
    <3>3. input.owner[v] \in Ranks
      BY <1>1, <2>1, InputFacts DEF TypeOK
    <3>4. /\ stage'[input.owner[v]] = stage[input.owner[v]]
          /\ at'[input.owner[v]] = at[input.owner[v]]
      BY <1>1, <1>3, <1>4, <2>3, <3>3 DEF TypeOK
    <3> QED BY <3>2, <3>4
  <2> QED BY <2>2, <2>3
<1>10. StagesInv'
  BY <1>1, <1>2, <1>3, <1>7, <1>9 DEF StagesInv, StagesInOrder
<1>11. Whole' /\ Counts' /\ Named' /\ IdsStay
  BY <1>1, <1>3, NothingDecided
<1> QED BY <1>8, <1>10, <1>11 DEF DriverCore
-----------------------------------------------------------------------------
(* The stages of all ranks                                                 *)

\* What a stage finds that all ranks call: the previous one is over for all
\* of them, and something is left to decide.
LEMMA Calling ==
  ASSUME DriverCore, NEW x \in {"select", "search", "color", "residual", "trim_ex"}, Calls(x)
  PROVE  /\ todo = {}
         /\ \/ \E s \in DOMAIN Program :
                 /\ BetweenStages(s) /\ NextStage(s) = x /\ s # "residual"
                 /\ NamesAgree /\ is_undecided # {}
            \/ x = "search" /\ CallingSearch
<1>1. TypeOK /\ \A r \in Ranks : stage[r] = x /\ at[r] = "work"
  BY DEF DriverCore, Calls
<1>2. todo = {}
  BY <1>1, NothingToVisit DEF Trims
<1>3. \/ \E s \in DOMAIN Program : BetweenStages(s) /\ NextStage(s) = x
      \/ x = "search" /\ CallingSearch
  <2>1. PICK r \in Ranks : stage[r] = x /\ at[r] = "work"
    BY <1>1, RanksAssumption
  <2> QED BY <2>1, Called DEF Trims
<1>4. ASSUME NEW s \in DOMAIN Program, BetweenStages(s), NextStage(s) = x
      PROVE  s # "residual" /\ NamesAgree /\ is_undecided # {}
  <2>1. s # "residual" /\ global_decided # n
    BY <1>1, <1>4, NextStageFacts DEF TypeOK
  <2>2. NamesAgree /\ global_decided = Cardinality(Vertices \ is_undecided)
    BY <1>4, <2>1 DEF BetweenStages, LeftBy, Trims
  <2>3. is_undecided = {} => Vertices \ is_undecided = Vertices
    OBVIOUS
  <2> QED BY <2>1, <2>2, <2>3 DEF n
<1> QED BY <1>2, <1>3, <1>4

\* Of what the ranks find, one has the largest product and of those the last
\* vertex.
LEMMA LargestFound ==
  ASSUME NEW f, \A r \in Ranks : f[r].degree_product \in Nat /\ f[r].u \in Nat
  PROVE  \E q \in Ranks : \A r \in Ranks :
           \/ f[r].degree_product < f[q].degree_product
           \/ f[r].degree_product = f[q].degree_product /\ f[r].u <= f[q].u
<1> DEFINE prod == [r \in Ranks |-> f[r].degree_product]
           last == [r \in Ranks |-> f[r].u]
<1>1. \A r \in Ranks : /\ prod[r] \in Nat /\ prod[r] = f[r].degree_product
                       /\ last[r] \in Nat /\ last[r] = f[r].u
  OBVIOUS
<1> HIDE DEF prod, last
<1>2. PICK p \in Ranks : \A r \in Ranks : prod[r] <= prod[p]
  <2>1. IsFiniteSet(Ranks) /\ Ranks # {} /\ \A r \in Ranks : prod[r] \in Int
    BY <1>1, RanksAssumption
  <2> QED BY <2>1, GreatestOf
<1> DEFINE M == {r \in Ranks : prod[r] = prod[p]}
<1>3. M \subseteq Ranks /\ p \in M
  OBVIOUS
<1>4. PICK q \in M : \A r \in M : last[r] <= last[q]
  <2>1. IsFiniteSet(M) /\ M # {}
    BY <1>3, RanksAssumption, FS_Subset
  <2>2. \A r \in M : last[r] \in Int
    BY <1>1
  <2> HIDE DEF M
  <2> QED BY <2>1, <2>2, GreatestOf
<1>5. ASSUME NEW r \in Ranks
      PROVE  prod[r] < prod[q] \/ (prod[r] = prod[q] /\ last[r] <= last[q])
  <2>1. prod[q] = prod[p] /\ prod[r] <= prod[p] /\ prod[r] \in Nat /\ prod[p] \in Nat
    BY <1>1, <1>2, <1>4
  <2>2. prod[r] = prod[p] => last[r] <= last[q]
    BY <1>4
  <2> QED BY <2>1, <2>2
<1> QED BY <1>1, <1>3, <1>4, <1>5

\* An undecided vertex with the largest product of what is left is selected.
LEMMA SelectStep ==
  ASSUME DriverCore, Select
  PROVE  DriverCore' /\ IdsStay
<1>1. /\ TypeOK /\ Whole /\ Counts /\ Named /\ StagesInv /\ Calls("select")
  BY DEF DriverCore, Select, Together, Calls
<1>2. PICK s \in DOMAIN Program :
        /\ BetweenStages(s) /\ NextStage(s) = "select"
        /\ NamesAgree /\ is_undecided # {} /\ todo = {}
  BY <1>1, Calling
<1>3. /\ s = "trim_ex_first" /\ Trimmed /\ present = is_undecided /\ decided_stack = {}
      /\ \A v \in present : degree_prod(present, v) > 0
  BY <1>1, <1>2, NextStageFacts DEF BetweenStages, LeftBy, TypeOK
<1>4. /\ input' = input /\ is_undecided' = is_undecided /\ scc_id' = scc_id
      /\ local_decided' = local_decided /\ global_decided' = global_decided
      /\ todo' = todo /\ present' = present /\ decided_stack' = decided_stack
      /\ Program' = Program
      /\ stage' = [r \in Ranks |-> "search"] /\ at' = [r \in Ranks |-> "work"]
      /\ \A U, v : degree_prod(U, v)' = degree_prod(U, v)
  BY SameInput DEF Select, Together
<1>5. /\ Whole' /\ Counts' /\ Named'
      /\ NamesAgree' = NamesAgree /\ Trimmed' = Trimmed
      /\ IdsStay
  BY <1>1, <1>4, NothingDecided
<1> DEFINE f == [r \in Ranks |-> local_max(r)]
           max == CHOOSE a \in {local_max(r) : r \in Ranks} :
                    \A b \in {local_max(r) : r \in Ranks} :
                      \/ b.degree_product < a.degree_product
                      \/ b.degree_product = a.degree_product /\ b.u <= a.u
           last == max.u
<1>6. pivot' = [r \in Ranks |-> last]
  BY DEF Select
<1>7. ASSUME NEW r \in Ranks
      PROVE  /\ local_max(r).degree_product \in Nat /\ local_max(r).u \in Nat
             /\ local_max(r).degree_product > 0 =>
                  /\ local_max(r).u \in is_undecided
                  /\ local_max(r).degree_product = degree_prod(present, local_max(r).u)
             /\ \A v \in is_undecided : v \in Local(r) =>
                  /\ local_max(r).degree_product > 0
                  /\ degree_prod(present, v) <= local_max(r).degree_product
  <2> DEFINE S == Local(r) \cap is_undecided
             c == Candidate(present, S)
  <2>1. S \in SUBSET Vertices
    BY DEF Local
  <2>2. \A v : v \in S <=> v \in is_undecided /\ v \in Local(r)
    OBVIOUS
  <2>3. local_max(r) = IF c = n THEN [degree_product |-> 0, u |-> 0]
                       ELSE [degree_product |-> degree_prod(present, c), u |-> c]
    BY DEF local_max
  <2> HIDE DEF S
  <2>4. /\ c = n <=> \A v \in S : degree_prod(present, v) = 0
        /\ c # n => c \in S /\ \A v \in S : degree_prod(present, v) <= degree_prod(present, c)
    BY <2>1, CandidateIs
  <2> HIDE DEF c
  <2>5. \A v \in S : degree_prod(present, v) > 0
    BY <1>3, <2>2
  <2>6. CASE S = {}
    <3>1. local_max(r) = [degree_product |-> 0, u |-> 0]
      BY <2>3, <2>4, <2>6
    <3> QED BY <2>2, <2>6, <3>1
  <2>7. CASE S # {}
    <3>1. c # n /\ c \in S
      BY <2>4, <2>5, <2>7
    <3>2. local_max(r).degree_product = degree_prod(present, c) /\ local_max(r).u = c
      BY <2>3, <3>1
    <3>3. c \in Nat /\ c \in is_undecided /\ degree_prod(present, c) \in Nat
      BY <2>1, <2>2, <3>1, NumberFacts, DegreeProdType
    <3> QED BY <2>2, <2>4, <2>5, <3>1, <3>2, <3>3
  <2> QED BY <2>6, <2>7
<1>8. PICK q \in Ranks : \A r \in Ranks :
        \/ local_max(r).degree_product < local_max(q).degree_product
        \/ local_max(r).degree_product = local_max(q).degree_product
           /\ local_max(r).u <= local_max(q).u
  <2>1. \A r \in Ranks : f[r] = local_max(r)
    OBVIOUS
  <2>2. \A r \in Ranks : f[r].degree_product \in Nat /\ f[r].u \in Nat
    BY <1>7, <2>1
  <2> HIDE DEF f
  <2>3. PICK q \in Ranks : \A r \in Ranks :
          \/ f[r].degree_product < f[q].degree_product
          \/ f[r].degree_product = f[q].degree_product /\ f[r].u <= f[q].u
    BY <2>2, LargestFound
  <2> QED BY <2>1, <2>3
<1>9. PICK p \in Ranks :
        /\ max = local_max(p)
        /\ \A r \in Ranks : \/ local_max(r).degree_product < local_max(p).degree_product
                            \/ local_max(r).degree_product = local_max(p).degree_product
  BY <1>8
<1>10. \A r \in Ranks : local_max(r).degree_product <= local_max(p).degree_product
  BY <1>7, <1>9
<1> HIDE DEF max
<1>11. \A v \in is_undecided :
         /\ local_max(p).degree_product > 0
         /\ degree_prod(present, v) <= local_max(p).degree_product
  <2> SUFFICES ASSUME NEW v \in is_undecided
               PROVE  /\ local_max(p).degree_product > 0
                      /\ degree_prod(present, v) <= local_max(p).degree_product
    OBVIOUS
  <2> DEFINE r == input.owner[v]
  <2>1. r \in Ranks /\ v \in Local(r)
    BY <1>1, InputFacts DEF TypeOK, Local
  <2>2. /\ local_max(r).degree_product > 0
        /\ degree_prod(present, v) <= local_max(r).degree_product
    BY <1>7, <2>1
  <2>3. local_max(r).degree_product <= local_max(p).degree_product
    BY <1>10, <2>1
  <2> QED BY <1>7, <2>1, <2>2, <2>3, DegreeProdType
<1>12. /\ last \in is_undecided /\ last \in Vertices
       /\ \A v \in is_undecided : degree_prod(present, v) <= degree_prod(present, last)
  <2>1. local_max(p).degree_product > 0
    BY <1>2, <1>11
  <2>2. last \in is_undecided /\ local_max(p).degree_product = degree_prod(present, last)
    BY <1>7, <1>9, <2>1
  <2> QED BY <1>1, <1>11, <2>2 DEF TypeOK
<1> HIDE DEF last
<1>13. OnePivot(present)'
  BY <1>4, <1>6, <1>12 DEF OnePivot
<1>14. CallingSearch'
  BY <1>2, <1>3, <1>4, <1>5, <1>13 DEF CallingSearch, Calls
<1>15. TypeOK'
  BY <1>1, <1>4, <1>6, <1>12 DEF TypeOK, Stages
<1>16. StagesInv'
  BY <1>1, <1>2, <1>4, <1>14 DEF StagesInv, StagesInOrder
<1> QED BY <1>5, <1>15, <1>16 DEF DriverCore

\* What a search of all ranks leaves, whichever components it decides.
LEMMA SearchLeaves ==
  ASSUME DriverCore, NEW x \in {"search", "color"}, x \in DOMAIN Program,
         Together({x}, "work", "count"), NamesAgree, todo = {},
         UNCHANGED <<input, stage, todo, global_decided, pivot, present>>,
         NEW D \in SUBSET is_undecided, NEW id, Decide(D, id), PushDecided(D),
         \A v \in D : /\ SCC(edges, v) \subseteq D /\ id[v] \in SCC(edges, v)
                      /\ \A w \in SCC(edges, v) : id[w] = id[v]
  PROVE  DriverCore' /\ IdsStay
<1>1. TypeOK /\ Whole /\ Counts /\ Named /\ StagesInv
  BY DEF DriverCore
<1>2. /\ input' = input /\ stage' = stage /\ todo' = todo /\ todo = {}
      /\ global_decided' = global_decided /\ pivot' = pivot /\ present' = present
      /\ Program' = Program /\ at' = [r \in Ranks |-> "count"]
      /\ \A r \in Ranks : stage[r] = x
      /\ is_undecided' = is_undecided \ D
  BY SameInput DEF Together, Decide
<1>3. /\ Whole' /\ Counts' /\ Named' /\ NamesAgree'
      /\ is_undecided' \subseteq Vertices
      /\ scc_id' \in [Vertices -> Vertices \cup {Undecided}]
      /\ local_decided' \in [Ranks -> 0 .. n]
      /\ IdsStay
  BY <1>1, <1>2, DecideKeeps
<1>4. decided_stack' = IF "trim_ex" \in DOMAIN Program THEN decided_stack \cup D ELSE {}
  BY DEF PushDecided
<1>5. TypeOK'
  BY <1>1, <1>2, <1>3, <1>4 DEF TypeOK
<1>6. Counting(x)'
  BY <1>2, <1>3 DEF Counting, LeftBy
<1>7. "trim_ex" \in DOMAIN Program =>
        decided_stack' \subseteq present /\ present \ decided_stack' = is_undecided'
  BY <1>1, <1>2, <1>4 DEF StagesInv
<1>8. StagesInv'
  BY <1>2, <1>6, <1>7 DEF StagesInv, StagesInOrder
<1> QED BY <1>3, <1>5, <1>8 DEF DriverCore

\* The component of an undecided vertex, in the graph that is left.
LEMMA RestFacts ==
  ASSUME TypeOK, Whole, NEW u \in is_undecided
  PROVE  /\ SCC(Induced(is_undecided), u) = SCC(edges, u)
         /\ u \in SCC(edges, u) /\ SCC(edges, u) \subseteq is_undecided
         /\ \A v \in SCC(edges, u) : u \in SCC(edges, v) /\ SCC(edges, v) = SCC(edges, u)
<1>1. /\ is_undecided \in SUBSET Vertices /\ u \in Vertices
      /\ edges \in SUBSET (Vertices \X Vertices)
      /\ \A v \in is_undecided : SCC(edges, v) \subseteq is_undecided
  BY InputFacts DEF TypeOK, Whole
<1>2. SCC(Induced(is_undecided), u) = SCC(edges, u)
  BY <1>1, ComponentOfRest
<1> QED BY <1>1, <1>2, SccSelf, SccClass

\* The search decides the pivot's component, as it is in the whole graph.
LEMMA SearchStep ==
  ASSUME DriverCore, Search
  PROVE  DriverCore' /\ IdsStay
<1>1. /\ TypeOK /\ Whole /\ Calls("search") /\ Together({"search"}, "work", "count")
      /\ UNCHANGED <<input, stage, todo, global_decided, pivot, present>>
  BY DEF DriverCore, Search, Together, Calls
<1>2. /\ todo = {} /\ NamesAgree /\ "search" \in DOMAIN Program
      /\ \E u \in is_undecided : \A r \in Ranks : pivot[r] = u
  <2>1. "search" \in DOMAIN Program /\ todo = {}
    BY <1>1, ProgramFacts, Calling DEF TypeOK
  <2>2. CASE \E s \in DOMAIN Program :
               /\ BetweenStages(s) /\ NextStage(s) = "search"
               /\ NamesAgree /\ is_undecided # {}
    <3>1. LeftBy("trim_1_first") /\ NamesAgree /\ is_undecided # {}
      BY <1>1, <2>2, NextStageFacts DEF BetweenStages, TypeOK
    <3> QED BY <2>1, <3>1 DEF LeftBy, OnePivot
  <2>3. CASE CallingSearch
    BY <2>1, <2>3 DEF CallingSearch, OnePivot
  <2> QED BY <1>1, <2>2, <2>3, Calling
<1>3. PICK u \in is_undecided : \A r \in Ranks : pivot[r] = u
  BY <1>2
<1> DEFINE D == SCC(Induced(is_undecided), u)
           id == [v \in D |-> u]
<1>4. Decide(D, id) /\ PushDecided(D)
  BY <1>3, RanksAssumption DEF Search
<1>5. /\ D \in SUBSET is_undecided
      /\ \A v \in D : /\ SCC(edges, v) \subseteq D /\ id[v] \in SCC(edges, v)
                      /\ \A w \in SCC(edges, v) : id[w] = id[v]
  BY <1>1, RestFacts
<1> HIDE DEF D, id
<1> QED BY <1>1, <1>2, <1>4, <1>5, SearchLeaves

\* The label search decides components, each under the id of a member.
LEMMA ColorStep ==
  ASSUME DriverCore, Color
  PROVE  DriverCore' /\ IdsStay
<1>1. /\ TypeOK /\ Whole /\ Calls("color") /\ Together({"color"}, "work", "count")
      /\ UNCHANGED <<input, stage, todo, global_decided, pivot, present>>
  BY DEF DriverCore, Color, Together, Calls
<1>2. todo = {} /\ NamesAgree /\ "color" \in DOMAIN Program
  BY <1>1, Calling, NextStageFacts DEF TypeOK
<1>3. PICK ids \in (SUBSET is_undecided) \ {{}} :
        LET D == UNION {SCC(Induced(is_undecided), u) : u \in ids}
        IN  /\ \A u, v \in ids : u # v => v \notin SCC(Induced(is_undecided), u)
            /\ Decide(D, [v \in D |-> CHOOSE u \in ids : v \in SCC(Induced(is_undecided), u)])
            /\ PushDecided(D)
  BY DEF Color
<1> DEFINE D == UNION {SCC(Induced(is_undecided), u) : u \in ids}
           id == [v \in D |-> CHOOSE u \in ids : v \in SCC(Induced(is_undecided), u)]
<1>4. \A u \in ids : /\ SCC(Induced(is_undecided), u) = SCC(edges, u)
                     /\ u \in SCC(edges, u) /\ SCC(edges, u) \subseteq is_undecided
                     /\ \A v \in SCC(edges, u) :
                          u \in SCC(edges, v) /\ SCC(edges, v) = SCC(edges, u)
  BY <1>1, RestFacts
<1>5. \A u, v \in ids : u # v => v \notin SCC(edges, u)
  BY <1>3, <1>4
<1>6. \A v : v \in D <=> \E u \in ids : v \in SCC(edges, u)
  BY <1>4
<1>7. \A v \in D : id[v] \in ids /\ v \in SCC(edges, id[v])
  BY <1>4
<1>8. Decide(D, id) /\ PushDecided(D)
  BY <1>3
<1> HIDE DEF D, id
<1>9. D \in SUBSET is_undecided
  BY <1>4, <1>6
<1>10. ASSUME NEW v \in D
       PROVE  /\ SCC(edges, v) \subseteq D /\ id[v] \in SCC(edges, v)
              /\ \A w \in SCC(edges, v) : id[w] = id[v]
  <2>1. /\ id[v] \in ids /\ v \in SCC(edges, id[v])
        /\ id[v] \in SCC(edges, v) /\ SCC(edges, v) = SCC(edges, id[v])
    BY <1>4, <1>7
  <2>2. SCC(edges, v) \subseteq D
    BY <1>6, <2>1
  <2>3. ASSUME NEW w \in SCC(edges, v) PROVE id[w] = id[v]
    <3>1. id[w] \in ids /\ w \in SCC(edges, id[w]) /\ w \in SCC(edges, id[v])
      BY <1>7, <2>1, <2>2
    <3>2. SCC(edges, w) = SCC(edges, id[w]) /\ SCC(edges, w) = SCC(edges, id[v])
      BY <1>4, <2>1, <3>1
    <3>3. id[w] \in SCC(edges, id[v])
      BY <1>4, <3>1, <3>2
    <3> QED BY <1>5, <2>1, <3>1, <3>3
  <2> QED BY <2>1, <2>2, <2>3
<1> QED BY <1>1, <1>2, <1>8, <1>9, <1>10, SearchLeaves

\* What the exhaustive trims find, the first one and the later ones.
LEMMA CallingTrim ==
  ASSUME DriverCore, Together({"trim_ex_first", "trim_ex"}, "work", "count")
  PROVE  /\ todo = {} /\ NamesAgree /\ present \ decided_stack = is_undecided
         /\ \E x \in DOMAIN Program \cap {"trim_ex_first", "trim_ex"} :
              /\ \A r \in Ranks : stage[r] = x
              /\ x = "trim_ex_first" => Trimmed
<1>1. /\ TypeOK /\ StagesInv
      /\ \A r \in Ranks : stage[r] \in {"trim_ex_first", "trim_ex"} /\ at[r] = "work"
  BY DEF DriverCore, Together
<1>2. todo = {}
  BY <1>1, NothingToVisit DEF Trims
<1>3. CASE \E r \in Ranks : stage[r] = "trim_ex"
  <2>1. PICK r \in Ranks : stage[r] = "trim_ex" /\ at[r] = "work"
    BY <1>1, <1>3
  <2>2. PICK s \in DOMAIN Program : BetweenStages(s) /\ NextStage(s) = "trim_ex"
    BY <2>1, Called DEF Trims
  <2>3. "trim_ex" \in DOMAIN Program /\ s # "residual"
    BY <1>1, <2>2, NextStageFacts DEF TypeOK
  <2>4. \A q \in Ranks : stage[q] = "trim_ex"
    BY <1>1, <2>2 DEF BetweenStages, Passing, Trims
  <2>5. NamesAgree
    BY <2>2, <2>3 DEF BetweenStages, LeftBy
  <2> QED BY <1>1, <1>2, <2>3, <2>4, <2>5 DEF StagesInv
<1>4. CASE ~ \E r \in Ranks : stage[r] = "trim_ex"
  <2>1. \A r \in Ranks : stage[r] = "trim_ex_first" /\ at[r] = "work"
    BY <1>1, <1>4
  <2>2. ASSUME NEW s \in DOMAIN Program \cup {"residual"}, BetweenStages(s) PROVE FALSE
    <3>1. NextStage(s) # "trim_ex_first"
      BY <1>1, NextStageFacts DEF TypeOK
    <3> QED BY <2>1, <2>2, <3>1, RanksAssumption DEF BetweenStages, Passing, Trims
  <2>3. CallingTrimEx
    BY <1>1, <2>1, <2>2, RanksAssumption
       DEF StagesInv, StagesInOrder, TrimmingFirst, Reducing, Counting, CallingSearch, Calls
  <2> QED BY <1>2, <2>1, <2>3 DEF CallingTrimEx, Trimmed
<1> QED BY <1>3, <1>4

\* The exhaustive trims decide vertices that are components of their own.
LEMMA TrimExStep ==
  ASSUME DriverCore, TrimEx
  PROVE  DriverCore' /\ IdsStay
<1>1. /\ TypeOK /\ Whole /\ Counts /\ Named
      /\ Together({"trim_ex_first", "trim_ex"}, "work", "count")
  BY DEF DriverCore, TrimEx
<1>2. /\ todo = {} /\ NamesAgree /\ present \ decided_stack = is_undecided
  BY <1>1, CallingTrim
<1>3. PICK x \in DOMAIN Program \cap {"trim_ex_first", "trim_ex"} :
        /\ \A r \in Ranks : stage[r] = x
        /\ x = "trim_ex_first" => Trimmed
  BY <1>1, CallingTrim
<1> DEFINE D == is_undecided \ Left
<1>4. /\ input' = input /\ stage' = stage /\ todo' = todo
      /\ global_decided' = global_decided /\ pivot' = pivot
      /\ Program' = Program /\ edges' = edges /\ at' = [r \in Ranks |-> "count"]
      /\ present' = Left /\ decided_stack' = {} /\ Decide(D, Itself)
  BY SameInput DEF TrimEx, Together
<1>5. Left \subseteq is_undecided /\ \A v \in D : SCC(edges, v) = {v}
  <2>1. Left = Core(edges, Core(Reversed(edges), is_undecided))
    BY <1>2 DEF Left
  <2>2. /\ is_undecided \in SUBSET Vertices
        /\ edges \in SUBSET (Vertices \X Vertices)
        /\ \A v \in is_undecided : SCC(edges, v) \subseteq is_undecided
    BY <1>1, InputFacts DEF TypeOK, Whole
  <2> QED BY <2>1, <2>2, TrimmedByCore
<1>6. D \in SUBSET is_undecided /\ is_undecided \ D = Left
      /\ \A v \in Vertices : v \notin Left <=> v \notin is_undecided \/ v \in D
  BY <1>5
<1> HIDE DEF D
<1>7. /\ Whole' /\ Counts' /\ Named' /\ NamesAgree'
      /\ is_undecided' \subseteq Vertices
      /\ scc_id' \in [Vertices -> Vertices \cup {Undecided}]
      /\ local_decided' \in [Ranks -> 0 .. n]
      /\ IdsStay
  BY <1>1, <1>2, <1>4, <1>5, <1>6, DecideAlone
<1>8. is_undecided' = Left
  BY <1>4, <1>6 DEF Decide
<1>9. TypeOK'
  BY <1>1, <1>2, <1>4, <1>7, <1>8 DEF TypeOK
<1>10. x = "trim_ex_first" => Trimmed'
  BY <1>3, <1>4, <1>5, <1>6, <1>8 DEF Trimmed
<1>11. \A v \in Left : degree_prod(Left, v) > 0
  <2>1. Left = Core(edges, Core(Reversed(edges), is_undecided))
    BY <1>2 DEF Left
  <2>2. /\ is_undecided \in SUBSET Vertices /\ Left \in SUBSET Vertices
        /\ input \in Inputs /\ edges \in SUBSET (Vertices \X Vertices)
    BY <1>1, <1>5, InputFacts DEF TypeOK
  <2>3. \A v \in Left : Succ(edges, v) \cap Left # {} /\ Pred(edges, v) \cap Left # {}
    BY <2>1, <2>2, CoreNeighbours
  <2> HIDE DEF Left
  <2>4. \A v \in Left : Succ(Induced(Left), v) # {} /\ Pred(Induced(Left), v) # {}
    BY <2>2, <2>3 DEF Induced, Succ, Pred
  <2> QED BY <2>2, <2>4, DegreeProdPositive
<1>12. \A v \in present' : degree_prod(present, v)' > 0
  <2>1. \A U, v : degree_prod(U, v)' = degree_prod(U, v)
    BY <1>4, SameInput
  <2> QED BY <1>4, <1>11, <2>1
<1>13. Counting(x)'
  BY <1>3, <1>4, <1>7, <1>8, <1>10, <1>12 DEF Counting, LeftBy
<1>14. StagesInv'
  BY <1>2, <1>3, <1>4, <1>8, <1>13 DEF StagesInv, StagesInOrder
<1> QED BY <1>7, <1>9, <1>14 DEF DriverCore

\* One vertex of a component comes first in the gathered sub-graph.
LEMMA FirstGathered ==
  ASSUME input \in Inputs, NEW C \in SUBSET Vertices, C # {}
  PROVE  \E u \in C : \A w \in C : Before(u, w)
<1> DEFINE id == [v \in Vertices |-> v]
<1>1. \A v \in Vertices : input.owner[v] \in Int /\ id[v] \in Int /\ id[v] = v
  <2>1. \A v \in Vertices : input.owner[v] \in Int
    <3>1. \A r \in Ranks : r \in Int
      BY RanksAssumption
    <3>2. \A v \in Vertices : input.owner[v] \in Ranks
      BY InputFacts
    <3> QED BY <3>1, <3>2
  <2>2. \A v \in Vertices : v \in Int
    BY NumberFacts
  <2> QED BY <2>1, <2>2
<1> HIDE DEF id
<1>2. \A S \in SUBSET Vertices : IsFiniteSet(S)
  BY NumberFacts
<1> DEFINE owner == input.owner
<1>3. PICK q \in C : \A w \in C : owner[q] <= owner[w]
  <2>1. IsFiniteSet(C) /\ \A v \in C : owner[v] \in Int
    BY <1>1, <1>2
  <2> HIDE DEF owner
  <2> QED BY <2>1, LeastOf
<1> DEFINE M == {u \in C : owner[u] = owner[q]}
<1>4. PICK u \in M : \A w \in M : id[u] <= id[w]
  <2>1. IsFiniteSet(M) /\ M # {} /\ \A v \in M : id[v] \in Int
    BY <1>1, <1>2, <1>3
  <2> HIDE DEF M
  <2> QED BY <2>1, LeastOf
<1>5. \A w \in C : Before(u, w)
  <2> SUFFICES ASSUME NEW w \in C PROVE Before(u, w)
    OBVIOUS
  <2>1. CASE w \in M
    BY <1>1, <1>4, <2>1 DEF Before
  <2>2. CASE w \notin M
    BY <1>1, <1>3, <1>4, <2>2 DEF Before
  <2> QED BY <2>1, <2>2
<1> QED BY <1>4, <1>5

\* The last stage writes an id for every vertex that has none.
LEMMA ResidualStep ==
  ASSUME DriverCore, Residual
  PROVE  DriverCore' /\ IdsStay
<1>1. /\ TypeOK /\ Whole /\ Counts /\ Named /\ StagesInv /\ Calls("residual")
  BY DEF DriverCore, Residual, Together, Calls
<1>2. todo = {} /\ NamesAgree
  BY <1>1, Calling
<1> DEFINE gathered(C) == CHOOSE u \in C : \A w \in C : Before(u, w)
<1>3. /\ input' = input /\ is_undecided' = is_undecided /\ stage' = stage
      /\ local_decided' = local_decided /\ global_decided' = global_decided
      /\ todo' = todo /\ pivot' = pivot /\ present' = present
      /\ decided_stack' = decided_stack /\ at' = [r \in Ranks |-> "branch"]
      /\ Program' = Program /\ edges' = edges /\ \A q : Local(q)' = Local(q)
  BY SameInput DEF Residual, Together
<1>4. scc_id' = [v \in Vertices |->
        IF v \notin is_undecided THEN scc_id[v]
        ELSE gathered(SCC(Induced(is_undecided), v))]
  BY DEF Residual
<1>5. \A C \in SUBSET Vertices : C # {} => gathered(C) \in C
  BY <1>1, FirstGathered DEF TypeOK
<1> HIDE DEF gathered
<1>6. ASSUME NEW v \in is_undecided
      PROVE  /\ scc_id'[v] = gathered(SCC(edges, v))
             /\ scc_id'[v] \in SCC(edges, v) /\ scc_id'[v] \in Vertices
             /\ \A w \in SCC(edges, v) : scc_id'[w] = scc_id'[v]
  <2>1. /\ SCC(Induced(is_undecided), v) = SCC(edges, v)
        /\ v \in SCC(edges, v) /\ SCC(edges, v) \subseteq is_undecided
        /\ \A w \in SCC(edges, v) : SCC(edges, w) = SCC(edges, v)
        /\ is_undecided \subseteq Vertices
    BY <1>1, RestFacts DEF TypeOK
  <2>2. \A w \in SCC(edges, v) : SCC(Induced(is_undecided), w) = SCC(edges, v)
    BY <1>1, <2>1, RestFacts
  <2>3. \A w \in SCC(edges, v) : scc_id'[w] = gathered(SCC(edges, v))
    BY <1>4, <2>1, <2>2
  <2>4. gathered(SCC(edges, v)) \in SCC(edges, v)
    BY <1>5, <2>1
  <2> QED BY <2>1, <2>3, <2>4
<1>7. \A v \in Vertices : v \notin is_undecided <=> scc_id[v] # Undecided
  BY <1>2 DEF NamesAgree
<1>8. \A v \in Vertices : v \notin is_undecided => scc_id'[v] = scc_id[v]
  BY <1>4
<1>9. IdsStay /\ \A v \in Vertices : scc_id'[v] # Undecided
  BY <1>6, <1>7, <1>8, UndecidedAssumption DEF IdsStay
<1>10. scc_id' \in [Vertices -> Vertices \cup {Undecided}]
  <2>1. \A v \in Vertices : scc_id'[v] \in Vertices \cup {Undecided}
    BY <1>1, <1>6, <1>8 DEF TypeOK
  <2>2. scc_id' = [v \in Vertices |-> scc_id'[v]]
    BY <1>4
  <2> QED BY <2>1, <2>2
<1>11. Named'
  <2> SUFFICES ASSUME NEW u \in Vertices
               PROVE  /\ scc_id'[u] \in SCC(edges, u)
                      /\ \A v \in SCC(edges, u) : scc_id'[v] = scc_id'[u]
    BY <1>3 DEF Named, IsLabelling
  <2>1. CASE u \in is_undecided
    BY <1>6, <2>1
  <2>2. CASE u \notin is_undecided
    <3>1. \A v \in SCC(edges, u) : v \in Vertices /\ v \notin is_undecided
      BY <1>1, <2>2, SccClass DEF Whole
    <3> QED BY <1>1, <1>7, <1>8, <2>2, <3>1 DEF Named, IsLabelling
  <2> QED BY <2>1, <2>2
<1>12. Whole' /\ Counts'
  BY <1>1, <1>3 DEF Whole, Counts
<1>13. TypeOK'
  BY <1>1, <1>3, <1>10 DEF TypeOK
<1>14. BetweenStages("residual")'
  <2>1. \A r \in Ranks : stage'[r] = "residual" /\ at'[r] = "branch"
    BY <1>1, <1>3 DEF Calls
  <2> QED BY <1>9, <2>1 DEF BetweenStages, Passing, LeftBy
<1>15. StagesInv'
  BY <1>1, <1>2, <1>3, <1>14 DEF StagesInv, StagesInOrder
<1> QED BY <1>9, <1>11, <1>12, <1>13, <1>15 DEF DriverCore
-----------------------------------------------------------------------------
(* The invariant                                                           *)

\* Nothing changes, or all ranks have returned.
LEMMA SameStep ==
  ASSUME DriverCore, UNCHANGED vars
  PROVE  DriverCore' /\ IdsStay
<1>1. /\ input' = input /\ stage' = stage /\ at' = at /\ todo' = todo
      /\ is_undecided' = is_undecided /\ scc_id' = scc_id
      /\ local_decided' = local_decided /\ global_decided' = global_decided
      /\ pivot' = pivot /\ present' = present /\ decided_stack' = decided_stack
  BY DEF vars
<1>2. /\ Program' = Program /\ edges' = edges /\ \A q : Local(q)' = Local(q)
      /\ \A U, v : degree_prod(U, v)' = degree_prod(U, v)
  BY <1>1, SameInput
<1>3. TypeOK' /\ Whole' /\ Counts' /\ Named' /\ IdsStay
      /\ NamesAgree' = NamesAgree /\ Trimmed' = Trimmed
  BY <1>1, NothingDecided DEF DriverCore, TypeOK
<1>4. ASSUME TrimmingFirst PROVE TrimmingFirst'
  <2>1. \A U, S : Candidate(U, S)' = Candidate(U, S)
    BY <1>1 DEF Candidate, degree_prod, Induced, edges
  <2>2. \A q \in Ranks : Candidate(Vertices, Local(q) \cap is_undecided)' =
                         Candidate(Vertices, Local(q) \cap is_undecided)
    BY <1>1, <1>2, <2>1
  <2> QED BY <1>1, <1>2, <1>3, <1>4, <2>2 DEF TrimmingFirst
<1>5. Reducing => Reducing'
  BY <1>1, <1>2, <1>3 DEF Reducing
<1>6. \A s \in DOMAIN Program : Counting(s) => Counting(s)'
  <2>1. OnePivot(Vertices)' = OnePivot(Vertices)
    BY <1>1, <1>2 DEF OnePivot
  <2>2. present' = present /\ decided_stack' = decided_stack /\ is_undecided' = is_undecided
    BY <1>1
  <2>3. ASSUME NEW s \in DOMAIN Program, LeftBy(s) PROVE LeftBy(s)'
    <3>1. (\A v \in present : degree_prod(present, v) > 0) =>
            \A v \in present' : degree_prod(present, v)' > 0
      BY <1>2, <2>2
    <3> QED BY <1>1, <1>3, <2>1, <2>2, <2>3, <3>1 DEF LeftBy
  <2> QED BY <1>1, <1>3, <2>3 DEF Counting
<1>7. ASSUME NEW s \in DOMAIN Program \cup {"residual"}, BetweenStages(s)
      PROVE  BetweenStages(s)'
  <2>1. NextStage(s)' = NextStage(s)
    BY <1>1, <1>2 DEF NextStage
  <2>2. \A r \in Ranks : Passing(s, r)'
    BY <1>1, <1>7, <2>1 DEF BetweenStages, Passing
  <2>3. TypeOK /\ Whole /\ Counts /\ Named
    BY DEF DriverCore
  <2> QED BY <1>1, <1>7, <2>2, <2>3, StillBetween
<1>8. CallingTrimEx => CallingTrimEx'
  BY <1>1, <1>2, <1>3 DEF CallingTrimEx, Calls
<1>9. CallingSearch => CallingSearch'
  <2>1. OnePivot(present)' = OnePivot(present)
    BY <1>1, <1>2 DEF OnePivot
  <2> QED BY <1>1, <1>2, <1>3, <2>1 DEF CallingSearch, Calls
<1>10. StagesInOrder'
  BY <1>2, <1>4, <1>5, <1>6, <1>7, <1>8, <1>9 DEF DriverCore, StagesInv, StagesInOrder
<1>11. StagesInv'
  BY <1>1, <1>2, <1>10 DEF DriverCore, StagesInv
<1> QED BY <1>3, <1>11 DEF DriverCore

\* No step disturbs what holds between the stages.
LEMMA CoreStep ==
  ASSUME DriverCore, [Next]_vars
  PROVE  DriverCore' /\ IdsStay
<1>1. ASSUME NEW r \in Ranks, TrimFirst(r) PROVE DriverCore' /\ IdsStay
  BY <1>1, TrimFirstStep
<1>2. ASSUME NEW r \in Ranks, TrimReturn(r) PROVE DriverCore' /\ IdsStay
  BY <1>2, TrimReturnStep
<1>3. ASSUME NEW r \in Ranks, Branch(r) PROVE DriverCore' /\ IdsStay
  BY <1>3, BranchStep
<1>4. ASSUME NEW k \in Vertices, TrimVisit(k) PROVE DriverCore' /\ IdsStay
  BY <1>4, TrimVisitStep
<1>5. CASE AllreduceMax
  BY <1>5, AllreduceMaxStep
<1>6. CASE AllreduceMin
  BY <1>6, AllreduceMinStep
<1>7. CASE Select
  BY <1>7, SelectStep
<1>8. CASE Search
  BY <1>8, SearchStep
<1>9. CASE Color
  BY <1>9, ColorStep
<1>10. CASE TrimEx
  BY <1>10, TrimExStep
<1>11. CASE Residual
  BY <1>11, ResidualStep
<1>12. CASE Count
  BY <1>12, CountStep
<1>13. CASE Returned \/ UNCHANGED vars
  BY <1>13, SameStep DEF Returned
<1> QED BY <1>1, <1>2, <1>3, <1>4, <1>5, <1>6, <1>7, <1>8, <1>9, <1>10, <1>11, <1>12, <1>13
        DEF Next

\* What holds between the stages gives every stage what it relies on.
LEMMA CoreGives ==
  ASSUME DriverCore
  PROVE  DriverInv
<1>1. /\ TypeOK /\ Whole /\ Counts /\ Named /\ StagesInv /\ input \in Inputs
  BY DEF DriverCore, TypeOK
<1>2. SearchReady
  <2> SUFFICES ASSUME Calls("search")
               PROVE  /\ Trimmed
                      /\ OnePivot(IF "trim_1_first" \in DOMAIN Program THEN Vertices
                                  ELSE is_undecided)
    <3>1. \A U \in SUBSET Vertices, v \in is_undecided :
            degree_prod(U, v) = exact_prod(Induced(U), v)
      BY <1>1, ProductsFit DEF TypeOK
    <3>2. is_undecided \in SUBSET Vertices
      BY <1>1 DEF TypeOK
    <3> QED BY <3>1, <3>2 DEF SearchReady, Trimmed, OnePivot
  <2>1. CASE \E s \in DOMAIN Program :
               /\ BetweenStages(s) /\ NextStage(s) = "search"
               /\ NamesAgree /\ is_undecided # {}
    <3>1. LeftBy("trim_1_first") /\ is_undecided # {} /\ "trim_1_first" \in DOMAIN Program
      BY <1>1, <2>1, NextStageFacts DEF BetweenStages
    <3> QED BY <3>1 DEF LeftBy
  <2>2. CASE CallingSearch
    <3>1. "trim_1_first" \notin DOMAIN Program
      BY <1>1, <2>2, ProgramFacts DEF CallingSearch
    <3> QED BY <2>2, <3>1 DEF CallingSearch
  <2> QED BY <2>1, <2>2, Calling
<1>3. ComponentsWhole
  BY <1>1, Calling DEF ComponentsWhole, Whole
<1>4. DegreesReady
  <2>1. ASSUME Calls("trim_ex") PROVE "trim_ex" \in DOMAIN Program
    BY <1>1, <2>1, Calling, NextStageFacts
  <2>2. ASSUME Calls("select") PROVE present = is_undecided
    <3>1. PICK s \in DOMAIN Program : BetweenStages(s) /\ NextStage(s) = "select"
      BY <2>2, Calling
    <3>2. s = "trim_ex_first"
      BY <1>1, <3>1, NextStageFacts
    <3> QED BY <3>1, <3>2 DEF BetweenStages, LeftBy
  <2> QED BY <1>1, <2>1, <2>2 DEF DegreesReady, StagesInv
<1>5. CountersAgree
  <2> SUFFICES ASSUME \A r \in Ranks : stage[r] # "residual" /\ stage[r] # "done"
               PROVE  NamesAgree
    BY <1>1 DEF CountersAgree, Counts, NamesAgree
  <2>1. ASSUME NEW s \in DOMAIN Program \cup {"residual"}, BetweenStages(s)
        PROVE  NamesAgree
    <3>1. CASE s = "residual"
      <4>1. NextStage(s) = "done"
        BY <3>1 DEF NextStage
      <4> QED BY <2>1, <3>1, <4>1, RanksAssumption DEF BetweenStages, Passing, Trims
    <3>2. CASE s # "residual"
      BY <2>1, <3>2 DEF BetweenStages, LeftBy
    <3> QED BY <3>1, <3>2
  <2>2. ASSUME NEW s \in DOMAIN Program, Counting(s) PROVE NamesAgree
    BY <1>1, <2>2, ProgramFacts DEF Counting, LeftBy
  <2> QED BY <1>1, <2>1, <2>2
          DEF StagesInv, StagesInOrder, TrimmingFirst, Reducing, CallingTrimEx, CallingSearch
<1>6. LeaveTogether
  <2> SUFFICES ASSUME NEW r \in Ranks, stage[r] = "done"
               PROVE  \A q \in Ranks : at[q] = "branch"
    BY DEF LeaveTogether
  <2>1. ASSUME NEW s \in DOMAIN Program, Counting(s) PROVE FALSE
    BY <1>1, <2>1, ProgramFacts DEF Counting
  <2>2. PICK s \in DOMAIN Program \cup {"residual"} : BetweenStages(s)
    BY <1>1, <2>1 DEF StagesInv, StagesInOrder, TrimmingFirst, Reducing,
       CallingTrimEx, CallingSearch, Calls
  <2>3. NextStage(s) = "done"
    BY <1>1, <2>2, NextStageFacts DEF BetweenStages, Passing, Trims
  <2> QED BY <2>2, <2>3 DEF BetweenStages, Passing, Trims
<1> QED BY <1>1, <1>2, <1>3, <1>4, <1>5, <1>6 DEF DriverInv

\* In each driver, every stage is called by all ranks with what it relies on,
\* the counters are exact and no rank returns alone.
THEOREM DriverInvariant == Spec => []DriverInv
<1>1. Spec => []DriverCore
  <2>1. Init => DriverCore
    BY CoreInit
  <2>2. DriverCore /\ [Next]_vars => DriverCore'
    BY CoreStep
  <2> QED BY <2>1, <2>2, PTL DEF Spec
<1>2. DriverCore => DriverInv
  BY CoreGives
<1> QED BY <1>1, <1>2, PTL

\* The operators of the abstract specification are those of this one.
LEMMA DriverLabels ==
  /\ \A E : \A u \in Vertices : Labelling!SCC(E, u) = SCC(E, u)
  /\ \A E : Labelling!Canonical(E, scc_id) <=> IsLabelling(E, scc_id, Undecided)
<1>1. \A E : \A u \in Vertices : Labelling!SCC(E, u) = SCC(E, u)
  BY DEF Labelling!SCC, Labelling!Reach, Labelling!IsClosed, SCC, Reach, IsClosed
<1>2. \A E : \A u \in Vertices : SCC(E, u) \in SUBSET Vertices
  BY DEF SCC, Reach
<1> QED BY <1>1, <1>2 DEF Labelling!Canonical, Labelling!Decided, IsLabelling

\* Every step of a driver is one of the abstract labelling, or changes no id.
LEMMA DriverLabellingStep ==
  ASSUME DriverCore, [Next]_vars
  PROVE  [Labelling!Next]_(Labelling!labellingVars)
<1>1. DriverCore' /\ IdsStay
  BY CoreStep
<1>2. edges' = edges
  <2>1. input' = input
    BY DEF Next, TrimFirst, TrimReturn, Branch, TrimVisit, AllreduceMax, AllreduceMin,
       Select, Search, Color, TrimEx, Residual, Count, Returned, vars
  <2> QED BY <2>1, SameInput
<1>3. scc_id' \in [Vertices -> Vertices \cup {Undecided}]
  BY <1>1 DEF DriverCore, TypeOK
<1>4. (\A E : Labelling!Canonical(E, scc_id) <=> IsLabelling(E, scc_id, Undecided))'
  BY DriverLabels, PTL
<1>5. Labelling!Canonical(edges, scc_id')
  BY <1>1, <1>2, <1>4 DEF DriverCore, Named, IsLabelling, Labelling!Canonical,
     Labelling!Decided
<1> QED BY <1>1, <1>2, <1>3, <1>5 DEF Labelling!Next, Labelling!Decided, IdsStay

\* Whatever driver runs, it implements the abstract labelling: ids are only
\* ever added, and only those of components.
THEOREM DriverRefinement == Spec => ImplementsLabelling
<1>1. Init => Labelling!Init
  <2> SUFFICES ASSUME Init PROVE Labelling!Init
    OBVIOUS
  <2>1. /\ DriverCore /\ edges \in SUBSET (Vertices \X Vertices)
        /\ scc_id = [v \in Vertices |-> Undecided]
        /\ scc_id \in [Vertices -> Vertices \cup {Undecided}]
    BY CoreInit, InputFacts DEF DriverCore, TypeOK, Init
  <2>2. Labelling!Canonical(edges, scc_id)
    BY <2>1, DriverLabels DEF DriverCore, Named
  <2> QED BY <2>1, <2>2
          DEF Labelling!Init, Labelling!Graphs, Labelling!Whole, Labelling!Decided
<1>2. Init => DriverCore
  BY CoreInit
<1>3. DriverCore /\ [Next]_vars => DriverCore'
  BY CoreStep
<1>4. DriverCore /\ [Next]_vars => [Labelling!Next]_(Labelling!labellingVars)
  BY DriverLabellingStep
<1> QED BY <1>1, <1>2, <1>3, <1>4, PTL DEF Spec, ImplementsLabelling, Labelling!Spec
=============================================================================
