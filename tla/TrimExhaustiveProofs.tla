------------------------ MODULE TrimExhaustiveProofs ------------------------
(* Proofs about TrimExhaustive, for every multigraph, every partition and  *)
(* any number of ranks: TrimInv is inductive, so the degrees are exact in  *)
(* the middle of every pass, the trims are exhaustive, every vertex is     *)
(* counted once and the driver implements the abstract labelling.          *)
EXTENDS TrimExhaustive, ReachableSetsProofs

\* What TypeOK says of the current input.
LEMMA InputFacts ==
  ASSUME input \in Inputs
  PROVE  /\ arcs \in SUBSET (Vertices \X Vertices \X Copies)
         /\ \A v \in Vertices : Rank(v) \in Ranks
         /\ edges \in SUBSET (Vertices \X Vertices)
         /\ \A a \in arcs : \A d \in Directions :
              Source(d, a) \in Vertices /\ Target(d, a) \in Vertices
<1>1. arcs \in SUBSET (Vertices \X Vertices \X Copies)
  BY InputsAssumption DEF arcs
<1>2. \A a \in arcs : a[1] \in Vertices /\ a[2] \in Vertices
  BY <1>1
<1>3. \A v \in Vertices : Rank(v) \in Ranks
  BY InputsAssumption DEF Rank
<1> QED BY <1>1, <1>2, <1>3 DEF edges, Source, Target

\* An arc is an edge between the other end and its target, in either direction.
LEMMA ArcsAreEdges ==
  /\ \A a \in arcs : <<a[1], a[2]>> \in edges
  /\ \A e \in edges : \E a \in arcs : e = <<a[1], a[2]>>
BY DEF edges

\* The multigraph is finite, so that its edges can be counted.
LEMMA ArcsFinite ==
  ASSUME input \in Inputs, NEW S \in SUBSET arcs
  PROVE  IsFiniteSet(S) /\ Cardinality(S) \in Nat
<1> DEFINE Pairs == (Vertices \X Vertices) \X Copies
           All == Vertices \X Vertices \X Copies
           join == [p \in Pairs |-> <<p[1][1], p[1][2], p[2]>>]
<1>1. IsFiniteSet(Pairs)
  BY VerticesAssumption, InputsAssumption, FS_Product
<1>2. join \in Surjection(Pairs, All)
  <2>1. \A p \in Pairs : <<p[1][1], p[1][2], p[2]>> \in All
    OBVIOUS
  <2>2. ASSUME NEW a \in All PROVE \E p \in Pairs : join[p] = a
    <3>1. <<<<a[1], a[2]>>, a[3]>> \in Pairs
      OBVIOUS
    <3>2. join[<<<<a[1], a[2]>>, a[3]>>] = <<a[1], a[2], a[3]>>
      BY <3>1
    <3> QED BY <3>1, <3>2
  <2> QED BY <2>1, <2>2 DEF Surjection
<1>3. IsFiniteSet(All)
  BY <1>1, <1>2, FS_Surjection
<1>4. arcs \in SUBSET All
  BY InputFacts
<1>5. IsFiniteSet(S)
  BY <1>3, <1>4, FS_Subset
<1> QED BY <1>5, FS_CardinalityType

\* Which way a pass trims.
LEMMA TrimmingFacts ==
  /\ DOMAIN Trimming = {"fw_first", "bw_first", "fw", "bw"}
  /\ Trimming["fw_first"] = "fw" /\ Trimming["fw"] = "fw"
  /\ Trimming["bw_first"] = "bw" /\ Trimming["bw"] = "bw"
BY DEF Trimming

\* Deciding undecided vertices keeps the three records of what is decided
\* (bits, ids and counters) together, and their types.
LEMMA DecideKeepsRecords ==
  ASSUME TypeOK, DecidedOnce, NEW D \in SUBSET is_undecided, NEW id \in Vertices,
         DecideAs(D, id), input' = input
  PROVE  /\ DecidedOnce'
         /\ is_undecided' \in SUBSET Vertices
         /\ scc_id' \in [Vertices -> Vertices \cup {Undecided}]
         /\ local_decided' \in [Ranks -> Nat]
<1>1. id # Undecided /\ is_undecided \in SUBSET Vertices
  BY UndecidedAssumption DEF TypeOK
<1>2. \A r : Local(r)' = Local(r) /\ Local(r) \in SUBSET Vertices
  BY DEF Local, Rank
<1>3. scc_id' \in [Vertices -> Vertices \cup {Undecided}]
  BY DEF TypeOK, DecideAs
<1>4. is_undecided' = {v \in Vertices : scc_id'[v] = Undecided}
  BY <1>1 DEF DecidedOnce, DecideAs
<1>5. ASSUME NEW r \in Ranks
      PROVE  /\ local_decided'[r] = Cardinality(Local(r) \ is_undecided')
             /\ local_decided'[r] \in Nat
  <2> DEFINE Old == Local(r) \ is_undecided
             New == Local(r) \cap D
  <2>1. IsFiniteSet(Old) /\ IsFiniteSet(New)
    BY <1>2, VerticesAssumption, FS_Subset
  <2>2. Cardinality(Old) \in Nat /\ Cardinality(New) \in Nat
    BY <2>1, FS_CardinalityType
  <2>3. Local(r) \ is_undecided' = Old \cup New /\ Old \cap New = {}
    BY DEF DecideAs
  <2>4. local_decided'[r] = Cardinality(Old) + Cardinality(New)
    BY DEF DecideAs, DecidedOnce
  <2> HIDE DEF Old, New
  <2>5. Cardinality(Old \cap New) = 0
    BY <2>3, FS_EmptySet, Zenon
  <2>6. Cardinality(Old \cup New) =
          Cardinality(Old) + Cardinality(New) - Cardinality(Old \cap New)
    BY <2>1, FS_Union
  <2>7. local_decided'[r] = Cardinality(Old \cup New)
    BY <2>2, <2>4, <2>5, <2>6
  <2>8. local_decided'[r] = Cardinality(Local(r) \ is_undecided')
    BY <2>3, <2>7, Zenon
  <2> QED BY <2>2, <2>4, <2>8
<1>6. local_decided' \in [Ranks -> Nat]
  BY <1>5 DEF DecideAs
<1> QED BY <1>1, <1>2, <1>3, <1>4, <1>5, <1>6 DEF DecidedOnce, DecideAs

\* The sum of the counters is n only when every vertex is decided.
LEMMA AllDecided ==
  ASSUME TypeOK, DecidedOnce, global_decided = Cardinality(Vertices)
  PROVE  is_undecided = {}
<1> DEFINE S == Vertices \ is_undecided
<1>1. IsFiniteSet(S)
  BY VerticesAssumption, FS_Subset
<1>2. \A v \in S : input.owner[v] \in Ranks
  BY InputFacts DEF TypeOK, Rank
<1>3. \A r \in Ranks : local_decided[r] = Cardinality({v \in S : input.owner[v] = r})
  <2>1. \A r \in Ranks : Local(r) \ is_undecided = {v \in S : input.owner[v] = r}
    BY DEF Local, Rank
  <2> QED BY <2>1 DEF DecidedOnce
<1>4. DOMAIN local_decided = Ranks
  BY DEF TypeOK
<1> HIDE DEF S
<1>5. global_decided = Cardinality(S)
  <2>1. CountsMembers(local_decided, S, Ranks, input.owner)
    BY <1>2, <1>3, <1>4 DEF CountsMembers
  <2> QED BY <1>1, <2>1, SumCountsAll DEF global_decided
<1>6. S \subseteq Vertices
  BY DEF S
<1>7. S = Vertices
  BY <1>5, <1>6, VerticesAssumption, FS_Subset
<1> QED BY <1>7 DEF S, TypeOK
-----------------------------------------------------------------------------
(* One step of a trim                                                      *)

\* The input does not change, nor what is defined from it alone.
LEMMA InputUnchanged ==
  ASSUME input' = input
  PROVE  /\ arcs' = arcs /\ edges' = edges
         /\ \A v : Rank(v)' = Rank(v)
         /\ \A r : Local(r)' = Local(r)
         /\ \A a : SameRank(a)' = SameRank(a)
         /\ \A d, v : Arcs(d, v)' = Arcs(d, v)
         /\ \A d, D : Pushed(d, D)' = Pushed(d, D)
BY DEF arcs, edges, Rank, Local, SameRank, Arcs, Pushed

\* What a step may do to the ids: all of one component, which was undecided,
\* gets the id of one of its vertices.
DecidesComponent ==
  /\ edges' = edges
  /\ \/ scc_id' = scc_id
     \/ \E id \in Vertices : \A v \in Vertices :
          /\ v \in SCC(edges, id) => v \in is_undecided
          /\ scc_id'[v] = IF v \in SCC(edges, id) THEN id ELSE scc_id[v]

\* The other direction exchanges the ends of an edge.
LEMMA OtherDirection ==
  ASSUME NEW d \in Directions, NEW e \in Directions, e # d
  PROVE  \A a : Source(e, a) = Target(d, a) /\ Target(e, a) = Source(d, a)
BY DEF Directions, Source, Target

\* What the two steps of a trim do in a pass that looks in direction d: they
\* decide at most the vertex id (D is {id} or empty), which has no undecided
\* neighbour in that direction, and take the messages M.
Trims(d, id, D, M) ==
  /\ d = Trimming[pass]
  /\ D \subseteq {id} /\ D \subseteq is_undecided /\ M \subseteq recv_buffer
  /\ DecideAs(D, id) /\ Notify(d, D, recv_buffer \ M)
  /\ UNCHANGED <<input, pass, decided_stack>>
  /\ todo' \subseteq todo \ D
  /\ \A a \in arcs : Target(d, a) \in D => Source(d, a) \notin is_undecided

\* The invariant but for the degrees, and: what undecided vertices have still
\* to hear of is the same but for M.
Trimmed(d, M) ==
  /\ degree' \in [Directions -> [Vertices -> Nat]] => TypeOK'
  /\ DecidedOnce' /\ ComponentsWhole' /\ PassesInOrder'
  /\ DecidesComponent
  /\ \A v \in is_undecided' : Expected(d, v)' = Expected(d, v) \ M
  /\ \A v \in is_undecided' : \A e \in Directions \ {d} : Expected(e, v)' = Expected(e, v)

\* A step that trims keeps all that.
LEMMA TrimStep ==
  ASSUME TrimInv, pass \in DOMAIN Trimming, NEW d \in Directions,
         NEW id \in Vertices, NEW D, NEW M, Trims(d, id, D, M)
  PROVE  Trimmed(d, M)
<1>0. /\ d = Trimming[pass]
      /\ D \in SUBSET {id} /\ D \subseteq is_undecided /\ M \in SUBSET recv_buffer
      /\ DecideAs(D, id) /\ Notify(d, D, recv_buffer \ M)
      /\ UNCHANGED <<input, pass, decided_stack>> /\ todo' \subseteq todo \ D
      /\ \A a \in arcs : Target(d, a) \in D => Source(d, a) \notin is_undecided
  BY DEF Trims
<1> USE <1>0
<1>1. /\ TypeOK /\ DecidedOnce /\ ComponentsWhole /\ PassesInOrder
      /\ is_undecided \in SUBSET Vertices /\ input \in Inputs
  BY DEF TrimInv, TypeOK
<1>2. /\ arcs' = arcs /\ edges' = edges
      /\ \A e, v : Arcs(e, v)' = Arcs(e, v)
      /\ \A e, S : Pushed(e, S)' = Pushed(e, S)
  BY InputUnchanged
<1>3. is_undecided' = is_undecided \ D
  BY DEF DecideAs
<1>4. /\ Untold(d) = send_buffer \cup recv_buffer
      /\ Untold(d)' = send_buffer' \cup recv_buffer'
      /\ send_buffer \cap recv_buffer = {}
      /\ \A a \in Untold(d) : Source(d, a) \notin is_undecided
  BY <1>1 DEF Untold, PassesInOrder
<1>5. Untold(d)' = ((send_buffer \cup recv_buffer) \ M) \cup Pushed(d, D)
  BY <1>4 DEF Notify
<1>6. Pushed(d, D) \cap (send_buffer \cup recv_buffer) = {}
  BY <1>4 DEF Pushed
<1>7. \A e \in Directions \ {d} : Untold(e)' = Untold(e)
  BY <1>2 DEF Untold
<1>8. /\ DecidedOnce'
      /\ is_undecided' \in SUBSET Vertices
      /\ scc_id' \in [Vertices -> Vertices \cup {Undecided}]
      /\ local_decided' \in [Ranks -> Nat]
  BY <1>1, DecideKeepsRecords
<1>9. ASSUME degree' \in [Directions -> [Vertices -> Nat]] PROVE TypeOK'
  <2>1. send_buffer' \in SUBSET arcs /\ recv_buffer' \in SUBSET arcs
    BY <1>1 DEF Notify, Pushed, TypeOK
  <2> QED BY <1>1, <1>2, <1>8, <1>9, <2>1 DEF TypeOK
<1>a. ASSUME id \in D PROVE SCC(edges, id) = {id}
  <2>1. /\ id \in is_undecided
        /\ SCC(edges, id) \subseteq is_undecided
    BY <1>1, <1>a DEF ComponentsWhole
  <2>2. Pred(edges, id) \cap is_undecided = {} \/ Succ(edges, id) \cap is_undecided = {}
    BY <1>a, ArcsAreEdges DEF Pred, Succ, Source, Target, Directions, edges
  <2> QED BY <1>1, <2>1, <2>2, TrimmedAlone
<1>b. DecidesComponent
  <2>1. CASE D = {}
    BY <1>1, <1>2, <2>1 DEF DecidesComponent, DecideAs, TypeOK
  <2>2. CASE id \in D
    <3>1. D = {id} /\ SCC(edges, id) = {id}
      BY <1>a, <2>2
    <3> QED BY <1>2, <3>1 DEF DecidesComponent, DecideAs
  <2> QED BY <2>1, <2>2
<1>10. ComponentsWhole'
  <2>1. ASSUME NEW v \in is_undecided', NEW w \in SCC(edges, v)
        PROVE  w \in is_undecided'
    <3>1. w \in is_undecided /\ v \in Vertices
      BY <1>1, <1>3 DEF ComponentsWhole
    <3>2. ASSUME w \in D PROVE FALSE
      <4>1. v \in SCC(edges, w)
        BY <3>1, SccClass
      <4> QED BY <1>3, <1>a, <3>2, <4>1
    <3> QED BY <1>3, <3>1, <3>2
  <2> QED BY <1>2, <2>1 DEF ComponentsWhole
<1>11. PassesInOrder'
  <2>1. send_buffer' \cap recv_buffer' = {}
    BY <1>1, <1>6 DEF Notify, PassesInOrder
  <2>2. \A e \in Directions : \A a \in Untold(e)' : Source(e, a) \notin is_undecided'
    <3>1. \A a \in Pushed(d, D) : Source(d, a) \in D
      BY DEF Pushed
    <3>2. \A a \in Untold(d)' : Source(d, a) \notin is_undecided'
      BY <1>3, <1>4, <1>5, <3>1
    <3>3. \A e \in Directions \ {d} : \A a \in Untold(e)' : Source(e, a) \notin is_undecided'
      BY <1>1, <1>3, <1>7 DEF PassesInOrder
    <3> QED BY <3>2, <3>3
  <2> QED BY <1>1, <1>3, <2>1, <2>2 DEF PassesInOrder
<1>12. ASSUME NEW v \in is_undecided' PROVE Expected(d, v)' = Expected(d, v) \ M
  <2>1. ASSUME NEW a \in Arcs(d, v)
        PROVE  (Source(d, a) \in is_undecided' \/ a \in Untold(d)')
               <=> (Source(d, a) \in is_undecided \/ a \in Untold(d)) /\ a \notin M
    BY <1>3, <1>4, <1>5 DEF Pushed, Arcs
  <2> QED BY <1>2, <2>1 DEF Expected
<1>13. ASSUME NEW v \in is_undecided', NEW e \in Directions \ {d}
       PROVE  Expected(e, v)' = Expected(e, v)
  <2>1. ASSUME NEW a \in Arcs(e, v) PROVE Source(e, a) \notin D
    BY <1>3, OtherDirection DEF Arcs
  <2> QED BY <1>2, <1>3, <1>7, <2>1 DEF Expected
<1> QED BY <1>8, <1>9, <1>b, <1>10, <1>11, <1>12, <1>13 DEF Trimmed

\* The directions, and the one of the pass.
LEMMA PassDirection ==
  ASSUME pass \in DOMAIN Trimming
  PROVE  Trimming[pass] \in Directions
BY TrimmingFacts DEF Directions

\* A vertex visited in a first pass stores the degree of all its edges.
LEMMA FirstVisitStep ==
  ASSUME TrimInv, NEW k \in Vertices, FirstVisit(k)
  PROVE  TrimInv' /\ DecidesComponent
<1>d. PICK d, D : d = Trimming[pass] /\ D = IF Degree(d, k) > 0 THEN {} ELSE {k}
  OBVIOUS
<1>1. /\ TypeOK /\ DegreesExact /\ NothingMissed /\ PassesInOrder
      /\ input \in Inputs /\ is_undecided \in SUBSET Vertices
      /\ degree \in [Directions -> [Vertices -> Nat]]
  BY DEF TrimInv, TypeOK
<1>2. /\ k \in todo /\ k \in is_undecided /\ todo' = todo \ {k}
      /\ pass \in {"fw_first", "bw_first"}
      /\ UNCHANGED <<input, pass, decided_stack>>
  BY <1>1 DEF FirstVisit, PassesInOrder
<1>3. d \in Directions /\ pass \in DOMAIN Trimming
  BY <1>2, <1>d, TrimmingFacts DEF Directions
<1>4. /\ DecideAs(D, k) /\ Notify(d, D, recv_buffer \ {})
      /\ degree' = [degree EXCEPT ![d][k] = Degree(d, k)]
  BY <1>d DEF FirstVisit
<1>5. /\ \A v : Arcs(d, v) \in SUBSET arcs
      /\ Degree(d, k) = Cardinality(Arcs(d, k)) /\ Degree(d, k) \in Nat
      /\ Degree(d, k) = 0 => Arcs(d, k) = {}
  <2>1. \A v : Arcs(d, v) \in SUBSET arcs
    BY DEF Arcs
  <2>2. IsFiniteSet(Arcs(d, k)) /\ Cardinality(Arcs(d, k)) \in Nat
    BY <1>1, <2>1, ArcsFinite
  <2> QED BY <2>1, <2>2, FS_EmptySet DEF Degree
<1>6. degree' \in [Directions -> [Vertices -> Nat]]
  BY <1>1, <1>3, <1>4, <1>5
<1>7. \A a \in arcs : Target(d, a) \in D => Source(d, a) \notin is_undecided
  BY <1>5, <1>d DEF Arcs
<1>D. D \in SUBSET {k} /\ D \subseteq is_undecided /\ (k \notin D => Degree(d, k) > 0)
  BY <1>2, <1>d
<1>8. /\ TypeOK' /\ DecidedOnce' /\ ComponentsWhole' /\ PassesInOrder' /\ DecidesComponent
      /\ \A v \in is_undecided' : \A e \in Directions : Expected(e, v)' = Expected(e, v)
  <2>1. /\ d = Trimming[pass] /\ todo' \subseteq todo \ D /\ {} \in SUBSET recv_buffer
    BY <1>2, <1>d, <1>D
  <2>2. /\ TypeOK' /\ DecidedOnce' /\ ComponentsWhole' /\ PassesInOrder' /\ DecidesComponent
        /\ \A v \in is_undecided' : Expected(d, v)' = Expected(d, v) \ {}
        /\ \A v \in is_undecided' : \A e \in Directions \ {d} : Expected(e, v)' = Expected(e, v)
    <3>1. Trims(d, k, D, {})
      BY <1>2, <1>4, <1>7, <1>D, <2>1 DEF Trims
    <3>2. Trimmed(d, {})
      BY <1>3, <3>1, TrimStep
    <3> QED BY <1>6, <3>2 DEF Trimmed
  <2> QED BY <2>2
<1>9. is_undecided' = is_undecided \ D
  BY <1>4 DEF DecideAs
<1>10. /\ k \notin Initialised(d)
       /\ \A e \in Directions : Initialised(e)' \subseteq Initialised(e) \cup {k}
       /\ \A e \in Directions \ {d} : Initialised(e)' \subseteq Initialised(e)
       /\ \A e \in Directions : is_undecided' \ Initialised(e)' \subseteq is_undecided \ Initialised(e)
  BY <1>2, <1>9, <1>d, TrimmingFacts DEF Initialised, Directions
<1>11. DegreesExact'
  <2>1. ASSUME NEW e \in Directions, NEW v \in Initialised(e)'
        PROVE  /\ degree'[e][v] > 0
               /\ degree'[e][v] = Cardinality(Expected(e, v)')
    <3>1. v \in is_undecided' /\ v \in Vertices
      BY <1>1, <1>9 DEF Initialised
    <3>2. CASE e = d /\ v = k
      <4>1. Expected(d, k) = Arcs(d, k)
        BY <1>1, <1>2, <1>3, <1>10 DEF NothingMissed
      <4>2. degree'[d][k] = Degree(d, k)
        BY <1>1, <1>3, <1>4
      <4>3. Degree(d, k) > 0
        BY <1>9, <1>D, <3>1, <3>2
      <4> QED BY <1>5, <1>8, <3>1, <3>2, <4>1, <4>2, <4>3
    <3>3. CASE ~(e = d /\ v = k)
      <4>1. degree'[e][v] = degree[e][v]
        BY <1>1, <1>3, <1>4, <3>1, <3>3
      <4>2. v \in Initialised(e)
        BY <1>10, <3>3
      <4> QED BY <1>1, <1>8, <3>1, <4>1, <4>2 DEF DegreesExact
    <3> QED BY <3>2, <3>3
  <2> QED BY <2>1 DEF DegreesExact
<1>12. NothingMissed'
  <2>1. \A e, v : Arcs(e, v)' = Arcs(e, v)
    BY <1>2, InputUnchanged
  <2> QED BY <1>1, <1>8, <1>10, <2>1 DEF NothingMissed
<1> QED BY <1>8, <1>11, <1>12 DEF TrimInv

\* A vertex that hears of a decided neighbour counts one edge less, and is
\* decided when that was the last one.
LEMMA MessageStep ==
  ASSUME TrimInv, NEW a \in recv_buffer, Message(a)
  PROVE  TrimInv' /\ DecidesComponent
<1>d. PICK d, u, left, D :
         /\ d = Trimming[pass] /\ u = Target(d, a) /\ left = degree[d][u] - 1
         /\ D = IF u \in is_undecided /\ left = 0 THEN {u} ELSE {}
  OBVIOUS
<1>1. /\ TypeOK /\ DegreesExact /\ NothingMissed /\ PassesInOrder
      /\ input \in Inputs /\ is_undecided \in SUBSET Vertices
      /\ degree \in [Directions -> [Vertices -> Nat]]
      /\ a \in arcs
  BY DEF TrimInv, TypeOK
<1>2. /\ pass \in DOMAIN Trimming
      /\ UNCHANGED <<input, pass, todo, decided_stack>>
      /\ todo \cap Local(Rank(u)) = {}
      /\ DecideAs(D, u) /\ Notify(d, D, recv_buffer \ {a})
      /\ degree' = IF u \in is_undecided
                   THEN [degree EXCEPT ![d][u] = left] ELSE degree
  BY <1>d DEF Message
<1>3. d \in Directions /\ u \in Vertices /\ a \in Arcs(d, u)
  <2>1. d \in Directions
    BY <1>2, <1>d, PassDirection
  <2> QED BY <1>1, <1>d, <2>1, InputFacts DEF Arcs
<1>4. u \notin todo
  BY <1>2, <1>3 DEF Local
<1>5. ASSUME u \in is_undecided
      PROVE  /\ u \in Initialised(d)
             /\ a \in Expected(d, u) /\ IsFiniteSet(Expected(d, u))
             /\ degree[d][u] = Cardinality(Expected(d, u)) /\ degree[d][u] > 0
             /\ Cardinality(Expected(d, u) \ {a}) = left
             /\ left \in Nat
  <2>1. u \in Initialised(d)
    BY <1>2, <1>4, <1>5, <1>d, TrimmingFacts DEF Initialised
  <2>2. a \in Expected(d, u)
    BY <1>2, <1>3, <1>d DEF Expected, Untold
  <2>3. Expected(d, u) \in SUBSET arcs
    BY DEF Expected, Arcs
  <2>4. IsFiniteSet(Expected(d, u)) /\ Cardinality(Expected(d, u)) \in Nat
    BY <1>1, <2>3, ArcsFinite
  <2>5. degree[d][u] = Cardinality(Expected(d, u)) /\ degree[d][u] > 0
    BY <1>1, <1>3, <2>1 DEF DegreesExact
  <2>6. Cardinality(Expected(d, u) \ {a}) = Cardinality(Expected(d, u)) - 1
    BY <2>2, <2>4, FS_RemoveElement
  <2> QED BY <1>d, <2>1, <2>2, <2>4, <2>5, <2>6
<1>6. degree' \in [Directions -> [Vertices -> Nat]]
  BY <1>1, <1>2, <1>3, <1>5
<1>7. \A b \in arcs : Target(d, b) \in D => Source(d, b) \notin is_undecided
  <2> SUFFICES ASSUME NEW b \in arcs, Target(d, b) \in D, Source(d, b) \in is_undecided
               PROVE  FALSE
    OBVIOUS
  <2>1. u \in is_undecided /\ left = 0 /\ Target(d, b) = u
    BY <1>d
  <2>2. b \in Expected(d, u)
    BY <2>1 DEF Expected, Arcs
  <2>3. Expected(d, u) \ {a} = {}
    BY <1>5, <2>1, FS_EmptySet, FS_RemoveElement
  <2>4. Source(d, a) \notin is_undecided
    BY <1>1, <1>2, <1>3, <1>d DEF PassesInOrder, Untold
  <2> QED BY <2>2, <2>3, <2>4
<1>D. /\ D \in SUBSET {u} /\ D \subseteq is_undecided /\ {a} \in SUBSET recv_buffer
      /\ u \in is_undecided /\ u \notin D => left # 0
  BY <1>d
<1>8. /\ TypeOK' /\ DecidedOnce' /\ ComponentsWhole' /\ PassesInOrder' /\ DecidesComponent
      /\ \A v \in is_undecided' : Expected(d, v)' = Expected(d, v) \ {a}
      /\ \A v \in is_undecided' : \A e \in Directions \ {d} : Expected(e, v)' = Expected(e, v)
  <2>1. d = Trimming[pass] /\ todo' \subseteq todo \ D
    BY <1>2, <1>4, <1>d, <1>D
  <2>2. Trims(d, u, D, {a})
    BY <1>2, <1>7, <1>D, <2>1 DEF Trims
  <2>3. Trimmed(d, {a})
    BY <1>2, <1>3, <2>2, TrimStep
  <2> QED BY <1>6, <2>3 DEF Trimmed
<1>9. is_undecided' = is_undecided \ D
  BY <1>2 DEF DecideAs
<1>10. \A e \in Directions : Initialised(e)' = Initialised(e) \ D
  BY <1>2, <1>9 DEF Initialised
<1>11. ASSUME NEW e \in Directions, NEW v \in is_undecided', ~(e = d /\ v = u)
       PROVE  /\ degree'[e][v] = degree[e][v]
              /\ Expected(e, v)' = Expected(e, v)
  <2>1. v \in Vertices
    BY <1>1, <1>9
  <2>2. degree'[e][v] = degree[e][v]
    BY <1>1, <1>2, <1>3, <1>11, <2>1
  <2>3. CASE e = d
    <3>1. a \notin Expected(d, v)
      BY <1>3, <1>11, <2>3 DEF Expected, Arcs
    <3> QED BY <1>8, <2>2, <2>3, <3>1
  <2> QED BY <1>8, <2>2, <2>3
<1>12. ASSUME u \in is_undecided'
       PROVE  /\ degree'[d][u] > 0
              /\ degree'[d][u] = Cardinality(Expected(d, u)')
  <2>1. u \in is_undecided /\ left # 0
    BY <1>9, <1>12, <1>D
  <2>2. degree'[d][u] = left
    BY <1>1, <1>2, <1>3, <2>1
  <2>3. Expected(d, u)' = Expected(d, u) \ {a}
    BY <1>8, <1>12
  <2> QED BY <1>5, <2>1, <2>2, <2>3
<1>13. DegreesExact'
  <2>1. ASSUME NEW e \in Directions, NEW v \in Initialised(e)'
        PROVE  /\ degree'[e][v] > 0
               /\ degree'[e][v] = Cardinality(Expected(e, v)')
    <3>1. v \in is_undecided' /\ v \in Initialised(e)
      BY <1>10 DEF Initialised
    <3>2. CASE e = d /\ v = u
      BY <1>12, <3>1, <3>2
    <3>3. CASE ~(e = d /\ v = u)
      BY <1>1, <1>11, <3>1, <3>3 DEF DegreesExact
    <3> QED BY <3>2, <3>3
  <2> QED BY <2>1 DEF DegreesExact
<1>14. NothingMissed'
  <2>1. ASSUME NEW e \in Directions, NEW v \in is_undecided' \ Initialised(e)'
        PROVE  Expected(e, v)' = Arcs(e, v)'
    <3>1. v \in is_undecided \ Initialised(e)
      BY <1>9, <1>10
    <3>2. ~(e = d /\ v = u)
      BY <1>5, <3>1
    <3>3. Expected(e, v)' = Expected(e, v)
      BY <1>11, <3>2
    <3>4. Arcs(e, v)' = Arcs(e, v)
      BY <1>2, InputUnchanged
    <3> QED BY <1>1, <3>1, <3>3, <3>4 DEF NothingMissed
  <2> QED BY <2>1 DEF NothingMissed
<1> QED BY <1>8, <1>13, <1>14 DEF TrimInv

\* A step that decides nothing and only changes where the ranks are, or which
\* way the untold edges are held.
LEMMA QuietStep ==
  ASSUME TrimInv, UNCHANGED <<input, is_undecided, degree, scc_id, local_decided>>,
         TypeOK', PassesInOrder',
         \A d \in Directions : Initialised(d)' = Initialised(d),
         is_undecided = {} \/ \A d \in Directions : Untold(d)' = Untold(d)
  PROVE  TrimInv'
<1>1. /\ arcs' = arcs /\ edges' = edges
      /\ \A r : Local(r)' = Local(r)
      /\ \A d, v : Arcs(d, v)' = Arcs(d, v)
  BY InputUnchanged
<1>2. ComponentsWhole'
  BY <1>1 DEF TrimInv, ComponentsWhole
<1>3. DecidedOnce'
  BY <1>1 DEF TrimInv, DecidedOnce
<1>4. DegreesExact' /\ NothingMissed'
  <2>1. CASE is_undecided = {}
    BY <2>1 DEF DegreesExact, NothingMissed, Initialised
  <2>2. CASE \A d \in Directions : Untold(d)' = Untold(d)
    <3>1. \A d \in Directions : \A v : Expected(d, v)' = Expected(d, v)
      BY <1>1, <2>2 DEF Expected
    <3> QED BY <1>1, <3>1 DEF TrimInv, DegreesExact, NothingMissed
  <2> QED BY <2>1, <2>2
<1> QED BY <1>2, <1>3, <1>4 DEF TrimInv

\* The collective exchange only moves messages.
LEMMA ExchangeStep ==
  ASSUME TrimInv, Exchange
  PROVE  TrimInv'
<1>1. TypeOK /\ PassesInOrder
  BY DEF TrimInv
<1>2. /\ UNCHANGED <<input, pass, todo, is_undecided, degree, scc_id, local_decided, decided_stack>>
      /\ recv_buffer = {} /\ recv_buffer' = send_buffer /\ send_buffer' = {}
      /\ pass \in DOMAIN Trimming
  BY DEF Exchange, AllAtComm
<1>3. arcs' = arcs /\ \A d, D : Pushed(d, D)' = Pushed(d, D)
  BY <1>2, InputUnchanged
<1>4. \A d \in Directions : Untold(d)' = Untold(d) /\ Initialised(d)' = Initialised(d)
  BY <1>2, <1>3 DEF Untold, Initialised
<1>5. TypeOK'
  BY <1>1, <1>2, <1>3 DEF TypeOK
<1>6. PassesInOrder'
  BY <1>1, <1>2, <1>4 DEF PassesInOrder
<1> QED BY <1>2, <1>4, <1>5, <1>6, QuietStep

\* The first backward pass takes the degrees of what the forward one left.
LEMMA FirstFwEndStep ==
  ASSUME TrimInv, FirstFwEnd
  PROVE  TrimInv'
<1>1. TypeOK /\ PassesInOrder
  BY DEF TrimInv
<1>2. /\ UNCHANGED <<input, is_undecided, degree, recv_buffer, send_buffer, scc_id,
                     local_decided, decided_stack>>
      /\ recv_buffer = {} /\ send_buffer = {} /\ todo = {} /\ todo' = is_undecided
      /\ pass = "fw_first" /\ pass' = "bw_first"
  BY DEF FirstFwEnd, PassOver, AllAtComm
<1>3. arcs' = arcs
  BY <1>2, InputUnchanged
<1>4. \A d \in Directions : Untold(d) = {} /\ Untold(d)' = {}
  BY <1>2, TrimmingFacts DEF Untold
<1>5. \A d \in Directions : Initialised(d)' = Initialised(d)
  BY <1>2 DEF Initialised, Directions
<1>6. TypeOK'
  BY <1>1, <1>2, <1>3, TrimmingFacts DEF TypeOK
<1>7. PassesInOrder'
  BY <1>1, <1>2, <1>4, TrimmingFacts DEF PassesInOrder
<1> QED BY <1>2, <1>4, <1>5, <1>6, <1>7, QuietStep

\* When no pass runs, all degrees are stored.
LEMMA AllInitialised ==
  ASSUME pass \notin {"fw_first", "bw_first"}
  PROVE  \A d \in Directions : Initialised(d) = is_undecided
BY DEF Initialised

\* A pass that ends the trim, with nothing left to tell: the driver goes on to
\* a search, or returns because every vertex is decided.
LEMMA TrimEndStep ==
  ASSUME TrimInv, SearchOrReturn, PassOver("bw_first") \/ PassOver("bw"),
         decided_stack' = {},
         UNCHANGED <<input, todo, is_undecided, degree, recv_buffer, send_buffer,
                     scc_id, local_decided>>
  PROVE  TrimInv'
<1>1. TypeOK /\ DecidedOnce /\ PassesInOrder
  BY DEF TrimInv
<1>2. /\ recv_buffer = {} /\ send_buffer = {} /\ todo = {}
      /\ pass \in {"bw_first", "bw"}
      /\ pass' \in {"search", "done"}
      /\ pass' = "done" => is_undecided = {}
  BY <1>1, AllDecided DEF PassOver, AllAtComm, SearchOrReturn
<1>3. arcs' = arcs
  BY InputUnchanged
<1>4. \A d \in Directions : Untold(d) = {} /\ Untold(d)' = {}
  <2>1. \A d \in Directions : Untold(d) = {}
    BY <1>2, TrimmingFacts DEF Untold
  <2>2. \A d \in Directions : Untold(d)' = {}
    BY <1>2, TrimmingFacts DEF Untold, Pushed
  <2> QED BY <2>1, <2>2
<1>5. \A d \in Directions : Initialised(d)' = Initialised(d)
  BY <1>2 DEF Initialised
<1>6. TypeOK'
  BY <1>1, <1>2, <1>3 DEF TypeOK
<1>7. PassesInOrder'
  BY <1>1, <1>2, <1>4, TrimmingFacts DEF PassesInOrder
<1> QED BY <1>4, <1>5, <1>6, <1>7, QuietStep

\* A pass over what the searches decided begins: the rank now holds as messages
\* what it held as decided vertices.
LEMMA PassStartStep ==
  ASSUME TrimInv, NEW d \in Directions,
         \/ pass = "search" /\ pass' = "fw" /\ d = "fw"
         \/ PassOver("fw") /\ pass' = "bw" /\ d = "bw",
         Notify(d, decided_stack, recv_buffer),
         UNCHANGED <<input, todo, is_undecided, degree, scc_id, local_decided, decided_stack>>
  PROVE  TrimInv'
<1>1. TypeOK /\ PassesInOrder
  BY DEF TrimInv
<1>2. /\ recv_buffer = {} /\ send_buffer = {} /\ todo = {}
      /\ pass \in {"search", "fw"} /\ pass' \in {"fw", "bw"}
  BY <1>1, TrimmingFacts DEF PassOver, AllAtComm, PassesInOrder
<1>3. arcs' = arcs /\ \A e, D : Pushed(e, D)' = Pushed(e, D)
  BY InputUnchanged
<1>4. /\ send_buffer' \cup recv_buffer' = Pushed(d, decided_stack)
      /\ send_buffer' \cap recv_buffer' = {}
  BY <1>2 DEF Notify
<1>5. \A e \in Directions : Untold(e)' = Untold(e)
  BY <1>2, <1>3, <1>4, TrimmingFacts DEF Untold, Directions, PassOver
<1>6. \A e \in Directions : Initialised(e)' = Initialised(e)
  BY <1>2 DEF Initialised
<1>7. TypeOK'
  <2>1. send_buffer' \in SUBSET arcs /\ recv_buffer' \in SUBSET arcs
    BY <1>4 DEF Pushed
  <2> QED BY <1>1, <1>2, <1>3, <2>1, TrimmingFacts DEF TypeOK
<1>8. PassesInOrder'
  BY <1>1, <1>2, <1>4, <1>5, TrimmingFacts DEF PassesInOrder
<1> QED BY <1>5, <1>6, <1>7, <1>8, QuietStep

\* The driver returns from the search loop only with every vertex decided.
LEMMA ReturnStep ==
  ASSUME TrimInv, pass = "search", global_decided = Cardinality(Vertices), pass' = "done",
         UNCHANGED <<input, todo, is_undecided, degree, recv_buffer, send_buffer, scc_id,
                     local_decided, decided_stack>>
  PROVE  TrimInv'
<1>1. TypeOK /\ DecidedOnce /\ PassesInOrder
  BY DEF TrimInv
<1>2. is_undecided = {}
  BY <1>1, AllDecided
<1>3. arcs' = arcs
  BY InputUnchanged
<1>4. \A d \in Directions : Untold(d)' = {} /\ Initialised(d)' = Initialised(d)
  BY TrimmingFacts DEF Untold, Initialised
<1>5. TypeOK'
  BY <1>1, <1>3 DEF TypeOK
<1>6. PassesInOrder'
  BY <1>1, <1>2, <1>4, TrimmingFacts DEF PassesInOrder
<1> QED BY <1>2, <1>4, <1>5, <1>6, QuietStep

\* A search decides one whole component, and the trim after it starts from it.
LEMMA SearchStep ==
  ASSUME TrimInv, NEW root \in Vertices, Search(root)
  PROVE  TrimInv' /\ DecidesComponent
<1>d. PICK D : D = SCC(edges, root)
  OBVIOUS
<1>1. /\ TypeOK /\ DecidedOnce /\ DegreesExact /\ NothingMissed /\ ComponentsWhole /\ PassesInOrder
      /\ is_undecided \in SUBSET Vertices
  BY DEF TrimInv, TypeOK
<1>2. /\ pass = "search" /\ root \in is_undecided
      /\ DecideAs(D, root) /\ decided_stack' = decided_stack \cup D
      /\ UNCHANGED <<input, pass, todo, degree, recv_buffer, send_buffer>>
  BY <1>d DEF Search
<1>3. D \in SUBSET is_undecided
  BY <1>1, <1>2, <1>d DEF ComponentsWhole
<1>4. /\ DecidedOnce'
      /\ is_undecided' \in SUBSET Vertices
      /\ scc_id' \in [Vertices -> Vertices \cup {Undecided}]
      /\ local_decided' \in [Ranks -> Nat]
  BY <1>1, <1>2, <1>3, DecideKeepsRecords, Zenon
<1>5. is_undecided' = is_undecided \ D
  BY <1>2 DEF DecideAs
<1>6. /\ arcs' = arcs /\ edges' = edges
      /\ \A d, v : Arcs(d, v)' = Arcs(d, v)
  BY <1>2, InputUnchanged
<1>7. /\ \A d \in Directions : Untold(d) = Pushed(d, decided_stack)
      /\ \A d \in Directions : Untold(d)' = Untold(d) \cup Pushed(d, D)
  BY <1>2, <1>6, TrimmingFacts DEF Untold, Pushed
<1>8. TypeOK'
  BY <1>1, <1>2, <1>3, <1>4, <1>6 DEF TypeOK
<1>9. ComponentsWhole'
  <2>1. ASSUME NEW v \in is_undecided', NEW w \in SCC(edges, v), w \in D PROVE FALSE
    <3>1. v \in Vertices
      BY <1>4
    <3>2. v \in SCC(edges, w) /\ SCC(edges, w) = D
      BY <1>d, <2>1, <3>1, SccClass
    <3> QED BY <1>5, <3>2
  <2> QED BY <1>1, <1>5, <1>6, <2>1 DEF ComponentsWhole
<1>10. PassesInOrder'
  <2>1. todo = {} /\ pass \notin DOMAIN Trimming
    BY <1>1, <1>2, TrimmingFacts DEF PassesInOrder
  <2>2. \A d \in Directions : \A a \in Untold(d)' : Source(d, a) \notin is_undecided'
    BY <1>1, <1>5, <1>7 DEF PassesInOrder, Pushed
  <2> QED BY <1>1, <1>2, <1>5, <2>1, <2>2 DEF PassesInOrder
<1>11. ASSUME NEW d \in Directions, NEW v PROVE Expected(d, v)' = Expected(d, v)
  <2>1. \A a \in Arcs(d, v) : (Source(d, a) \in is_undecided' \/ a \in Untold(d)')
                              <=> (Source(d, a) \in is_undecided \/ a \in Untold(d))
    BY <1>3, <1>5, <1>7 DEF Pushed, Arcs
  <2> QED BY <1>6, <2>1 DEF Expected
<1>12. \A d \in Directions : Initialised(d)' = is_undecided' /\ Initialised(d) = is_undecided
  BY <1>2 DEF Initialised
<1>13. DegreesExact'
  BY <1>1, <1>2, <1>5, <1>11, <1>12 DEF DegreesExact
<1>14. NothingMissed'
  BY <1>12 DEF NothingMissed
<1>15. DecidesComponent
  BY <1>2, <1>3, <1>6, <1>d DEF DecidesComponent, DecideAs
<1> QED BY <1>4, <1>8, <1>9, <1>10, <1>13, <1>14, <1>15 DEF TrimInv
-----------------------------------------------------------------------------
(* The theorems                                                            *)

\* Before the first pass no degree is stored and nobody has been told.
LEMMA TrimInit == Init => TrimInv
<1> SUFFICES ASSUME Init PROVE TrimInv
  OBVIOUS
<1>1. TypeOK
  BY TrimmingFacts DEF Init, TypeOK
<1>2. /\ pass = "fw_first" /\ is_undecided = Vertices /\ todo = Vertices
      /\ send_buffer = {} /\ recv_buffer = {} /\ decided_stack = {}
  BY DEF Init
<1>3. /\ \A d \in Directions : Untold(d) = {}
      /\ \A d \in Directions : Initialised(d) = {}
  BY <1>2 DEF Untold, Initialised
<1>4. DegreesExact
  BY <1>3 DEF DegreesExact
<1>5. DecidedOnce
  <2>1. \A r \in Ranks : Local(r) \ Vertices = {}
    BY DEF Local
  <2>2. \A r \in Ranks : Cardinality(Local(r) \ Vertices) = 0
    BY <2>1, FS_EmptySet, Zenon
  <2> QED BY <2>2, UndecidedAssumption DEF DecidedOnce, Init
<1>6. NothingMissed
  <2>1. \A d \in Directions : \A v : Expected(d, v) = Arcs(d, v)
    BY <1>1, <1>2, InputFacts DEF Expected, Arcs, TypeOK
  <2> QED BY <2>1 DEF NothingMissed
<1>7. ComponentsWhole
  BY <1>2 DEF ComponentsWhole, SCC, Reach
<1>8. PassesInOrder
  BY <1>2, <1>3, TrimmingFacts DEF PassesInOrder
<1> QED BY <1>1, <1>4, <1>5, <1>6, <1>7, <1>8 DEF TrimInv

\* Every step keeps the invariant, and decides one component or nothing.
LEMMA TrimNext == TrimInv /\ [Next]_vars => TrimInv' /\ (DecidesComponent \/ UNCHANGED vars)
<1> SUFFICES ASSUME TrimInv, [Next]_vars
             PROVE  TrimInv' /\ (DecidesComponent \/ UNCHANGED vars)
  OBVIOUS
<1>q. ASSUME UNCHANGED <<input, scc_id>> PROVE DecidesComponent
  BY <1>q, InputUnchanged DEF DecidesComponent
<1>1. ASSUME NEW k \in Vertices, FirstVisit(k) PROVE TrimInv' /\ DecidesComponent
  BY <1>1, FirstVisitStep
<1>2. ASSUME NEW a \in recv_buffer, Message(a) PROVE TrimInv' /\ DecidesComponent
  BY <1>2, MessageStep
<1>3. ASSUME NEW root \in Vertices, Search(root) PROVE TrimInv' /\ DecidesComponent
  BY <1>3, SearchStep
<1>4. CASE Exchange
  BY <1>4, <1>q, ExchangeStep DEF Exchange
<1>5. CASE FirstFwEnd
  BY <1>5, <1>q, FirstFwEndStep DEF FirstFwEnd
<1>6. CASE FirstBwEnd
  <2>1. decided_stack = {}
    BY <1>6 DEF FirstBwEnd, PassOver, TrimInv, PassesInOrder
  <2>2. TrimInv'
    BY <1>6, <2>1, TrimEndStep DEF FirstBwEnd
  <2> QED BY <1>6, <1>q, <2>2 DEF FirstBwEnd
<1>7. CASE BwEnd
  <2>1. TrimInv'
    BY <1>7, TrimEndStep DEF BwEnd
  <2> QED BY <1>7, <1>q, <2>1 DEF BwEnd
<1>8. CASE FwStart
  <2>1. UNCHANGED <<input, todo, is_undecided, degree, scc_id, local_decided, decided_stack>>
    BY <1>8 DEF FwStart
  <2>2. CASE global_decided = Cardinality(Vertices)
    <3>1. TrimInv'
      BY <1>8, <2>1, <2>2, ReturnStep DEF FwStart
    <3> QED BY <1>q, <2>1, <3>1
  <2>3. CASE global_decided # Cardinality(Vertices)
    <3>1. /\ pass = "search" /\ pass' = "fw"
          /\ Notify("fw", decided_stack, recv_buffer)
      BY <1>8, <2>3 DEF FwStart
    <3>2. TrimInv'
      BY <2>1, <3>1, PassStartStep DEF Directions
    <3> QED BY <1>q, <2>1, <3>2
  <2> QED BY <2>2, <2>3
<1>9. CASE BwStart
  <2>1. TrimInv'
    BY <1>9, PassStartStep DEF BwStart, Directions
  <2> QED BY <1>9, <1>q, <2>1 DEF BwStart
<1>10. CASE UNCHANGED vars
  <2>1. UNCHANGED <<input, pass, todo, is_undecided, degree, recv_buffer, send_buffer,
                    scc_id, local_decided, decided_stack>>
    BY <1>10 DEF vars
  <2>2. /\ arcs' = arcs
        /\ \A d, D : Pushed(d, D)' = Pushed(d, D)
    BY <2>1, InputUnchanged
  <2>3. \A d \in Directions : Untold(d)' = Untold(d) /\ Initialised(d)' = Initialised(d)
    BY <2>1, <2>2 DEF Untold, Initialised
  <2>4. TypeOK'
    BY <2>1, <2>2 DEF TrimInv, TypeOK
  <2>5. PassesInOrder'
    BY <2>1, <2>3 DEF TrimInv, PassesInOrder
  <2> QED BY <1>10, <2>1, <2>3, <2>4, <2>5, QuietStep
<1> QED
  BY <1>1, <1>2, <1>3, <1>4, <1>5, <1>6, <1>7, <1>8, <1>9, <1>10 DEF Next, Returned

\* In the middle of every pass the stored degrees are exact and never 0, every
\* vertex is decided and counted once, and components stay whole
\* (trim_1_exhaustive.hpp and the decided_count of its callers).
THEOREM DegreesStayExact == Spec => []TrimInv
BY TrimInit, TrimNext, PTL DEF Spec

\* An exact degree that is not 0 is a neighbour that was not trimmed.
LEMMA ExhaustedByDegrees == TrimInv => TrimExhausts
<1> SUFFICES ASSUME TrimInv, pass = "search", decided_stack = {}, NEW v \in is_undecided
             PROVE  /\ Succ(edges, v) \cap is_undecided # {}
                    /\ Pred(edges, v) \cap is_undecided # {}
  BY DEF TrimExhausts
<1>1. \A d \in Directions : v \in Initialised(d) /\ Untold(d) = {}
  BY TrimmingFacts DEF Initialised, Untold, Pushed
<1>2. ASSUME NEW d \in Directions PROVE \E a \in Arcs(d, v) : Source(d, a) \in is_undecided
  <2>1. Cardinality(Expected(d, v)) > 0
    BY <1>1 DEF TrimInv, DegreesExact
  <2>2. Expected(d, v) # {}
    BY <2>1, FS_EmptySet
  <2> QED BY <1>1, <2>2 DEF Expected
<1>3. "fw" \in Directions /\ "bw" \in Directions /\ is_undecided \in SUBSET Vertices
  BY DEF Directions, TrimInv, TypeOK
<1>4. PICK a \in Arcs("fw", v) : Source("fw", a) \in is_undecided
  BY <1>2, <1>3
<1>5. PICK b \in Arcs("bw", v) : Source("bw", b) \in is_undecided
  BY <1>2, <1>3
<1>6. /\ a[2] = v /\ a[1] \in is_undecided /\ <<a[1], v>> \in edges
      /\ b[1] = v /\ b[2] \in is_undecided /\ <<v, b[2]>> \in edges
  BY <1>4, <1>5, ArcsAreEdges DEF Arcs, Source, Target
<1> QED BY <1>3, <1>6 DEF Succ, Pred

\* After each trim every undecided vertex has an undecided successor and an
\* undecided predecessor, although no pass is repeated.
THEOREM TrimIsExhaustive == Spec => []TrimExhausts
BY DegreesStayExact, ExhaustedByDegrees, PTL

\* The canonical labellings of the two modules are the same.
LEMMA CanonicalIsLabelling ==
  \A E : Labelling!Canonical(E, scc_id) <=> IsLabelling(E, scc_id, Undecided)
<1>1. \A E : \A u \in Vertices : Labelling!SCC(E, u) = SCC(E, u)
  BY DEF Labelling!SCC, Labelling!Reach, Labelling!IsClosed, SCC, Reach, IsClosed
<1>2. \A E : \A u \in Vertices : SCC(E, u) \in SUBSET Vertices
  BY DEF SCC, Reach
<1> QED BY <1>1, <1>2 DEF Labelling!Canonical, Labelling!Decided, IsLabelling

\* A step that decides a component is one of the abstract specification.
LEMMA TrimLabellingStep ==
  ASSUME TrimInv, TrimInv', [Next]_vars, IsLabelling(edges, scc_id, Undecided)
  PROVE  /\ [Labelling!Next]_(Labelling!labellingVars)
         /\ IsLabelling(edges, scc_id, Undecided)'
<1>1. CASE UNCHANGED <<edges, scc_id>>
  BY <1>1 DEF IsLabelling, Labelling!labellingVars
<1>2. CASE DecidesComponent /\ scc_id' # scc_id
  <2>1. PICK id \in Vertices : \A v \in Vertices :
          /\ v \in SCC(edges, id) => v \in is_undecided
          /\ scc_id'[v] = IF v \in SCC(edges, id) THEN id ELSE scc_id[v]
    BY <1>2 DEF DecidesComponent
  <2>2. edges' = edges
    BY <1>2 DEF DecidesComponent
  <2>3. IsLabelling(edges, scc_id', Undecided)
    <3>1. SCC(edges, id) \ SCC(edges, id) = {}
      OBVIOUS
    <3> QED BY <2>1, <3>1, LabellingExtended
  <2>4. \A v \in Vertices : scc_id[v] # Undecided => scc_id'[v] = scc_id[v]
    BY <2>1 DEF TrimInv, DecidedOnce
  <2>5. IsLabelling(edges, scc_id, Undecided)'
    BY <2>2, <2>3 DEF IsLabelling
  <2>6. (\A E : Labelling!Canonical(E, scc_id) <=> IsLabelling(E, scc_id, Undecided))'
    BY CanonicalIsLabelling, PTL
  <2>7. Labelling!Canonical(edges, scc_id')
    BY <2>3, <2>6 DEF IsLabelling, Labelling!Canonical, Labelling!Decided
  <2> QED BY <2>2, <2>4, <2>5, <2>7 DEF Labelling!Next, Labelling!Decided, TrimInv, TypeOK
<1> QED
  <2>1. DecidesComponent \/ UNCHANGED vars
    BY TrimNext
  <2>2. UNCHANGED vars => UNCHANGED <<edges, scc_id>>
    BY DEF vars, edges, arcs
  <2> QED BY <1>1, <1>2, <2>1, <2>2 DEF DecidesComponent

\* The driver that trims and searches implements the abstract labelling: each
\* step gives at most one undecided component its one id.
THEOREM TrimRefinement == Spec => ImplementsLabelling
<1>1. Init => Labelling!Init /\ IsLabelling(edges, scc_id, Undecided)
  <2> SUFFICES ASSUME Init PROVE Labelling!Init /\ IsLabelling(edges, scc_id, Undecided)
    OBVIOUS
  <2>1. \A v \in Vertices : scc_id[v] = Undecided
    BY DEF Init
  <2>2. IsLabelling(edges, scc_id, Undecided)
    BY <2>1 DEF IsLabelling
  <2>3. edges \in SUBSET (Vertices \X Vertices)
    BY InputFacts DEF Init
  <2>4. scc_id \in [Vertices -> Vertices \cup {Undecided}]
    BY DEF Init
  <2> QED BY <2>1, <2>2, <2>3, <2>4, CanonicalIsLabelling
          DEF Labelling!Init, Labelling!Graphs, Labelling!Whole, Labelling!Decided
<1> QED
  BY <1>1, TrimInit, TrimNext, TrimLabellingStep, PTL
     DEF Spec, ImplementsLabelling, Labelling!Spec
=============================================================================
