--------------------------- MODULE MCAsyncSearches ---------------------------
(* AsyncSearches on three vertices and two ranks, vertex 0 on the first    *)
(* (the ranks' names do not matter).  The whole driver: every graph with   *)
(* self-loops on all vertices, on vertex 0 or on none.  Label searches     *)
(* alone: every graph with a self-loop on vertex 0 or on none.             *)
EXTENDS AsyncSearches

MCVertices == 0 .. 2
MCRanks == 0 .. 1

\* Two of the orders a rotation of two-bit numbers puts 0 to 2 in.
MCMaps == {[v \in Vertices |-> v], [v \in Vertices |-> (2 * v) % 3]}

Product(E, v) == Cardinality(Succ(E, v)) * Cardinality(Pred(E, v))

\* The vertex trim_1_first returns.
Pivot(E) ==
  CHOOSE v \in Vertices : \A w \in Vertices :
    Product(E, w) < Product(E, v) \/ (Product(E, w) = Product(E, v) /\ v <= w)

Placements == {o \in [Vertices -> Ranks] : o[0] = 0}

Loops == {<<v, v>> : v \in Vertices}
Loopless == SUBSET ((Vertices \X Vertices) \ Loops)

Call(E, o, trimmed, root) ==
  [edges |-> E, owner |-> o, trimmed |-> trimmed, root |-> root]

Driven ==
  {Call(E, o, Vertices \ HasBothDegrees(E), Pivot(E)) :
     E \in {G \cup L : G \in Loopless \ {{}}, L \in {{}, {<<0, 0>>}, Loops}}, o \in Placements}

Repeated ==
  {Call(G \cup L, o, {}, 0) : G \in Loopless, L \in {{}, {<<0, 0>>}}, o \in Placements}

\* trim_1_first may decide everything, and the driver returns at once.
MCInputs == {c \in Driven : c.root \notin c.trimmed} \cup Repeated
=============================================================================
