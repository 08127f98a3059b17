---------------------------- MODULE MCLabelSearches --------------------------
(* LabelSearches over four vertices on two ranks.  Two families of calls:  *)
(* on vertices 0 to 2 every graph without self-loops, with every partition *)
(* and nothing decided before or vertex 0, where it is a component of its  *)
(* own; on all four vertices graphs with one other successor for each      *)
(* vertex (vertex 0, or itself, for vertex 3), two on each rank, nothing   *)
(* decided or vertex 1, so that labels travel along paths of three edges,  *)
(* to another rank and back, around cycles and up to a decided vertex.     *)
EXTENDS LabelSearches

MCVertices == 0 .. 3
Three      == 0 .. 2

\* std::rotr of two-bit numbers: by no bit, and by one.
Rotation0 == [v \in Vertices |-> v]
Rotation1 == [v \in Vertices |-> v \div 2 + 2 * (v % 2)]
MCMaps == {Rotation0, Rotation1}

SmallGraphs == SUBSET {e \in Three \X Three : e[1] # e[2]}

SmallCalls ==
  {c \in {[edges |-> E, owner |-> o, decided |-> d \cup {3}] :
            E \in SmallGraphs, o \in [Vertices -> Ranks], d \in {{}, {0}}} :
     c.owner[3] = 0 /\ \A v \in c.decided : SCC(c.edges, v) \subseteq c.decided}

TwoEach == {o \in [Vertices -> Ranks] : Cardinality({v \in Vertices : o[v] = 0}) = 2}

Pairs(f) == {<<v, f[v]>> : v \in DOMAIN f}

Calls == SmallCalls \cup
  {c \in {[edges |-> Pairs(f), owner |-> o, decided |-> d] :
            f \in {g \in [Vertices -> Vertices] :
                     g[3] \in {0, 3} /\ \A v \in Three : g[v] # v},
            o \in TwoEach, d \in {{}, {1}}} :
     \A v \in c.decided : SCC(c.edges, v) = {v}}

\* Exchanging the ranks changes nothing: vertex 0 is on rank 0.
FixedCalls == {c \in Calls : c.owner[0] = 0}

\* TLC evaluates this once more for every state, the ones above only once.
MCInputs == FixedCalls
=============================================================================
