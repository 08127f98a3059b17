-------------------------- MODULE MCPivotReduction --------------------------
(* PivotReduction on three vertices and three ranks, where every undecided *)
(* vertex has edges to itself only, as many as it likes.                   *)
EXTENDS PivotReduction

MCVertices == 0 .. 2
MCRanks == {"a", "b", "c"}

Degrees(U) == {d \in [Vertices -> 0 .. 2] : \A v \in Vertices : d[v] > 0 <=> v \in U}

\* The ranks are alike: vertex 0 is on the first.
Owners == {o \in [Vertices -> Ranks] : o[0] = "a" /\ o[1] # "c"}

MCLoops ==
  UNION {{[owner |-> o, is_undecided |-> U, outdegree |-> d, indegree |-> d] :
          o \in Owners, d \in Degrees(U)} : U \in (SUBSET Vertices) \ {{}}}
=============================================================================
