--------------------------- MODULE MCPivotSearches ---------------------------
(* Both searches on every graph over three vertices, self-loops included,  *)
(* every partition of them over two ranks, after either trim.  The pivot   *)
(* and its rank are fixed: other names make no other call.  Two vertices   *)
(* on one rank may share a neighbour on the other.                         *)
EXTENDS CachePivotSearch

CONSTANTS v1, v2, v3, r1, r2

MCVertices == {v1, v2, v3}
MCRanks == {r1, r2}

\* The vertices that trim_1_first, or the exhaustive trim, has decided.
TrimmedSets(E) == {Vertices \ HasBothDegrees(E), Vertices \ TwoWayCore(E)}

Calls ==
  {[edges |-> g[1], trimmed |-> g[2], owner |-> o, root |-> v1] :
     g \in {p \in Graphs \X SUBSET Vertices :
              p[2] \in TrimmedSets(p[1]) /\ v1 \notin p[2]},
     o \in {f \in [Vertices -> Ranks] : f[v1] = r1}}

\* TLC evaluates this once more for every state, the one above only once.
MCInputs == Calls
=============================================================================
