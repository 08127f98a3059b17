-------------------------- MODULE MCTrimExhaustive --------------------------
(* TrimExhaustive on every graph over three vertices, self-loops included, *)
(* and every partition of them over two ranks.  All edges from v2 are      *)
(* parallel pairs, so that a vertex gets messages from the same neighbour  *)
(* twice.                                                                  *)
EXTENDS TrimExhaustive

CONSTANTS v1, v2, v3, r1, r2

MCVertices == {v1, v2, v3}
MCRanks == {r1, r2}

Multigraph(E) == {<<e[1], e[2], 1>> : e \in E}
                 \cup {<<e[1], e[2], 2>> : e \in {x \in E : x[1] = v2}}

Calls == {[arcs |-> Multigraph(E), owner |-> o] : E \in Graphs, o \in [Vertices -> Ranks]}

\* Exchanging the ranks changes nothing: v1 is on the first.
FixedCalls == {c \in Calls : c.owner[v1] = r1}

MCInputs == FixedCalls
=============================================================================
