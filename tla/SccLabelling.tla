---------------------------- MODULE SccLabelling ----------------------------
(***************************************************************************)
(* The abstract specification of what every phase of KaSpan promises: it   *)
(* assigns component ids to vertices, by on_decision calls.  An id, once   *)
(* assigned, is never changed, the vertices of one component get the same  *)
(* id and the vertices of different components different ones.             *)
(*                                                                         *)
(* A phase starts from any labelling that earlier phases may have left:    *)
(* whole components decided, each under the id of one of its vertices.     *)
(***************************************************************************)
EXTENDS ReachableSets

CONSTANT Undecided    \* scc_id_undecided, which is no vertex

VARIABLES edges,      \* the input graph, never changed
          scc_id      \* the result array, Undecided where nothing was decided

labellingVars == <<edges, scc_id>>

Decided(id) == {v \in Vertices : id[v] # Undecided}

\* Decided vertices share an id exactly when they share a component.
Canonical(E, id) ==
  \A u \in Decided(id) :
    LET C == SCC(E, u)
    IN  id[u] \in C /\ \A v \in C \cap Decided(id) : id[v] = id[u]

\* No component is left half decided.
Whole(E, id) == \A v \in Decided(id) : SCC(E, v) \subseteq Decided(id)

Init ==
  /\ edges \in Graphs
  /\ scc_id \in [Vertices -> Vertices \cup {Undecided}]
  /\ Canonical(edges, scc_id)
  /\ Whole(edges, scc_id)

\* Some more vertices are decided, of one component or of several at once.
Next ==
  /\ scc_id' \in [Vertices -> Vertices \cup {Undecided}]
  /\ \A v \in Decided(scc_id) : scc_id'[v] = scc_id[v]
  /\ Canonical(edges, scc_id')
  /\ UNCHANGED edges

Spec == Init /\ [][Next]_labellingVars
=============================================================================
