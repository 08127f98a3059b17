-------------------------------- MODULE Csr --------------------------------
(***************************************************************************)
(* Graphs in compressed rows (graph/graph.hpp, graph/graph_part.hpp and    *)
(* their bidi_ versions) and the functions that make them from edges       *)
(* (scc/adapter/edgelist.hpp), from one another (scc/partion_graph.hpp)    *)
(* and backwards (scc/backward_complement.hpp).                            *)
(*                                                                         *)
(* An array is a function from 0 up, one of length 0 is a null pointer,    *)
(* and memory that nobody has written holds Undefined.  A graph is a part  *)
(* with all vertices, as it is to tarjan: both are a record of the number  *)
(* of (local) vertices, the number of edges, head and csr.  A part is one  *)
(* of module Partitions.  Lists of edges and rows are sequences.           *)
(***************************************************************************)
EXTENDS Partitions, SequencesExt

CONSTANT Undefined

Array(s) == [i \in 0 .. Len(s) - 1 |-> s[i + 1]]

line_alloc(size) == [i \in 0 .. size - 1 |-> Undefined]

\* By convention a size is zero if and only if the pointer is null.
graph(n, m) == [n    |-> n,
                m    |-> m,
                head |-> line_alloc(IF n = 0 THEN 0 ELSE n + 1),
                csr  |-> line_alloc(m)]

graph_part(part, m) == graph(part.local_n, m)

bidi_graph(n, m) == [fw |-> graph(n, m), bw |-> graph(n, m)]

bidi_graph_part(part, fw_m, bw_m) ==
  [fw |-> graph_part(part, fw_m), bw |-> graph_part(part, bw_m)]

outdegree(g, k) == g.head[k + 1] - g.head[k]

csr_range(g, k) == [i \in 1 .. outdegree(g, k) |-> g.csr[g.head[k] + i - 1]]

\* The edges in the order of the rows; part leads from a row to its vertex.
each_uv(g, part) ==
  FlattenSeq([i \in 1 .. g.n |->
                [x \in 1 .. outdegree(g, i - 1) |->
                   <<part.to_global[i - 1], csr_range(g, i - 1)[x]>>]])

debug_check(g) ==
  /\ DOMAIN g.head = (IF g.n = 0 THEN {} ELSE 0 .. g.n)
  /\ DOMAIN g.csr = 0 .. g.m - 1

\* n is the number of all vertices.
debug_validate(g, n) ==
  /\ debug_check(g)
  /\ \A i \in DOMAIN g.head : g.head[i] # Undefined
  /\ g.n > 0 => g.head[0] = 0 /\ g.head[g.n] = g.m
  /\ \A k \in 0 .. g.n - 1 : g.head[k] <= g.head[k + 1]
  /\ \A i \in DOMAIN g.csr : g.csr[i] # Undefined /\ g.csr[i] < n
-----------------------------------------------------------------------------
(* From a list of edges                                                    *)

edge_less(e, f) == e[1] < f[1] \/ (e[1] = f[1] /\ e[2] < f[2])

\* How many edges the loop has taken after k rows: those in front of the first
\* edge that none of these rows begins with, as both are sorted.
TakenBy(part, edgelist, k) ==
  Max({i \in 0 .. Len(edgelist) :
         \A x \in 1 .. i : \E q \in 0 .. k - 1 : edgelist[x][1] = part.to_global[q]})

\* head[0] is written even if there is no vertex, and so no head: the head has
\* an entry then, which debug_check finds.  An edge not taken is not written.
sorted_edgelist_to_graph_part(part, edgelist) ==
  [n    |-> part.local_n,
   m    |-> Len(edgelist),
   head |-> [k \in 0 .. part.local_n |-> TakenBy(part, edgelist, k)],
   csr  |-> [i \in 0 .. Len(edgelist) - 1 |->
               IF i < TakenBy(part, edgelist, part.local_n) THEN edgelist[i + 1][2]
                                                            ELSE Undefined]]

edgelist_to_graph_part(part, edgelist) ==
  sorted_edgelist_to_graph_part(part, SortSeq(edgelist, edge_less))

edgelist_to_graph(n, edgelist) == edgelist_to_graph_part(single_part(n), edgelist)
-----------------------------------------------------------------------------
(* Backwards, and in parts                                                 *)

(***************************************************************************)
(* A counting sort of the edges by their targets.  head[v + 1] counts the  *)
(* edges into v, then is where its row begins, and then a cursor that ends *)
(* up where the row ends.                                                  *)
(***************************************************************************)
backward_complement_graph(g) ==
  LET begin(v)  == Cardinality({i \in DOMAIN g.csr : g.csr[i] < v})
      source(i) == CHOOSE u \in 0 .. g.n - 1 : g.head[u] <= i /\ i < g.head[u + 1]
      cursor(i) == begin(g.csr[i]) + Cardinality({x \in 0 .. i - 1 : g.csr[x] = g.csr[i]})
  IN  [g EXCEPT !.head = [v \in DOMAIN @ |-> begin(v)],
                !.csr  = [p \in DOMAIN @ |->
                            source(CHOOSE i \in DOMAIN g.csr : cursor(i) = p)]]

\* For a part that is one slice.
partition_local_m(g, part) ==
  IF part.local_n > 0 THEN g.head[part.end] - g.head[part.begin] ELSE 0

\* The rows of the part, one after the other, are one piece of the rows of g.
partition(g, part) ==
  LET first(k) == g.head[part.begin + k] - g.head[part.begin]
      gp       == graph_part(part, partition_local_m(g, part))
  IN  [gp EXCEPT !.head = [k \in DOMAIN @ |-> first(k)],
                 !.csr  = [i \in DOMAIN @ |-> g.csr[g.head[part.begin] + i]]]
=============================================================================
