---------------------------- MODULE Construction ----------------------------
(***************************************************************************)
(* How the ranks come by their parts of a graph, and by copies of all of   *)
(* it or of what is undecided of it:                                       *)
(*   - kagen_graph_part (scc/adapter/kagen.hpp): the generator gives each  *)
(*     rank the rows of a slice; the ranks tell one another where slices   *)
(*     end and exchange their edges for the backward rows                  *)
(*     (scc/backward_complement.hpp);                                      *)
(*   - partition of a graph that every rank has (scc/partion_graph.hpp);   *)
(*   - allgather_graph, which makes the whole graph from the parts;        *)
(*   - allgather_sub_graph and allgather_fw_sub_graph, and the residual    *)
(*     stage of the drivers, which lets each rank label its vertices in a  *)
(*     copy of the undecided graph (variant/scc_trim_ex_residual.hpp).     *)
(*                                                                         *)
(* A step of a rank is what it computes between two collectives.  A        *)
(* collective that only tells the counts of the next one is left out: the  *)
(* lengths of what ranks pass are their counts.                            *)
(***************************************************************************)
EXTENDS Csr

CONSTANTS
  Builds      \* [ws: the ranks, n: the vertices, rows: of every vertex, ends: of the slices,
              \*  source: "kagen" or "partition", use: "whole", "sub" or "residual",
              \*  wanted: the vertices of the sub-graph]

VARIABLES
  build,      \* never changed
  at,         \* per rank: the collective it is in; "built", "done"
  sent,       \* per rank: its calls of collectives, with what it passed to them
  parts,      \* per rank: its part of the graph, forward and backward
  copy,       \* per rank: the graph gathered, forward and backward
  ids,        \* per rank: the vertices of the copy, if not all
  scc_id      \* per rank and local vertex

vars == <<build, at, sent, parts, copy, ids, scc_id>>

Ranks    == 0 .. build.ws - 1
part(r)  == explicit_sorted_part(build.n, build.ws, r, build.ends)
edges    == FlattenSeq([i \in 1 .. build.n |->
                          [x \in 1 .. Len(build.rows[i - 1]) |->
                             <<i - 1, build.rows[i - 1][x]>>]])
NoGraphs == bidi_graph(0, 0)

Init ==
  /\ build \in Builds
  /\ at = [r \in Ranks |-> "start"]
  /\ sent = [r \in Ranks |-> <<>>]
  /\ parts = [r \in Ranks |-> NoGraphs]
  /\ copy = [r \in Ranks |-> NoGraphs]
  /\ ids = [r \in Ranks |-> <<>>]
  /\ scc_id = [r \in Ranks |-> [k \in 0 .. part(r).local_n - 1 |-> Undefined]]
-----------------------------------------------------------------------------
(* Collectives                                                             *)

\* Rank r has come to a collective, and goes on when all ranks have.
Calls(r, call, items) ==
  /\ sent' = [sent EXCEPT ![r] = Append(@, [call |-> call, items |-> items])]
  /\ at' = [at EXCEPT ![r] = call]

Ends(r, where) == at' = [at EXCEPT ![r] = where] /\ UNCHANGED sent

In(r, call) ==
  at[r] = call /\ \A q \in Ranks : Len(sent[q]) >= Len(sent[r])

Items(r, q) == sent[q][Len(sent[r])].items

\* allgatherv with counts and displacements that the ranks have told each other.
Gathered(r) == FlattenSeq([i \in 1 .. build.ws |-> Items(r, i - 1)])

\* allgatherv with counts and displacements computed by the rank itself.
Placed(r, size, counts, displs) ==
  [x \in 0 .. size - 1 |->
     LET here == {q \in Ranks : displs[q] <= x /\ x < displs[q] + counts[q]}
         q    == CHOOSE p \in here : TRUE
     IN  IF here = {} THEN Undefined ELSE Items(r, q)[x - displs[q] + 1]]
-----------------------------------------------------------------------------
(* Parts                                                                   *)

\* explicit_sorted_part: where the slices end.
Begin(r) ==
  /\ at[r] = "start"
  /\ Calls(r, "ends", <<part(r).end>>)
  /\ UNCHANGED <<build, parts, copy, ids, scc_id>>

\* The rows of the generator, and nothing but memory for the backward heads.
kagen_graph_part(r) ==
  LET local_n    == part(r).local_n
      rows       == [i \in 1 .. local_n |-> build.rows[part(r).to_global[i - 1]]]
      adjncy     == FlattenSeq(rows)
      xadj[k \in 0 .. local_n] == IF k = 0 THEN 0 ELSE xadj[k - 1] + Len(rows[k])
      g          == bidi_graph_part(part(r), Len(adjncy), 0)
  IN  IF local_n = 0 THEN g
      ELSE [g EXCEPT !.fw.head = [k \in 0 .. local_n |-> xadj[k]],
                     !.fw.csr  = Array(adjncy)]

\* bgp = partition(bg, part), where every rank has made bg from all edges.
partition_bidi(r) ==
  LET g  == edgelist_to_graph(build.n, edges)
      bw == backward_complement_graph(g)
  IN  [fw |-> partition(g, part(r)), bw |-> partition(bw, part(r))]

Partition(r) ==
  /\ In(r, "ends") /\ build.source = "partition"
  /\ parts' = [parts EXCEPT ![r] = partition_bidi(r)]
  /\ Ends(r, "built")
  /\ UNCHANGED <<build, copy, ids, scc_id>>

\* A single rank has all edges.
GenerateAlone(r) ==
  /\ In(r, "ends") /\ build.source = "kagen" /\ build.ws = 1
  /\ LET g == kagen_graph_part(r)
     IN  parts' = [parts EXCEPT ![r] = [g EXCEPT !.bw = backward_complement_graph(g.fw)]]
  /\ Ends(r, "built")
  /\ UNCHANGED <<build, copy, ids, scc_id>>

\* any_edges
Generate(r) ==
  /\ In(r, "ends") /\ build.source = "kagen" /\ build.ws > 1
  /\ LET g == kagen_graph_part(r)
     IN  /\ parts' = [parts EXCEPT ![r] = g]
         /\ Calls(r, "any_edges", <<g.fw.m > 0>>)
  /\ UNCHANGED <<build, copy, ids, scc_id>>

\* No rank has an edge: the heads are allocated once more, and that is all.
Edgeless(r) ==
  /\ In(r, "any_edges")
  /\ ~ \E q \in Ranks : Items(r, q)[1]
  /\ parts' = [parts EXCEPT ![r].bw = graph_part(part(r), 0)]
  /\ Ends(r, "built")
  /\ UNCHANGED <<build, copy, ids, scc_id>>

\* Mutant of SendBack: every edge goes to the rank of its source.
SendForward(r) ==
  /\ In(r, "any_edges")
  /\ \E q \in Ranks : Items(r, q)[1]
  /\ LET send_stack == each_uv(parts[r].fw, part(r))
         For(q) == SelectSeq(send_stack, LAMBDA e : part(r).world_rank_of[e[1]] = q)
     IN  Calls(r, "edges", [i \in 1 .. build.ws |-> For(i - 1)])
  /\ UNCHANGED <<build, parts, copy, ids, scc_id>>

\* Every edge goes, turned around, to the rank of its target
\* (inplace_partition_by_rank and alltoallv).
SendBack(r) ==
  /\ In(r, "any_edges")
  /\ \E q \in Ranks : Items(r, q)[1]
  /\ LET forward    == each_uv(parts[r].fw, part(r))
         send_stack == [i \in DOMAIN forward |-> <<forward[i][2], forward[i][1]>>]
         For(q) == SelectSeq(send_stack, LAMBDA e : part(r).world_rank_of[e[1]] = q)
     IN  Calls(r, "edges", [i \in 1 .. build.ws |-> For(i - 1)])
  /\ UNCHANGED <<build, parts, copy, ids, scc_id>>

ReceiveBack(r) ==
  /\ In(r, "edges")
  /\ LET recv_buffer == FlattenSeq([i \in 1 .. build.ws |-> Items(r, i - 1)[r + 1]])
     IN  parts' = [parts EXCEPT ![r].bw = edgelist_to_graph_part(part(r), recv_buffer)]
  /\ Ends(r, "built")
  /\ UNCHANGED <<build, copy, ids, scc_id>>
-----------------------------------------------------------------------------
(* allgather_graph                                                         *)

\* A rank passes where its rows end, and rank 0 its first entry as well,
\* which a rank without vertices does not have.
SendHeads(r) ==
  /\ at[r] = "built" /\ build.use = "whole"
  /\ LET head  == parts[r].fw.head
         first == IF r = 0 THEN 0 ELSE 1
         count == part(r).local_n + (IF r = 0 THEN 1 ELSE 0)
     IN  Calls(r, "heads",
               [i \in 1 .. count |-> IF first + i - 1 \in DOMAIN head THEN head[first + i - 1]
                                                                      ELSE Undefined])
  /\ UNCHANGED <<build, parts, copy, ids, scc_id>>

\* How many edges the ranks before have.
Offsets(local_m) ==
  LET offset[r \in Ranks] == IF r = 0 THEN 0 ELSE offset[r - 1] + local_m[r - 1]
  IN  offset

\* The heads of every rank are moved behind the edges of the ranks before.
FixHeads(r) ==
  /\ In(r, "heads")
  /\ LET counts  == [q \in Ranks |-> IF q = 0 THEN part(0).end + 1 ELSE part(q).local_n]
         displs  == [q \in Ranks |-> IF q = 0 THEN 0 ELSE part(q).begin + 1]
         head    == Placed(r, build.n + 1, counts, displs)
         local_m == [q \in Ranks |-> IF counts[q] = 0 THEN 0
                                     ELSE head[displs[q] + counts[q] - 1]]
         owner(x) == IF x = 0 THEN 0 ELSE part(r).world_rank_of[x - 1]
         g       == graph(build.n, Len(edges))
     IN  copy' = [copy EXCEPT ![r].fw =
                    [g EXCEPT !.head = [x \in DOMAIN @ |->
                                          head[x] + Offsets(local_m)[owner(x)]]]]
  /\ Calls(r, "csr", [i \in 1 .. parts[r].fw.m |-> parts[r].fw.csr[i - 1]])
  /\ UNCHANGED <<build, parts, ids, scc_id>>

Complement(r) ==
  /\ In(r, "csr")
  /\ LET head   == copy[r].fw.head
         displs == [q \in Ranks |-> head[part(q).begin]]
         counts == [q \in Ranks |-> head[part(q).end] - head[part(q).begin]]
         fw     == [copy[r].fw EXCEPT !.csr = Placed(r, copy[r].fw.m, counts, displs)]
     IN  copy' = [copy EXCEPT ![r] = [fw |-> fw, bw |-> backward_complement_graph(fw)]]
  /\ Ends(r, "done")
  /\ UNCHANGED <<build, parts, ids, scc_id>>
-----------------------------------------------------------------------------
(* allgather_sub_graph                                                     *)

local_super_ids(r) ==
  SelectSeq([i \in 1 .. part(r).local_n |-> part(r).to_global[i - 1]],
            LAMBDA u : u \in build.wanted)

SendIds(r) ==
  /\ at[r] = "built" /\ build.use \in {"sub", "residual"}
  /\ Calls(r, "ids", local_super_ids(r))
  /\ UNCHANGED <<build, parts, copy, ids, scc_id>>

\* std::lower_bound, from 0
lower_bound(super_ids, v) == Cardinality({i \in DOMAIN super_ids : super_ids[i] < v})

\* allgather_csr_degrees: the row of u, with the numbers of the sub-graph.
SubRow(g, r, super_ids, u) ==
  LET row  == csr_range(g, part(r).to_local[u])
      kept == SelectSeq(row, LAMBDA v : Contains(super_ids, v))
  IN  [x \in DOMAIN kept |-> lower_bound(super_ids, kept[x])]

SubCsr(g, r, super_ids) ==
  FlattenSeq([i \in DOMAIN local_super_ids(r) |->
                SubRow(g, r, super_ids, local_super_ids(r)[i])])

\* Rank 0 passes the first head, which is 0, as well.
SubDegrees(g, r, super_ids) ==
  (IF r = 0 THEN <<0>> ELSE <<>>)
    \o [i \in DOMAIN local_super_ids(r) |->
          Len(SubRow(g, r, super_ids, local_super_ids(r)[i]))]

\* Without a vertex in the sub-graph there is nothing to label.
NoSubGraph(r) ==
  /\ In(r, "ids") /\ Gathered(r) = <<>>
  /\ Ends(r, "done")
  /\ UNCHANGED <<build, parts, copy, ids, scc_id>>

SendFwCsr(r) ==
  /\ In(r, "ids") /\ Gathered(r) # <<>>
  /\ ids' = [ids EXCEPT ![r] = Gathered(r)]
  /\ Calls(r, "fw_csr", SubCsr(parts[r].fw, r, Gathered(r)))
  /\ UNCHANGED <<build, parts, copy, scc_id>>

WithCsr(r) ==
  [graph(Len(ids[r]), Len(Gathered(r))) EXCEPT !.csr = Array(Gathered(r))]

\* The degrees gathered become heads in place.
WithHead(g, degrees) ==
  LET head[u \in 0 .. g.n] == IF u = 0 THEN degrees[1] ELSE head[u - 1] + degrees[u + 1]
  IN  [g EXCEPT !.head = [u \in 0 .. g.n |-> head[u]]]

SendFwDegrees(r) ==
  /\ In(r, "fw_csr")
  /\ copy' = [copy EXCEPT ![r].fw = WithCsr(r)]
  /\ Calls(r, "fw_degrees", SubDegrees(parts[r].fw, r, ids[r]))
  /\ UNCHANGED <<build, parts, ids, scc_id>>

SendBwCsr(r) ==
  /\ In(r, "fw_degrees") /\ build.use = "sub"
  /\ copy' = [copy EXCEPT ![r].fw = WithHead(@, Gathered(r))]
  /\ Calls(r, "bw_csr", SubCsr(parts[r].bw, r, ids[r]))
  /\ UNCHANGED <<build, parts, ids, scc_id>>

\* Mutant of SendBwDegrees: the degrees are those of the forward rows.
SendBwDegreesOfFw(r) ==
  /\ In(r, "bw_csr")
  /\ copy' = [copy EXCEPT ![r].bw = WithCsr(r)]
  /\ Calls(r, "bw_degrees", SubDegrees(parts[r].fw, r, ids[r]))
  /\ UNCHANGED <<build, parts, ids, scc_id>>

SendBwDegrees(r) ==
  /\ In(r, "bw_csr")
  /\ copy' = [copy EXCEPT ![r].bw = WithCsr(r)]
  /\ Calls(r, "bw_degrees", SubDegrees(parts[r].bw, r, ids[r]))
  /\ UNCHANGED <<build, parts, ids, scc_id>>

FinishSub(r) ==
  /\ In(r, "bw_degrees")
  /\ copy' = [copy EXCEPT ![r].bw = WithHead(@, Gathered(r))]
  /\ Ends(r, "done")
  /\ UNCHANGED <<build, parts, ids, scc_id>>

Of(V) == INSTANCE ReachableSets WITH Vertices <- V

\* Mutant of Label: the id is the least number within the sub-graph.
LabelBySubId(r) ==
  /\ In(r, "fw_degrees") /\ build.use = "residual"
  /\ copy' = [copy EXCEPT ![r].fw = WithHead(@, Gathered(r))]
  /\ LET g     == copy'[r].fw
         E     == Range(each_uv(g, single_part(g.n)))
         id(i) == Min(Of(0 .. g.n - 1)!SCC(E, i))
     IN  scc_id' = [scc_id EXCEPT ![r] =
           [k \in DOMAIN @ |-> IF part(r).to_global[k] \in build.wanted
                               THEN id(lower_bound(ids[r], part(r).to_global[k])) ELSE @[k]]]
  /\ Ends(r, "done")
  /\ UNCHANGED <<build, parts, ids>>

\* tarjan finds the components of the copy (module Tarjan); the id is the
\* least vertex of each, and a rank writes those of its own vertices.
Label(r) ==
  /\ In(r, "fw_degrees") /\ build.use = "residual"
  /\ copy' = [copy EXCEPT ![r].fw = WithHead(@, Gathered(r))]
  /\ LET g     == copy'[r].fw
         E     == Range(each_uv(g, single_part(g.n)))
         id(i) == ids[r][Min(Of(0 .. g.n - 1)!SCC(E, i)) + 1]
     IN  scc_id' = [scc_id EXCEPT ![r] =
           [k \in DOMAIN @ |-> IF part(r).to_global[k] \in build.wanted
                               THEN id(lower_bound(ids[r], part(r).to_global[k])) ELSE @[k]]]
  /\ Ends(r, "done")
  /\ UNCHANGED <<build, parts, ids>>

Returned == (\A r \in Ranks : at[r] = "done") /\ UNCHANGED vars

Next ==
  \/ \E r \in Ranks :
       \/ Begin(r) \/ Partition(r) \/ GenerateAlone(r)
       \/ Generate(r) \/ Edgeless(r) \/ SendBack(r) \/ ReceiveBack(r)
       \/ SendHeads(r) \/ FixHeads(r) \/ Complement(r)
       \/ SendIds(r) \/ NoSubGraph(r) \/ SendFwCsr(r) \/ SendFwDegrees(r)
       \/ SendBwCsr(r) \/ SendBwDegrees(r) \/ FinishSub(r) \/ Label(r)
  \/ Returned

Spec == Init /\ [][Next]_vars /\ WF_vars(Next)
-----------------------------------------------------------------------------
(* Properties                                                              *)

\* How often the input has the edge, and how often a graph has it.
Multiplicity(u, v) == Cardinality({x \in DOMAIN build.rows[u] : build.rows[u][x] = v})
Times(g, k, v)     == Cardinality({x \in 1 .. outdegree(g, k) : csr_range(g, k)[x] = v})

(***************************************************************************)
(* Once built, the part of every rank passes its validation (kagen.hpp     *)
(* calls g.debug_validate()), whatever another rank found in its slice.    *)
(***************************************************************************)
PartsValidate ==
  \A r \in Ranks : at[r] = "built" => /\ debug_validate(parts[r].fw, build.n)
                                      /\ debug_validate(parts[r].bw, build.n)

(***************************************************************************)
(* Forward rows have the edges out of the vertices of a rank and backward  *)
(* rows those into them, each as often as the graph has it, though every   *)
(* edge that crosses ranks is known to one of them only.                   *)
(***************************************************************************)
PartsRight ==
  \A r \in Ranks : at[r] \notin {"start", "ends", "any_edges", "edges"} =>
    \A k \in 0 .. part(r).local_n - 1, u \in 0 .. build.n - 1 :
      /\ Times(parts[r].fw, k, u) = Multiplicity(part(r).to_global[k], u)
      /\ Times(parts[r].bw, k, u) = Multiplicity(u, part(r).to_global[k])

(***************************************************************************)
(* Collectives match: the ranks pass through the same calls in the same    *)
(* order, whether their slices have edges or wanted vertices or not, and   *)
(* pass to them nothing but what they have.                                *)
(***************************************************************************)
CallsMatch ==
  \A r \in Ranks, q \in Ranks :
    \A i \in DOMAIN sent[r] \cap DOMAIN sent[q] : sent[r][i].call = sent[q][i].call

PassedIsWritten ==
  \A r \in Ranks : \A i \in DOMAIN sent[r] : \A x \in DOMAIN sent[r][i].items :
    sent[r][i].items[x] # Undefined

\* What a rank builds is valid, right, and comes about in step with the others.
ConstructionInv == PartsValidate /\ PartsRight /\ CallsMatch /\ PassedIsWritten

(***************************************************************************)
(* What is gathered is the graph, or the sub-graph induced by the wanted   *)
(* vertices, and every rank has the same copy of it: the drivers label     *)
(* with it without asking one another again.                               *)
(***************************************************************************)
CopiesRight ==
  LET name(u) == IF build.use = "whole" THEN u ELSE ids[0][u + 1]
  IN  (\A r \in Ranks : at[r] = "done") =>
        /\ \A r \in Ranks : copy[r] = copy[0] /\ ids[r] = ids[0]
        /\ build.use # "whole" => ids[0] = SetToSortSeq(build.wanted, <)
        /\ debug_validate(copy[0].fw, copy[0].fw.n) /\ debug_validate(copy[0].bw, copy[0].bw.n)
        /\ copy[0].fw.n = (IF build.use = "whole" THEN build.n
                                                  ELSE Cardinality(build.wanted))
        /\ \A u, v \in 0 .. copy[0].fw.n - 1 :
             /\ Times(copy[0].fw, u, v) = Multiplicity(name(u), name(v))
             /\ build.use # "residual" => Times(copy[0].bw, v, u) = Multiplicity(name(u), name(v))

(***************************************************************************)
(* The residual stage gives every wanted vertex the least vertex of its    *)
(* component, which is its component in the whole graph, as the vertices   *)
(* left undecided are whole components; it writes nothing else.            *)
(***************************************************************************)
ResidualRight ==
  LET E == Range(edges)
  IN  \A r \in Ranks : at[r] = "done" /\ build.use = "residual" =>
        \A k \in 0 .. part(r).local_n - 1 :
          LET u == part(r).to_global[k]
          IN  scc_id[r][k] = IF u \in build.wanted
                             THEN Min(Of(0 .. build.n - 1)!SCC(E, u)) ELSE Undefined
=============================================================================
