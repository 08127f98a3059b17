------------------------------- MODULE Pieces -------------------------------
(***************************************************************************)
(* The pieces of KaSpan that can be looked at alone: the search for the    *)
(* owner of a vertex (SortedOwner), grouping a buffer by destination       *)
(* (PartitionByRank), the hash tables (HashSlots), the arrays of bits       *)
(* (BitWords), Tarjan's algorithm (Tarjan), the partitions of the vertices *)
(* (Partitions), and the choice of a pivot among the candidates of the     *)
(* ranks (PivotReduction).  They share nothing, so one of them runs in a   *)
(* behaviour and the others stay in one of their initial states.           *)
(***************************************************************************)
EXTENDS SortedOwner, HashSlots, Sequences

CONSTANTS WorldSize, MaxItems,  \* PartitionByRank
          WordBits, Sizes,      \* BitWords
          Inputs,               \* Tarjan
          Layouts,              \* [kind, n, ws, b: the block size, begins, ends: per rank]
          Vertices, Owners, Limit, Candidates   \* PivotReduction

ASSUME PiecesAssumption ==
  /\ WorldSize \in Nat \ {0} /\ MaxItems \in Nat
  /\ Width \in Nat \ {0} /\ TableSize \in Nat \ {0}
  /\ WordBits \in Nat \ {0} /\ Sizes \subseteq Nat /\ 0 \in Sizes
  /\ Hashes \subseteq [Keys -> Nat]
  /\ Null \notin Keys /\ Invalid \notin Keys /\ Null # Invalid
  /\ Vertices \subseteq Nat /\ 0 \in Vertices /\ Limit \in Nat \ {0}
  /\ Candidates \subseteq [owner : [Vertices -> Owners], is_undecided : SUBSET Vertices,
                           outdegree : [Vertices -> Nat], indegree : [Vertices -> Nat]]
  /\ \A i \in Candidates : i.is_undecided # {}

\* A search is given edge lists for its vertices, and a filter of them.
ASSUME InputsAssumption ==
  \A i \in Inputs : /\ i.n \in Nat /\ i.filter \subseteq 0 .. i.n - 1
                     /\ i.csr_range \in [0 .. i.n - 1 -> Seq(Nat)]

\* Some power of two is not below x, so there is one for bit_ceil to choose.
ASSUME CacheLinesAssumption ==
  cache_lines \in Nat /\ cache_lines >= ceildiv(2 * Width, 3 * TableSize)

\* The trim before has left undecided vertices with edges both ways, and the
\* products of their degrees fit into an index_t.
ASSUME CandidatesAssumption ==
  \A i \in Candidates : \A v \in i.is_undecided :
    i.outdegree[v] * i.indegree[v] \in 1 .. Limit - 1

\* What the callers see to: slices that are given cover every vertex once, and
\* sums over a turn of the ranks fit into a vertex_t.
ASSUME LayoutsAssumption ==
  \A l \in Layouts :
    LET R == 0 .. l.ws - 1
    IN  /\ l.n \in 0 .. Size - 1 /\ l.ws \in Nat \ {0} /\ l.b \in Nat \ {0}
        /\ \/ l.kind \in {"balanced", "trivial"}
           \/ l.kind = "single" /\ l.ws = 1
           \/ l.kind = "cyclic" /\ l.n + l.ws <= Size
           \/ l.kind = "block" /\ l.n + l.ws <= Size /\ l.n + l.b <= Size /\ l.b * l.ws < Size
           \/ /\ l.kind = "sorted" /\ l.ends \in [R -> 0 .. l.n]
              /\ Sorted([n |-> l.n, ws |-> l.ws, part |-> l.ends])
           \/ /\ l.kind = "continuous"
              /\ l.begins \in [R -> 0 .. l.n] /\ l.ends \in [R -> 0 .. l.n]
              /\ \A q \in R : l.begins[q] <= l.ends[q]
              /\ \A v \in 0 .. l.n - 1 : \E q \in R : \A p \in R :
                   l.begins[p] <= v /\ v < l.ends[p] <=> p = q

VARIABLES
  running,                                                      \* never changed
  rank_of, send_buffer, send_displs, grouping, rank, rank_end, ordered_items,
  input, local_root, index, low, on_stack, st, dfs, components,
  layout,                                                       \* never changed
  candidates, todo, local_max, partial, pivot,
  size, words, visit, answer                                    \* BitWords

groupingVars ==
  <<rank_of, send_buffer, send_displs, grouping, rank, rank_end, ordered_items>>
pivotVars == <<candidates, todo, local_max, partial, pivot>>
bitVars == <<size, words, visit, answer>>
tarjanVars == <<input, local_root, index, low, on_stack, st, dfs, components>>

Grouping == INSTANCE PartitionByRank WITH pc <- grouping
Tarjans  == INSTANCE Tarjan
BitArrays == INSTANCE BitWords
Choice   == INSTANCE PivotReduction WITH Ranks <- Owners, Inputs <- Candidates, input <- candidates

\* No traversal is told from the traversal of an array.
ASSUME NoneAssumption == None \notin BitArrays!Arrays

Pieces == {"owner", "grouping", "table", "tarjan", "layout", "pivot", "bits"}

\* A piece that does not run has one of its inputs, whichever.
PiecesInit ==
  /\ running \in Pieces
  /\ running = "owner" \/ call = CHOOSE c \in Calls : TRUE
  /\ running = "grouping" \/ rank_of = [i \in {} |-> 0]
  /\ running = "table" \/ hash = CHOOSE h \in Hashes : TRUE
  /\ running = "tarjan" \/ input = CHOOSE i \in Inputs : TRUE
  /\ running = "layout" \/ layout = CHOOSE l \in Layouts : TRUE
  /\ running = "pivot" \/ candidates = CHOOSE c \in Candidates : TRUE
  /\ running = "bits" \/ (size = 0 /\ words = [a \in BitArrays!Arrays |-> [w \in {} |-> {}]])
  /\ Init /\ Choice!Init /\ Grouping!Init /\ SlotsInit /\ Tarjans!Init /\ BitArrays!Init
  /\ layout \in Layouts

OwnerStep    == running = "owner" /\ Next
GroupingStep == running = "grouping" /\ Grouping!Next
TableStep    == running = "table" /\ SlotsNext
TarjanStep   == running = "tarjan" /\ Tarjans!Next
ChoiceStep   == running = "pivot" /\ Choice!Next
BitsStep     == running = "bits" /\ BitArrays!Next

PiecesNext ==
  /\ \/ OwnerStep /\ UNCHANGED <<groupingVars, slotVars, tarjanVars, pivotVars, bitVars>>
     \/ GroupingStep /\ UNCHANGED <<vars, slotVars, tarjanVars, pivotVars, bitVars>>
     \/ TableStep /\ UNCHANGED <<vars, groupingVars, tarjanVars, pivotVars, bitVars>>
     \/ TarjanStep /\ UNCHANGED <<vars, groupingVars, slotVars, pivotVars, bitVars>>
     \/ ChoiceStep /\ UNCHANGED <<vars, groupingVars, slotVars, tarjanVars, bitVars>>
     \/ BitsStep /\ UNCHANGED <<vars, groupingVars, slotVars, tarjanVars, pivotVars>>
     \/ /\ running = "layout"
        /\ UNCHANGED <<vars, groupingVars, slotVars, tarjanVars, pivotVars, bitVars>>
  /\ UNCHANGED <<running, layout>>

piecesVars ==
  <<running, layout, vars, groupingVars, slotVars, tarjanVars, pivotVars, bitVars>>

\* Loops run on; nobody has to call a hash table or an array of bits.
PiecesSpec ==
  /\ PiecesInit /\ [][PiecesNext]_piecesVars
  /\ WF_piecesVars(running \notin {"table", "bits"} /\ PiecesNext)
-----------------------------------------------------------------------------
(* Properties: the pieces' own, each while the piece runs                  *)

\* Grouping loses no item and puts each into the slice of its destination.
PartitionInv == running = "grouping" => Grouping!PartitionInv

\* Tarjan's algorithm emits the components, within its stacks.
TarjanInv == running = "tarjan" => Tarjans!TarjanInv

\* Ranks agree on the pivot, which is undecided and has the largest product.
PivotInv == running = "pivot" => Choice!PivotInv

\* What the ranks think of the partition.
part_of(l, q) ==
  CASE l.kind = "balanced"   -> balanced_slice_part(l.n, l.ws, q)
    [] l.kind = "trivial"    -> trivial_slice_part(l.n, l.ws, q)
    [] l.kind = "cyclic"     -> cyclic_part(l.n, l.ws, q)
    [] l.kind = "block"      -> block_cyclic_part(l.n, l.ws, q, l.b)
    [] l.kind = "sorted"     -> explicit_sorted_part(l.n, l.ws, q, l.ends)
    [] l.kind = "continuous" -> explicit_continuous_part(l.n, l.ws, q, l.begins, l.ends)
    [] l.kind = "single"     -> single_part(l.n)

\* Arrays of bits are sets, whatever lies in the rest of their last words.
ImplementsSets == BitArrays!ImplementsSets

\* Every kind of partition gives each vertex to one rank, and all agree which.
PartsInv == PartsAgree([q \in 0 .. layout.ws - 1 |-> part_of(layout, q)])

\* All pieces that loop come to an end.
PiecesEnd ==
  /\ running = "owner" ~> pc = "done"
  /\ running = "grouping" ~> grouping = "done"
  /\ running = "tarjan" ~> dfs = <<>> /\ local_root = input.n
=============================================================================
