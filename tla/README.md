# KaSpan in TLA+

KaSpan computes the strongly connected components of a graph that is spread
over the ranks of an MPI job. This directory holds TLA+ modules for its
algorithms and its message exchange, the TLC configurations that check them,
and proofs that TLAPS checks. Paths are relative to
`src/kaspan/include/kaspan/` unless they begin with `src/`.

## The system

Every vertex belongs to one rank (a *partition*: `graph/*_part.hpp`). A rank
keeps the out- and in-edges of its vertices (`graph/bidi_graph_part.hpp`), one
undecided bit per vertex, and the slice of the result array `scc_id` that
belongs to it. A component is decided by calls of `on_decision(k, id)`, which
write `scc_id[k]` and count `local_decided`. The drivers sum the counters over
all ranks and stop when the sum is `n`.

| component | source | state | operations |
|---|---|---|---|
| pivot search | `scc/pivot_search.hpp` | `active` stack, `is_reached`, `is_undecided` | forward search, backward search |
| frontier | `scc/frontier.hpp` | send and receive buffer, counts, displacements | `push`, `local_push`, `relaxed_push`, `next`, `comm` |
| collectives | `util/mpi_basic.hpp` | none | partition by rank, allreduce, alltoallv |
| exhaustive trim | `scc/trim_1_exhaustive.hpp`, `scc/variant/scc_trim_ex.hpp` | `indegree`, `outdegree`, `decided_stack` | first trim, trim after a search, the loop |
| label search | `scc/multi_pivot_search.hpp` | `label`, `active`, `in_active`, `has_changed` | forward (smallest label), backward (decide), next rotation |
| cached searches | `scc/cache_*.hpp` | the above and a cache of remote vertices | as above, sending less |
| trim 1 | `scc/trim_1_local.hpp`, `scc/pivot.hpp` | degrees, largest degree product | trim, pick a pivot |
| asynchronous searches | `scc/async/*.hpp` | an external message queue with termination detection | as above, without rounds |
| drivers | `scc/scc.hpp`, `scc/variant/*.hpp`, `scc/async/scc.hpp` | counters | sequences of the above |
| residual stage | `scc/allgather_sub_graph.hpp`, `scc/variant/scc_trim_ex_residual.hpp`, `scc/tarjan.hpp` | gathered sub-graph, Tarjan's stacks | gather, solve the copy on every rank, write what is local |
| construction | `scc/backward_complement.hpp`, `scc/adapter/edgelist.hpp`, `scc/adapter/kagen.hpp`, `scc/allgather_graph.hpp`, `scc/partion_graph.hpp` | edge buffers, head and csr arrays | exchange edges, build both directions, cut into parts, gather |
| stored graphs | `scc/adapter/external_edgelist.hpp`, `scc/adapter/manifest.hpp`, `memory/file_buffer.hpp`, `memory/dense_unsigned_*.hpp` | files of heads and rows, a manifest | convert a list of edges, load a graph or a part |
| partitions | `graph/*_part.hpp` | none, or an owned index array | `to_local`, `to_global`, `world_rank_of` |
| hash containers | `memory/hash_map.hpp`, `memory/hash_set.hpp` | slots | insert, find, invalidate |

What interacts: the searches and the trim call the frontier in a loop (drain
local work, `comm`, consume, repeat until `comm` returns false); the frontier
calls collectives, which block until every rank has made the matching call;
the drivers run trims and searches in sequence over the same `is_undecided`
and `scc_id`. There are no threads: concurrency is between ranks.

What is hard: a rank that is ahead of the others by one collective; work that
is found by messages while the local stack is empty; the vote to end a phase;
state that one phase leaves for the next (reached bits, labels, degrees,
decided stacks, caches); stacks of fixed capacity that are not checked; loops
that end on a count; ranks without vertices or without edges, whose arrays are
null or never written; arithmetic in the width of `vertex_t`; a converter that
dies while its files are half written.

## The modules

The searches, the drivers, and what is under them:

| module | models | state and actions |
|---|---|---|
| `ReachableSets` | digraphs, reachability, components; what a trim leaves; the sum of the ranks' counters (`allreduce_single`) | operators only. `Reach` is the least closed set, without recursion, and the sum is no fold, so that both can be used in proofs |
| `SccLabelling` | what any phase promises: whole components before it, and ids that are only added and are those of components | `edges`, `scc_id` |
| `PivotSearch` | `forward_backward_search` | the bit arrays as sets, `active` as a count per vertex, the buffers as sets of edges. `FwDrain`/`BwDrain` are the body of `while (!active.empty())`, `FwReceive`/`BwReceive` one call of the consumer, `Exchange` is `comm` returning true on all ranks, `FwEnd`/`BwEnd` returning false |
| `CachePivotSearch` | `cache_forward_backward_search`; extends `PivotSearch` | `cache`, per rank the remote vertices noted; the actions of `PivotSearch` with what they note and strike out, and a backward drain that sends to noted vertices only. The end of the module puts the two searches side by side: `search` is which of them it is |
| `BspRounds` | what a frontier promises: rounds | one waiting set, an outbox, an inbox |
| `Frontier` | `frontier_view` with the collectives of `comm`, each rank at its own place | `pc` and `posted`, the arguments of each rank's collective calls; the buffers as sequences, the partition as any grouping of the buffer by destination |
| `TrimExhaustive` | `trim_1_exhaustive`, `trim_1_exhaustive_first` and the loop of `scc_trim_ex` | degrees per direction, `todo` for `each_k`; a message is an edge of the multigraph |
| `LabelSearch` | `label_search` with the rotations of `rot_label_search`, round after round | `Begin`, `FwDrain`, `FwPush`, `FwReceive`, `FwEnd` and the backward ones; `BwEnd` draws the next order |
| `CacheLabelSearch` | `cache_label_search`; extends `LabelSearch` | `cache`, per rank labels of remote vertices; vertices that changed are pushed one at a time |
| `PullLabelSearch` | `cache_label_search_pull`, which `scc/scc.hpp` repeats; extends `CacheLabelSearch` | drains that read labels instead of handing them on, `Wake` for the pushes, `Skip` for a vertex decided on the stack |
| `LabelSearches` | any of the three, with the round after round of the driver | `search`, which of the three it is |
| `SccDriver` | `scc/scc.hpp`, `scc/async/scc.hpp` and the variants in `scc/variant/` | `stage` per rank; `trim_1_first` with its two reductions and `trim_1_normal` vertex by vertex, the branches on the counters, the decided stack; products of degrees in the width of their type (`degree_prod`: `u64` in `trim_1_first`, `index_t` in `select_pivot_from_degree`); searches, exhaustive trims and the residual stage are one step of all ranks |
| `AsyncPivotSearch` | `async::forward_backward_search` | each rank at its own place (`at`), the vertex whose edges it visits and what is left of them; `network`; `Receive` may come between two edges |
| `AsyncLabelSearch` | `async::label_search`, the rotations and the loop of `scc/async/scc.hpp` | the same, with the label read for the vertex, which may be stale while it is sent |
| `AsyncSearches` | the driver's sequence over both | `stage`: the pivot search, then `trim_1_normal` vertex by vertex (`TrimVisit`) between the two sums of the counters (`PivotReturn`, `TrimReturn`), then rounds of the label search on the arrays the first one leaves; or label searches alone |

The pieces they are built from, and where graphs come from:

| module | models | state and actions |
|---|---|---|
| `Partitions` | every class in `graph/*_part.hpp`, owner or view | operators only: a part is its `begin`, `end`, `local_n` and the functions `to_global`, `to_local`, `world_rank_of`, computed as the code does, modulo `Size` |
| `SortedOwner` | the loops of `explicit_sorted_part::world_rank_of` | one step per iteration: the interpolated guess, which may wrap, the walk down, the walk up |
| `PartitionByRank` | `inplace_partition_by_rank`, one iteration per step | the buffer and the cursors, as in the code |
| `KeyMap` | what a hash table promises | `map` |
| `HashSlots` | `hash_set` and `hash_map` | keys and values per slot of a cache line; one action per call, with the search over lines as an operator; refines `KeyMap` |
| `IndexSets` | what the arrays of bits promise | `sets`, and what a traversal has still to visit |
| `BitWords` | `bits`, `bits_accessor` and `bits_ops` | `words`, each the set of its bits; one action per call, a traversal word by word and bit by bit; refines `IndexSets` |
| `Tarjan` | `tarjan` | both stacks as sequences; an action per branch of the loop over edges |
| `PivotReduction` | `select_pivot_from_degree` and `allreduce_pivot` | one scan step per vertex with products modulo `2^w`, then the reduction: any rank combines any two candidates until one is left |
| `Pieces` | the above without the two abstract ones, one of which runs in a behaviour | `running`; each keeps its own variables |
| `Csr` | `graph`, `graph_part`, the `bidi_` ones, their checks, and the functions that make them from edges, from one another and backwards | operators only: arrays are functions, empty ones null pointers, and memory nobody has written holds `Undefined` |
| `Construction` | `kagen_graph_part`, `partition`, `allgather_graph`, `allgather_sub_graph`, `allgather_fw_sub_graph` and the residual stage | `at` and `sent`, the collective each rank is in and what it has passed to each; one action per stretch of code between two collectives |
| `StoredGraph` | the converter, the manifest, both loaders | `files` byte by byte, `manifest` line by line; a file is opened (`CreateHead`, `CreateCsr`) and then given its size (`ResizeHead`, `ResizeCsr`), with a crash in between leaving it empty; `Fill` writes one edge, `Crash` comes at any step, `Start` runs the converter again |
| `GraphInput` | the two above, one of which runs in a behaviour | `running` |
| `FrontierProofs`, `TrimExhaustiveProofs`, `LabelSearchesProofs`, `AsyncSearchesProofs`, `SccDriverProofs` | theorems about the modules they are named after | |
| `PivotSearchesProofs` | theorems about `PivotSearch` and `CachePivotSearch` | |
| `PiecesProofs` | theorems about `PivotReduction`, `PartitionByRank`, `BitWords`, `HashSlots`, `Partitions` and `Tarjan`, as they run in `Pieces`, and about `SortedOwner` | |
| `ReachableSetsProofs` | lemmas about paths, components, sums, least and greatest elements that the others cite | |

How they compose. `Frontier` has every collective call of every rank and is
shown to implement `BspRounds`. The search modules are written over such
rounds: `comm` is one step of all ranks there, taken when all have called it.
`Frontier` itself uses the result of the partition, and `PartitionByRank` shows
that the loop reaches it. `Csr` and `Construction` use `Partitions` for who
owns a vertex, and `Construction` takes `tarjan` as one step, as `Tarjan`
allows (`ComponentsAreRight`, `AllEmitted`). `TrimExhaustive` takes a search as
one step, and `SccDriver` takes the searches, the exhaustive trims and the
residual solver as one step each. What such a step may do is what the module of
the search is shown to do: a pivot search decides the component of its pivot
(`WholePivotComponent`), a round of label search decides whole components, at
least one (`RoundsDecideComponents`). What those modules assume of their
callers, `SccDriver` checks: before a search the vertices decided are whole
components and the pivot is undecided and the same on all ranks (`SearchReady`,
`ComponentsWhole`), before a trim the degrees are those of the undecided
subgraph up to the decided stack (`DegreesReady`). Both sides are proved; that
what one side assumes is what the other ensures is read off the two, as no
module holds both. `CachePivotSearch`, `TrimExhaustive`, `LabelSearches`,
`AsyncSearches` and `SccDriver` each implement `SccLabelling` with the identity
as refinement mapping, `Frontier` implements `BspRounds`, `HashSlots`
implements `KeyMap`, where the map is what a search finds, and `BitWords`
implements `IndexSets`, where a set is what `get` finds below the size.

The queue of the asynchronous searches (BriefKAsten, which the build fetches)
is external and modelled from its use: messages arrive once, in
any order; handlers run inside `post_message_blocking`, `poll` and
`terminate`; `terminate` returns true on a rank only when no message is under
way and every rank that has entered the phase is idle, and the ranks leave one
by one.

What is abstracted: local indices (a vertex is its global id, and the arrays
of the ranks are one function or set); word-level packing, which `BitWords`
has alone; the vertex data of messages that the code need not send (a message is the edge it was sent for,
so two messages for one vertex remain two); the order in which a rank takes
vertices from its stack and messages from its buffer (the code has one order,
the model all of them); the containers in the searches (a `hash_set` is a
set, a `hash_map` a function, as `HashSlots` shows they are); statistics. In
`Construction` a collective that only tells the counts of the next one is left
out; in `StoredGraph` a byte has two values and a word three bytes, and in
`BitWords` a word has two bits.

## What is checked

An invariant named `...Inv` is a conjunction of the named parts that stand
before it in its module, each with its comment.

| run | instance | shows |
|---|---|---|
| `pivot_searches` | all digraphs over 3 vertices with self-loops, all placements on 2 ranks, trimmed either by one pass or exhaustively, with and without the cache; the pivot and its rank fixed, which is no restriction up to names | `SearchInv` with `StackFits` (the stack of `local_n` entries never overflows), `ReachedProtectsUndecided` (the assertion in the backward handler, and the counters) and the inductive invariant of the proof; `CachedInv`: what is not noted need not be asked, what is noted is asked once; `WholePivotComponent`: exactly the component is decided; `SccLabelling` is implemented; the search returns |
| `frontier` | 3 ranks, 3 messages (two for one rank, one for another, none for the third), 2 phases | no message lost, repeated or read in another phase; counts describe the buffer; collectives match; `BspRounds` is implemented; the phases end |
| `trim_exhaustive` | all digraphs over 3 vertices, every edge out of one vertex doubled, all placements on 2 ranks | `TrimInv`, the inductive invariant of the proof: degrees count exactly what they should in the middle of every pass, every vertex decided and counted once; nothing trimmable survives (`TrimExhausts`); the loop ends |
| `label_searches` | over 3 vertices all digraphs without self-loops, all placements on 2 ranks, nothing decided before or vertex 0 where it is a component; over 4 vertices graphs with one other successor per vertex (vertex 0, or itself, for vertex 3), two on each rank, nothing decided before or vertex 1; two orders of labels; for the plain search, the one that pushes and the one that pulls | `EitherInv`, the inductive invariant of the proof, for all three searches; labels reach the minimum (`PushedLabelsAreMinimal`) or settle (`LabelsSettle`); the cache is exact where the backward search relies on it, nobody notes less than will be true (pushing), nobody is forgotten (pulling); stacks and bits agree; rounds decide whole components; the loop ends |
| `async_searches` | 3 vertices on 2 ranks: the whole driver on all digraphs with self-loops on all vertices, on vertex 0 or on none; label searches alone with a self-loop on vertex 0 or on none; two orders of labels | stacks fit although a vertex may be queued again while its edges are visited; nothing is decided twice; exactly the component of the pivot is decided although ranks leave one by one; labels are minimal at termination; what the pivot search and the trim leave in the arrays is what the label search may start from; the driver returns. A mutant shows that the barrier is needed |
| `scc_driver` | seven drivers, all digraphs over 3 vertices, all placements on 2 ranks; `index_t` of 4 bits and `u64` of 8, which hold every product of degrees there | `DriverInv`, the invariant of the proof: every stage is entered in a state it is correct for, counters are right where the sub-graph is sized by them, ranks leave together; `SccLabelling` is implemented; every vertex ends with the id of its component; the driver returns |
| `pieces` | `OwnerInv`: every sorted partition of up to 6 vertices over up to 4 ranks, `Size` 11, so that the guess wraps. `PartitionInv`: every buffer of up to 5 items for 3 ranks. `HashInv`, `ImplementsMap`: 4 keys that collide, 2 values, a table of four lines of two. `ImplementsSets`: two arrays of 2 and of 3 bits in words of 2, with any content and any rest, every end. `TarjanInv`: graphs of 2 vertices with loops, parallel edges and neighbours elsewhere, all loopless ones of 3, each with every filter, and most with few edges of 4. `PartsInv`: up to 7 vertices, up to 4 ranks, blocks of up to 4. `PivotInv`: 3 ranks, outdegrees up to 2, indegrees up to 2 but 1 for one of them, whose products fit | the owner search ends at the owner without leaving the array; the in-place loop permutes, swaps stay in open slices, the result is grouped; a key is found if and only if it was inserted and not taken out, whatever was taken out of its probe chain; arrays of bits are sets, whatever lies beyond their size; Tarjan's stacks fit and it emits each component once; all kinds of partition give each vertex to one rank and all ranks agree which; all ranks get one pivot whatever order candidates are combined in; the loops end |
| `graph_input` | building and gathering: 3 vertices with empty, unsorted and repeated rows, and 4 vertices with several components, on up to 3 ranks with slices of any size, empty ones included; the whole graph, three sub-graphs, residual stages for every union of components tried. Files: no edge, a loop, edges twice, more vertices than edges and fewer; written in either byte order by up to two runs of the converter, each of which may crash anywhere; read in either byte order, whole or as one of two parts | parts validate and hold each edge as often as the input, in both directions (`ConstructionInv`); ranks are in the same collectives, and copies agree with each other and the input (`CopiesRight`); each rank writes, for its residual vertices and no other, the least vertex of the component (`ResidualRight`); what is loaded is one of the graphs written, whole, and can be loaded when the manifest is complete (`StoredInv`); nobody waits for ever |
| `pivot_wrap`, `edgeless`, `empty_rank`, `stored_ends` | one call each | the findings below |

Labels in the pulling search. `LabelsAreMinimal` (the label of a vertex is the
smallest that reaches it through undecided vertices) does not hold of
`cache_label_search_pull`: a label noted for a vertex because it was sent
there is read back as that vertex's label, also when the vertex has been
decided in an earlier round, so labels cross decided vertices. What holds is
`LabelsSettle`, and that is enough: labels still come from an undecided vertex
that reaches this one, and the members of one component still get one label.

Findings, each a run that ends in the violation:

* `pivot_wrap`. `scc/pivot.hpp:65` multiplies two degrees in `index_t`. If
  every product of an undecided vertex is zero modulo `2^w`, no candidate is
  taken and the pivot is the initial one, vertex 0, decided or not; the
  assertion at the end of the function fails. `w` is 32 by default
  (`graph/base.hpp:18`), so that it takes degrees of 65536 and more; `PivotInv`
  is checked for products that fit, and so are the drivers (`ProductsAssumption`
  of `SccDriver`).
* `edgeless`. If no rank has an edge, `scc/backward_complement.hpp:100`
  returns backward heads that nobody has written. `kagen_graph_part` ends with
  a validation of the graph (`scc/adapter/kagen.hpp:39`), which fails, or in a
  release build goes on with them.
* `empty_rank`. `allgather_graph` says that it handles ranks without vertices
  (`scc/allgather_graph.hpp:41`), but rank 0 passes `local_n + 1` entries of its
  head (line 75), and without a vertex there is no head.
* `stored_ends`. `load_graph_part_from_manifest` compares the end of a part,
  which is a vertex, with the number of edges (`scc/adapter/manifest.hpp:278`),
  so that of a graph with more vertices than edges the ranks whose part ends
  beyond the number of edges abort.

The passing runs leave these calls out, and name what they leave out:
`PivotInv` and `scc_driver` have products that fit, `graph_input` has no generator without edges
on several ranks, and no whole graph gathered where rank 0 is empty, and
`LoadsIfComplete` excepts parts that reach past the number of edges. They also
leave out a generator with edges and a rank without vertices, for which
`scc/adapter/edgelist.hpp:56` writes the first entry of a head that is null:
`sorted_edgelist_to_graph_part` gives that head its entry, as the code does,
and `debug_check` would find it, but no run has such an input. A list without edges makes a manifest that
names files which were never created, and loading it aborts;
`LoadsIfComplete` says so.

Why these bounds are enough for the cases that matter. Three vertices give
components of size one, two and three, chains through a trimmed vertex, a
vertex that is the target of a local edge and of a message in one round, and
two messages for one vertex. Two ranks give a path that leaves a rank and
comes back; more ranks change only who is idle, and the order of collectives
is checked with three. Four vertices are needed in `label_searches`: a label
must travel over two ranks and overtake another one before the loss of a
`has_changed` bit is visible. Two phases of the frontier are needed for a rank
to be one phase ahead, and three ranks for one to be ahead while the other two
differ. Five items over three ranks give the partition a cycle of swaps
through all slices, an empty slice, and a slice finished by swaps from an
earlier one. Four keys that belong to the last line of a hash table fill it and
the first one, so that chains go over the end of the table. Tarjan's algorithm needs
four vertices for a low link that is handed up through two frames past a
finished component. Three ranks are what a slice in the middle, an empty first
and an empty last one take. Two runs of the converter are what it takes for
one to meet the files of another; three bytes to a word let heads and rows
have fewer bytes than a word, and not the same number. Asynchronously the interleaving is per edge, and three vertices
on two ranks let a label be lowered, twice, while it is being sent. In
`scc_driver` the residual threshold is that of two ranks and three vertices;
one rank, and more ranks than vertices, are not checked.

Fairness. Liveness is checked under weak fairness of the next-state relation:
some rank that can make a step does. The code has no choice to be unfair
about: a rank runs until it blocks in a collective, and MPI completes a
collective that every rank has entered; the asynchronous queue delivers what
was posted. No fairness between particular actions is assumed.

`TypeOK` of `TrimExhaustive` includes that the degrees are natural numbers:
the code decrements an unsigned number, and this is the statement that it
never wraps.

Every property of every run has a mutant of the code in the module it belongs
to, or in one that module extends (named for what it forgets, before the
definition it replaces), that violates it. Mutants are used by nothing else.

## What is proved

The theorems about searches, trims and drivers are about every set of vertices
and ranks (finitely many vertices: `VerticesAssumption`), every graph
(for the drivers those whose products of degrees do not wrap:
`ProductsAssumption`), every placement of the vertices and every order of
messages; those about the pieces
about every size, table, buffer and set of candidates; those about the frontier
about every number of ranks, messages and phases.

| module | theorem | statement |
|---|---|---|
| `PivotSearchesProofs` | `TypeCorrect` | `Spec => []TypeOK` |
| | `SearchInvariant` | `Spec => []SearchInv`, the inductive invariant |
| | `StacksFit`, `RecordsAgree` | `Spec => []StackFits`, `Spec => []ReachedProtectsUndecided` |
| | `Soundness`, `Completeness` | `Spec => []OnlyPivotComponent`, `Spec => []WholePivotComponent` |
| | `Refinement` | `Spec => ImplementsLabelling` |
| | `CacheIsRight` | `EitherSpec => []CachedInv` |
| | `EitherIsRight` | `EitherSpec => [](SearchInv /\ WholePivotComponent)` |
| | `EitherRefinement` | `EitherSpec => ImplementsLabelling` |
| `TrimExhaustiveProofs` | `DegreesStayExact` | `Spec => []TrimInv`, the inductive invariant |
| | `TrimIsExhaustive` | `Spec => []TrimExhausts` |
| | `TrimRefinement` | `Spec => ImplementsLabelling` |
| `LabelSearchesProofs` | `RoundInvariant` | `EitherSpec => []EitherInv`, the inductive invariant |
| | `LabelsAlwaysSettle` | `EitherSpec => []LabelsSettle` |
| | `PeersAlwaysNoted` | `EitherSpec => []CachedPeersNoted` |
| | `RoundsAlwaysDecide` | `EitherSpec => []RoundsDecideComponents` |
| | `PushedLabelsMinimal` | `EitherSpec => []PushedLabelsAreMinimal` |
| | `RoundRefinement` | `EitherSpec => ImplementsLabelling` |
| `SccDriverProofs` | `DriverInvariant` | `Spec => []DriverInv` |
| | `DriverRefinement` | `Spec => ImplementsLabelling` |
| `AsyncSearchesProofs` | `SearchesInvariant` | `SearchesSpec => []SearchesInv`, the inductive invariant |
| | `PivotSearchRight` | `SearchesSpec => []PivotInv` |
| | `RoundsRight` | `SearchesSpec => []RoundsInv` |
| | `SearchesRefinement` | `SearchesSpec => ImplementsLabelling` |
| `FrontierProofs` | `ExchangeIsSafe` | `Spec => []FrontierInv` |
| | `ExchangeRefinement` | `Spec => ImplementsRounds` |
| `PiecesProofs` | `OwnerIsRight` | `Spec => []OwnerInv`, of `SortedOwner` |
| | `PivotIsRight` | `PiecesSpec => []PivotInv` |
| | `GroupingIsRight` | `PiecesSpec => []PartitionInv` |
| | `BitsAreSets` | `PiecesSpec => ImplementsSets` |
| | `TableIsRight` | `PiecesSpec => []HashInv` |
| | `TableIsAMap` | `PiecesSpec => ImplementsMap` |
| | `PartsAreRight` | `PiecesSpec => []PartsInv` |
| | `TarjanIsRight` | `PiecesSpec => []TarjanInv` |

The lemmas about reachability (`ReachableSetsProofs`) use closed sets only: a
set closed under edges that contains a vertex contains all it reaches. So no
path is ever written down, and no induction over its length is needed. Where
an argument takes the first vertex at which something goes wrong it takes a
least label instead (`LeastVertex`).

**Pivot search.** Assumed of the input (`InputsAssumption`): the trimmed
vertices are components of their own and the pivot is not one of them. Both is
what the trims and the choice of the pivot see to. `WholePivotComponent` says
nothing of the states before the end, so it is strengthened. Forward:
everything reached is reachable from the pivot, and an edge from a reached
vertex to an undecided one has been followed, or its source is on a stack, or
it is on its way as a message (`ForwardInv`). When all stacks and buffers are
empty, the reached vertices together with the trimmed ones are closed under
successors; a trimmed vertex is a component of its own, so no path between two
vertices of one component runs through it, and all of the pivot's component
has been reached. Backward (`BackwardInv`): the same with predecessors, found
vertices in the place of reached ones, and reached ones in the place of
undecided ones; what is left of the pivot's component is reached, so the end
of the phase leaves nothing of it.

For the refinement, a step that decides vertices keeps `Canonical`, because
all it decides is in the component of the pivot and gets its id; and the
initial labelling is `Canonical` and `Whole`, because the trimmed vertices are
components of their own.

**Cached pivot search.** Every step but one is a step of `PivotSearch` to which
the cache is added, so `SearchInv` carries over. The one is the backward drain,
which asks noted predecessors only. It keeps `SearchInv` because a reached
predecessor on another rank has been noted, or has been heard from or asked
before (`CacheCoversReached`, part of `CachedInv`): whoever is reached, forward
or by having sent, is noted by the ranks its edges lead to, and struck out only
together with a message that decides it, or that it sent because it was
decided.

**Exhaustive trim.** Assumed: finitely many copies of each edge. `TrimInv`
strengthens `DegreesExact` by what each pass leaves to the next. The degree
of a vertex counts its edges to undecided neighbours and those of which it has
still to be told (`Expected`); each of those is exactly one message, or will be
one when the decided stack is pushed (`Untold`), and nobody is told of an
edge whose other end is undecided (`PassesInOrder`). So a decrement is matched
by an edge that leaves `Expected`, and a degree of 0 means that no undecided
neighbour is left on that side: the vertex is a component of its own
(`ComponentsWhole`). While one direction is trimmed the other array is not
touched, and need not be: a vertex trimmed because it has no undecided
predecessor is the successor of no undecided vertex, so it is in nobody's
`Expected` for that direction. That is why no pass has to be repeated, and
`TrimExhausts` follows: when a search begins, each undecided vertex has a positive exact
degree in both directions and nothing is untold. A search step
takes the component of an undecided vertex, and pushes it to `decided_stack`.

**Label searches.** Assumed: labels are different and none is `Undecided`, the
word of ones (`MapsAssumption`; both hold of the rotations that `rot_label_search`
draws), and before the first call whole components are decided but not all
vertices (`InputsAssumption`; the drivers would have returned otherwise).
`EitherInv` is one invariant for all three searches, since they share all
variables and most steps.

* Forward, pushing (`ForwardInv`): a label goes down only, and is that of an
  undecided vertex that gets to this one over undecided ones. Across an edge
  whose target still has the larger label, its source waits on the stack or in
  `has_changed` (`Waits`), or a message with a label no larger is under way
  (`Told`). With the cache a message may be left out; it may be because the
  noted label is no less than what the owner has or is told (`NobodyAhead`).
  When everything is empty, labels do not go up along any edge between
  undecided vertices.
* Forward, pulling (`PullForwardInv`): a vertex lowers its label from what it
  reads of its neighbours, and it is woken, or told, by a neighbour that
  changed. But a vertex is not woken for a label when something less has been
  noted for its neighbour already. Then that neighbour will itself come to
  that smaller label and wake the vertex later: this is the third case of
  `Due`, which refers to an obligation towards another vertex. That the chain
  of such obligations ends is shown at the end of the phase
  (`PullSettled`): of all labels due to a vertex that has not got them, take
  the least; the vertex it is owed by is owed a smaller one, unless that
  vertex has got it. `WillBeHeard` says the same of the cache of the other
  rank.
* Backward (`BackwardInv`, for the set `S` of vertices that were undecided when
  the round began): labels do not go up along edges in `S`, so members of one
  component have one label. A decided vertex has the label of the vertex whose
  id it got, and is of its component. Where an edge from an undecided vertex
  leads to a decided one with the same label, somebody waits to ask, or a
  message is on its way (`WillAsk`); asking is not left out because the cache
  has the label (`PeersNoted`). When all is empty, the vertices of `S` that are undecided are
  closed against the decided ones with their label, so that components are
  whole (`EarlierRounds` for the next round).
* A round decides something (`RoundsDecideComponents`): the vertex with the
  smallest label still undecided has its own label.

For `ImplementsLabelling`, `EitherInv` gives in every state that an id is that of
a member of the component and the same for all decided members (`IsLabelling`),
and steps only add ids.

**Asynchronous searches.** Assumed: as for the searches above. There are no
rounds to say what has been handed over: a rank may stand in the middle of a
vertex's edges (`popped`, `left`) while the queue calls its handlers, and may
have left `terminate` while others are in it. `SearchesInv` is the invariant of
the whole driver. `WorkInv` holds in both searches: the ranks are in the same
phase, or those ahead of the others left it when nothing was under way anywhere
(`NothingLeft`), and each vertex is on a stack once. What a phase has still to
do is then of three kinds instead of two: the source of an edge is on a stack,
the edge is among those its rank still visits (`Visiting`), or a message is in
the queue.

* Pivot search (`PivotForward`, `PivotBackward`): as above. A rank that has not
  begun may have been handed messages already; the pivot becomes reached only
  when its rank begins, and counts as reached before.
* Label search (`ForwardInv`, `BackwardInv`, for the set `S` undecided when the
  round began): a rank that has not begun writes its labels when it does, so
  until then its vertices have the label they are going to have (`LabelOf`).
  The label a rank sends along a vertex's edges is the one read when the visit
  began and may be stale; if so, the vertex has a smaller one and is on the
  stack again. So for every edge in `S` across which a label could still go
  down, its source is going to be visited or a message no larger is under way.
  When a rank leaves, nothing is left anywhere, hence labels do not go up along
  any edge of `S` (`ForwardEnds`), and vertices with their own label may be
  decided rank by rank: others do not receive anything until all have come to
  the barrier.
* The array `in_active` is `is_reached` of the pivot search, which leaves the
  bits of vertices ahead of or behind the pivot set. A label search writes all its
  bits before it reads one, by `memcpy` when a rank begins and by `set_each` before
  the backward phase. So `ForwardInv` requires nothing of the bits of a rank that has not
  begun, and in the backward phase the bit of an undecided vertex is clear
  (`BackwardInv`), so that whoever is decided is pushed.
* Between the two (`TrimRound`) the vertices decided are whole components, and
  `trim_1_normal` decides a vertex only if it has no undecided neighbour on its
  rank and none on another (`HasDegree`), so that it is a component of its own.

For `ImplementsLabelling`: in every state decided vertices have the same id if and
only if they share a component (`SearchesLabelling`), in the middle of a phase
too, and ids are only added (`IdsStay`).

**Drivers.** Assumed: vertices are numbered from 0 (`NumbersAssumption`), there
is at least one rank, finitely many, and ranks are numbers (`RanksAssumption`;
the residual stage orders by them), and one of the seven drivers is called.
`DriverInv` restates what each stage relies on, and adds what makes that
inductive: where the ranks may be, all together (`StagesInOrder`). They are in
`trim_1_first` before its reductions (`TrimmingFirst`) or between them
(`Reducing`), all in one stage that is over (`Counting`), or on their way from
a stage to the next (`BetweenStages`), where each has still to act on the sum,
or has acted on it and, if what follows is a trim of local vertices, may be
anywhere in that. Since all act on one sum, all call the same stage, and
nobody returns alone. `LeftBy` is what a stage leaves to the next one.

* The searches look at undecided vertices only. As components are decided as a
  whole, the components of what is left are those of the graph
  (`ComponentOfRest`), so what a search or the residual stage decides is right.
* A trim decides `v` because, among vertices of which it knows that the
  component of `v` is in them, `v` has no predecessor or no successor
  (`TrimmedAlone`). For `trim_1_normal`, which does not know what other ranks
  have decided, these are more vertices than are undecided, so it decides
  fewer. For the exhaustive trims it takes both passes together
  (`TrimmedByCore`): a component of more than one vertex stays in every core.
* The pivot. Products of degrees are computed modulo `2^64` in `trim_1_first`
  and modulo `2^w` in `select_pivot_from_degree`. Assumed is that those of the
  graph are below the limit of the driver called (`ProductsAssumption`); those of
  what is left of it are no larger (`ProductsGrow`), so they are exact
  (`ProductsFit`). After `trim_1_first` all undecided vertices have a product
  above 0. The maximum withdraws all candidates but the best and leaves one if
  anything is undecided (`RankMaximum`), and the minimum takes one that has not
  been withdrawn, as `n`, none, is larger than any vertex. What the exhaustive
  trim leaves has neighbours both ways among itself (`CoreNeighbours`), so that
  where `Select` follows it some rank has a candidate, and the largest
  `local_max` is that of an undecided vertex (`LargestFound`), not the initial
  one.
* The sum of the counters is the number of decided vertices
  (`SumIsDecided`), so a driver that goes on has an undecided vertex left.

**Frontier.** Assumed: at least one rank, one phase, and a destination for each
message (`FrontierAssumption`). `FrontierInv` is not inductive: it does not say
that the slices a rank finds when it leaves an `alltoallv` are those that the
others hold for it. `ExchangeInv` adds what that takes. Calls are in step: no
rank is more than one collective ahead of another, and one that works or has
returned is behind nobody (`InStep`); where one rank is ahead, its call says
where the other must be (`Ahead`): both have seen the same sum, so one that goes
into the exchange cannot meet one that leaves the phase. The last arguments of a
rank are those of its buffers, back to the sum that was not zero
(`LastCalls`), and its receive counts are what the others passed (`BuffersInv`).
A message under way belongs to the phase its destination is in (`TransitInv`),
and all ranks are in one phase but for those that have yet to notice its end
(`OnePhase`). When the last rank joins, the grouped buffer of each rank is cut
at the prefix sums of its counts exactly between the destinations
(`GroupsAreSlices`), and each place of what a rank gathers belongs to one slice
(`OneSlice`), so all that is for the rank arrives, once (`Exchanged`,
`ReceivedByAll`). Sums are the last entry of the prefix sums, a recursive
function whose existence is proved once (`DisplsExist`); what it adds up to is
never needed, only that it grows and is zero when all counts are.

For the refinement, `push`, `local_push` and `next` are steps of the same kind
in `BspRounds`; `comm` is `Wait`, or `NextPhase` if it completes an `allreduce`
with sum zero; `commData` is `Exchange` for the last rank to join, where the
outbox is not empty as the sum was not zero (`SomethingToSend`), and is unseen
for the others; so are `commCounts`, `commTrue` and `commFalse`.

**Owner of a vertex.** For any number of ranks, any sorted ends, any vertex and
any width of `vertex_t`, the loops of `explicit_sorted_part::world_rank_of`
never leave the array of ends and return the rank that owns the vertex. What
it assumes of a call (sorted ends, the last of which is `n`, and a vertex below
`n`) is `CallsAssumption`. The guess multiplies the vertex by the number of
ranks and may wrap, but wrapping only makes it smaller, so that it is still a
rank (`GuessInv`), and the two walks correct whatever it is: walking down stops
at the latest at rank 0, and walking up at the rank whose end is the first
beyond the vertex, as ends are sorted and the last one is `n`.

**Choice of the pivot.** `CandidatesAssumption` is what the trims leave: each
undecided vertex has edges both ways, and the product of its degrees is at most
what `index_t` holds. The run `pivot_wrap` shows that it cannot be dropped:
where products wrap, the choice is wrong. It is what `ProductsAssumption` is to
the drivers. The operation of the reduction takes
the larger product and, of equal ones, the larger vertex (`Beats`), so that
no two ranks' candidates are equally good unless nobody has one. Every rank
combines in an order of its own; a partial result stands for some ranks, is the
candidate of one of them, and none of theirs is better. All partial results of
a rank together stand for all ranks (`CombineInv`), so that the last one is the
best candidate there is, the same on every rank.

**Grouping by destination.** The buffer stays a permutation, and slices are
filled from their beginning (`SlicesInv`): whole before the rank in hand,
up to the place in hand in its own, and up to the cursor in those behind.
That a swap stays in the slice of its target (`CursorInSlice`) is a matter of
counting. If the slice of `q` were filled, it would hold as many items for `q`
as there are, and the item in hand, which is for `q` and lies in
another slice, would be one more (`PlacesBound`, on the cardinality of the
items in a set of places). That the cursors are back at the beginning of their
slices is read off the order: a slice is entered when all before it are
whole, when `ordered_items` is where it begins.

**Arrays of bits.** An index is a word and a place in it, in one way, and in the
order of indices (`PlaceOf`, `IndexAt`, `PlacesInOrder`), for any number of
bits in a word. Nothing is said of the bits behind the size of an array, except
that every call that reads them masks them: `set_each` puts back what was
there, and a traversal takes none of them. The set of an array (`SetOf`) is
what `get` answers for the indices below its size, so each call changes it as
`IndexSets` says. A traversal has visited all indices of its set before the
place it is at which were in the word when it was read; what a callback takes out of
the array during that is not seen before the next word, which `IndexSets`
allows for.

**Hash containers.** Assumed: keys are told from a null and an erased slot, a hash is a
number, lines have a slot, and the table is made for one entry at least.
`CacheLinesAssumption` says that `bit_ceil` returns a number that is not
below its argument; the prover knows nothing of powers, and TLC evaluates it on
every table. Three facts carry the rest. The table has more slots than it is
made for (`SlotCount`), and erased slots count as used, so some slot is always
null (`NullLeft`); the probe for any key visits every line (`LinesProbed`, as
its step is 1 modulo the number of lines), so every search ends. No line that
the probe for an entry comes through before the line of the entry has a null,
and in a line nulls come behind everything else (`SlotsInv`): no call makes
a null except clearing the whole table, and an entry is put into the first
null of the first line that has one. So `FindSlot`: the first line with the key or a
null has the key if the table has it at all, and there is one slot to choose.
What `find_slot` finds being unique, every call does to the map of the table
(`map`) what `KeyMap` promises.

**Partitions.** What `LayoutsAssumption` asks for is what callers see to: slices
that are given to the explicit classes are sorted, or cover each vertex once;
`single_part` is for one rank; and in the cyclic classes the number of vertices
plus one turn of ranks, or one block, fits into `vertex_t`, as does one
turn of blocks. (`block_cyclic_part` with blocks so large that the product of
block size and number of ranks wraps would divide by a wrong number.)
For slices (`SlicesOf`, `SlicesAgree`) it is enough that a vertex is between the
ends of a rank if and only if `world_rank_of` says so; each class is then a matter of
the multiples of a number between which another lies (`InMultiple`). The cyclic
classes (`PlacesOf`) turn on one count: a rank has a place number `k` if and only
if the vertex that belongs there exists (`MultiplesBelow`; `BlocksCounted`, where the
last block may be short).

**Tarjan's algorithm.** Assumed of an input (`InputsAssumption`): a number of vertices, a sequence of
neighbours for each, which may be any numbers, and a filter among the vertices.
`SearchInv` is the invariant. That indices are given in turn and `st` is in their
order (`IndicesInv`, `StackInv`) makes what is popped the vertices on `st` whose
index is not below that of `local_u` (`CutRight`). A neighbour is looked at
before the search goes into it, and a frame left has looked at all of them (`Explored`,
`NeighborsInv`). The two facts on paths (`WaysInv`): a vertex on `st` leads to all above
it, and to the vertex of some frame that is not above it. `LowInv` says what
`low` is worth: it is the index of a vertex on `st` that one gets to, so that
a frame left without a component leads to one further down, and for a frame it is not above the index of
any neighbour on `st` that it or a vertex visited under it and left since has
shown. So where `low` is the index, no edge leaves what lies on `st` from
`local_u` on but to components emitted before, all of it is led to by
`local_u` and leads to a frame among itself, which can only be that of
`local_u`: it is a component (`AboveIsComponent`). A way is stated by closed sets
(`Leads`), as in `ReachableSets`, which the proof never unfolds into paths. At
the end no frame is left, hence nothing on `st`, and all roots have been visited.
Each vertex is pushed once onto either stack, so they fit (`LengthBound`).

Model-checked only:

* Liveness, as fairness and `ENABLED` are out of the prover's reach.
* The safety of `Csr`, `Construction` and `StoredGraph`, whose
  operators on sequences and folds are defined by recursion over data.

## The plan

Modelled: the searches with and without caches, synchronous and asynchronous,
the frontier and the partition under it, the trims, the pivot, the drivers over
them, the partitions, the hash tables, Tarjan's algorithm, and the ways by
which graphs come into being. Proved: all searches, the frontier, the exhaustive
trim, the drivers, the search for an owner, the choice of the pivot, grouping
by destination, the arrays of bits, the hash tables, the partitions and Tarjan's
algorithm. Left:

* More instances of `SccDriver` for `Terminates`: one rank, and more ranks than
  vertices. (What is proved of it holds for them already.)
* A proof that `Construction` is right, for which the heads of `Csr`, which are
  sums over edges, would have to be stated without folds.

## Not modelled

* `scc/residual_scc.hpp`, `allgather_fw_sub_graph_with_degrees`,
  `allgather_csr_with_degrees` and `local_sort_adapter` have no caller.
* `tarjan` takes a filter and a number of decided vertices. The model has both;
  the callers in the library pass neither.
* Utilities and debugging: argument parsing, hash mixing, timers, statistics and
  process tooling change no state of an algorithm. Assertions are stated as
  properties where they say something about an algorithm.
* `util/mpi_basic.hpp` is mostly wrappers of MPI calls; of these the ones that
  the frontier and the partition use are modelled, by what MPI does.
* Memory: moves, borrowing and the mapping of memory. Capacity is: stacks in `StackFits`, `DriverInv`, `TarjanInv`, tables in
  `MayWrite`.
* The generator and the external sorter are third-party, and so is the queue of
  the asynchronous searches: they are what the code uses them as. The parsing
  of text is the list of edges it yields.
* `block_cyclic_part` near the end of the range of `vertex_t`, where its sums
  wrap; `PartsInv` has sums that fit.
* Vendored implementations (`src/extern`), tools and experiments, and tests,
  which are read as a statement of what the code promises.
