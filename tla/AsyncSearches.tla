---------------------------- MODULE AsyncSearches ----------------------------
(***************************************************************************)
(* The asynchronous driver (scc/async/scc.hpp): the pivot search behind    *)
(* trim_1_first, trim_1_normal, and label searches until all is decided.   *)
(* The two searches share the active stack, the undecided bits and one     *)
(* more array of bits, which is is_reached of the first and in_active of   *)
(* the second; a queue serves each.  A driver may also repeat the label    *)
(* search alone, from a graph of which nothing is decided.                 *)
(***************************************************************************)
EXTENDS AsyncLabelSearch

ASSUME InputsAssumption ==
  /\ Inputs \subseteq [edges : Graphs, owner : [Vertices -> Ranks],
                       trimmed : SUBSET Vertices, root : Vertices]
  /\ \A i \in Inputs : /\ i.root \notin i.trimmed
                       /\ \A v \in i.trimmed : SCC(i.edges, v) = {v}

VARIABLES
  stage,           \* "pivot", "trim" or "label": what the driver runs
  todo             \* vertices trim_1_normal has still to visit

searchesVars == <<vars, stage, todo>>

PivotSearch == INSTANCE AsyncPivotSearch WITH is_reached <- in_active

InitLabel ==
  /\ Init
  /\ stage = "label" /\ todo = {}
  /\ input.trimmed = {}

\* trim_1_first has decided input.trimmed and chosen the pivot.
InitPivot ==
  /\ PivotSearch!Init
  /\ stage = "pivot" /\ todo = {}
  /\ input.trimmed = Vertices \ HasBothDegrees(edges)
  /\ map = CHOOSE m \in Maps : TRUE
  /\ label = [v \in Vertices |-> 0]
  /\ label_k = [r \in Ranks |-> 0]

PivotNext ==
  /\ stage = "pivot"
  /\ PivotSearch!Next
  /\ UNCHANGED <<map, label, label_k, stage, todo>>

\* The allreduce behind the pivot search: the driver returns if all are
\* decided, and calls trim_1_normal otherwise.
PivotReturn ==
  /\ stage = "pivot" /\ \A r \in Ranks : at[r] = "done"
  /\ IF global_decided = Cardinality(Vertices)
     THEN stage' = "label" /\ UNCHANGED todo
     ELSE stage' = "trim" /\ todo' = is_undecided
  /\ map' \in Maps
  /\ UNCHANGED <<input, at, label, active, in_active, popped, label_k, left,
                 network, decisions>>

\* has_degree: a neighbour on another rank, or one that is undecided.
HasDegree(k) ==
  \E w \in Succ(edges, k) \cup Pred(edges, k) : Rank(w) # Rank(k) \/ w \in is_undecided

\* The body of is_undecided.each in trim_1_normal.
TrimVisit(k) ==
  LET gone == IF HasDegree(k) THEN {} ELSE {k}
  IN  /\ stage = "trim"
      /\ k \in todo /\ \A v \in todo \cap Local(Rank(k)) : k <= v
      /\ todo' = todo \ {k}
      /\ is_undecided' = is_undecided \ gone
      /\ scc_id' = [v \in Vertices |-> IF v \in gone THEN v ELSE scc_id[v]]
      /\ local_decided' =
           [r \in Ranks |-> local_decided[r] + Cardinality(Local(r) \cap gone)]
      /\ UNCHANGED <<input, map, at, label, active, in_active, popped, label_k,
                     left, network, stage>>

\* The allreduce behind trim_1_normal, and the first relabelling.
TrimReturn ==
  /\ stage = "trim" /\ todo = {} /\ stage' = "label"
  /\ LET all == global_decided = Cardinality(Vertices)
     IN  at' = [r \in Ranks |-> IF all THEN "done" ELSE "call"]
  /\ map' \in Maps
  /\ UNCHANGED <<input, label, active, in_active, popped, label_k, left, network,
                 decisions, todo>>

LabelNext == stage = "label" /\ Next /\ UNCHANGED <<stage, todo>>

SearchesInit == InitPivot \/ InitLabel
SearchesNext ==
  \/ PivotNext \/ PivotReturn
  \/ (\E k \in Vertices : TrimVisit(k)) \/ TrimReturn
  \/ LabelNext

SearchesSpec == SearchesInit /\ [][SearchesNext]_searchesVars

\* Some rank that is not waiting for the others runs on, and the queue hands
\* over what was posted.
SearchesFairSpec == SearchesSpec /\ WF_searchesVars(SearchesNext)
-----------------------------------------------------------------------------
(* Why the searches are right: what every step keeps true                  *)

\* Nothing is under way, and no rank visits edges, has a vertex on its stack
\* or has still to begin; but one behind the forward search has pushed roots.
NothingLeft ==
  /\ network = {}
  /\ \A r \in Ranks : at[r] # "call" /\ popped[r] = {}
  /\ \A v \in Vertices : at[Rank(v)] # "barrier" => active[v] = 0

Forward  == \A r \in Ranks : at[r] \in {"call", "forward", "barrier"}
Backward == \A r \in Ranks : at[r] \in {"backward", "sum", "done"}

\* The ranks are in one search together; where one has left it, there was
\* nothing left anywhere.  A stack has a vertex once.
WorkInv ==
  /\ active \in [Vertices -> {0, 1}]
  /\ \A r \in Ranks :
       /\ popped[r] \subseteq Local(r) /\ \A u, w \in popped[r] : u = w
       /\ popped[r] = {} => left[r] = {}
       /\ ~ Searching(r) => popped[r] = {}
       /\ \A u \in popped[r] : left[r] \subseteq Neighbours(u)
  /\ \A v \in Vertices : at[Rank(v)] = "call" => active[v] = 0
  /\ Forward \/ Backward
  /\ (\E r \in Ranks : at[r] \in {"barrier", "sum", "done"}) => NothingLeft

\* The rank of u has u on its stack, or v among the edges of u it still visits.
Visiting(u, v) ==
  \/ Searching(Rank(u)) /\ active[u] = 1
  \/ u \in popped[Rank(u)] /\ v \in left[Rank(u)]

pivot == input.root

\* Besides what was trimmed, only vertices of the pivot's component have an id,
\* which is the pivot.
PivotIds ==
  scc_id = [v \in Vertices |-> IF v \in input.trimmed THEN v
                               ELSE IF v \in is_undecided THEN Undecided ELSE pivot]

\* What is reached was not trimmed and is behind the pivot; an edge that leads
\* further is going to be visited.
PivotForward ==
  /\ is_undecided = (Vertices \ input.trimmed)
                      \ (IF at[Rank(pivot)] = "barrier" THEN {pivot} ELSE {})
  /\ in_active \subseteq is_undecided \cap Reach(edges, pivot)
  /\ \A v \in Vertices :
       /\ at[Rank(v)] = "call" => v \notin in_active
       /\ at[Rank(v)] = "forward" /\ active[v] = 1 => v \in in_active
       /\ at[Rank(v)] = "barrier" => (active[v] = 1 <=> v = pivot)
  /\ at[Rank(pivot)] = "forward" => pivot \in in_active
  /\ \A r \in Ranks : popped[r] \subseteq in_active
  /\ \A m \in network : m \in edges /\ m[1] \in in_active
  /\ \A u \in in_active : \A v \in Succ(edges, u) :
       v \in in_active \cup input.trimmed \cup {pivot} \/ Visiting(u, v) \/ <<u, v>> \in network
  /\ (\E r \in Ranks : at[r] = "barrier") => SCC(edges, pivot) \subseteq in_active \cup {pivot}

\* The vertices the pivot search has decided are of the pivot's component, and
\* one that is missing before them is going to be told.
PivotBackward ==
  LET Found == (Vertices \ is_undecided) \ input.trimmed
  IN  /\ is_undecided \cap input.trimmed = {}
      /\ in_active \subseteq is_undecided \cap Reach(edges, pivot)
      /\ pivot \in Found /\ Found \subseteq SCC(edges, pivot)
      /\ SCC(edges, pivot) \subseteq in_active \cup Found
      /\ \A v \in Vertices : active[v] = 1 => v \in Found
      /\ \A r \in Ranks : popped[r] \subseteq Found
      /\ \A m \in network : <<m[2], m[1]>> \in edges /\ m[1] \in Found
      /\ \A u \in Found : \A v \in Pred(edges, u) \cap in_active :
           Visiting(u, v) \/ <<u, v>> \in network

PivotRound ==
  /\ PivotIds
  /\ network \subseteq Vertices \X Vertices
  /\ \A r \in Ranks : at[r] # "sum"
  /\ Forward => PivotForward
  /\ Backward => PivotBackward

Within(S) == edges \cap (S \X S)

\* l is the label that a vertex of S began with, and can have got to v.
Genuine(S, l, v) == \E u \in S : l = map[u] /\ v \in Reach(Within(S), u)

\* What was decided before: whole components, each under one id.
EarlierRounds(S) ==
  \A u \in Vertices \ S :
    /\ SCC(edges, u) \cap S = {}
    /\ scc_id[u] \in SCC(edges, u)
    /\ \A v \in SCC(edges, u) : scc_id[v] = scc_id[u]

\* The label of v in this round: on a rank that has not begun, the first one.
LabelOf(v) == IF at[Rank(v)] = "call" THEN map[v] ELSE label[v]

\* Of the vertices S that were undecided when the round began, none has a label
\* too large unless a smaller one is going to be sent to it: from a rank that
\* has not begun, a vertex to be visited again, one whose edges are visited or
\* in a message.
ForwardInv(S) ==
  /\ is_undecided = S \ {v \in S : at[Rank(v)] = "barrier" /\ label[v] = map[v]}
  /\ EarlierRounds(S)
  /\ \A v \in S \ is_undecided : scc_id[v] = v
  /\ \A v \in S : Genuine(S, LabelOf(v), v) /\ LabelOf(v) <= map[v]
  /\ \A v \in Vertices :
       /\ at[Rank(v)] # "call" => (active[v] = 1 <=> v \in in_active)
       /\ at[Rank(v)] = "forward" /\ active[v] = 1 => v \in S
       /\ at[Rank(v)] = "barrier" => (active[v] = 1 <=> v \in S \ is_undecided)
  /\ \A r \in Ranks : \A u \in popped[r] :
       /\ u \in S /\ Genuine(S, label_k[r], u)
       /\ label_k[r] = label[u] \/ (label[u] < label_k[r] /\ active[u] = 1)
  /\ \A m \in network : m[1] \in S /\ <<m[1], m[2]>> \in edges /\ Genuine(S, m[3], m[1])
  /\ \A e \in Within(S) :
       \/ LabelOf(e[2]) <= LabelOf(e[1])
       \/ at[Rank(e[1])] = "call" \/ Visiting(e[1], e[2])
       \/ \E m \in network : m[2] = e[2] /\ m[3] <= LabelOf(e[1])

\* A decided vertex has the id of the vertex its label is of, which is of its
\* component; an undecided one with the same label before it is going to be
\* told.
BackwardInv(S) ==
  /\ is_undecided \subseteq S
  /\ \A v \in is_undecided : label[v] # map[v] /\ v \notin in_active
  /\ \A e \in Within(S) : label[e[2]] <= label[e[1]]
  /\ \A v \in S \ is_undecided : label[v] = map[scc_id[v]] /\ scc_id[v] \in SCC(edges, v)
  /\ \A v \in S : Genuine(S, label[v], v) /\ label[v] <= map[v]
  /\ EarlierRounds(S)
  /\ \A v \in Vertices : active[v] = 1 => v \in S /\ v \in in_active
  /\ \A r \in Ranks : \A u \in popped[r] :
       u \in S \ is_undecided /\ label_k[r] = label[u] /\ active[u] = 0
  /\ \A m \in network :
       m[1] \in S \ is_undecided /\ <<m[2], m[1]>> \in edges /\ m[3] = label[m[1]]
  /\ \A v \in is_undecided : \A u \in S \ is_undecided :
       <<v, u>> \in edges /\ label[v] = label[u] =>
         Visiting(u, v) \/ <<u, v, label[u]>> \in network

LabelRound ==
  /\ map \in Maps
  /\ network \subseteq Vertices \X Vertices \X Nat
  /\ Forward => \E S \in SUBSET Vertices : ForwardInv(S)
  /\ Backward => \E S \in SUBSET Vertices : BackwardInv(S)
  /\ (\E r \in Ranks : at[r] = "done") => \A r \in Ranks : at[r] = "done"
  /\ (\A r \in Ranks : at[r] = "done") => is_undecided = {}

TrimRound ==
  /\ map \in Maps
  /\ EarlierRounds(is_undecided)
  /\ \A r \in Ranks : at[r] = "done"
  /\ todo \subseteq is_undecided

SearchesTypeOK ==
  /\ input \in Inputs
  /\ stage \in {"pivot", "trim", "label"}
  /\ at \in [Ranks -> {"call", "forward", "barrier", "backward", "sum", "done"}]
  /\ label \in [Vertices -> Nat] /\ label_k \in [Ranks -> Nat]
  /\ in_active \in SUBSET Vertices /\ is_undecided \in SUBSET Vertices
  /\ popped \in [Ranks -> SUBSET Vertices] /\ left \in [Ranks -> SUBSET Vertices]
  /\ scc_id \in [Vertices -> Vertices \cup {Undecided}]
  /\ local_decided \in [Ranks -> Nat]

SearchesInv ==
  /\ SearchesTypeOK /\ WorkInv /\ DecidedOnce
  /\ stage = "pivot" => PivotRound
  /\ stage = "trim" => TrimRound
  /\ stage = "label" => LabelRound
-----------------------------------------------------------------------------
(* Properties                                                              *)

(***************************************************************************)
(* While the pivot search runs, every step keeps SearchesInv; its stacks   *)
(* fit, no vertex is decided twice, and a rank leaves with the whole       *)
(* component decided everywhere.                                           *)
(***************************************************************************)
PivotInv == stage = "pivot" => SearchesInv /\ PivotSearch!AsyncInv

(***************************************************************************)
(* So it is behind it: trimming decides components of one vertex, labels   *)
(* are minimal when the ranks agree to stop, rounds decide whole           *)
(* components, and every decision of the searches and of the trim is       *)
(* counted once - also behind a pivot search that left its bits in the     *)
(* array that is now in_active.                                            *)
(***************************************************************************)
RoundsInv == stage # "pivot" => SearchesInv /\ AsyncInv

\* The searches label as one search per component would.
Labelling == INSTANCE SccLabelling
ImplementsLabelling == Labelling!Spec
=============================================================================
