-------------------------- MODULE AsyncLabelSearch --------------------------
(***************************************************************************)
(* label_search and rot_label_search over an asynchronous message queue    *)
(* (scc/async/multi_pivot_search.hpp), in the loop of scc/async/scc.hpp.   *)
(*                                                                         *)
(* There are no rounds of messages here: a rank posts a message as soon as *)
(* it visits an edge, and the queue may call the message handler whenever  *)
(* the rank posts, polls or tries to terminate.  So a label may be lowered *)
(* while the label that was read before is still being sent.  terminate    *)
(* returns true on a rank when every rank has nothing to do and no message *)
(* is under way, but on each rank at another time.                         *)
(*                                                                         *)
(* The queue is external (BriefKAsten); network is what it has not yet     *)
(* handed over, in any order.  A message is <<from, to, label>>, of which  *)
(* the code sends to and label.                                            *)
(***************************************************************************)
EXTENDS ReachableSets, FiniteSetsExt

CONSTANTS Ranks,
          Undecided,    \* scc_id_undecided
          Maps,         \* map: one injective relabelling per rotation
          Inputs        \* [edges, owner, ...], as in AsyncSearches

ASSUME UndecidedAssumption == Undecided \notin Vertices

ASSUME MapsAssumption ==
  /\ Maps \subseteq [Vertices -> Nat]
  /\ \A m \in Maps : \A u, v \in Vertices : m[u] = m[v] => u = v

VARIABLES
  input,           \* never changed
  map,             \* of the present round
  at,              \* per rank: "call", "forward", "barrier", "backward",
                   \* "sum" (the allreduce of the driver) or "done"
  label,
  active,          \* how often each vertex is on its owner's active stack
  in_active,
  popped,          \* per rank, the vertex k whose edges it visits, as a set
  label_k,         \* per rank, the label read for it
  left,            \* per rank, neighbours it has still to visit
  network,
  is_undecided,
  scc_id,
  local_decided

vars == <<input, map, at, label, active, in_active, popped, label_k, left,
          network, is_undecided, scc_id, local_decided>>

decisions == <<is_undecided, scc_id, local_decided>>

edges    == input.edges
Rank(v)  == input.owner[v]
Local(r) == {v \in Vertices : Rank(v) = r}

unmap(l) == CHOOSE v \in Vertices : map[v] = l

Init ==
  /\ input \in Inputs
  /\ map \in Maps
  /\ at = [r \in Ranks |-> "call"]
  /\ label = [v \in Vertices |-> 0]
  /\ active = [v \in Vertices |-> 0]
  /\ in_active = {}
  /\ popped = [r \in Ranks |-> {}]
  /\ label_k = [r \in Ranks |-> 0]
  /\ left = [r \in Ranks |-> {}]
  /\ network = {}
  /\ is_undecided = Vertices
  /\ scc_id = [v \in Vertices |-> Undecided]
  /\ local_decided = [r \in Ranks |-> 0]

\* A rank with nothing to do but to ask the queue whether all is over.
Idle(r) == popped[r] = {} /\ \A v \in Local(r) : active[v] = 0

(***************************************************************************)
(* terminate returns true on rank r: nothing is under way, and every other *)
(* rank has come from the place before the phase and is in terminate as    *)
(* well, or has left it.                                                   *)
(***************************************************************************)
Terminate(r, before, phase, next) ==
  /\ at[r] = phase
  /\ network = {}
  /\ \A s \in Ranks : at[s] # before /\ (at[s] = phase => Idle(s))
  /\ at' = [at EXCEPT ![r] = next]

\* A collective of all ranks.
Together(from, to) ==
  /\ \A r \in Ranks : at[r] = from
  /\ at' = [r \in Ranks |-> to]
-----------------------------------------------------------------------------
(* What both searches do                                                   *)

\* The neighbours of u that an edge_t with the label of u is meant for.
Concerned(T, u) == {v \in T : label[u] < map[v]}

Neighbours(u) == IF at[Rank(u)] = "forward" THEN Succ(edges, u) ELSE Pred(edges, u)

Searching(r) == at[r] \in {"forward", "backward"}

\* Mutant of Unset: in_active is cleared behind the pushes in both searches.
UnsetAfter(u, visited) == IF visited THEN in_active \ {u} ELSE in_active

\* in_active.unset(k) comes before the pushes in the forward search, and
\* behind them in the backward search.
Unset(u, visited) ==
  IF visited = (at[Rank(u)] = "backward") THEN in_active \ {u} ELSE in_active

Pop(u) ==
  LET r == Rank(u)
  IN  /\ Searching(r) /\ popped[r] = {} /\ active[u] > 0
      /\ popped' = [popped EXCEPT ![r] = {u}]
      /\ label_k' = [label_k EXCEPT ![r] = label[u]]
      /\ left' = [left EXCEPT ![r] = Concerned(Neighbours(u), u)]
      /\ active' = [active EXCEPT ![u] = @ - 1]
      /\ in_active' = Unset(u, FALSE)
      /\ UNCHANGED <<input, map, at, label, network, decisions>>

\* in_active.set and active.push for the vertices of S that are not active.
Activate(S) ==
  /\ in_active' = in_active \cup S
  /\ active' = [v \in Vertices |-> active[v] + IF v \in S \ in_active THEN 1 ELSE 0]

\* is_undecided.unset and on_decision with unmap(label), for the vertices of D.
DecideAll(D) ==
  /\ is_undecided' = is_undecided \ D
  /\ scc_id' = [v \in Vertices |-> IF v \in D THEN unmap(label[v]) ELSE scc_id[v]]
  /\ local_decided' =
       [r \in Ranks |-> local_decided[r] + Cardinality(Local(r) \cap D)]

\* on_fw_message: v takes a smaller label.
on_fw_message(v, l) ==
  LET S == IF v \in is_undecided /\ l < label[v] THEN {v} ELSE {}
  IN  /\ label' = [w \in Vertices |-> IF w \in S THEN l ELSE label[w]]
      /\ Activate(S)
      /\ UNCHANGED decisions

\* on_bw_message: v is decided with the label it has.
on_bw_message(v, l) ==
  LET S == IF v \in is_undecided /\ label[v] = l THEN {v} ELSE {}
  IN  /\ DecideAll(S)
      /\ Activate(S)
      /\ UNCHANGED label

Handle(v, l) ==
  IF at[Rank(v)] = "forward" THEN on_fw_message(v, l) ELSE on_bw_message(v, l)

\* One neighbour: on the same rank it is handled at once.
VisitLocal(r, v) ==
  /\ v \in left[r] /\ Rank(v) = r
  /\ Handle(v, label_k[r])
  /\ left' = [left EXCEPT ![r] = @ \ {v}]
  /\ UNCHANGED <<input, map, at, popped, label_k, network>>

\* post_message_blocking to another rank.
Post(r, v) ==
  /\ v \in left[r] /\ Rank(v) # r
  /\ \E u \in popped[r] : network' = network \cup {<<u, v, label_k[r]>>}
  /\ left' = [left EXCEPT ![r] = @ \ {v}]
  /\ UNCHANGED <<input, map, at, label, active, in_active, popped, label_k, decisions>>

\* each_v is through.
Visited(r) ==
  /\ left[r] = {}
  /\ \E u \in popped[r] : in_active' = Unset(u, TRUE)
  /\ popped' = [popped EXCEPT ![r] = {}]
  /\ UNCHANGED <<input, map, at, label, active, label_k, left, network, decisions>>

\* The queue calls the handler: between two vertices, in poll_throttled or
\* terminate, or in the middle of one's edges while the rank is posting.
Receive(m) ==
  LET r == Rank(m[2])
  IN  /\ Searching(r)
      /\ popped[r] = {} \/ \E v \in left[r] : Rank(v) # r
      /\ Handle(m[2], m[3])
      /\ network' = network \ {m}
      /\ UNCHANGED <<input, map, at, popped, label_k, left>>
-----------------------------------------------------------------------------
(* From one search to the next                                             *)

\* The loop that labels and pushes the undecided vertices, and reactivate.
Begin(r) ==
  /\ at[r] = "call"
  /\ at' = [at EXCEPT ![r] = "forward"]
  /\ LET mine == is_undecided \cap Local(r)
     IN  /\ label' = [v \in Vertices |-> IF v \in mine THEN map[v] ELSE label[v]]
         /\ in_active' = (in_active \ Local(r)) \cup mine
         /\ active' = [v \in Vertices |-> IF v \in mine THEN 1 ELSE active[v]]
  /\ UNCHANGED <<input, map, popped, label_k, left, network, decisions>>

FwTerminate(r) ==
  /\ Terminate(r, "call", "forward", "barrier")
  /\ LET roots == {v \in is_undecided \cap Local(r) : label[v] = map[v]}
     IN  /\ DecideAll(roots)
         /\ in_active' = (in_active \ Local(r)) \cup roots
         /\ active' = [v \in Vertices |-> active[v] + IF v \in roots THEN 1 ELSE 0]
  /\ UNCHANGED <<input, map, label, popped, label_k, left, network>>

\* Mutant of Barrier: a rank goes on alone.
BarrierAlone ==
  /\ \E r \in Ranks : at[r] = "barrier" /\ at' = [at EXCEPT ![r] = "backward"]
  /\ UNCHANGED <<input, map, label, active, in_active, popped, label_k, left,
                 network, decisions>>

\* mpi_basic::barrier
Barrier ==
  /\ Together("barrier", "backward")
  /\ UNCHANGED <<input, map, label, active, in_active, popped, label_k, left,
                 network, decisions>>

BwTerminate(r) ==
  /\ Terminate(r, "barrier", "backward", "sum")
  /\ UNCHANGED <<input, map, label, active, in_active, popped, label_k, left,
                 network, decisions>>

\* The driver's allreduce of local_decided, and the next rotation.
global_decided == SumOverRanks(local_decided)

\* Mutant of Sum: returns with one vertex left.
SumEarly ==
  /\ Together("sum", IF global_decided < Cardinality(Vertices) - 1 THEN "call" ELSE "done")
  /\ map' \in Maps
  /\ UNCHANGED <<input, label, active, in_active, popped, label_k, left, network, decisions>>

Sum ==
  /\ Together("sum", IF global_decided < Cardinality(Vertices) THEN "call" ELSE "done")
  /\ map' \in Maps
  /\ UNCHANGED <<input, label, active, in_active, popped, label_k, left, network, decisions>>

Returned == (\A r \in Ranks : at[r] = "done") /\ UNCHANGED vars

Next ==
  \/ \E u \in Vertices : Pop(u)
  \/ \E r \in Ranks : \E v \in left[r] : VisitLocal(r, v) \/ Post(r, v)
  \/ \E r \in Ranks : Visited(r) \/ Begin(r) \/ FwTerminate(r) \/ BwTerminate(r)
  \/ \E m \in network : Receive(m)
  \/ Barrier \/ Sum
  \/ Returned

Spec == Init /\ [][Next]_vars
-----------------------------------------------------------------------------
(* Properties                                                              *)

TypeOK ==
  /\ input \in Inputs /\ map \in Maps
  /\ at \in [Ranks -> {"call", "forward", "barrier", "backward", "sum", "done"}]
  /\ label \in [Vertices -> Nat]
  /\ active \in [Vertices -> Nat]
  /\ in_active \subseteq Vertices
  /\ \A r \in Ranks : popped[r] \subseteq Local(r) /\ left[r] \subseteq Vertices
  /\ label_k \in [Ranks -> Nat]
  /\ \A m \in network : m \in Vertices \X Vertices \X Nat
  /\ is_undecided \subseteq Vertices
  /\ scc_id \in [Vertices -> Vertices \cup {Undecided}]
  /\ local_decided \in [Ranks -> 0 .. Cardinality(Vertices)]

\* A vertex is on a stack once, although a message handled between its pop
\* and its last push may put it there again.
StacksFit == \A v \in Vertices : active[v] <= 1 /\ (active[v] = 1 => v \in in_active)

(***************************************************************************)
(* When terminate is about to return true in the forward search, every     *)
(* vertex has the smallest label that reaches it through undecided ones:   *)
(* no label read before it was lowered is the last one that was sent.      *)
(***************************************************************************)
Quiescent(phase) ==
  network = {} /\ \A r \in Ranks : at[r] = phase /\ Idle(r)

UndecidedEdges == edges \cap (is_undecided \X is_undecided)

LabelsAreMinimal ==
  Quiescent("forward") => \A v \in is_undecided :
    label[v] = Min({map[u] : u \in {x \in is_undecided : v \in Reach(UndecidedEdges, x)}})

\* When all ranks have left the backward search, whole components are
\* decided.
RoundsDecideComponents ==
  (\A r \in Ranks : at[r] \in {"call", "sum", "done"}) =>
    \A v \in Vertices \ is_undecided : SCC(edges, v) \cap is_undecided = {}

\* The counters the driver compares with n count every decided vertex once.
DecidedOnce ==
  /\ is_undecided = {v \in Vertices : scc_id[v] = Undecided}
  /\ \A r \in Ranks : local_decided[r] = Cardinality(Local(r) \ is_undecided)

AsyncInv == /\ TypeOK /\ StacksFit /\ LabelsAreMinimal
            /\ RoundsDecideComponents /\ DecidedOnce

\* Every search ends on every rank, and the loop with every vertex decided.
Terminates == <>((\A r \in Ranks : at[r] = "done") /\ is_undecided = {})
=============================================================================
