----------------------------- MODULE LabelSearch -----------------------------
(***************************************************************************)
(* label_search and rot_label_search (scc/multi_pivot_search.hpp) in the   *)
(* loop the drivers run them in until every vertex is decided.             *)
(*                                                                         *)
(* A round gives every undecided vertex its own label, sends the smallest  *)
(* label forward until nothing changes, and then decides, backward from    *)
(* every vertex that kept its own label, the vertices with that label.     *)
(* Several components, but not all, are found in one round.                *)
(*                                                                         *)
(* Messages to other ranks are not sent when a label changes but once per  *)
(* exchange, for the vertices marked in has_changed; in_active keeps a     *)
(* vertex from being on the stack twice.  The arrays of the ranks are      *)
(* global here, as in PivotSearch.  A message is <<from, to, label>>; the  *)
(* code sends to and label.                                                *)
(***************************************************************************)
EXTENDS ReachableSets, FiniteSetsExt

CONSTANTS Ranks,
          Undecided,    \* scc_id_undecided
          Maps,         \* map: one injective relabelling per rotation
          Inputs        \* [edges, owner, decided: whole components]

ASSUME UndecidedAssumption == Undecided \notin Vertices

ASSUME MapsAssumption ==
  /\ Maps \subseteq [Vertices -> Nat]
  /\ \A m \in Maps : \A u, v \in Vertices : m[u] = m[v] => u = v
  /\ \A m \in Maps : \A v \in Vertices : m[v] # Undecided  \* a word of ones

ASSUME InputsAssumption ==
  /\ Inputs \subseteq [edges : Graphs, owner : [Vertices -> Ranks],
                       decided : SUBSET Vertices]
  /\ \A i \in Inputs : /\ i.decided # Vertices
                       /\ \A v \in i.decided : SCC(i.edges, v) \subseteq i.decided

VARIABLES
  input,           \* the graph, its partition, what is decided; never changed
  map,             \* of the present round
  phase,           \* "call", "forward", "backward" or "done" on all ranks
  label,
  active,          \* how often each vertex is on its owner's active stack
  in_active,
  has_changed,
  is_undecided,
  send_buffer,     \* messages pushed since the last comm
  recv_buffer,     \* messages delivered by comm and not yet consumed
  scc_id,
  local_decided

vars == <<input, map, phase, label, active, in_active, has_changed,
          is_undecided, send_buffer, recv_buffer, scc_id, local_decided>>

edges    == input.edges
Rank(v)  == input.owner[v]
Local(r) == {v \in Vertices : Rank(v) = r}

unmap(l) == CHOOSE v \in Vertices : map[v] = l

Init ==
  /\ input \in Inputs
  /\ map \in Maps
  /\ phase = "call"
  /\ label = [v \in Vertices |-> 0]
  /\ active = [v \in Vertices |-> 0]
  /\ in_active = {}
  /\ has_changed = {}
  /\ is_undecided = Vertices \ input.decided
  /\ send_buffer = {}
  /\ recv_buffer = {}
  /\ scc_id = [v \in Vertices |-> IF v \notin input.decided THEN Undecided
                                  ELSE CHOOSE c \in SCC(edges, v) : TRUE]
  /\ local_decided = [r \in Ranks |-> Cardinality(Local(r) \cap input.decided)]
-----------------------------------------------------------------------------
(* What both searches do                                                   *)

\* The rank of u has consumed what comm delivered, and runs.
MayDrain(u) == active[u] > 0 /\ \A m \in recv_buffer : Rank(m[2]) # Rank(u)

\* Mutant of Activate: what local neighbours change is not marked.
ActivateUnmarked(S, drained) ==
  /\ in_active' = (in_active \cup S) \ drained
  /\ active' = [v \in Vertices |-> active[v] + (IF v \in S \ in_active THEN 1 ELSE 0)
                                             - (IF v \in drained THEN 1 ELSE 0)]
  /\ has_changed' = IF drained = {} THEN has_changed \cup S ELSE has_changed

\* in_active.set, active.push and has_changed.set for the vertices of S that
\* are not active; drained is the vertex popped for it, or none.
Activate(S, drained) ==
  /\ in_active' = (in_active \cup S) \ drained
  /\ has_changed' = has_changed \cup (S \ in_active)
  /\ active' = [v \in Vertices |-> active[v] + (IF v \in S \ in_active THEN 1 ELSE 0)
                                             - (IF v \in drained THEN 1 ELSE 0)]

\* The neighbours of u that an edge_t with the label of u is meant for.
Concerned(T, u) == {v \in T : label[u] < map[v]}

\* g.each_v in the forward search, g.each_bw_v in the backward one.
Neighbours(u) == IF phase = "forward" THEN Succ(edges, u) ELSE Pred(edges, u)

\* After the drain: has_changed.each pushes to other ranks, and is cleared.
PushChanged(r) ==
  LET changed == has_changed \cap Local(r)
  IN  /\ changed # {}
      /\ \A v \in Local(r) : active[v] = 0
      /\ \A m \in recv_buffer : Rank(m[2]) # r
      /\ send_buffer' = send_buffer \cup
           {<<e[1], e[2], label[e[1]]>> :
              e \in {x \in changed \X (Vertices \ Local(r)) :
                       x[2] \in Concerned(Neighbours(x[1]), x[1])}}
      /\ has_changed' = has_changed \ changed

\* Every rank has called front.comm.
AllAtComm == /\ recv_buffer = {} /\ has_changed = {}
             /\ \A v \in Vertices : active[v] = 0

\* Mutant of Exchange: comm does not clear the send buffer.
ExchangeKeeping ==
  /\ phase \in {"forward", "backward"}
  /\ AllAtComm
  /\ send_buffer # {}
  /\ recv_buffer' = send_buffer
  /\ UNCHANGED <<input, map, phase, label, active, in_active, has_changed,
                 is_undecided, send_buffer, scc_id, local_decided>>

Exchange ==
  /\ phase \in {"forward", "backward"}
  /\ AllAtComm
  /\ send_buffer # {}
  /\ recv_buffer' = send_buffer
  /\ send_buffer' = {}
  /\ UNCHANGED <<input, map, phase, label, active, in_active, has_changed,
                 is_undecided, scc_id, local_decided>>

PhaseOver(p) == phase = p /\ AllAtComm /\ send_buffer = {}

\* is_undecided.unset and on_decision with unmap(label), for the vertices of D.
DecideAll(D) ==
  /\ is_undecided' = is_undecided \ D
  /\ scc_id' = [v \in Vertices |-> IF v \in D THEN unmap(label[v]) ELSE scc_id[v]]
  /\ local_decided' =
       [r \in Ranks |-> local_decided[r] + Cardinality(Local(r) \cap D)]
-----------------------------------------------------------------------------
(* Forward search                                                          *)

Begin ==
  /\ phase = "call"
  /\ phase' = "forward"
  /\ label' = [v \in Vertices |-> IF v \in is_undecided THEN map[v] ELSE label[v]]
  /\ in_active' = is_undecided
  /\ has_changed' = is_undecided
  /\ active' = [v \in Vertices |-> IF v \in is_undecided THEN 1 ELSE 0]
  /\ UNCHANGED <<input, map, is_undecided, send_buffer, recv_buffer, scc_id,
                 local_decided>>

\* on_fw_message, for a set of targets: the ones whose label it lowers.
Lowered(T, l) == {v \in T \cap is_undecided : l < label[v]}

FwHandle(T, l, drained) ==
  /\ label' = [v \in Vertices |-> IF v \in Lowered(T, l) THEN l ELSE label[v]]
  /\ Activate(Lowered(T, l), drained)
  /\ UNCHANGED <<input, map, phase, is_undecided, send_buffer, scc_id, local_decided>>

FwDrain(u) ==
  /\ phase = "forward"
  /\ MayDrain(u)
  /\ FwHandle(Concerned(Neighbours(u) \cap Local(Rank(u)), u), label[u], {u})
  /\ UNCHANGED recv_buffer

FwReceive(m) ==
  /\ phase = "forward"
  /\ FwHandle({m[2]}, m[3], {})
  /\ recv_buffer' = recv_buffer \ {m}

FwPush(r) ==
  /\ phase = "forward"
  /\ PushChanged(r)
  /\ UNCHANGED <<input, map, phase, label, active, in_active, is_undecided,
                 recv_buffer, scc_id, local_decided>>
-----------------------------------------------------------------------------
(* Backward search                                                         *)

\* comm returned false: the vertices that kept their own label are roots.
FwEnd ==
  /\ PhaseOver("forward")
  /\ phase' = "backward"
  /\ LET roots == {v \in is_undecided : label[v] = map[v]}
     IN  /\ DecideAll(roots)
         /\ in_active' = roots
         /\ has_changed' = roots
         /\ active' = [v \in Vertices |-> active[v] + IF v \in roots THEN 1 ELSE 0]
  /\ UNCHANGED <<input, map, label, send_buffer, recv_buffer>>

\* Mutant of SameLabel: any undecided vertex the message reaches is decided.
AnyLabel(T, l) == T \cap is_undecided

\* on_bw_message, for a set of targets: the ones it decides.
SameLabel(T, l) == {v \in T \cap is_undecided : label[v] = l}

BwHandle(T, l, drained) ==
  /\ DecideAll(SameLabel(T, l))
  /\ Activate(SameLabel(T, l), drained)
  /\ UNCHANGED <<input, map, phase, label, send_buffer>>

BwDrain(u) ==
  /\ phase = "backward"
  /\ MayDrain(u)
  /\ BwHandle(Concerned(Neighbours(u) \cap Local(Rank(u)), u), label[u], {u})
  /\ UNCHANGED recv_buffer

BwReceive(m) ==
  /\ phase = "backward"
  /\ BwHandle({m[2]}, m[3], {})
  /\ recv_buffer' = recv_buffer \ {m}

BwPush(r) ==
  /\ phase = "backward"
  /\ PushChanged(r)
  /\ UNCHANGED <<input, map, phase, label, active, in_active, is_undecided,
                 recv_buffer, scc_id, local_decided>>

\* The driver's allreduce of local_decided, and the next rotation.
global_decided == SumOverRanks(local_decided)

BwEnd ==
  /\ PhaseOver("backward")
  /\ phase' = IF global_decided >= Cardinality(Vertices) THEN "done" ELSE "call"
  /\ map' \in Maps
  /\ UNCHANGED <<input, label, active, in_active, has_changed, is_undecided,
                 send_buffer, recv_buffer, scc_id, local_decided>>

Returned == phase = "done" /\ UNCHANGED vars

Next ==
  \/ Begin
  \/ \E u \in Vertices : FwDrain(u) \/ BwDrain(u)
  \/ \E m \in recv_buffer : FwReceive(m) \/ BwReceive(m)
  \/ \E r \in Ranks : FwPush(r) \/ BwPush(r)
  \/ Exchange \/ FwEnd \/ BwEnd
  \/ Returned

Spec == Init /\ [][Next]_vars

\* Ranks run on until they block in a collective, and a collective that all
\* ranks have entered completes.
FairSpec == Spec /\ WF_vars(Next)
-----------------------------------------------------------------------------
(* Properties                                                              *)

TypeOK ==
  /\ input \in Inputs
  /\ map \in Maps
  /\ phase \in {"call", "forward", "backward", "done"}
  /\ label \in [Vertices -> Nat]
  /\ active \in [Vertices -> Nat]
  /\ in_active \in SUBSET Vertices
  /\ has_changed \in SUBSET Vertices
  /\ is_undecided \in SUBSET Vertices
  /\ send_buffer \in SUBSET (Vertices \X Vertices \X Nat)
  /\ recv_buffer \in SUBSET (Vertices \X Vertices \X Nat)
  /\ scc_id \in [Vertices -> Vertices \cup {Undecided}]
  /\ local_decided \in [Ranks -> Nat]

(***************************************************************************)
(* A stack has room for local_n vertices: in_active is exactly what is on  *)
(* the stacks, so that no vertex is on one twice, however often its label  *)
(* is lowered, and has_changed will tell the other ranks of every vertex   *)
(* still waiting there.                                                    *)
(***************************************************************************)
StacksAgree ==
  \A v \in Vertices : /\ active[v] = (IF v \in in_active THEN 1 ELSE 0)
                      /\ v \in in_active => v \in has_changed

(***************************************************************************)
(* When the ranks agree to stop the forward search, every undecided vertex *)
(* has the smallest label of all vertices that reach it through undecided  *)
(* ones: no label change got lost between the local stacks, has_changed,   *)
(* which remembers a vertex and not its label, and the messages, which may *)
(* be overtaken by smaller labels.                                         *)
(***************************************************************************)
UndecidedEdges == edges \cap (is_undecided \X is_undecided)

LabelsAreMinimal ==
  PhaseOver("forward") => \A v \in is_undecided :
    label[v] = Min({map[u] : u \in {x \in is_undecided : v \in Reach(UndecidedEdges, x)}})

(***************************************************************************)
(* A round decides whole components, and at least one.  The next round, or *)
(* a trim between the rounds, would otherwise start from half a component  *)
(* and call the rest of it a component of its own.                         *)
(***************************************************************************)
RoundsDecideComponents ==
  /\ phase \in {"call", "done"} =>
       \A v \in Vertices \ is_undecided : SCC(edges, v) \cap is_undecided = {}
  /\ PhaseOver("forward") => \E v \in is_undecided : label[v] = map[v]

\* The counters the drivers compare with n count every decided vertex once.
DecidedOnce ==
  /\ is_undecided = {v \in Vertices : scc_id[v] = Undecided}
  /\ \A r \in Ranks : local_decided[r] = Cardinality(Local(r) \ is_undecided)

\* Several searches at once label the vertices as one search per component
\* would, whichever of them reaches a vertex first.
Labelling == INSTANCE SccLabelling
ImplementsLabelling == Labelling!Spec

\* The loop ends, with every vertex decided.
Terminates == <>(phase = "done" /\ is_undecided = {})
=============================================================================
