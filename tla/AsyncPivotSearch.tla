-------------------------- MODULE AsyncPivotSearch --------------------------
(***************************************************************************)
(* forward_backward_search over an asynchronous message queue              *)
(* (scc/async/pivot_search.hpp).  A rank posts a message for every edge to *)
(* another rank as soon as it visits it, and handles messages whenever it  *)
(* posts, polls or tries to terminate.  A rank leaves a search when        *)
(* terminate returns true there, which happens on the ranks one by one,    *)
(* once all have nothing to do and no message is under way; a barrier      *)
(* stands between the two searches.                                        *)
(*                                                                         *)
(* The queue is external (BriefKAsten); network is what it has not yet     *)
(* handed over, in any order.  A message is the edge it was posted for, of *)
(* which the code sends the target.                                        *)
(***************************************************************************)
EXTENDS ReachableSets

CONSTANTS Ranks,
          Undecided,    \* scc_id_undecided
          Inputs        \* [edges, owner, trimmed, root], as in AsyncSearches

VARIABLES
  input,           \* never changed
  at,              \* per rank: "call", "forward", "barrier", "backward", "done"
  is_reached,
  is_undecided,
  active,          \* how often each vertex is on its owner's active stack
  popped,          \* per rank, the vertex whose edges it visits, as a set
  left,            \* per rank, neighbours it has still to visit
  network,
  scc_id,
  local_decided

vars == <<input, at, is_reached, is_undecided, active, popped, left, network,
          scc_id, local_decided>>

decisions == <<is_undecided, scc_id, local_decided>>

edges    == input.edges
root     == input.root
Rank(v)  == input.owner[v]
Local(r) == {v \in Vertices : Rank(v) = r}

Init ==
  /\ input \in Inputs
  /\ at = [r \in Ranks |-> "call"]
  /\ is_reached = {}
  /\ is_undecided = Vertices \ input.trimmed
  /\ active = [v \in Vertices |-> 0]
  /\ popped = [r \in Ranks |-> {}]
  /\ left = [r \in Ranks |-> {}]
  /\ network = {}
  /\ scc_id = [v \in Vertices |-> IF v \in input.trimmed THEN v ELSE Undecided]
  /\ local_decided = [r \in Ranks |-> Cardinality(Local(r) \cap input.trimmed)]

Push(S) == active' = [v \in Vertices |-> active[v] + IF v \in S THEN 1 ELSE 0]

\* A rank with nothing to do but to ask the queue whether all is over.
Idle(r) == popped[r] = {} /\ \A v \in Local(r) : active[v] = 0

\* terminate returns true on rank r: nothing is under way, and every other
\* rank has begun the phase and is in terminate as well, or has left it.
Terminate(r, before, phase, next) ==
  /\ at[r] = phase
  /\ network = {}
  /\ \A s \in Ranks : at[s] # before /\ (at[s] = phase => Idle(s))
  /\ at' = [at EXCEPT ![r] = next]

\* is_reached.unset, is_undecided.unset and on_decision for D.
DecideAll(D) ==
  /\ is_reached' = is_reached \ D
  /\ is_undecided' = is_undecided \ D
  /\ scc_id' = [v \in Vertices |-> IF v \in D THEN root ELSE scc_id[v]]
  /\ local_decided' =
       [r \in Ranks |-> local_decided[r] + Cardinality(Local(r) \cap D)]

on_fw_message(v) ==
  LET S == ({v} \cap is_undecided) \ is_reached
  IN  is_reached' = is_reached \cup S /\ Push(S) /\ UNCHANGED decisions

\* Mutant of on_bw_message: any undecided vertex the message meets is decided.
on_bw_messageUndecided(v) ==
  LET S == {v} \cap is_undecided
  IN  DecideAll(S) /\ Push(S)

on_bw_message(v) ==
  LET S == {v} \cap is_reached
  IN  DecideAll(S) /\ Push(S)

Handle(v) == IF at[Rank(v)] = "forward" THEN on_fw_message(v) ELSE on_bw_message(v)

Neighbours(u) == IF at[Rank(u)] = "forward" THEN Succ(edges, u) ELSE Pred(edges, u)

Searching(r) == at[r] \in {"forward", "backward"}
-----------------------------------------------------------------------------
\* The root is pushed and reactivate called.
Begin(r) ==
  LET mine == Local(r) \cap {root}
  IN  /\ at[r] = "call"
      /\ at' = [at EXCEPT ![r] = "forward"]
      /\ is_reached' = (is_reached \ Local(r)) \cup mine
      /\ Push(mine)
      /\ UNCHANGED <<input, decisions, popped, left, network>>

\* active.pop_back, and each_v begins.
Pop(u) ==
  LET r == Rank(u)
  IN  /\ Searching(r) /\ popped[r] = {} /\ active[u] > 0
      /\ active' = [active EXCEPT ![u] = @ - 1]
      /\ popped' = [popped EXCEPT ![r] = {u}]
      /\ left' = [left EXCEPT ![r] = Neighbours(u)]
      /\ UNCHANGED <<input, at, is_reached, decisions, network>>

VisitLocal(r, v) ==
  /\ v \in left[r] /\ Rank(v) = r
  /\ Handle(v)
  /\ left' = [left EXCEPT ![r] = @ \ {v}]
  /\ UNCHANGED <<input, at, popped, network>>

\* post_message_blocking to another rank.
Post(r, v) ==
  /\ v \in left[r] /\ Rank(v) # r
  /\ \E u \in popped[r] : network' = network \cup {<<u, v>>}
  /\ left' = [left EXCEPT ![r] = @ \ {v}]
  /\ UNCHANGED <<input, at, is_reached, decisions, active, popped>>

\* each_v is through.
Visited(r) ==
  /\ popped[r] # {} /\ left[r] = {}
  /\ popped' = [popped EXCEPT ![r] = {}]
  /\ UNCHANGED <<input, at, is_reached, decisions, active, left, network>>

\* The queue calls the handler: between two vertices, in poll or terminate,
\* or in the middle of one's edges while the rank is posting.
Receive(m) ==
  LET r == Rank(m[2])
  IN  /\ Searching(r)
      /\ popped[r] = {} \/ \E v \in left[r] : Rank(v) # r
      /\ Handle(m[2])
      /\ network' = network \ {m}
      /\ UNCHANGED <<input, at, popped, left>>

\* The root is decided and pushed for the backward search.
FwTerminate(r) ==
  LET mine == Local(r) \cap {root}
  IN  /\ Terminate(r, "call", "forward", "barrier")
      /\ DecideAll(mine)
      /\ Push(mine)
      /\ UNCHANGED <<input, popped, left, network>>

Barrier ==
  /\ \A r \in Ranks : at[r] = "barrier"
  /\ at' = [r \in Ranks |-> "backward"]
  /\ UNCHANGED <<input, is_reached, decisions, active, popped, left, network>>

BwTerminate(r) ==
  /\ Terminate(r, "barrier", "backward", "done")
  /\ UNCHANGED <<input, is_reached, decisions, active, popped, left, network>>

Returned == (\A r \in Ranks : at[r] = "done") /\ UNCHANGED vars

Next ==
  \/ \E u \in Vertices : Pop(u)
  \/ \E r \in Ranks : \E v \in left[r] : VisitLocal(r, v) \/ Post(r, v)
  \/ \E r \in Ranks : Begin(r) \/ Visited(r) \/ FwTerminate(r) \/ BwTerminate(r)
  \/ \E m \in network : Receive(m)
  \/ Barrier
  \/ Returned

Spec == Init /\ [][Next]_vars
-----------------------------------------------------------------------------
(* Properties                                                              *)

TypeOK ==
  /\ input \in Inputs
  /\ at \in [Ranks -> {"call", "forward", "barrier", "backward", "done"}]
  /\ is_reached \subseteq Vertices /\ is_undecided \subseteq Vertices
  /\ active \in [Vertices -> Nat]
  /\ popped \in [Ranks -> SUBSET Vertices] /\ left \in [Ranks -> SUBSET Vertices]
  /\ network \subseteq Vertices \X Vertices
  /\ scc_id \in [Vertices -> Vertices \cup {Undecided}]
  /\ local_decided \in [Ranks -> Nat]

Found == {v \in Vertices : scc_id[v] # Undecided} \ input.trimmed

\* A stack of local_n entries is enough.
StacksFit == \A v \in Vertices : active[v] <= 1

\* Both assertions: what is_reached admits to the backward search is
\* undecided, and whatever is popped there is decided; every decision is
\* counted once.
ReachedProtectsUndecided ==
  /\ is_reached \subseteq is_undecided
  /\ \A r \in Ranks : at[r] = "backward" =>
       \A u \in Local(r) : active[u] > 0 => u \notin is_undecided
  /\ is_undecided = {v \in Vertices : scc_id[v] = Undecided}
  /\ \A r \in Ranks :
       local_decided[r] = Cardinality({v \in Local(r) : scc_id[v] # Undecided})

\* Nothing outside the root's component is decided, and a rank that leaves
\* the backward search leaves no vertex of it undecided on any rank.
WholePivotComponent ==
  /\ Found \subseteq SCC(edges, root)
  /\ (\E r \in Ranks : at[r] = "done") => Found = SCC(edges, root)

AsyncInv == TypeOK /\ StacksFit /\ ReachedProtectsUndecided /\ WholePivotComponent
=============================================================================
