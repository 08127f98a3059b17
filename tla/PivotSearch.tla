----------------------------- MODULE PivotSearch -----------------------------
(***************************************************************************)
(* forward_backward_search (scc/pivot_search.hpp): the component of one    *)
(* pivot, searched by all ranks in bulk-synchronous rounds.                *)
(*                                                                         *)
(* Every vertex belongs to one rank.  A rank drains its active stack,      *)
(* visits local neighbours at once and pushes remote ones into its         *)
(* frontier; front.comm blocks until every rank calls it, ends the phase   *)
(* for all of them when nobody pushed anything, and otherwise delivers the *)
(* messages, which the receiver consumes before it drains again.  The      *)
(* module Frontier has comm in detail; here it is one step of all ranks.   *)
(*                                                                         *)
(* The bit arrays and stacks of the ranks are indexed by local ids; here   *)
(* they are global sets and functions, partitioned by Owner.  A message is *)
(* the edge it was sent for (the code sends its target only), so that      *)
(* several messages for one vertex stay apart.                             *)
(***************************************************************************)
EXTENDS ReachableSets

CONSTANTS Ranks,
          Undecided,    \* scc_id_undecided
          Inputs        \* the calls: [edges, owner, trimmed, root]

ASSUME UndecidedAssumption == Undecided \notin Vertices

(***************************************************************************)
(* What the callers guarantee: the vertices decided before the search are  *)
(* components of their own, and the pivot is undecided.                    *)
(***************************************************************************)
ASSUME InputsAssumption ==
  /\ Inputs \subseteq [edges : Graphs, owner : [Vertices -> Ranks],
                       trimmed : SUBSET Vertices, root : Vertices]
  /\ \A i \in Inputs : /\ i.root \notin i.trimmed
                       /\ \A v \in i.trimmed : SCC(i.edges, v) = {v}

VARIABLES
  input,           \* the graph, its partition and the pivot; never changed
  phase,           \* "forward", "backward" or "done", the same on all ranks
  is_reached,      \* the set bits of is_reached_storage
  is_undecided,    \* the set bits of is_undecided_storage
  active,          \* how often each vertex is on its owner's active stack
  send_buffer,     \* messages pushed since the last comm
  recv_buffer,     \* messages delivered by comm and not yet consumed
  scc_id,          \* written by on_decision
  local_decided    \* counted by on_decision, per rank

vars == <<input, phase, is_reached, is_undecided, active, send_buffer,
          recv_buffer, scc_id, local_decided>>

edges == input.edges
root  == input.root
Rank(v)  == input.owner[v]
Local(r) == {v \in Vertices : Rank(v) = r}

Push(S)   == [v \in Vertices |-> active[v] + IF v \in S THEN 1 ELSE 0]
PopPush(u, S) == [Push(S) EXCEPT ![u] = @ - 1]

\* The rank of u runs: it has consumed what comm delivered.
MayDrain(u) == active[u] > 0 /\ \A m \in recv_buffer : Rank(m[2]) # Rank(u)

\* Mutant of AllAtComm: a rank may leave with messages it has not looked at.
AtCommWithInbox == \A v \in Vertices : active[v] = 0

\* Every rank has called front.comm.
AllAtComm == recv_buffer = {} /\ \A v \in Vertices : active[v] = 0

Init ==
  /\ input \in Inputs
  /\ phase = "forward"
  /\ is_reached = {root}
  /\ is_undecided = Vertices \ input.trimmed
  /\ active = [v \in Vertices |-> IF v = root THEN 1 ELSE 0]
  /\ send_buffer = {}
  /\ recv_buffer = {}
  /\ scc_id = [v \in Vertices |-> IF v \in input.trimmed THEN v ELSE Undecided]
  /\ local_decided = [r \in Ranks |-> Cardinality(Local(r) \cap input.trimmed)]
-----------------------------------------------------------------------------
(* Forward search                                                          *)

\* Mutant of FwFresh: a vertex is not asked whether it is reached already.
FwFreshTwice(T) == T \cap is_undecided

\* on_fw_message, for a set of targets: the ones it marks and activates.
FwFresh(T) == (T \cap is_undecided) \ is_reached

FwDrain(u) ==
  /\ phase = "forward"
  /\ MayDrain(u)
  /\ LET local == {v \in Succ(edges, u) : Rank(v) = Rank(u)}
     IN  /\ is_reached' = is_reached \cup FwFresh(local)
         /\ active' = PopPush(u, FwFresh(local))
         /\ send_buffer' = send_buffer \cup ({u} \X (Succ(edges, u) \ local))
  /\ UNCHANGED <<input, phase, is_undecided, recv_buffer, scc_id, local_decided>>

FwReceive(m) ==
  /\ phase = "forward"
  /\ is_reached' = is_reached \cup FwFresh({m[2]})
  /\ active' = Push(FwFresh({m[2]}))
  /\ recv_buffer' = recv_buffer \ {m}
  /\ UNCHANGED <<input, phase, is_undecided, send_buffer, scc_id, local_decided>>

\* Mutant of Exchange: comm does not clear the send buffer.
ExchangeKeeping ==
  /\ phase # "done"
  /\ AllAtComm
  /\ send_buffer # {}
  /\ recv_buffer' = send_buffer
  /\ UNCHANGED <<input, phase, is_reached, is_undecided, active, send_buffer,
                 scc_id, local_decided>>

\* front.comm returned true: the messages change hands.
Exchange ==
  /\ phase # "done"
  /\ AllAtComm
  /\ send_buffer # {}
  /\ recv_buffer' = send_buffer
  /\ send_buffer' = {}
  /\ UNCHANGED <<input, phase, is_reached, is_undecided, active, scc_id, local_decided>>

\* is_reached.unset, is_undecided.unset, on_decision for the vertices of D;
\* every rank counts its own.
DecideAll(D) ==
  /\ is_reached' = is_reached \ D
  /\ is_undecided' = is_undecided \ D
  /\ scc_id' = [v \in Vertices |-> IF v \in D THEN root ELSE scc_id[v]]
  /\ local_decided' =
       [r \in Ranks |-> local_decided[r] + Cardinality(Local(r) \cap D)]

\* front.comm returned false: the pivot's rank starts the backward search.
FwEnd ==
  /\ phase = "forward"
  /\ AllAtComm
  /\ send_buffer = {}
  /\ phase' = "backward"
  /\ DecideAll({root})
  /\ active' = Push({root})
  /\ UNCHANGED <<input, send_buffer, recv_buffer>>
-----------------------------------------------------------------------------
(* Backward search                                                         *)

\* Mutant of BwFresh: tests is_undecided where the code tests is_reached.
BwFreshUndecided(T) == T \cap is_undecided

\* on_bw_message, for a set of targets: the ones it decides and activates.
BwFresh(T) == T \cap is_reached

BwDrain(u) ==
  /\ phase = "backward"
  /\ MayDrain(u)
  /\ LET local == {v \in Pred(edges, u) : Rank(v) = Rank(u)}
     IN  /\ DecideAll(BwFresh(local))
         /\ active' = PopPush(u, BwFresh(local))
         /\ send_buffer' = send_buffer \cup ({u} \X (Pred(edges, u) \ local))
  /\ UNCHANGED <<input, phase, recv_buffer>>

BwReceive(m) ==
  /\ phase = "backward"
  /\ DecideAll(BwFresh({m[2]}))
  /\ active' = Push(BwFresh({m[2]}))
  /\ recv_buffer' = recv_buffer \ {m}
  /\ UNCHANGED <<input, phase, send_buffer>>

BwEnd ==
  /\ phase = "backward"
  /\ AllAtComm
  /\ send_buffer = {}
  /\ phase' = "done"
  /\ UNCHANGED <<input, is_reached, is_undecided, active, send_buffer,
                 recv_buffer, scc_id, local_decided>>

Returned == phase = "done" /\ UNCHANGED vars

Next ==
  \/ \E u \in Vertices : FwDrain(u) \/ BwDrain(u)
  \/ \E m \in recv_buffer : FwReceive(m) \/ BwReceive(m)
  \/ Exchange
  \/ FwEnd
  \/ BwEnd
  \/ Returned

Spec == Init /\ [][Next]_vars

(***************************************************************************)
(* A rank's program runs on until it blocks in a collective, and a         *)
(* collective that every rank has entered completes.                       *)
(***************************************************************************)
FairSpec == Spec /\ WF_vars(Next)
-----------------------------------------------------------------------------
(* Properties                                                              *)

\* Types of the state, with the bit arrays as sets of global ids.
TypeOK ==
  /\ input \in Inputs
  /\ phase \in {"forward", "backward", "done"}
  /\ is_reached \in SUBSET Vertices
  /\ is_undecided \in SUBSET Vertices
  /\ active \in [Vertices -> Nat]
  /\ send_buffer \in SUBSET (Vertices \X Vertices)
  /\ recv_buffer \in SUBSET (Vertices \X Vertices)
  /\ scc_id \in [Vertices -> Vertices \cup {Undecided}]
  /\ local_decided \in [Ranks -> Nat]

\* The vertices decided by this call.
Found == {v \in Vertices : scc_id[v] # Undecided} \ input.trimmed

(***************************************************************************)
(* view_stack gives active a capacity of local_n and push asserts it.  No  *)
(* vertex is on the stack twice, although it may be the target of many     *)
(* local edges and of several messages at once and is pushed by both       *)
(* phases, so a rank's stack never holds more than local_n.                *)
(***************************************************************************)
StackFits == \A v \in Vertices : active[v] <= 1

(***************************************************************************)
(* "l should be undecided as is_reached protects it": the backward handler *)
(* checks is_reached alone, so a bit that outlived its vertex's decision   *)
(* would decide the vertex a second time.  The counter the drivers compare *)
(* with n to stop depends on it: it counts every decided vertex once.      *)
(***************************************************************************)
ReachedProtectsUndecided ==
  /\ is_reached \subseteq is_undecided
  /\ is_undecided = {v \in Vertices : scc_id[v] = Undecided}
  /\ \A r \in Ranks :
       local_decided[r] = Cardinality({v \in Local(r) : scc_id[v] # Undecided})

(***************************************************************************)
(* No vertex outside the pivot's component is ever decided, in whatever    *)
(* order the ranks run and the messages of a round are consumed.           *)
(***************************************************************************)
OnlyPivotComponent == Found \subseteq SCC(edges, root)

(***************************************************************************)
(* When the ranks leave the search together the whole component of the     *)
(* pivot has been decided: no message was lost between an empty stack and  *)
(* the vote to stop, although vertices trimmed earlier are not crossed.    *)
(***************************************************************************)
WholePivotComponent == phase = "done" => Found = SCC(edges, root)

\* The search only adds to the labelling that earlier phases left, as the
\* abstract specification of a phase allows.
Labelling == INSTANCE SccLabelling
ImplementsLabelling == Labelling!Spec

(***************************************************************************)
(* Why the two properties above hold: what each loop keeps true.  In the   *)
(* forward search every edge from a reached vertex to an undecided one is  *)
(* followed, waits with its source on a stack, or is on its way as a       *)
(* message; in the backward search a reached vertex with an edge to a      *)
(* found one waits to be visited, or is asked by a message.                *)
(***************************************************************************)
Messages == send_buffer \cup recv_buffer

Asked(v) == \E m \in Messages : m[2] = v

ForwardInv ==
  /\ Found = {}
  /\ root \in is_reached
  /\ is_reached \subseteq Reach(edges, root)
  /\ \A v \in Vertices : active[v] > 0 => v \in is_reached
  /\ \A m \in Messages : m \in edges /\ m[1] \in is_reached
  /\ \A u \in is_reached, v \in is_undecided :
       <<u, v>> \in edges /\ active[u] = 0 => v \in is_reached \/ <<u, v>> \in Messages

BackwardInv ==
  /\ root \in Found
  /\ Found \subseteq SCC(edges, root)
  /\ SCC(edges, root) \subseteq Found \cup is_reached
  /\ is_reached \subseteq Reach(edges, root)
  /\ \A v \in Vertices : active[v] > 0 => v \in Found
  /\ \A m \in Messages : <<m[2], m[1]>> \in edges /\ m[1] \in Found
  /\ \A u \in Found, w \in is_reached :
       <<w, u>> \in edges /\ active[u] = 0 => Asked(w)

SearchInv ==
  /\ StackFits
  /\ ReachedProtectsUndecided
  /\ \A v \in Vertices : /\ v \in input.trimmed => scc_id[v] = v
                         /\ v \in Found => scc_id[v] = root
  /\ phase = "forward" => ForwardInv
  /\ phase # "forward" => BackwardInv
  /\ WholePivotComponent

\* Both loops end: every call returns on every rank.
Terminates == <>(phase = "done")
=============================================================================
