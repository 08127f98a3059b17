--------------------------- MODULE TrimExhaustive ---------------------------
(***************************************************************************)
(* The exhaustive trim (scc/trim_1_exhaustive.hpp) in the driver that uses *)
(* it, scc_trim_ex (scc/variant/scc_trim_ex.hpp): vertices without an      *)
(* undecided predecessor, then those without an undecided successor, are   *)
(* decided as components of their own; after that searches decide whole    *)
(* components and every search is followed by both trims again, which only *)
(* look at the neighbours of what the search decided.                      *)
(*                                                                         *)
(* All of this rests on two arrays of degrees that are counted once and    *)
(* decremented once per message, where there is a message for every edge   *)
(* (parallel edges and self-loops included) of every decided vertex.       *)
(*                                                                         *)
(* The searches between the trims (PivotSearch, LabelSearch) are one step  *)
(* per component here.  An edge of the multigraph is <<from, to, copy>>,   *)
(* and a message is the edge it was sent for (the code sends its target    *)
(* only).  The order in which a rank takes its messages is not fixed.      *)
(***************************************************************************)
EXTENDS ReachableSets

CONSTANTS Ranks,
          Undecided,
          Copies,       \* tells parallel edges apart
          Inputs        \* [arcs: the edges, owner]

ASSUME UndecidedAssumption == Undecided \notin Vertices

ASSUME InputsAssumption ==
  /\ IsFiniteSet(Copies)
  /\ Inputs \subseteq [arcs : SUBSET (Vertices \X Vertices \X Copies),
                       owner : [Vertices -> Ranks]]

VARIABLES
  input,           \* the multigraph and its partition; never changed
  pass,            \* where the ranks are, see Trimming
  todo,            \* vertices each_k has still to visit in a first pass
  is_undecided,
  degree,          \* degree.fw is indegree, degree.bw outdegree; 0: not stored
  send_buffer,     \* messages pushed since the last comm
  recv_buffer,     \* messages not yet consumed
  scc_id,
  local_decided,
  decided_stack    \* what the searches decided since the last trim

vars == <<input, pass, todo, is_undecided, degree, recv_buffer, send_buffer,
          scc_id, local_decided, decided_stack>>

Rank(v)  == input.owner[v]
Local(r) == {v \in Vertices : Rank(v) = r}
arcs     == input.arcs
edges    == {<<a[1], a[2]>> : a \in arcs}

\* Passes run forward and decrement indegrees, or backward and decrement
\* outdegrees.
Directions   == {"fw", "bw"}
Source(d, a) == IF d = "fw" THEN a[1] ELSE a[2]
Target(d, a) == IF d = "fw" THEN a[2] ELSE a[1]

\* The edges on which v has its degree, and g.indegree or g.outdegree.
Arcs(d, v)   == {a \in arcs : Target(d, a) = v}
Degree(d, v) == Cardinality(Arcs(d, v))

Trimming == [fw_first |-> "fw", bw_first |-> "bw", fw |-> "fw", bw |-> "bw"]

Init ==
  /\ input \in Inputs
  /\ pass = "fw_first"
  /\ todo = Vertices
  /\ is_undecided = Vertices
  /\ degree = [d \in Directions |-> [v \in Vertices |-> 0]]
  /\ recv_buffer = {}
  /\ send_buffer = {}
  /\ scc_id = [v \in Vertices |-> Undecided]
  /\ local_decided = [r \in Ranks |-> 0]
  /\ decided_stack = {}
-----------------------------------------------------------------------------
(* What decides a vertex, and what tells its neighbours                    *)

\* is_undecided.unset and on_decision, for a set that gets one id.
DecideAs(D, id) ==
  /\ is_undecided' = is_undecided \ D
  /\ scc_id' = [v \in Vertices |-> IF v \in D THEN id ELSE scc_id[v]]
  /\ local_decided' =
       [r \in Ranks |-> local_decided[r] + Cardinality(Local(r) \cap D)]

\* relaxed_push to all neighbours of the vertices of D: a neighbour on the
\* same rank goes into the buffer the rank itself reads.
Pushed(d, D)   == {a \in arcs : Source(d, a) \in D}
SameRank(a)    == Rank(a[1]) = Rank(a[2])

\* Mutant of Notify: neighbours on the same rank are not told.
NotifyRemote(d, D, recv) ==
  /\ recv_buffer' = recv
  /\ send_buffer' = send_buffer \cup {a \in Pushed(d, D) : ~SameRank(a)}

Notify(d, D, recv) ==
  /\ recv_buffer' = recv \cup {a \in Pushed(d, D) : SameRank(a)}
  /\ send_buffer' = send_buffer \cup {a \in Pushed(d, D) : ~SameRank(a)}
-----------------------------------------------------------------------------
(* One pass                                                                *)

\* The body of each_k in a first pass; the backward one skips what the
\* forward one has decided.
FirstVisit(k) ==
  /\ k \in todo
  /\ LET d == Trimming[pass]
         D == IF Degree(d, k) > 0 THEN {} ELSE {k}
     IN  /\ degree' = [degree EXCEPT ![d][k] = Degree(d, k)]
         /\ DecideAs(D, k)
         /\ Notify(d, D, recv_buffer)
  /\ todo' = todo \ {k}
  /\ UNCHANGED <<input, pass, decided_stack>>

\* Mutant of Message: one decided neighbour is enough to decide the vertex.
MessageDecides(a) ==
  /\ pass \in DOMAIN Trimming
  /\ LET d == Trimming[pass]
         u == Target(d, a)
     IN  /\ todo \cap Local(Rank(u)) = {}
         /\ DecideAs({u} \cap is_undecided, u)
         /\ Notify(d, {u} \cap is_undecided, recv_buffer \ {a})
  /\ UNCHANGED <<input, pass, todo, degree, decided_stack>>

\* The loop over front.next, once the rank has finished each_k.
Message(a) ==
  /\ pass \in DOMAIN Trimming
  /\ LET d    == Trimming[pass]
         u    == Target(d, a)
         left == degree[d][u] - 1
         D    == IF u \in is_undecided /\ left = 0 THEN {u} ELSE {}
     IN  /\ todo \cap Local(Rank(u)) = {}
         /\ degree' = IF u \in is_undecided
                      THEN [degree EXCEPT ![d][u] = left] ELSE degree
         /\ DecideAs(D, u)
         /\ Notify(d, D, recv_buffer \ {a})
  /\ UNCHANGED <<input, pass, todo, decided_stack>>

AllAtComm == pass \in DOMAIN Trimming /\ todo = {} /\ recv_buffer = {}

\* Mutant of Exchange: comm does not clear the send buffer.
ExchangeKeeping ==
  /\ AllAtComm
  /\ send_buffer # {}
  /\ recv_buffer' = send_buffer
  /\ UNCHANGED <<input, pass, todo, is_undecided, degree, send_buffer, scc_id,
                 local_decided, decided_stack>>

Exchange ==
  /\ AllAtComm
  /\ send_buffer # {}
  /\ recv_buffer' = send_buffer
  /\ send_buffer' = {}
  /\ UNCHANGED <<input, pass, todo, is_undecided, degree, scc_id,
                 local_decided, decided_stack>>

\* comm returned false: pass p is over on all ranks.
PassOver(p) == pass = p /\ AllAtComm /\ send_buffer = {}

\* allreduce_single of local_decided.
global_decided == SumOverRanks(local_decided)

SearchOrReturn ==
  pass' = IF global_decided = Cardinality(Vertices) THEN "done" ELSE "search"
-----------------------------------------------------------------------------
(* trim_1_exhaustive_first                                                 *)

FirstFwEnd ==
  /\ PassOver("fw_first")
  /\ pass' = "bw_first"
  /\ todo' = is_undecided
  /\ UNCHANGED <<input, is_undecided, degree, recv_buffer, send_buffer,
                 scc_id, local_decided, decided_stack>>

FirstBwEnd ==
  /\ PassOver("bw_first")
  /\ SearchOrReturn
  /\ UNCHANGED <<input, todo, is_undecided, degree, recv_buffer, send_buffer,
                 scc_id, local_decided, decided_stack>>
-----------------------------------------------------------------------------
(* The searches, and the trims after them                                  *)

\* forward_backward_search, or one of the components of a rot_label_search.
Search(root) ==
  /\ pass = "search"
  /\ root \in is_undecided
  /\ DecideAs(SCC(edges, root), root)
  /\ decided_stack' = decided_stack \cup SCC(edges, root)
  /\ UNCHANGED <<input, pass, todo, degree, recv_buffer, send_buffer>>

\* Return, or the first loop over decided_stack.
FwStart ==
  /\ pass = "search"
  /\ decided_stack # {}
  /\ IF global_decided = Cardinality(Vertices)
     THEN pass' = "done" /\ UNCHANGED <<recv_buffer, send_buffer>>
     ELSE pass' = "fw" /\ Notify("fw", decided_stack, recv_buffer)
  /\ UNCHANGED <<input, todo, is_undecided, degree, scc_id, local_decided,
                 decided_stack>>

\* The second loop over decided_stack.
BwStart ==
  /\ PassOver("fw")
  /\ pass' = "bw"
  /\ Notify("bw", decided_stack, recv_buffer)
  /\ UNCHANGED <<input, todo, is_undecided, degree, scc_id, local_decided,
                 decided_stack>>

\* Mutant of BwEnd: decided_stack is not cleared for the next search.
BwEndKeeping ==
  /\ PassOver("bw")
  /\ SearchOrReturn
  /\ UNCHANGED <<input, todo, is_undecided, degree, recv_buffer, send_buffer,
                 scc_id, local_decided, decided_stack>>

BwEnd ==
  /\ PassOver("bw")
  /\ decided_stack' = {}
  /\ SearchOrReturn
  /\ UNCHANGED <<input, todo, is_undecided, degree, recv_buffer, send_buffer,
                 scc_id, local_decided>>

Returned == pass = "done" /\ UNCHANGED vars

Next ==
  \/ \E v \in Vertices : FirstVisit(v) \/ Search(v)
  \/ \E a \in recv_buffer : Message(a)
  \/ Exchange
  \/ FirstFwEnd \/ FirstBwEnd
  \/ FwStart \/ BwStart \/ BwEnd
  \/ Returned

Spec == Init /\ [][Next]_vars

\* Ranks run on until they block in a collective, and a collective that all
\* ranks have entered completes.
FairSpec == Spec /\ WF_vars(Next)
-----------------------------------------------------------------------------
(* Properties                                                              *)

TypeOK ==
  /\ input \in Inputs
  /\ pass \in DOMAIN Trimming \cup {"search", "done"}
  /\ todo \in SUBSET Vertices
  /\ is_undecided \in SUBSET Vertices
  /\ degree \in [Directions -> [Vertices -> Nat]]
  /\ send_buffer \in SUBSET arcs
  /\ recv_buffer \in SUBSET arcs
  /\ scc_id \in [Vertices -> Vertices \cup {Undecided}]
  /\ local_decided \in [Ranks -> Nat]
  /\ decided_stack \in SUBSET Vertices

\* The undecided vertices whose degree in direction d has been stored.
Initialised(d) ==
  {v \in is_undecided : /\ pass = "fw_first" => d = "fw" /\ v \notin todo
                        /\ pass = "bw_first" /\ d = "bw" => v \notin todo}

\* Edges of decided vertices that the other end has still to hear of: as a
\* message under way or, before the pass has begun, from decided_stack.
Untold(d) ==
  IF pass \in DOMAIN Trimming /\ Trimming[pass] = d THEN send_buffer \cup recv_buffer
  ELSE IF pass = "search" \/ (pass = "fw" /\ d = "bw") THEN Pushed(d, decided_stack)
  ELSE {}

\* The edges that an exact degree of v counts.
Expected(d, v) ==
  {a \in Arcs(d, v) : Source(d, a) \in is_undecided \/ a \in Untold(d)}

(***************************************************************************)
(* The degrees of an undecided vertex are what the comment at the top of   *)
(* the file asks for, in the middle of every pass: the edges to undecided  *)
(* neighbours and those on which it has still to hear of a decided one.    *)
(* They are never 0 while the vertex is undecided, so --degree never       *)
(* wraps.  A pass need not tell the other array of what it trims: a vertex *)
(* without undecided predecessors is the successor of no undecided vertex. *)
(***************************************************************************)
DegreesExact ==
  \A d \in Directions : \A v \in Initialised(d) :
    /\ degree[d][v] > 0
    /\ degree[d][v] = Cardinality(Expected(d, v))

(***************************************************************************)
(* The trim is exhaustive in both directions at once, although the forward *)
(* pass is not repeated after the backward pass and the passes after a     *)
(* search start from the vertices that search decided alone.               *)
(***************************************************************************)
TrimExhausts ==
  pass = "search" /\ decided_stack = {} =>
    \A v \in is_undecided : /\ Succ(edges, v) \cap is_undecided # {}
                            /\ Pred(edges, v) \cap is_undecided # {}

(***************************************************************************)
(* A vertex is decided once and counted once, by the rank it is on.  The   *)
(* drivers stop when the sum of the counters is n: a vertex counted twice  *)
(* would make them return with another one undecided.                      *)
(***************************************************************************)
DecidedOnce ==
  /\ is_undecided = {v \in Vertices : scc_id[v] = Undecided}
  /\ \A r \in Ranks : local_decided[r] = Cardinality(Local(r) \ is_undecided)

\* A vertex whose degree is not stored yet has missed nothing: the degree it
\* will store, of all its edges, is exact.
NothingMissed ==
  \A d \in Directions : \A v \in is_undecided \ Initialised(d) : Expected(d, v) = Arcs(d, v)

\* A trimmed vertex is all of its component, so components stay whole.
ComponentsWhole == \A v \in is_undecided : SCC(edges, v) \subseteq is_undecided

\* What is left to do when the passes, and a pass and the searches, change
\* places.  Nobody is told of an undecided vertex, nor twice of a decided one.
PassesInOrder ==
  /\ todo \subseteq is_undecided
  /\ pass \notin {"fw_first", "bw_first"} => todo = {}
  /\ pass \in {"fw_first", "bw_first"} => decided_stack = {}
  /\ pass = "done" => is_undecided = {}
  /\ pass \notin DOMAIN Trimming => send_buffer = {} /\ recv_buffer = {}
  /\ send_buffer \cap recv_buffer = {}
  /\ decided_stack \cap is_undecided = {}
  /\ \A d \in Directions : \A a \in Untold(d) : Source(d, a) \notin is_undecided

\* What the arrays and counters keep to in the middle of every pass, and why:
\* the conjunction is inductive.
TrimInv == /\ TypeOK /\ DegreesExact /\ DecidedOnce
           /\ NothingMissed /\ ComponentsWhole /\ PassesInOrder

\* Every trim step decides one component, of a vertex without a self-loop,
\* and the driver as a whole computes the labelling.
Labelling == INSTANCE SccLabelling
ImplementsLabelling == Labelling!Spec

\* The driver returns, with every vertex decided.
Terminates == <>(pass = "done" /\ is_undecided = {})
=============================================================================
