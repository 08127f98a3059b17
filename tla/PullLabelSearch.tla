--------------------------- MODULE PullLabelSearch ---------------------------
(***************************************************************************)
(* cache_label_search_pull (scc/cache_multi_pivot_search_pull.hpp), the    *)
(* label search that the main driver (scc/scc.hpp) repeats.                *)
(*                                                                         *)
(* A vertex on the stack does not hand its label on; it looks at the       *)
(* labels of its predecessors, of those on other ranks in the cache, and   *)
(* when its own changes it wakes its successors on the same rank.  A       *)
(* message therefore changes the cache only, and wakes the vertex it is    *)
(* for.  Likewise backward: a vertex that is woken looks for a decided     *)
(* successor with its label.                                               *)
(*                                                                         *)
(* The cache has a second use here: what is noted for a vertex because it  *)
(* was sent there is taken for its label.  Of a vertex decided in an       *)
(* earlier round that is wrong, so labels can get across such vertices.    *)
(***************************************************************************)
EXTENDS CacheLabelSearch

SameRank(T, u) == {v \in T : Rank(v) = Rank(u)}

\* in_active.set and active.push for the vertices of S that are not active;
\* drained is the vertex popped for it, or none.
Wake(S, drained) ==
  /\ in_active' = (in_active \cup S) \ drained
  /\ active' = [v \in Vertices |-> active[v] + (IF v \in S \ in_active THEN 1 ELSE 0)
                                             - (IF v \in drained THEN 1 ELSE 0)]

\* A vertex decided while it was on the stack is popped and no more.
Skip(u) ==
  /\ phase \in {"forward", "backward"}
  /\ MayDrain(u)
  /\ u \notin is_undecided
  /\ Wake({}, {u})
  /\ UNCHANGED <<input, map, phase, label, has_changed, is_undecided,
                 send_buffer, recv_buffer, scc_id, local_decided, cache>>
-----------------------------------------------------------------------------
(* Forward search                                                          *)

\* Decided vertices get scc_id_undecided for a label, which is no label.
PullBegin ==
  /\ phase = "call"
  /\ phase' = "forward"
  /\ label' = [v \in Vertices |-> IF v \in is_undecided THEN map[v] ELSE Undecided]
  /\ in_active' = is_undecided
  /\ has_changed' = is_undecided
  /\ active' = [v \in Vertices |-> IF v \in is_undecided THEN 1 ELSE 0]
  /\ UNCHANGED <<input, map, is_undecided, send_buffer, recv_buffer, scc_id,
                 local_decided, cache>>

\* Mutant of Pulled: the cache is not looked at.
PulledLocal(u) ==
  {label[u]} \cup {label[v] : v \in SameRank(Pred(edges, u), u) \cap is_undecided}

\* The labels u can have: its own, those of its predecessors.
Pulled(u) ==
  {label[u]} \cup {label[v] : v \in SameRank(Pred(edges, u), u) \cap is_undecided}
             \cup {cache[Rank(u)][v] : v \in Pred(edges, u) \cap DOMAIN cache[Rank(u)]}

PullFwDrain(u) ==
  /\ phase = "forward"
  /\ MayDrain(u)
  /\ u \in is_undecided
  /\ LET least   == Min(Pulled(u))
         changed == {u} \cap {v \in Vertices : least < label[u]}
     IN  /\ label' = [label EXCEPT ![u] = least]
         /\ has_changed' = has_changed \cup changed
         /\ Wake(UNION {SameRank(Succ(edges, v), v) \cap is_undecided : v \in changed}, {u})
  /\ UNCHANGED <<input, map, phase, is_undecided, send_buffer, recv_buffer,
                 scc_id, local_decided, cache>>

\* on_extern_fw_message.
PullFwReceive(m) ==
  /\ phase = "forward"
  /\ Wake({v \in {m[2]} \cap is_undecided : Accepts(Rank(v), m[1], m[3])}, {})
  /\ Note(Rank(m[2]), {m[1]}, m[3])
  /\ recv_buffer' = recv_buffer \ {m}
  /\ UNCHANGED <<input, map, phase, label, has_changed, is_undecided,
                 send_buffer, scc_id, local_decided>>
-----------------------------------------------------------------------------
(* Backward search                                                         *)

\* Mutant of DecideAndWake: the predecessors are left to the messages.
DecideOnly(D, drained) ==
  /\ DecideAll(D)
  /\ Wake({}, drained)

\* is_undecided.unset, on_decision and has_changed.set for the vertices of D;
\* their undecided predecessors on the same rank are woken.
DecideAndWake(D, drained) ==
  /\ DecideAll(D)
  /\ Wake(UNION {SameRank(Pred(edges, u), u) \cap (is_undecided \ D) : u \in D}, drained)

PullFwEnd ==
  /\ PhaseOver("forward")
  /\ phase' = "backward"
  /\ LET roots == {v \in is_undecided : label[v] = map[v]}
     IN  /\ DecideAndWake(roots, {})
         /\ has_changed' = roots
  /\ UNCHANGED <<input, map, label, send_buffer, recv_buffer, cache>>

PullBwDrain(u) ==
  /\ phase = "backward"
  /\ MayDrain(u)
  /\ u \in is_undecided
  /\ LET reached == \E v \in SameRank(Succ(edges, u), u) \ is_undecided : label[v] = label[u]
         D       == IF reached THEN {u} ELSE {}
     IN  /\ DecideAndWake(D, {u})
         /\ has_changed' = has_changed \cup D
  /\ UNCHANGED <<input, map, phase, label, send_buffer, recv_buffer, cache>>

\* on_bw_message.
PullBwReceive(m) ==
  /\ phase = "backward"
  /\ LET D == SameLabel({m[2]}, m[3])
     IN  /\ DecideAndWake(D, {})
         /\ has_changed' = has_changed \cup D
  /\ recv_buffer' = recv_buffer \ {m}
  /\ UNCHANGED <<input, map, phase, label, send_buffer, cache>>

PullNext ==
  \/ PullBegin
  \/ \E u \in Vertices : Skip(u) \/ PullFwDrain(u) \/ PullBwDrain(u)
                         \/ CacheFwPush(u) \/ CacheBwPush(u)
  \/ \E m \in recv_buffer : PullFwReceive(m) \/ PullBwReceive(m)
  \/ PullFwEnd \/ CacheBwEnd
  \/ (Exchange \/ Returned) /\ UNCHANGED cache

PullSpec == CacheInit /\ [][PullNext]_cacheVars
-----------------------------------------------------------------------------
(* Properties                                                              *)

PullTypeOK ==
  /\ input \in Inputs
  /\ map \in Maps
  /\ phase \in {"call", "forward", "backward", "done"}
  /\ label \in [Vertices -> Nat \cup {Undecided}]
  /\ active \in [Vertices -> {0, 1}]
  /\ in_active = {v \in Vertices : active[v] = 1}
  /\ has_changed \in SUBSET Vertices
  /\ is_undecided \in SUBSET Vertices
  /\ send_buffer \in SUBSET (Vertices \X Vertices \X Nat)
  /\ recv_buffer \in SUBSET (Vertices \X Vertices \X Nat)
  /\ scc_id \in [Vertices -> Vertices \cup {Undecided}]
  /\ local_decided \in [Ranks -> Nat]
  /\ DOMAIN cache = Ranks
  /\ \A r \in Ranks : \A v \in DOMAIN cache[r] :
       v \in Vertices \ Local(r) /\ cache[r][v] \in Nat

(***************************************************************************)
(* What the forward search computes instead of the smallest label along    *)
(* undecided paths: no undecided edge is left on which a label could still *)
(* go down, and every label comes from an undecided vertex that reaches    *)
(* this one, though perhaps across decided ones.                           *)
(***************************************************************************)
LabelsSettle ==
  PhaseOver("forward") =>
    /\ \A e \in UndecidedEdges : label[e[2]] <= label[e[1]]
    /\ \A v \in is_undecided : \E u \in is_undecided :
         label[v] = map[u] /\ v \in Reach(edges, u)
=============================================================================
