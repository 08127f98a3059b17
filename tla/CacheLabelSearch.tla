-------------------------- MODULE CacheLabelSearch --------------------------
(***************************************************************************)
(* cache_label_search (scc/cache_multi_pivot_search.hpp): LabelSearch in   *)
(* which every rank remembers labels of vertices of other ranks.           *)
(*                                                                         *)
(* The label noted for a vertex is the smallest one that was sent to it or *)
(* came from it in this round.  Forward, a label is not sent to where a    *)
(* smaller one is known.  Backward, a label is sent only to vertices that  *)
(* are known to have it: unlike forward that needs the note to be exact.   *)
(* That is why forward an equal label is sent, and sent to the vertex      *)
(* whose own label it is.                                                  *)
(*                                                                         *)
(* cache is a hash_map; here a function from the vertices that are noted.  *)
(* A rank pushes what has changed one vertex at a time, because what it    *)
(* sends for one decides what it sends for the next.  Messages are         *)
(* <<from, to, label>> as in LabelSearch.                                  *)
(***************************************************************************)
EXTENDS LabelSearch

VARIABLE cache      \* per rank, labels of vertices of other ranks

cacheVars == <<vars, cache>>

Noted(r, v) == v \in DOMAIN cache[r]

NoCache == [r \in Ranks |-> <<>>]

CacheInit == Init /\ cache = NoCache

\* Mutant of Accepts: an equal label does not count.
AcceptsLess(r, v, l) == Noted(r, v) => l < cache[r][v]

\* The test of update_min_cache.
Accepts(r, v, l) == Noted(r, v) => l <= cache[r][v]

\* update_min_cache, for a set of vertices.
Note(r, T, l) ==
  LET noted == {v \in T : Accepts(r, v, l)}
  IN  cache' = [cache EXCEPT ![r] = [v \in DOMAIN cache[r] \cup noted |->
                                       IF v \in noted THEN l ELSE cache[r][v]]]

\* cache.get_default(v, map(v)).
Guess(r, v) == IF Noted(r, v) THEN cache[r][v] ELSE map[v]

RemoteNeighbours(u) == Neighbours(u) \ Local(Rank(u))

\* The rank of u has drained its stack and runs has_changed.each.
MayPush(u) ==
  /\ u \in has_changed
  /\ \A v \in Local(Rank(u)) : active[v] = 0
  /\ \A m \in recv_buffer : Rank(m[2]) # Rank(u)

PushTo(u, T) ==
  /\ send_buffer' = send_buffer \cup ({u} \X T \X {label[u]})
  /\ has_changed' = has_changed \ {u}
  /\ UNCHANGED <<input, map, phase, label, active, in_active, is_undecided,
                 recv_buffer, scc_id, local_decided>>

CacheFwPush(u) ==
  /\ phase = "forward"
  /\ MayPush(u)
  /\ LET told == {v \in RemoteNeighbours(u) :
                    label[u] <= map[v] /\ Accepts(Rank(u), v, label[u])}
     IN  /\ PushTo(u, told)
         /\ Note(Rank(u), told, label[u])

\* on_extern_fw_message.
CacheFwReceive(m) ==
  /\ FwReceive(m)
  /\ Note(Rank(m[2]), {m[1]}, m[3])

CacheBwPush(u) ==
  /\ phase = "backward"
  /\ MayPush(u)
  /\ PushTo(u, {v \in RemoteNeighbours(u) :
                  label[u] < map[v] /\ label[u] = Guess(Rank(u), v)})
  /\ UNCHANGED cache

\* Mutant of CacheBwEnd: the cache survives the round.
CacheBwEndKeeping == BwEnd /\ UNCHANGED cache

\* The driver clears the cache before it calls the search again.
CacheBwEnd == BwEnd /\ cache' = NoCache

CacheNext ==
  \/ \E u \in Vertices : (FwDrain(u) \/ BwDrain(u)) /\ UNCHANGED cache
  \/ \E u \in Vertices : CacheFwPush(u) \/ CacheBwPush(u)
  \/ \E m \in recv_buffer : CacheFwReceive(m) \/ (BwReceive(m) /\ UNCHANGED cache)
  \/ (Begin \/ Exchange \/ FwEnd \/ Returned) /\ UNCHANGED cache
  \/ CacheBwEnd

CacheSpec == CacheInit /\ [][CacheNext]_cacheVars
-----------------------------------------------------------------------------
(* Properties; those of LabelSearch are checked of this search as well.    *)

\* Types of the state; a rank notes vertices of other ranks only.
CacheTypeOK ==
  /\ TypeOK
  /\ DOMAIN cache = Ranks
  /\ \A r \in Ranks : \A v \in DOMAIN cache[r] :
       v \in Vertices \ Local(r) /\ cache[r][v] \in Nat

(***************************************************************************)
(* Not sending to a vertex where a smaller label is noted is right because *)
(* no rank is ahead of the truth: an undecided vertex has the label noted  *)
(* anywhere for it, or a smaller one, or is about to be told.              *)
(***************************************************************************)
Told(v, l) == \E m \in send_buffer \cup recv_buffer : m[2] = v /\ m[3] <= l

NobodyAhead ==
  phase = "forward" =>
    \A r \in Ranks : \A v \in DOMAIN cache[r] \cap is_undecided :
      label[v] <= cache[r][v] \/ Told(v, cache[r][v])

(***************************************************************************)
(* When the backward search starts, a rank has noted exactly the label of  *)
(* each predecessor elsewhere that shares it with one of its own vertices, *)
(* so that asking the cache cuts no component.                             *)
(***************************************************************************)
PeersNoted ==
  PhaseOver("forward") =>
    \A e \in UndecidedEdges :
      Rank(e[1]) # Rank(e[2]) /\ label[e[1]] = label[e[2]]
        => Noted(Rank(e[2]), e[1]) /\ cache[Rank(e[2])][e[1]] = label[e[1]]
=============================================================================
