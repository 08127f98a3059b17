-------------------------- MODULE CachePivotSearch --------------------------
(***************************************************************************)
(* cache_forward_backward_search (scc/cache_pivot_search.hpp): the search  *)
(* of PivotSearch, in which every rank remembers vertices of other ranks   *)
(* so that it need not send to all of them in the backward search.         *)
(*                                                                         *)
(* Forward, a rank notes the vertices it sends to and the vertices it      *)
(* hears from.  So when the backward search begins it has noted at least   *)
(* the reached ones among the predecessors of its vertices.  Backward, it  *)
(* sends to noted vertices only, once, and strikes out what it has sent to *)
(* and what it hears from.                                                 *)
(*                                                                         *)
(* cache is a hash_set; here the set of its valid keys.  The messages are  *)
(* those of PivotSearch, and here the code sends both ends of the edge.    *)
(***************************************************************************)
EXTENDS PivotSearch

VARIABLE cache      \* per rank, vertices of other ranks

cacheVars == <<vars, cache>>

CacheInit == Init /\ cache = [r \in Ranks |-> {}]

Remote(T, u) == {v \in T : Rank(v) # Rank(u)}

\* cache.try_insert, for a set of vertices.
Insert(r, T) == cache' = [cache EXCEPT ![r] = @ \cup T]

\* Mutant of Invalidate: the first thing struck out empties the cache.
InvalidateAll(r, T) == cache' = [cache EXCEPT ![r] = IF T = {} THEN @ ELSE {}]

\* cache.try_invalidate, for a set of vertices.
Invalidate(r, T) == cache' = [cache EXCEPT ![r] = @ \ T]

CacheFwDrain(u) ==
  /\ FwDrain(u)
  /\ Insert(Rank(u), Remote(Succ(edges, u), u))

\* Mutant of CacheFwReceive: the sender is not noted.
CacheFwReceiveTarget(m) ==
  /\ FwReceive(m)
  /\ UNCHANGED cache

\* on_extern_fw_message.
CacheFwReceive(m) ==
  /\ FwReceive(m)
  /\ Insert(Rank(m[2]), {m[1]})

CacheBwDrain(u) ==
  /\ phase = "backward"
  /\ MayDrain(u)
  /\ LET local == Pred(edges, u) \cap Local(Rank(u))
         noted == Remote(Pred(edges, u), u) \cap cache[Rank(u)]
     IN  /\ DecideAll(BwFresh(local))
         /\ active' = PopPush(u, BwFresh(local))
         /\ send_buffer' = send_buffer \cup ({u} \X noted)
         /\ Invalidate(Rank(u), noted)
  /\ UNCHANGED <<input, phase, recv_buffer>>

\* on_extern_bw_message.
CacheBwReceive(m) ==
  /\ BwReceive(m)
  /\ Invalidate(Rank(m[2]), {m[1]})

CacheNext ==
  \/ \E u \in Vertices : CacheFwDrain(u) \/ CacheBwDrain(u)
  \/ \E m \in recv_buffer : CacheFwReceive(m) \/ CacheBwReceive(m)
  \/ (Exchange \/ FwEnd \/ BwEnd \/ Returned) /\ UNCHANGED cache

CacheSpec == CacheInit /\ [][CacheNext]_cacheVars
-----------------------------------------------------------------------------
(* Properties; those of PivotSearch are checked of this search as well.    *)

\* Types of the state; a rank never notes a vertex of its own, nor asks one.
CacheTypeOK ==
  /\ TypeOK
  /\ cache \in [Ranks -> SUBSET Vertices]
  /\ \A r \in Ranks : cache[r] \cap Local(r) = {}
  /\ \A m \in Messages : Rank(m[1]) # Rank(m[2])

(***************************************************************************)
(* The backward search may trust the cache: a reached vertex with an edge  *)
(* to a vertex of another rank is noted there, or a message that decides   *)
(* it is on its way, whoever sent it.  In the forward search the message   *)
(* that makes the other rank note it may still be outstanding.             *)
(***************************************************************************)
CacheCoversReached ==
  \A w \in is_reached : \A u \in Remote(Succ(edges, w), w) :
    \/ w \in cache[Rank(u)]
    \/ phase = "forward" /\ (active[w] > 0 \/ <<w, u>> \in Messages)
    \/ phase = "backward" /\ Asked(w)
    \/ phase = "done"

(***************************************************************************)
(* What the cache is for: while backward messages are under way no two of  *)
(* them go from one rank to one vertex, and the sender will not send to    *)
(* that vertex again.                                                      *)
(***************************************************************************)
AskedOnce ==
  phase = "backward" =>
    \A m, o \in Messages :
      /\ m[2] \notin cache[Rank(m[1])]
      /\ m[2] = o[2] /\ Rank(m[1]) = Rank(o[1]) => m = o

\* What the cache and the messages keep to, in both searches.
CacheInv == CacheTypeOK /\ CacheCoversReached /\ AskedOnce
-----------------------------------------------------------------------------
(* Either search: the one that sends a message for every edge to another   *)
(* rank (PivotSearch) and the one above.  Which of them a driver calls is  *)
(* fixed when it is built; both start from the same state and have the     *)
(* same properties, so they are checked together.                          *)

VARIABLE search     \* "plain" or "cached"; never changed

searchVars == <<cacheVars, search>>

EitherInit == CacheInit /\ search \in {"plain", "cached"}

EitherNext ==
  /\ \/ search = "plain" /\ Next /\ UNCHANGED cache
     \/ search = "cached" /\ CacheNext
  /\ UNCHANGED search

EitherSpec == EitherInit /\ [][EitherNext]_searchVars

\* As in PivotSearch: ranks run until they block in a collective.
EitherFairSpec == EitherSpec /\ WF_searchVars(EitherNext)
-----------------------------------------------------------------------------
(***************************************************************************)
(* The cache of the search that has one covers the reached vertices, and   *)
(* keeps a rank from asking a vertex twice.                                *)
(***************************************************************************)
CachedInv == search = "cached" => CacheInv
=============================================================================
