---------------------------- MODULE LabelSearches ----------------------------
(***************************************************************************)
(* The label searches a driver can repeat: the one without a cache         *)
(* (LabelSearch), the one that pushes labels and remembers which           *)
(* (CacheLabelSearch), and the one that pulls them (PullLabelSearch).      *)
(* All start from the same state and end in the same labelling.            *)
(***************************************************************************)
EXTENDS PullLabelSearch

VARIABLE search     \* "plain", "push" or "pull"; never changed

searchVars == <<cacheVars, search>>

EitherInit == CacheInit /\ search \in {"plain", "push", "pull"}

EitherNext ==
  /\ \/ search = "plain" /\ Next /\ UNCHANGED cache
     \/ search = "push" /\ CacheNext
     \/ search = "pull" /\ PullNext
  /\ UNCHANGED search

EitherSpec == EitherInit /\ [][EitherNext]_searchVars

\* As in LabelSearch: ranks run until they block in a collective.
EitherFairSpec == EitherSpec /\ WF_searchVars(EitherNext)
-----------------------------------------------------------------------------
(* Why the searches are right: what each loop keeps true, of the vertices  *)
(* S that were undecided when the round began.                             *)

Within(S) == edges \cap (S \X S)

\* l is the label that a vertex of S began with, and can have got to v ...
Genuine(S, l, v) == \E u \in S : l = map[u] /\ v \in Reach(Within(S), u)

\* ... or, pulled, across vertices that were decided before.
Reaching(S, l, v) == \E u \in S : l = map[u] /\ v \in Reach(edges, u)

\* What the rounds before decided: whole components, each under one id.
EarlierRounds(S) ==
  \A u \in Vertices \ S :
    /\ SCC(edges, u) \cap S = {}
    /\ scc_id[u] \in SCC(edges, u)
    /\ \A v \in SCC(edges, u) : scc_id[v] = scc_id[u]

Messages == send_buffer \cup recv_buffer

\* x has still to tell its neighbour y, which it tells at once if both are on
\* the same rank.
Waits(x, y) == x \in in_active \/ (Rank(x) # Rank(y) /\ x \in has_changed)

\* Labels only go down, to labels of vertices that reach this one; where the
\* label of an edge's target is still too large, somebody waits to lower it.
ForwardInv ==
  /\ EarlierRounds(is_undecided)
  /\ has_changed \subseteq is_undecided
  /\ \A v \in is_undecided : Genuine(is_undecided, label[v], v) /\ label[v] <= map[v]
  /\ \A m \in Messages :
       /\ m[1] \in is_undecided /\ <<m[1], m[2]>> \in edges /\ Rank(m[1]) # Rank(m[2])
       /\ label[m[1]] <= m[3] /\ Genuine(is_undecided, m[3], m[1])
  /\ \A e \in UndecidedEdges :
       label[e[2]] <= label[e[1]] \/ Waits(e[1], e[2]) \/ Told(e[2], label[e[1]])

\* The rank of y will have noted the label of x, unless one of them changes.
WillBeNoted(x, y) ==
  \/ x \in has_changed
  \/ label[x] > map[y] \/ label[y] < label[x]
  \/ \E m \in Messages : m[2] = y /\ m[3] < label[x]
  \/ <<x, y, label[x]>> \in Messages
  \/ Noted(Rank(y), x) /\ cache[Rank(y)][x] <= label[x]

PeersWillBeNoted ==
  \A e \in UndecidedEdges : Rank(e[1]) # Rank(e[2]) => WillBeNoted(e[1], e[2])

\* Where labels are pulled: y has a label of at most l, or will have; it is told
\* one, will look at one, or has not been woken for one because less is noted
\* for a neighbour, whose own label will be that and then get to y.
Due(y, l) ==
  \/ label[y] <= l
  \/ Told(y, l)
  \/ \E x \in Pred(edges, y) \cap DOMAIN cache[Rank(y)] :
       \/ y \in in_active /\ cache[Rank(y)][x] <= l
       \/ x \in is_undecided /\ cache[Rank(y)][x] < l

\* The rank of y will have noted the label of x, unless one of them changes.
WillBeHeard(x, y) ==
  \/ x \in has_changed
  \/ Due(y, label[x] - 1)
  \/ <<x, y, label[x]>> \in Messages
  \/ Noted(Rank(y), x) /\ cache[Rank(y)][x] <= label[x]

PullForwardInv ==
  /\ EarlierRounds(is_undecided)
  /\ has_changed \subseteq is_undecided
  /\ \A v \in is_undecided :
       label[v] \in Nat /\ label[v] <= map[v] /\ Reaching(is_undecided, label[v], v)
  /\ \A v \in Vertices \ is_undecided : label[v] = Undecided
  /\ \A m \in Messages :
       /\ m[1] \in is_undecided /\ <<m[1], m[2]>> \in edges /\ Rank(m[1]) # Rank(m[2])
       /\ label[m[1]] <= m[3] /\ Reaching(is_undecided, m[3], m[1])
  /\ \A r \in Ranks : \A v \in DOMAIN cache[r] :
       /\ Reaching(is_undecided, cache[r][v], v)
       /\ v \in is_undecided => Due(v, cache[r][v])
  /\ \A e \in UndecidedEdges :
       IF Rank(e[1]) = Rank(e[2])
       THEN label[e[2]] <= label[e[1]] \/ e[2] \in in_active
       ELSE /\ e[1] \in has_changed \/ Due(e[2], label[e[1]])
            /\ WillBeHeard(e[1], e[2])

\* The decided vertex y has still to ask its neighbour x, or, where labels are
\* pulled, x to look at a neighbour on its rank.
WillAsk(y, x) ==
  IF Rank(x) # Rank(y) THEN y \in has_changed
  ELSE IF search = "pull" THEN x \in in_active ELSE y \in in_active

\* A decided vertex has the id of the vertex its label is of, which is of its
\* component; where an edge to it comes from an undecided vertex with the same
\* label, somebody waits to ask that vertex.
BackwardInv(S) ==
  /\ is_undecided \subseteq S
  /\ has_changed \subseteq S \ is_undecided
  /\ \A v \in S : label[v] \in Nat /\ label[v] <= map[v] /\ Reaching(S, label[v], v)
  /\ \A v \in is_undecided : label[v] # map[v]
  /\ \A v \in Vertices \ S : search = "pull" => label[v] = Undecided
  /\ \A e \in Within(S) : label[e[2]] <= label[e[1]]
  /\ \A v \in S \ is_undecided : label[v] = map[scc_id[v]] /\ scc_id[v] \in SCC(edges, v)
  /\ EarlierRounds(S)
  /\ \A m \in Messages :
       /\ m[1] \in S \ is_undecided /\ <<m[2], m[1]>> \in edges /\ Rank(m[1]) # Rank(m[2])
       /\ m[3] = label[m[1]]
  /\ \A x \in is_undecided : \A y \in S \ is_undecided :
       <<x, y>> \in edges /\ label[x] = label[y] =>
         WillAsk(y, x) \/ \E m \in Messages : m[2] = x /\ m[3] = label[x]
  /\ search # "plain" => \A e \in Within(S) :
       Rank(e[1]) # Rank(e[2]) /\ label[e[1]] = label[e[2]]
         => Noted(Rank(e[2]), e[1]) /\ cache[Rank(e[2])][e[1]] = label[e[1]]

EitherTypeOK ==
  /\ search \in {"plain", "push", "pull"}
  /\ IF search = "pull" THEN PullTypeOK ELSE CacheTypeOK /\ StacksAgree
-----------------------------------------------------------------------------
(***************************************************************************)
(* What stacks, counters and cache keep to in every step.  Pushing, a      *)
(* label too large is lowered by somebody who waits, and no rank notes     *)
(* less than the owner knows or will be told; pulling, a vertex is         *)
(* forgotten only while there is still somebody to wake it, or a smaller   *)
(* label under way to it.                                                  *)
(***************************************************************************)
EitherInv ==
  /\ EitherTypeOK
  /\ DecidedOnce
  /\ search = "plain" \/ phase = "call" => cache = NoCache
  /\ phase \in {"call", "forward"} => is_undecided # {}
  /\ phase = "done" => is_undecided = {}
  /\ phase \in {"call", "done"} =>
       EarlierRounds(is_undecided) /\ Messages = {} /\ has_changed = {}
  /\ phase = "forward" =>
       IF search = "pull" THEN PullForwardInv
       ELSE ForwardInv /\ NobodyAhead /\ (search = "push" => PeersWillBeNoted)
  /\ phase = "backward" => \E S \in SUBSET Vertices : BackwardInv(S)

\* Pushed labels are minimal when the ranks agree to stop (LabelSearch).
PushedLabelsAreMinimal == search # "pull" => LabelsAreMinimal

\* With either cache the backward search misses no peer (CacheLabelSearch).
CachedPeersNoted == search # "plain" => PeersNoted
=============================================================================
