-------------------------- MODULE LabelSearchesProofs --------------------------
(* Proofs about the label searches, for every graph, every partition, any  *)
(* number of ranks and any relabelling.  First comes what they share, then *)
(* the steps of the searches that push labels, LabelSearch and             *)
(* CacheLabelSearch, and of PullLabelSearch, which the main driver         *)
(* repeats.  All keep EitherInv, so that labels are minimal or at least    *)
(* settled when the forward search stops, the caches are exact by then,    *)
(* rounds decide whole components and the searches implement the abstract  *)
(* labelling.                                                              *)
EXTENDS LabelSearches, ReachableSetsProofs

\* What the type invariant says of the current input.
LEMMA InputFacts ==
  ASSUME input \in Inputs
  PROVE  /\ edges \in SUBSET (Vertices \X Vertices)
         /\ \A v \in Vertices : Rank(v) \in Ranks
         /\ input.decided \in SUBSET Vertices /\ input.decided # Vertices
         /\ \A v \in input.decided : SCC(edges, v) \subseteq input.decided
<1>1. input \in [edges : Graphs, owner : [Vertices -> Ranks], decided : SUBSET Vertices]
  BY InputsAssumption
<1>2. input.decided # Vertices
      /\ \A v \in input.decided : SCC(input.edges, v) \subseteq input.decided
  BY InputsAssumption
<1> QED BY <1>1, <1>2 DEF edges, Rank, Graphs

\* A relabelling gives every vertex a label of its own, which unmap takes back.
LEMMA MapFacts ==
  ASSUME map \in Maps
  PROVE  /\ map \in [Vertices -> Nat]
         /\ \A u, v \in Vertices : map[u] = map[v] => u = v
         /\ \A v \in Vertices : unmap(map[v]) = v
<1>1. map \in [Vertices -> Nat] /\ \A u, v \in Vertices : map[u] = map[v] => u = v
  BY MapsAssumption
<1>2. ASSUME NEW v \in Vertices PROVE unmap(map[v]) = v
  BY <1>1 DEF unmap
<1> QED BY <1>1, <1>2

\* The label of v is one that w, behind it, can have too.
LEMMA GenuineStep ==
  ASSUME input \in Inputs, NEW S \in SUBSET Vertices, NEW l, NEW v \in S, NEW w \in S,
         Genuine(S, l, v), <<v, w>> \in edges
  PROVE  Genuine(S, l, w)
<1>1. <<v, w>> \in Within(S)
  BY DEF Within
<1>2. PICK u \in S : l = map[u] /\ v \in Reach(Within(S), u)
  BY DEF Genuine
<1>3. w \in Reach(Within(S), u)
  BY <1>1, <1>2, ReachStep
<1> QED BY <1>2, <1>3 DEF Genuine

\* Whose label v has, that reaches v.
LEMMA GenuineReach ==
  ASSUME map \in Maps, NEW S \in SUBSET Vertices, NEW r \in Vertices, NEW v \in Vertices,
         Genuine(S, map[r], v)
  PROVE  r \in S /\ v \in Reach(edges, r)
<1>1. PICK u \in S : map[r] = map[u] /\ v \in Reach(Within(S), u)
  BY DEF Genuine
<1>2. u = r
  BY <1>1, MapFacts
<1>3. ASSUME NEW C \in SUBSET Vertices, r \in C, IsClosed(edges, C) PROVE v \in C
  <2>1. IsClosed(Within(S), C)
    BY <1>3 DEF IsClosed, Within
  <2> QED BY <1>1, <1>2, <1>3, <2>1 DEF Reach
<1> QED BY <1>1, <1>2, <1>3 DEF Reach

\* What gets to v over vertices of S reaches it.
LEMMA GenuineIsReaching ==
  ASSUME NEW S \in SUBSET Vertices, NEW l, NEW v, Genuine(S, l, v)
  PROVE  Reaching(S, l, v)
<1>1. PICK u \in S : l = map[u] /\ v \in Reach(Within(S), u)
  BY DEF Genuine
<1>2. v \in Reach(edges, u)
  BY <1>1 DEF Reach, IsClosed, Within
<1> QED BY <1>1, <1>2 DEF Reaching

\* A vertex has a label of its own.
LEMMA GenuineOwn ==
  ASSUME NEW S \in SUBSET Vertices, NEW v \in S
  PROVE  Genuine(S, map[v], v)
BY ReachSelf DEF Genuine

\* Within one component labels that never go up along an edge are equal.
LEMMA PeersShareLabels ==
  ASSUME input \in Inputs, NEW S \in SUBSET Vertices, \A v \in S : label[v] \in Nat,
         \A e \in Within(S) : label[e[2]] <= label[e[1]],
         NEW x \in S, SCC(edges, x) \subseteq S, NEW y \in SCC(edges, x)
  PROVE  label[y] <= label[x]
<1>1. NeverRise(edges, S, label)
  BY DEF NeverRise, Within
<1> QED BY <1>1, PeersShareNumbers

-----------------------------------------------------------------------------
(* What the steps do to the stacks, the counters and the caches            *)

\* What the definitions that only depend on the input stand for, and on the
\* relabelling of the round.
LEMMA InputUnchanged ==
  ASSUME input' = input
  PROVE  /\ edges' = edges
         /\ \A v : Rank(v)' = Rank(v)
         /\ \A r : Local(r)' = Local(r)
         /\ \A S : Within(S)' = Within(S)
         /\ map' = map => \A S, l, v : Genuine(S, l, v)' = Genuine(S, l, v)
         /\ map' = map => \A S, l, v : Reaching(S, l, v)' = Reaching(S, l, v)
BY DEF edges, Rank, Local, Within, Genuine, Reaching

\* The types of the state, whichever search runs.
LEMMA SharedTypes ==
  ASSUME EitherTypeOK
  PROVE  /\ input \in Inputs /\ map \in Maps /\ map \in [Vertices -> Nat]
         /\ edges \in SUBSET (Vertices \X Vertices)
         /\ \A v \in Vertices : Rank(v) \in Ranks
         /\ phase \in {"call", "forward", "backward", "done"}
         /\ is_undecided \in SUBSET Vertices
         /\ in_active \in SUBSET Vertices /\ has_changed \in SUBSET Vertices
         /\ \A v \in Vertices : active[v] = (IF v \in in_active THEN 1 ELSE 0)
         /\ send_buffer \in SUBSET (Vertices \X Vertices \X Nat)
         /\ recv_buffer \in SUBSET (Vertices \X Vertices \X Nat)
         /\ scc_id \in [Vertices -> Vertices \cup {Undecided}]
         /\ local_decided \in [Ranks -> Nat]
         /\ DOMAIN cache = Ranks
         /\ \A r \in Ranks : \A v \in DOMAIN cache[r] :
              v \in Vertices \ Local(r) /\ cache[r][v] \in Nat
<1>1. CASE search = "pull"
  <2>1. PullTypeOK
    BY <1>1 DEF EitherTypeOK
  <2>2. \A v \in Vertices : active[v] = (IF v \in in_active THEN 1 ELSE 0)
    BY <2>1 DEF PullTypeOK
  <2> QED BY <2>1, <2>2, InputFacts, MapsAssumption DEF PullTypeOK
<1>2. CASE search # "pull"
  <2>1. CacheTypeOK /\ TypeOK /\ StacksAgree
    BY <1>2 DEF EitherTypeOK, CacheTypeOK
  <2> QED BY <2>1, InputFacts, MapsAssumption DEF CacheTypeOK, TypeOK, StacksAgree
<1> QED BY <1>1, <1>2

\* They stay where stacks, labels and caches do not change.
LEMMA TypesKept ==
  ASSUME EitherTypeOK,
         UNCHANGED <<input, label, active, in_active, is_undecided, scc_id, local_decided,
                     cache, search>>,
         map' \in Maps, phase' \in {"call", "forward", "backward", "done"},
         has_changed' \in SUBSET Vertices, search # "pull" => in_active \subseteq has_changed',
         send_buffer' \in SUBSET (Vertices \X Vertices \X Nat),
         recv_buffer' \in SUBSET (Vertices \X Vertices \X Nat)
  PROVE  EitherTypeOK'
<1>1. \A r : Local(r)' = Local(r)
  BY InputUnchanged
<1>2. CASE search = "pull"
  BY <1>1, <1>2 DEF EitherTypeOK, PullTypeOK
<1>3. CASE search # "pull"
  <2>1. CacheTypeOK /\ TypeOK /\ StacksAgree
    BY <1>3 DEF EitherTypeOK, CacheTypeOK
  <2>2. CacheTypeOK' /\ StacksAgree'
    BY <1>1, <1>3, <2>1 DEF CacheTypeOK, TypeOK, StacksAgree
  <2> QED BY <1>3, <2>2 DEF EitherTypeOK
<1> QED BY <1>2, <1>3

\* Deciding undecided vertices keeps the three records of what is decided
\* (bits, ids and counters) together, and their types.
LEMMA DecideKeepsRecords ==
  ASSUME is_undecided \in SUBSET Vertices, scc_id \in [Vertices -> Vertices \cup {Undecided}],
         local_decided \in [Ranks -> Nat],
         DecidedOnce, NEW D \in SUBSET is_undecided, DecideAll(D),
         \A v \in D : unmap(label[v]) \in Vertices, input' = input
  PROVE  /\ DecidedOnce'
         /\ is_undecided' \in SUBSET Vertices
         /\ scc_id' \in [Vertices -> Vertices \cup {Undecided}]
         /\ local_decided' \in [Ranks -> Nat]
<1>1. is_undecided \in SUBSET Vertices /\ Undecided \notin Vertices
  BY UndecidedAssumption
<1>2. \A r : Local(r)' = Local(r) /\ Local(r) \in SUBSET Vertices
  BY DEF Local, Rank
<1>3. scc_id' \in [Vertices -> Vertices \cup {Undecided}]
  BY DEF DecideAll
<1>4. is_undecided' = {v \in Vertices : scc_id'[v] = Undecided}
  BY <1>1 DEF DecidedOnce, DecideAll
<1>5. ASSUME NEW r \in Ranks
      PROVE  /\ local_decided'[r] = Cardinality(Local(r) \ is_undecided')
             /\ local_decided'[r] \in Nat
  <2>1. IsFiniteSet(Local(r))
    BY <1>2, VerticesAssumption, FS_Subset
  <2>2. local_decided'[r] = Cardinality(Local(r) \ is_undecided) + Cardinality(Local(r) \cap D)
    BY DEF DecideAll, DecidedOnce
  <2>3. is_undecided' = is_undecided \ D
    BY DEF DecideAll
  <2>4. /\ Cardinality(Local(r) \ (is_undecided \ D))
             = Cardinality(Local(r) \ is_undecided) + Cardinality(Local(r) \cap D)
        /\ Cardinality(Local(r) \ (is_undecided \ D)) \in Nat
    BY <2>1, CountMore
  <2> QED BY <2>2, <2>3, <2>4
<1>6. local_decided' \in [Ranks -> Nat]
  BY <1>5 DEF DecideAll
<1> QED BY <1>1, <1>2, <1>3, <1>4, <1>5, <1>6 DEF DecidedOnce, DecideAll

\* The sum of the counters reaches n when every vertex is decided.
LEMMA AllDecided ==
  ASSUME EitherTypeOK, DecidedOnce
  PROVE  global_decided >= Cardinality(Vertices) <=> is_undecided = {}
<1> DEFINE S == Vertices \ is_undecided
<1>1. IsFiniteSet(S) /\ IsFiniteSet(Vertices) /\ S \subseteq Vertices
  BY VerticesAssumption, FS_Subset
<1>2. \A v \in S : input.owner[v] \in Ranks
  BY SharedTypes DEF Rank
<1>3. \A r \in Ranks : local_decided[r] = Cardinality({v \in S : input.owner[v] = r})
  <2>1. \A r \in Ranks : Local(r) \ is_undecided = {v \in S : input.owner[v] = r}
    BY DEF Local, Rank
  <2> QED BY <2>1 DEF DecidedOnce
<1>4. DOMAIN local_decided = Ranks
  BY SharedTypes
<1>s. S = Vertices <=> is_undecided = {}
  BY SharedTypes
<1> HIDE DEF S
<1>5. global_decided = Cardinality(S)
  <2>1. CountsMembers(local_decided, S, Ranks, input.owner)
    BY <1>2, <1>3, <1>4 DEF CountsMembers
  <2>2. SumOverRanks(local_decided) = Cardinality(S)
    BY <1>1, <2>1, SumCountsAll
  <2> QED BY <2>2 DEF global_decided
<1>6. /\ Cardinality(S) \in Nat /\ Cardinality(Vertices) \in Nat
      /\ Cardinality(S) <= Cardinality(Vertices)
      /\ Cardinality(S) = Cardinality(Vertices) <=> S = Vertices
  <2>1. Cardinality(S) \in Nat /\ Cardinality(Vertices) \in Nat
    BY <1>1, FS_CardinalityType
  <2> QED BY <1>1, <2>1, FS_Subset
<1> QED BY <1>5, <1>6, <1>s

\* Activating vertices keeps the stacks and the bits together: a vertex is on
\* a stack once, and marked for the other ranks.
LEMMA ActivateKeepsStacks ==
  ASSUME TypeOK, StacksAgree, NEW T \in SUBSET Vertices, NEW drained \in SUBSET in_active,
         T \cap drained = {}, Activate(T, drained)
  PROVE  /\ StacksAgree'
         /\ active' \in [Vertices -> Nat]
         /\ in_active' \in SUBSET Vertices /\ has_changed' \in SUBSET Vertices
         /\ in_active' = (in_active \ drained) \cup T
         /\ has_changed' = has_changed \cup T
<1>1. in_active' = (in_active \ drained) \cup T
  BY DEF Activate
<1>2. has_changed' = has_changed \cup T
  BY DEF Activate, StacksAgree, TypeOK
<1>3. in_active \in SUBSET Vertices
  BY DEF TypeOK
<1>4. ASSUME NEW v \in Vertices
      PROVE  active'[v] = IF v \in in_active' THEN 1 ELSE 0
  <2>1. active[v] = IF v \in in_active THEN 1 ELSE 0
    BY DEF StacksAgree
  <2>2. active'[v] = active[v] + (IF v \in T \ in_active THEN 1 ELSE 0)
                               - (IF v \in drained THEN 1 ELSE 0)
    BY DEF Activate
  <2> QED BY <1>1, <2>1, <2>2
<1>5. active' \in [Vertices -> Nat]
  <2>1. active' = [v \in Vertices |-> active'[v]]
    BY DEF Activate
  <2> QED BY <1>4, <2>1
<1>6. \A v \in Vertices : v \in in_active' => v \in has_changed'
  BY <1>1, <1>2 DEF StacksAgree
<1> QED BY <1>1, <1>2, <1>3, <1>4, <1>5, <1>6 DEF StacksAgree, TypeOK

\* What update_min_cache does: the set is noted afterwards, with labels that
\* are no larger than before, nor larger than the new one.
LEMMA NoteFacts ==
  ASSUME DOMAIN cache = Ranks,
         \A q \in Ranks : \A v \in DOMAIN cache[q] :
           v \in Vertices \ Local(q) /\ cache[q][v] \in Nat,
         NEW r \in Ranks, NEW T \in SUBSET (Vertices \ Local(r)), NEW l \in Nat,
         Note(r, T, l)
  PROVE  /\ DOMAIN cache' = Ranks
         /\ \A q \in Ranks \ {r} : cache'[q] = cache[q]
         /\ DOMAIN cache'[r] = DOMAIN cache[r] \cup T
         /\ \A v \in DOMAIN cache'[r] :
              cache'[r][v] = IF v \in T /\ Accepts(r, v, l) THEN l ELSE cache[r][v]
         /\ \A v \in DOMAIN cache[r] : cache'[r][v] <= cache[r][v]
         /\ \A v \in T : cache'[r][v] <= l
         /\ \A q \in Ranks : \A v \in DOMAIN cache'[q] :
              v \in Vertices \ Local(q) /\ cache'[q][v] \in Nat
<1> DEFINE noted == {v \in T : Accepts(r, v, l)}
           new == [v \in DOMAIN cache[r] \cup noted |-> IF v \in noted THEN l ELSE cache[r][v]]
<1>1. cache' = [cache EXCEPT ![r] = new]
  BY DEF Note
<1>2. DOMAIN cache = Ranks /\ \A q \in Ranks : \A v \in DOMAIN cache[q] :
        v \in Vertices \ Local(q) /\ cache[q][v] \in Nat
  OBVIOUS
<1>3. /\ DOMAIN new = DOMAIN cache[r] \cup noted
      /\ \A v \in DOMAIN new : new[v] = IF v \in T /\ Accepts(r, v, l) THEN l ELSE cache[r][v]
  OBVIOUS
<1>4. DOMAIN cache[r] \cup noted = DOMAIN cache[r] \cup T
  BY DEF Accepts, Noted
<1> HIDE DEF noted, new
<1>5. DOMAIN cache' = Ranks /\ cache'[r] = new
      /\ \A q \in Ranks \ {r} : cache'[q] = cache[q]
  BY <1>1, <1>2
<1>6. /\ DOMAIN cache'[r] = DOMAIN cache[r] \cup T
      /\ \A v \in DOMAIN cache'[r] :
           cache'[r][v] = IF v \in T /\ Accepts(r, v, l) THEN l ELSE cache[r][v]
  BY <1>3, <1>4, <1>5
<1>7. \A v \in DOMAIN cache[r] : cache'[r][v] <= cache[r][v]
  BY <1>2, <1>6 DEF Accepts, Noted
<1>8. \A v \in T : cache'[r][v] <= l
  BY <1>2, <1>6 DEF Accepts, Noted
<1>9. \A q \in Ranks : \A v \in DOMAIN cache'[q] :
        v \in Vertices \ Local(q) /\ cache'[q][v] \in Nat
  BY <1>2, <1>5, <1>6 DEF Accepts, Noted
<1> QED BY <1>5, <1>6, <1>7, <1>8, <1>9
-----------------------------------------------------------------------------
(* The forward search                                                      *)

\* What a step of the forward search has to show, without primed definitions.
LEMMA ForwardKept ==
  ASSUME UNCHANGED <<input, map, is_undecided, scc_id>>,
         EarlierRounds(is_undecided), has_changed' \subseteq is_undecided,
         \A v \in is_undecided : Genuine(is_undecided, label'[v], v) /\ label'[v] <= map[v],
         \A m \in send_buffer' \cup recv_buffer' :
           /\ m[1] \in is_undecided /\ <<m[1], m[2]>> \in edges /\ Rank(m[1]) # Rank(m[2])
           /\ label'[m[1]] <= m[3] /\ Genuine(is_undecided, m[3], m[1]),
         \A x, y \in is_undecided : <<x, y>> \in edges =>
           \/ label'[y] <= label'[x]
           \/ x \in in_active' \/ (Rank(x) # Rank(y) /\ x \in has_changed')
           \/ \E m \in send_buffer' \cup recv_buffer' : m[2] = y /\ m[3] <= label'[x]
  PROVE  ForwardInv'
<1>1. /\ edges' = edges
      /\ \A v : Rank(v)' = Rank(v)
      /\ \A S, l, v : Genuine(S, l, v)' = Genuine(S, l, v)
  BY InputUnchanged
<1>2. EarlierRounds(is_undecided)'
  BY <1>1 DEF EarlierRounds
<1>3. Messages' = send_buffer' \cup recv_buffer'
  BY DEF Messages
<1>4. \A v \in is_undecided' : Genuine(is_undecided, label[v], v)'
  BY <1>1 DEF Genuine, Within
<1>5. \A m \in Messages' : Genuine(is_undecided, m[3], m[1])'
  BY <1>1, <1>3 DEF Genuine, Within
<1>6. \A e \in UndecidedEdges' :
        label'[e[2]] <= label'[e[1]] \/ Waits(e[1], e[2])' \/ Told(e[2], label[e[1]])'
  BY <1>1 DEF UndecidedEdges, Waits, Told
<1> QED BY <1>1, <1>2, <1>3, <1>4, <1>5, <1>6 DEF ForwardInv

\* Lowering the labels of the vertices of T to l.
LEMMA FwHandleStep ==
  ASSUME TypeOK, StacksAgree, ForwardInv,
         NEW T \in SUBSET Vertices, NEW l \in Nat, NEW drained \in SUBSET in_active,
         \A v \in T \cap is_undecided : Genuine(is_undecided, l, v),
         \A v \in drained \cap T : label[v] <= l,
         FwHandle(T, l, drained)
  PROVE  /\ UNCHANGED <<input, map, phase, is_undecided, send_buffer, scc_id, local_decided>>
         /\ StacksAgree'
         /\ label' \in [Vertices -> Nat] /\ active' \in [Vertices -> Nat]
         /\ in_active' \in SUBSET Vertices /\ has_changed' \in SUBSET Vertices
         /\ in_active \ drained \subseteq in_active'
         /\ has_changed \subseteq has_changed' /\ has_changed' \subseteq is_undecided
         /\ \A v \in is_undecided : Genuine(is_undecided, label'[v], v)
         /\ \A v \in Vertices : /\ label'[v] <= label[v]
                                /\ label'[v] = label[v] \/ v \in in_active'
         /\ \A v \in T \cap is_undecided : label'[v] <= l
<1> DEFINE D == Lowered(T, l)
<1>1. D \in SUBSET Vertices /\ D \subseteq T \cap is_undecided /\ D \cap drained = {}
      /\ \A v \in D : l < label[v]
  BY DEF Lowered, TypeOK
<1>2. /\ label' = [v \in Vertices |-> IF v \in D THEN l ELSE label[v]]
      /\ Activate(D, drained)
      /\ UNCHANGED <<input, map, phase, is_undecided, send_buffer, scc_id, local_decided>>
  BY DEF FwHandle
<1>3. \A v \in (T \cap is_undecided) \ D : label[v] <= l
  BY DEF Lowered, TypeOK
<1> HIDE DEF D
<1>4. /\ StacksAgree' /\ active' \in [Vertices -> Nat]
      /\ in_active' \in SUBSET Vertices /\ has_changed' \in SUBSET Vertices
      /\ in_active' = (in_active \ drained) \cup D
      /\ has_changed' = has_changed \cup D
  BY <1>1, <1>2, ActivateKeepsStacks
<1>5. \A v \in Vertices : label'[v] = IF v \in D THEN l ELSE label[v]
  BY <1>2
<1>6. /\ label \in [Vertices -> Nat] /\ label' \in [Vertices -> Nat]
      /\ is_undecided \in SUBSET Vertices
  BY <1>2 DEF TypeOK
<1>7. \A v \in is_undecided : Genuine(is_undecided, label'[v], v)
  BY <1>1, <1>5, <1>6 DEF ForwardInv
<1>8. \A v \in Vertices : label'[v] <= label[v] /\ (label'[v] = label[v] \/ v \in in_active')
  BY <1>1, <1>4, <1>5, <1>6
<1>9. \A v \in T \cap is_undecided : label'[v] <= l
  BY <1>3, <1>5, <1>6
<1> QED BY <1>1, <1>2, <1>4, <1>6, <1>7, <1>8, <1>9 DEF ForwardInv

\* The labels and what is under way, for the caches: labels go down, and who is
\* told is told, or has a label that small.
LEMMA CachesKept ==
  ASSUME CacheTypeOK, ForwardInv, NobodyAhead, search = "push" => PeersWillBeNoted,
         phase = "forward", UNCHANGED <<input, map, phase, is_undecided, search>>,
         label' \in [Vertices -> Nat],
         \A v \in Vertices : label'[v] <= label[v] /\ (label'[v] = label[v] \/ v \in has_changed'),
         has_changed \subseteq has_changed',
         \A m \in Messages : \/ m \in send_buffer' \cup recv_buffer'
                             \/ m[2] \in is_undecided => label'[m[2]] <= m[3],
         \A m \in Messages : \/ m \in send_buffer' \cup recv_buffer'
                             \/ search = "push" => Noted(Rank(m[2]), m[1])'
                                                   /\ cache'[Rank(m[2])][m[1]] <= m[3],
         \A r \in Ranks : /\ DOMAIN cache[r] \subseteq DOMAIN cache'[r]
                          /\ \A v \in DOMAIN cache[r] : cache'[r][v] <= cache[r][v]
                          /\ \A v \in DOMAIN cache'[r] : cache'[r][v] \in Nat
                          /\ \A v \in DOMAIN cache'[r] \cap is_undecided :
                               \/ v \in DOMAIN cache[r] /\ cache'[r][v] = cache[r][v]
                               \/ label'[v] <= cache'[r][v]
  PROVE  /\ NobodyAhead'
         /\ search' = "push" => PeersWillBeNoted'
<1>1. /\ edges' = edges /\ \A v : Rank(v)' = Rank(v)
  BY InputUnchanged
<1>2. /\ is_undecided \in SUBSET Vertices
      /\ label \in [Vertices -> Nat] /\ map \in [Vertices -> Nat]
      /\ \A m \in Messages : m \in Vertices \X Vertices \X Nat
      /\ \A r \in Ranks : \A v \in DOMAIN cache[r] : cache[r][v] \in Nat
      /\ \A v \in Vertices : Rank(v) \in Ranks
  BY InputFacts, MapsAssumption DEF CacheTypeOK, TypeOK, Messages
<1>3. NobodyAhead'
  <2>1. ASSUME NEW r \in Ranks, NEW v \in DOMAIN cache'[r] \cap is_undecided
        PROVE  label'[v] <= cache'[r][v]
               \/ \E m \in send_buffer' \cup recv_buffer' : m[2] = v /\ m[3] <= cache'[r][v]
    <3> SUFFICES ASSUME v \in DOMAIN cache[r], cache'[r][v] = cache[r][v]
                 PROVE  label'[v] <= cache'[r][v]
                        \/ \E m \in send_buffer' \cup recv_buffer' : m[2] = v /\ m[3] <= cache'[r][v]
      OBVIOUS
    <3>1. v \in Vertices /\ cache[r][v] \in Nat /\ label[v] \in Nat /\ label'[v] \in Nat
      BY <1>2
    <3>2. CASE label[v] <= cache[r][v]
      BY <3>1, <3>2
    <3>3. ASSUME NEW m \in Messages, m[2] = v, m[3] <= cache[r][v]
          PROVE  label'[v] <= cache'[r][v]
                 \/ \E mm \in send_buffer' \cup recv_buffer' : mm[2] = v /\ mm[3] <= cache'[r][v]
      <4>1. m[3] \in Nat
        BY <1>2
      <4> QED BY <3>1, <3>3, <4>1
    <3> QED BY <3>2, <3>3 DEF NobodyAhead, Told, Messages
  <2> QED BY <2>1 DEF NobodyAhead, Told
<1>4. ASSUME search = "push", NEW x \in is_undecided, NEW y \in is_undecided,
             <<x, y>> \in edges, Rank(x) # Rank(y)
      PROVE  WillBeNoted(x, y)'
  <2>1. WillBeNoted(x, y)
    BY <1>4 DEF PeersWillBeNoted, UndecidedEdges
  <2>2. /\ x \in Vertices /\ y \in Vertices /\ label[x] \in Nat /\ label'[x] \in Nat
        /\ label[y] \in Nat /\ label'[y] \in Nat /\ label'[y] <= label[y]
        /\ map[y] \in Nat
    BY <1>2
  <2>3. CASE x \in has_changed'
    BY <2>3 DEF WillBeNoted
  <2>4. CASE label'[x] = label[x] /\ (label[x] > map[y] \/ label[y] < label[x])
    BY <2>2, <2>4 DEF WillBeNoted
  <2>5. ASSUME label'[x] = label[x], NEW m \in Messages, m[2] = y, m[3] < label[x]
        PROVE  WillBeNoted(x, y)'
    <3>1. m[3] \in Nat
      BY <1>2
    <3>2. CASE m \in send_buffer' \cup recv_buffer'
      BY <2>5, <3>2 DEF WillBeNoted, Messages
    <3>3. CASE label'[y] <= m[3]
      BY <2>2, <2>5, <3>1, <3>3 DEF WillBeNoted
    <3> QED BY <2>5, <3>2, <3>3
  <2>6. CASE label'[x] = label[x] /\ <<x, y, label[x]>> \in Messages
    <3>1. CASE <<x, y, label[x]>> \in send_buffer' \cup recv_buffer'
      BY <2>6, <3>1 DEF WillBeNoted, Messages
    <3>2. CASE Noted(Rank(y), x)' /\ cache'[Rank(y)][x] <= label[x]
      BY <1>1, <2>6, <3>2 DEF WillBeNoted, Noted
    <3> QED BY <1>4, <2>6, <3>1, <3>2
  <2>7. CASE label'[x] = label[x] /\ Noted(Rank(y), x) /\ cache[Rank(y)][x] <= label[x]
    <3>1. x \in DOMAIN cache[Rank(y)] /\ Rank(y) \in Ranks
      BY <1>2, <2>2, <2>7 DEF Noted
    <3>2. /\ x \in DOMAIN cache'[Rank(y)] /\ cache'[Rank(y)][x] <= cache[Rank(y)][x]
          /\ cache[Rank(y)][x] \in Nat /\ cache'[Rank(y)][x] \in Nat
      BY <1>2, <3>1
    <3> QED BY <1>1, <2>2, <2>7, <3>2 DEF WillBeNoted, Noted
  <2> QED BY <2>1, <2>2, <2>3, <2>4, <2>5, <2>6, <2>7 DEF WillBeNoted
<1>5. search' = "push" => PeersWillBeNoted'
  BY <1>1, <1>4 DEF PeersWillBeNoted, UndecidedEdges
<1> QED BY <1>3, <1>5

\* What a step of the forward search has to show for the invariant of a round.
LEMMA ForwardRound ==
  ASSUME EitherInv, search # "pull", phase = "forward",
         UNCHANGED <<input, map, phase, is_undecided, scc_id, local_decided, search>>,
         CacheTypeOK', StacksAgree', search = "plain" => cache' = cache,
         ForwardInv', NobodyAhead', search' = "push" => PeersWillBeNoted'
  PROVE  EitherInv'
<1>1. DecidedOnce'
  <2>1. \A r : Local(r)' = Local(r)
    BY InputUnchanged
  <2> QED BY <2>1 DEF EitherInv, EitherTypeOK, DecidedOnce
<1>2. search' = "plain" => cache' = NoCache'
  BY DEF EitherInv, EitherTypeOK, NoCache
<1> QED BY <1>1, <1>2 DEF EitherInv, EitherTypeOK

\* A rank pops a vertex and hands its label on to its neighbours on the rank.
LEMMA FwDrainStep ==
  ASSUME EitherInv, search # "pull", NEW u \in Vertices, FwDrain(u), UNCHANGED <<cache, search>>
  PROVE  EitherInv'
<1>d. PICK T, l : /\ T = Concerned(Neighbours(u) \cap Local(Rank(u)), u)
                  /\ l = label[u]
  OBVIOUS
<1>1. /\ phase = "forward" /\ active[u] > 0 /\ FwHandle(T, l, {u})
      /\ UNCHANGED recv_buffer
  BY <1>d DEF FwDrain, MayDrain
<1>2. /\ CacheTypeOK /\ TypeOK /\ StacksAgree /\ ForwardInv /\ NobodyAhead
      /\ search = "push" => PeersWillBeNoted
  BY <1>1 DEF EitherInv, EitherTypeOK, CacheTypeOK
<1>3. /\ is_undecided \in SUBSET Vertices /\ label \in [Vertices -> Nat]
      /\ map \in [Vertices -> Nat]
      /\ edges \in SUBSET (Vertices \X Vertices)
      /\ send_buffer \in SUBSET (Vertices \X Vertices \X Nat)
      /\ recv_buffer \in SUBSET (Vertices \X Vertices \X Nat)
      /\ input \in Inputs
  BY <1>2, InputFacts, MapsAssumption DEF TypeOK
<1>4. u \in in_active /\ u \in has_changed /\ u \in is_undecided
  BY <1>1, <1>2 DEF StacksAgree, ForwardInv
<1>5. /\ T \in SUBSET Vertices
      /\ \A v \in T : <<u, v>> \in edges /\ Rank(v) = Rank(u)
      /\ \A v \in Vertices : <<u, v>> \in edges /\ Rank(v) = Rank(u) /\ l < map[v] => v \in T
  BY <1>1, <1>d DEF Concerned, Neighbours, Succ, Local
<1>6. \A v \in T \cap is_undecided : Genuine(is_undecided, l, v)
  <2>1. Genuine(is_undecided, l, u)
    BY <1>2, <1>4, <1>d DEF ForwardInv
  <2> QED BY <1>3, <1>4, <1>5, <2>1, GenuineStep
<1>7. /\ UNCHANGED <<input, map, phase, is_undecided, send_buffer, scc_id, local_decided>>
      /\ StacksAgree'
      /\ label' \in [Vertices -> Nat] /\ active' \in [Vertices -> Nat]
      /\ in_active' \in SUBSET Vertices /\ has_changed' \in SUBSET Vertices
      /\ in_active \ {u} \subseteq in_active'
      /\ has_changed \subseteq has_changed' /\ has_changed' \subseteq is_undecided
      /\ \A v \in is_undecided : Genuine(is_undecided, label'[v], v)
      /\ \A v \in Vertices : label'[v] <= label[v] /\ (label'[v] = label[v] \/ v \in in_active')
      /\ \A v \in T \cap is_undecided : label'[v] <= l
  <2>1. l \in Nat /\ {u} \in SUBSET in_active /\ \A v \in {u} \cap T : label[v] <= l
    BY <1>3, <1>4, <1>d
  <2> QED BY <1>1, <1>2, <1>5, <1>6, <2>1, FwHandleStep
<1>8. \A r : Local(r)' = Local(r)
  BY <1>7, InputUnchanged
<1>9. CacheTypeOK'
  BY <1>1, <1>2, <1>7, <1>8 DEF CacheTypeOK, TypeOK
<1>10. ASSUME NEW x \in is_undecided, NEW y \in is_undecided, <<x, y>> \in edges
       PROVE  \/ label'[y] <= label'[x]
              \/ x \in in_active' \/ (Rank(x) # Rank(y) /\ x \in has_changed')
              \/ \E m \in send_buffer' \cup recv_buffer' : m[2] = y /\ m[3] <= label'[x]
  <2>1. /\ label[x] \in Nat /\ label[y] \in Nat /\ label'[x] \in Nat /\ label'[y] \in Nat
        /\ label'[y] <= label[y] /\ label[y] <= map[y] /\ map[y] \in Nat
        /\ x \in Vertices /\ y \in Vertices
    BY <1>2, <1>3, <1>7 DEF ForwardInv
  <2>2. label'[x] = label[x] \/ x \in in_active'
    BY <1>7, <2>1
  <2>3. CASE label'[x] = label[x] /\ x = u
    <3>1. CASE Rank(x) = Rank(y)
      <4>1. CASE y \in T
        BY <1>7, <1>d, <2>3, <4>1
      <4>2. CASE y \notin T
        <5>1. ~ (l < map[y])
          BY <1>5, <1>10, <2>1, <2>3, <3>1, <4>2
        <5> QED BY <1>d, <2>1, <2>3, <5>1
      <4> QED BY <4>1, <4>2
    <3>2. CASE Rank(x) # Rank(y)
      BY <1>4, <1>7, <2>3, <3>2
    <3> QED BY <3>1, <3>2
  <2>4. CASE label'[x] = label[x] /\ x # u
    <3>1. label[y] <= label[x] \/ Waits(x, y) \/ Told(y, label[x])
      BY <1>2, <1>10 DEF ForwardInv, UndecidedEdges
    <3>2. CASE label[y] <= label[x]
      BY <2>1, <2>4, <3>2
    <3>3. CASE Waits(x, y)
      BY <1>7, <2>4, <3>3 DEF Waits
    <3>4. CASE Told(y, label[x])
      BY <1>1, <1>7, <2>4, <3>4 DEF Told
    <3> QED BY <3>1, <3>2, <3>3, <3>4
  <2> QED BY <2>2, <2>3, <2>4
<1>11. \A v \in is_undecided : label'[v] <= map[v]
  BY <1>2, <1>3, <1>7 DEF ForwardInv
<1>12. \A m \in send_buffer' \cup recv_buffer' :
         /\ m[1] \in is_undecided /\ <<m[1], m[2]>> \in edges /\ Rank(m[1]) # Rank(m[2])
         /\ label'[m[1]] <= m[3] /\ Genuine(is_undecided, m[3], m[1])
  <2>1. SUFFICES ASSUME NEW m \in send_buffer \cup recv_buffer
                 PROVE  /\ m[1] \in is_undecided /\ <<m[1], m[2]>> \in edges
                        /\ Rank(m[1]) # Rank(m[2])
                        /\ label'[m[1]] <= m[3] /\ Genuine(is_undecided, m[3], m[1])
    BY <1>1, <1>7
  <2>2. /\ m[1] \in is_undecided /\ <<m[1], m[2]>> \in edges /\ Rank(m[1]) # Rank(m[2])
        /\ label[m[1]] <= m[3] /\ Genuine(is_undecided, m[3], m[1])
    BY <1>2, <2>1 DEF ForwardInv, Messages
  <2>3. m[3] \in Nat /\ m[1] \in Vertices
    BY <1>3, <2>1
  <2>4. label'[m[1]] <= label[m[1]] /\ label'[m[1]] \in Nat /\ label[m[1]] \in Nat
    BY <1>3, <1>7, <2>3
  <2> QED BY <2>2, <2>3, <2>4
<1>13. ForwardInv'
  <2>1. EarlierRounds(is_undecided) /\ has_changed' \subseteq is_undecided
    BY <1>2, <1>7 DEF ForwardInv
  <2> QED BY <1>7, <1>10, <1>11, <1>12, <2>1, ForwardKept, Zenon
<1>14. NobodyAhead' /\ (search' = "push" => PeersWillBeNoted')
  <2>1. \A v \in Vertices : label'[v] <= label[v] /\ (label'[v] = label[v] \/ v \in has_changed')
    BY <1>7 DEF StacksAgree
  <2>2. \A m \in Messages : m \in send_buffer' \cup recv_buffer'
    BY <1>1, <1>7 DEF Messages
  <2>3. \A r \in Ranks : /\ DOMAIN cache[r] \subseteq DOMAIN cache'[r]
                         /\ \A v \in DOMAIN cache[r] : cache'[r][v] <= cache[r][v]
                         /\ \A v \in DOMAIN cache'[r] : cache'[r][v] \in Nat
                         /\ \A v \in DOMAIN cache'[r] \cap is_undecided :
                              v \in DOMAIN cache[r] /\ cache'[r][v] = cache[r][v]
    BY <1>2 DEF CacheTypeOK
  <2> QED BY <1>1, <1>2, <1>7, <2>1, <2>2, <2>3, CachesKept
<1> QED BY <1>1, <1>7, <1>9, <1>13, <1>14, ForwardRound

\* A rank receives a label, and with a cache notes whose it is.
LEMMA FwReceiveStep ==
  ASSUME EitherInv, search # "pull", NEW m \in recv_buffer, FwReceive(m), UNCHANGED search,
         \/ search = "push" /\ Note(Rank(m[2]), {m[1]}, m[3])
         \/ search # "push" /\ UNCHANGED cache
  PROVE  EitherInv'
<1>1. /\ phase = "forward" /\ FwHandle({m[2]}, m[3], {}) /\ recv_buffer' = recv_buffer \ {m}
  BY DEF FwReceive
<1>2. /\ CacheTypeOK /\ TypeOK /\ StacksAgree /\ ForwardInv /\ NobodyAhead
      /\ search = "push" => PeersWillBeNoted
  BY <1>1 DEF EitherInv, EitherTypeOK, CacheTypeOK
<1>3. /\ is_undecided \in SUBSET Vertices /\ label \in [Vertices -> Nat]
      /\ map \in [Vertices -> Nat]
      /\ \A v \in Vertices : Rank(v) \in Ranks
      /\ send_buffer \in SUBSET (Vertices \X Vertices \X Nat)
      /\ recv_buffer \in SUBSET (Vertices \X Vertices \X Nat)
      /\ input \in Inputs
  BY <1>2, InputFacts, MapsAssumption DEF TypeOK
<1>4. /\ m[1] \in is_undecided /\ <<m[1], m[2]>> \in edges /\ Rank(m[1]) # Rank(m[2])
      /\ label[m[1]] <= m[3] /\ Genuine(is_undecided, m[3], m[1])
      /\ m[1] \in Vertices /\ m[2] \in Vertices /\ m[3] \in Nat
  BY <1>2, <1>3 DEF ForwardInv, Messages
<1>5. m[2] \in is_undecided => Genuine(is_undecided, m[3], m[2])
  BY <1>3, <1>4, GenuineStep
<1>6. /\ UNCHANGED <<input, map, phase, is_undecided, send_buffer, scc_id, local_decided>>
      /\ StacksAgree'
      /\ label' \in [Vertices -> Nat] /\ active' \in [Vertices -> Nat]
      /\ in_active' \in SUBSET Vertices /\ has_changed' \in SUBSET Vertices
      /\ in_active \subseteq in_active'
      /\ has_changed \subseteq has_changed' /\ has_changed' \subseteq is_undecided
      /\ \A v \in is_undecided : Genuine(is_undecided, label'[v], v)
      /\ \A v \in Vertices : label'[v] <= label[v] /\ (label'[v] = label[v] \/ v \in in_active')
      /\ m[2] \in is_undecided => label'[m[2]] <= m[3]
  <2>1. PICK T, l, d : T = {m[2]} /\ l = m[3] /\ d = {}
    OBVIOUS
  <2>2. /\ T \in SUBSET Vertices /\ l \in Nat /\ d \in SUBSET in_active
        /\ \A v \in T \cap is_undecided : Genuine(is_undecided, l, v)
        /\ \A v \in d \cap T : label[v] <= l
        /\ FwHandle(T, l, d)
    BY <1>1, <1>4, <1>5, <2>1
  <2>3. in_active \ d = in_active /\ (m[2] \in is_undecided => m[2] \in T \cap is_undecided)
    BY <2>1
  <2>4. /\ UNCHANGED <<input, map, phase, is_undecided, send_buffer, scc_id, local_decided>>
        /\ StacksAgree'
        /\ label' \in [Vertices -> Nat] /\ active' \in [Vertices -> Nat]
        /\ in_active' \in SUBSET Vertices /\ has_changed' \in SUBSET Vertices
        /\ in_active \ d \subseteq in_active'
        /\ has_changed \subseteq has_changed' /\ has_changed' \subseteq is_undecided
        /\ \A v \in is_undecided : Genuine(is_undecided, label'[v], v)
        /\ \A v \in Vertices : label'[v] <= label[v] /\ (label'[v] = label[v] \/ v \in in_active')
        /\ \A v \in T \cap is_undecided : label'[v] <= l
    BY <1>2, <2>2, FwHandleStep
  <2> QED BY <2>1, <2>3, <2>4
<1>7. /\ \A r : Local(r)' = Local(r)
      /\ \A v : Rank(v)' = Rank(v)
  BY <1>6, InputUnchanged
<1>8. /\ \A r \in Ranks : \A v \in DOMAIN cache'[r] :
           v \in Vertices \ Local(r) /\ cache'[r][v] \in Nat
      /\ DOMAIN cache' = Ranks
      /\ \A r \in Ranks : /\ DOMAIN cache[r] \subseteq DOMAIN cache'[r]
                          /\ \A v \in DOMAIN cache[r] : cache'[r][v] <= cache[r][v]
                          /\ \A v \in DOMAIN cache'[r] \cap is_undecided :
                               \/ v \in DOMAIN cache[r] /\ cache'[r][v] = cache[r][v]
                               \/ v = m[1] /\ cache'[r][v] = m[3]
      /\ search = "push" => m[1] \in DOMAIN cache'[Rank(m[2])] /\ cache'[Rank(m[2])][m[1]] <= m[3]
  <2>1. CASE search # "push" /\ UNCHANGED cache
    BY <1>2, <2>1 DEF CacheTypeOK
  <2>2. CASE search = "push" /\ Note(Rank(m[2]), {m[1]}, m[3])
    <3>1. PICK r, T, l : r = Rank(m[2]) /\ T = {m[1]} /\ l = m[3]
      OBVIOUS
    <3>2. r \in Ranks /\ T \in SUBSET (Vertices \ Local(r)) /\ l \in Nat /\ Note(r, T, l)
      BY <1>3, <1>4, <2>2, <3>1 DEF Local
    <3>3. /\ DOMAIN cache' = Ranks
          /\ \A q \in Ranks \ {r} : cache'[q] = cache[q]
          /\ DOMAIN cache'[r] = DOMAIN cache[r] \cup T
          /\ \A v \in DOMAIN cache'[r] :
               cache'[r][v] = IF v \in T /\ Accepts(r, v, l) THEN l ELSE cache[r][v]
          /\ \A v \in DOMAIN cache[r] : cache'[r][v] <= cache[r][v]
          /\ \A v \in T : cache'[r][v] <= l
          /\ \A q \in Ranks : \A v \in DOMAIN cache'[q] :
               v \in Vertices \ Local(q) /\ cache'[q][v] \in Nat
      BY <1>2, <3>2, NoteFacts DEF CacheTypeOK
    <3>4. \A q \in Ranks : \A v \in DOMAIN cache[q] : cache[q][v] \in Nat
      BY <1>2 DEF CacheTypeOK
    <3>5. \A v \in DOMAIN cache'[r] : v \in DOMAIN cache[r] \/ (v \in T /\ cache'[r][v] = l)
      BY <3>3 DEF Accepts, Noted
    <3>6. \A q \in Ranks : /\ DOMAIN cache[q] \subseteq DOMAIN cache'[q]
                           /\ \A v \in DOMAIN cache[q] : cache'[q][v] <= cache[q][v]
      BY <3>3, <3>4
    <3>7. \A q \in Ranks : \A v \in DOMAIN cache'[q] :
            \/ v \in DOMAIN cache[q] /\ cache'[q][v] = cache[q][v]
            \/ v \in T /\ cache'[q][v] = l
      BY <3>3, <3>5
    <3> QED BY <3>1, <3>3, <3>6, <3>7
  <2> QED BY <2>1, <2>2
<1>9. CacheTypeOK'
  BY <1>1, <1>2, <1>6, <1>7, <1>8 DEF CacheTypeOK, TypeOK
<1>10. \A k \in Messages : k \in send_buffer' \cup recv_buffer' \/ k = m
  BY <1>1, <1>6 DEF Messages
<1>11. \A k \in send_buffer' \cup recv_buffer' : k \in Messages
  BY <1>1, <1>6 DEF Messages
<1>12. ASSUME NEW x \in is_undecided, NEW y \in is_undecided, <<x, y>> \in edges
       PROVE  \/ label'[y] <= label'[x]
              \/ x \in in_active' \/ (Rank(x) # Rank(y) /\ x \in has_changed')
              \/ \E k \in send_buffer' \cup recv_buffer' : k[2] = y /\ k[3] <= label'[x]
  <2>1. /\ label[x] \in Nat /\ label[y] \in Nat /\ label'[x] \in Nat /\ label'[y] \in Nat
        /\ label'[y] <= label[y] /\ x \in Vertices /\ y \in Vertices
    BY <1>3, <1>6
  <2>2. label'[x] = label[x] \/ x \in in_active'
    BY <1>6, <2>1
  <2>3. CASE label'[x] = label[x]
    <3>1. label[y] <= label[x] \/ Waits(x, y) \/ Told(y, label[x])
      BY <1>2, <1>12 DEF ForwardInv, UndecidedEdges
    <3>2. CASE label[y] <= label[x]
      BY <2>1, <2>3, <3>2
    <3>3. CASE Waits(x, y)
      BY <1>6, <3>3 DEF Waits
    <3>4. ASSUME NEW k \in Messages, k[2] = y, k[3] <= label[x]
          PROVE  \/ label'[y] <= label'[x]
                 \/ \E kk \in send_buffer' \cup recv_buffer' : kk[2] = y /\ kk[3] <= label'[x]
      <4>1. CASE k = m
        BY <1>4, <1>6, <2>1, <2>3, <3>4, <4>1
      <4>2. CASE k \in send_buffer' \cup recv_buffer'
        BY <2>3, <3>4, <4>2
      <4> QED BY <1>10, <4>1, <4>2
    <3> QED BY <3>1, <3>2, <3>3, <3>4 DEF Told, Messages
  <2> QED BY <2>2, <2>3
<1>13. \A v \in is_undecided : label'[v] <= map[v]
  BY <1>2, <1>3, <1>6 DEF ForwardInv
<1>14. \A k \in send_buffer' \cup recv_buffer' :
         /\ k[1] \in is_undecided /\ <<k[1], k[2]>> \in edges /\ Rank(k[1]) # Rank(k[2])
         /\ label'[k[1]] <= k[3] /\ Genuine(is_undecided, k[3], k[1])
  <2>1. SUFFICES ASSUME NEW k \in Messages
                 PROVE  /\ k[1] \in is_undecided /\ <<k[1], k[2]>> \in edges
                        /\ Rank(k[1]) # Rank(k[2])
                        /\ label'[k[1]] <= k[3] /\ Genuine(is_undecided, k[3], k[1])
    BY <1>11
  <2>2. /\ k[1] \in is_undecided /\ <<k[1], k[2]>> \in edges /\ Rank(k[1]) # Rank(k[2])
        /\ label[k[1]] <= k[3] /\ Genuine(is_undecided, k[3], k[1])
    BY <1>2, <2>1 DEF ForwardInv
  <2>3. k[3] \in Nat /\ k[1] \in Vertices
    BY <1>3, <2>1 DEF Messages
  <2>4. label'[k[1]] <= label[k[1]] /\ label'[k[1]] \in Nat /\ label[k[1]] \in Nat
    BY <1>3, <1>6, <2>3
  <2> QED BY <2>2, <2>3, <2>4
<1>15. ForwardInv'
  <2>1. EarlierRounds(is_undecided) /\ has_changed' \subseteq is_undecided
    BY <1>2, <1>6 DEF ForwardInv
  <2> QED BY <1>6, <1>12, <1>13, <1>14, <2>1, ForwardKept, Zenon
<1>16. NobodyAhead' /\ (search' = "push" => PeersWillBeNoted')
  <2>1. \A v \in Vertices : label'[v] <= label[v] /\ (label'[v] = label[v] \/ v \in has_changed')
    BY <1>6 DEF StacksAgree
  <2>2. \A k \in Messages : \/ k \in send_buffer' \cup recv_buffer'
                            \/ k[2] \in is_undecided => label'[k[2]] <= k[3]
    BY <1>6, <1>10
  <2>3. \A k \in Messages : \/ k \in send_buffer' \cup recv_buffer'
                            \/ search = "push" => Noted(Rank(k[2]), k[1])'
                                                  /\ cache'[Rank(k[2])][k[1]] <= k[3]
    BY <1>7, <1>8, <1>10 DEF Noted
  <2>4. label'[m[1]] <= m[3]
    <3>1. label'[m[1]] \in Nat /\ label[m[1]] \in Nat /\ label'[m[1]] <= label[m[1]]
      BY <1>3, <1>4, <1>6
    <3> QED BY <1>4, <3>1
  <2>5. \A r \in Ranks : /\ DOMAIN cache[r] \subseteq DOMAIN cache'[r]
                         /\ \A v \in DOMAIN cache[r] : cache'[r][v] <= cache[r][v]
                         /\ \A v \in DOMAIN cache'[r] : cache'[r][v] \in Nat
                         /\ \A v \in DOMAIN cache'[r] \cap is_undecided :
                              \/ v \in DOMAIN cache[r] /\ cache'[r][v] = cache[r][v]
                              \/ label'[v] <= cache'[r][v]
    BY <1>8, <2>4
  <2> QED BY <1>1, <1>2, <1>6, <2>1, <2>2, <2>3, <2>5, CachesKept
<1> QED BY <1>1, <1>6, <1>9, <1>15, <1>16, ForwardRound

\* A rank sends what changed, without a cache.
LEMMA FwPushStep ==
  ASSUME EitherInv, search = "plain", NEW r \in Ranks, FwPush(r), UNCHANGED <<cache, search>>
  PROVE  EitherInv'
<1> DEFINE changed == has_changed \cap Local(r)
           new == {<<e[1], e[2], label[e[1]]>> :
                     e \in {x \in changed \X (Vertices \ Local(r)) :
                              x[2] \in Concerned(Neighbours(x[1]), x[1])}}
<1>1. /\ phase = "forward"
      /\ UNCHANGED <<input, map, phase, label, active, in_active, is_undecided,
                     recv_buffer, scc_id, local_decided>>
      /\ send_buffer' = send_buffer \cup new
      /\ has_changed' = has_changed \ changed
      /\ \A v \in Local(r) : active[v] = 0
  BY DEF FwPush, PushChanged
<1>2. /\ CacheTypeOK /\ TypeOK /\ StacksAgree /\ ForwardInv /\ NobodyAhead /\ cache = NoCache
  BY <1>1 DEF EitherInv, EitherTypeOK, CacheTypeOK
<1>3. /\ is_undecided \in SUBSET Vertices /\ label \in [Vertices -> Nat]
      /\ map \in [Vertices -> Nat]
      /\ edges \in SUBSET (Vertices \X Vertices)
      /\ \A v \in Vertices : Rank(v) \in Ranks
      /\ has_changed \in SUBSET Vertices
      /\ send_buffer \in SUBSET (Vertices \X Vertices \X Nat)
      /\ recv_buffer \in SUBSET (Vertices \X Vertices \X Nat)
      /\ input \in Inputs
  BY <1>2, InputFacts, MapsAssumption DEF TypeOK
<1>4. /\ \A r_1 : Local(r_1)' = Local(r_1)
      /\ \A v : Rank(v)' = Rank(v)
  BY <1>1, InputUnchanged
<1>5. \A m \in new : /\ m \in Vertices \X Vertices \X Nat
                     /\ m[1] \in has_changed /\ <<m[1], m[2]>> \in edges
                     /\ Rank(m[1]) # Rank(m[2]) /\ m[3] = label[m[1]]
  <2>1. ASSUME NEW x \in changed, NEW y \in Vertices \ Local(r), y \in Concerned(Neighbours(x), x)
        PROVE  /\ <<x, y, label[x]>> \in Vertices \X Vertices \X Nat
               /\ x \in has_changed /\ <<x, y>> \in edges /\ Rank(x) # Rank(y)
    BY <1>1, <1>3, <2>1 DEF Concerned, Neighbours, Succ, Local
  <2> QED BY <2>1
<1>6. ASSUME NEW x \in changed, NEW y \in Vertices, <<x, y>> \in edges, Rank(x) # Rank(y),
             label[x] < map[y]
      PROVE  <<x, y, label[x]>> \in new
  <2>1. y \in Concerned(Neighbours(x), x) /\ y \in Vertices \ Local(r)
    BY <1>1, <1>3, <1>6 DEF Concerned, Neighbours, Succ, Local
  <2>2. <<x, y>> \in {z \in changed \X (Vertices \ Local(r)) :
                        z[2] \in Concerned(Neighbours(z[1]), z[1])}
    BY <2>1
  <2> QED BY <2>2
<1> HIDE DEF new
<1>7. StacksAgree'
  <2>1. \A v \in changed : v \notin in_active
    BY <1>1, <1>2, <1>3 DEF StacksAgree
  <2> QED BY <1>1, <1>2, <2>1 DEF StacksAgree
<1>8. CacheTypeOK'
  <2>1. send_buffer' \in SUBSET (Vertices \X Vertices \X Nat) /\ has_changed' \in SUBSET Vertices
    BY <1>1, <1>3, <1>5
  <2> QED BY <1>1, <1>2, <1>4, <2>1 DEF CacheTypeOK, TypeOK
<1>9. ASSUME NEW x \in is_undecided, NEW y \in is_undecided, <<x, y>> \in edges
      PROVE  \/ label'[y] <= label'[x]
             \/ x \in in_active' \/ (Rank(x) # Rank(y) /\ x \in has_changed')
             \/ \E m \in send_buffer' \cup recv_buffer' : m[2] = y /\ m[3] <= label'[x]
  <2>1. label[y] <= label[x] \/ Waits(x, y) \/ Told(y, label[x])
    BY <1>2, <1>9 DEF ForwardInv, UndecidedEdges
  <2>2. /\ label[x] \in Nat /\ label[y] \in Nat /\ map[y] \in Nat /\ label[y] <= map[y]
        /\ x \in Vertices /\ y \in Vertices
    BY <1>2, <1>3 DEF ForwardInv
  <2>3. CASE Rank(x) # Rank(y) /\ x \in changed
    <3>1. CASE label[x] < map[y]
      <4>1. <<x, y, label[x]>> \in send_buffer'
        BY <1>1, <1>6, <1>9, <2>2, <2>3, <3>1
      <4>2. PICK m \in send_buffer' : m = <<x, y, label[x]>>
        BY <4>1
      <4>3. m[2] = y /\ m[3] <= label[x]
        BY <2>2, <4>2
      <4> QED BY <1>1, <4>3
    <3>2. CASE ~ (label[x] < map[y])
      BY <1>1, <2>2, <3>2
    <3> QED BY <3>1, <3>2
  <2>4. CASE Waits(x, y) /\ ~ (Rank(x) # Rank(y) /\ x \in changed)
    BY <1>1, <2>4 DEF Waits
  <2>5. CASE Told(y, label[x])
    BY <1>1, <2>5 DEF Told
  <2> QED BY <1>1, <2>1, <2>3, <2>4, <2>5
<1>10. \A m \in send_buffer' \cup recv_buffer' :
         /\ m[1] \in is_undecided /\ <<m[1], m[2]>> \in edges /\ Rank(m[1]) # Rank(m[2])
         /\ label'[m[1]] <= m[3] /\ Genuine(is_undecided, m[3], m[1])
  <2>1. \A m \in Messages :
         /\ m[1] \in is_undecided /\ <<m[1], m[2]>> \in edges /\ Rank(m[1]) # Rank(m[2])
         /\ label[m[1]] <= m[3] /\ Genuine(is_undecided, m[3], m[1])
    BY <1>2 DEF ForwardInv
  <2>2. ASSUME NEW m \in new
        PROVE  /\ m[1] \in is_undecided /\ <<m[1], m[2]>> \in edges /\ Rank(m[1]) # Rank(m[2])
               /\ label[m[1]] <= m[3] /\ Genuine(is_undecided, m[3], m[1])
    <3>1. m[1] \in is_undecided /\ m[3] = label[m[1]] /\ label[m[1]] \in Nat
      BY <1>2, <1>3, <1>5 DEF ForwardInv
    <3>2. Genuine(is_undecided, label[m[1]], m[1])
      BY <1>2, <3>1 DEF ForwardInv
    <3> QED BY <1>5, <3>1, <3>2
  <2> QED BY <1>1, <2>1, <2>2 DEF Messages
<1>11. ForwardInv'
  <2>1. /\ EarlierRounds(is_undecided) /\ has_changed' \subseteq is_undecided
        /\ \A v \in is_undecided : Genuine(is_undecided, label'[v], v) /\ label'[v] <= map[v]
    BY <1>1, <1>2 DEF ForwardInv
  <2> QED BY <1>1, <1>9, <1>10, <2>1, ForwardKept, Zenon
<1>12. NobodyAhead' /\ (search' = "push" => PeersWillBeNoted')
  <2>1. \A q \in Ranks : DOMAIN cache'[q] = {}
    BY <1>2 DEF NoCache
  <2> QED BY <2>1 DEF NobodyAhead
<1> QED BY <1>1, <1>7, <1>8, <1>11, <1>12, ForwardRound

\* A rank sends what changed at one vertex, to where it may matter.
LEMMA CacheFwPushStep ==
  ASSUME EitherInv, search = "push", NEW u \in Vertices, CacheFwPush(u), UNCHANGED search
  PROVE  EitherInv'
<1>1. PICK r, l, T : /\ r = Rank(u) /\ l = label[u]
                     /\ T = {v \in RemoteNeighbours(u) :
                               label[u] <= map[v] /\ Accepts(Rank(u), v, label[u])}
  OBVIOUS
<1>2. /\ phase = "forward" /\ MayPush(u) /\ PushTo(u, T) /\ Note(r, T, l)
  BY <1>1 DEF CacheFwPush
<1>3. /\ CacheTypeOK /\ TypeOK /\ StacksAgree /\ ForwardInv /\ NobodyAhead /\ PeersWillBeNoted
  BY <1>2 DEF EitherInv, EitherTypeOK, CacheTypeOK
<1>4. /\ is_undecided \in SUBSET Vertices /\ label \in [Vertices -> Nat]
      /\ map \in [Vertices -> Nat]
      /\ edges \in SUBSET (Vertices \X Vertices)
      /\ \A v \in Vertices : Rank(v) \in Ranks
      /\ has_changed \in SUBSET Vertices
      /\ send_buffer \in SUBSET (Vertices \X Vertices \X Nat)
      /\ recv_buffer \in SUBSET (Vertices \X Vertices \X Nat)
      /\ input \in Inputs
      /\ r \in Ranks /\ l \in Nat /\ label[u] = l
      /\ \A q \in Ranks : \A v \in DOMAIN cache[q] : cache[q][v] \in Nat
  BY <1>1, <1>3, InputFacts, MapsAssumption DEF CacheTypeOK, TypeOK
<1>5. /\ UNCHANGED <<input, map, phase, label, active, in_active, is_undecided,
                     recv_buffer, scc_id, local_decided>>
      /\ send_buffer' = send_buffer \cup ({u} \X T \X {l})
      /\ has_changed' = has_changed \ {u}
      /\ u \in has_changed /\ active[u] = 0 /\ u \in is_undecided
  BY <1>1, <1>2, <1>3 DEF PushTo, MayPush, Local, ForwardInv
<1>6. /\ T \in SUBSET (Vertices \ Local(r))
      /\ \A v \in T : <<u, v>> \in edges /\ Rank(v) # Rank(u) /\ l <= map[v]
      /\ \A v \in T : Accepts(r, v, l)
      /\ \A v \in Vertices \ T : <<u, v>> \in edges /\ Rank(v) # Rank(u) =>
           ~ (l <= map[v]) \/ ~ Accepts(r, v, l)
  BY <1>1, <1>2, <1>4 DEF RemoteNeighbours, Neighbours, Succ, Local
<1>7. /\ DOMAIN cache' = Ranks
      /\ \A q \in Ranks \ {r} : cache'[q] = cache[q]
      /\ DOMAIN cache'[r] = DOMAIN cache[r] \cup T
      /\ \A v \in DOMAIN cache'[r] :
           cache'[r][v] = IF v \in T /\ Accepts(r, v, l) THEN l ELSE cache[r][v]
      /\ \A v \in DOMAIN cache[r] : cache'[r][v] <= cache[r][v]
      /\ \A v \in T : cache'[r][v] <= l
      /\ \A q \in Ranks : \A v \in DOMAIN cache'[q] :
           v \in Vertices \ Local(q) /\ cache'[q][v] \in Nat
  <2>1. /\ CacheTypeOK /\ r \in Ranks /\ T \in SUBSET (Vertices \ Local(r)) /\ l \in Nat
      /\ Note(r, T, l)
    BY <1>2, <1>3, <1>4, <1>6
  <2> QED BY <2>1, NoteFacts DEF CacheTypeOK
<1>8. /\ \A q : Local(q)' = Local(q)
      /\ \A v : Rank(v)' = Rank(v)
      /\ edges' = edges
  BY <1>5, InputUnchanged
<1>9. StacksAgree'
  BY <1>3, <1>5 DEF StacksAgree
<1>10. CacheTypeOK'
  <2>1. send_buffer' \in SUBSET (Vertices \X Vertices \X Nat) /\ has_changed' \in SUBSET Vertices
    BY <1>4, <1>5, <1>6
  <2> QED BY <1>3, <1>5, <1>7, <1>8, <2>1 DEF CacheTypeOK, TypeOK
\* Who is not told has a label that small, or will be told one.
<1>11. ASSUME NEW y \in is_undecided, <<u, y>> \in edges, Rank(u) # Rank(y)
       PROVE  \/ <<u, y, l>> \in send_buffer'
              \/ l > map[y] \/ label[y] < l
              \/ \E m \in Messages : m[2] = y /\ m[3] < l
  <2>1. y \in Vertices /\ map[y] \in Nat /\ label[y] \in Nat
    BY <1>4
  <2>2. CASE y \in T
    BY <1>5, <2>2
  <2>3. CASE y \notin T /\ ~ (l <= map[y])
    BY <1>4, <2>1, <2>3
  <2>4. CASE ~ Accepts(r, y, l)
    <3>1. y \in DOMAIN cache[r] /\ ~ (l <= cache[r][y]) /\ cache[r][y] \in Nat
      BY <1>4, <2>4 DEF Accepts, Noted
    <3>2. label[y] <= cache[r][y] \/ Told(y, cache[r][y])
      BY <1>2, <1>3, <1>4, <3>1 DEF NobodyAhead
    <3>3. ASSUME NEW m \in Messages, m[2] = y, m[3] <= cache[r][y]
          PROVE  m[3] < l
      <4>1. m[3] \in Nat
        BY <1>4 DEF Messages
      <4> QED BY <1>4, <3>1, <3>3, <4>1
    <3> QED BY <1>4, <2>1, <3>1, <3>2, <3>3 DEF Told, Messages
  <2> QED BY <1>6, <1>11, <2>1, <2>2, <2>3, <2>4
<1>12. Messages \subseteq Messages' /\ send_buffer' \subseteq Messages'
       /\ Messages' = send_buffer' \cup recv_buffer'
  BY <1>5 DEF Messages
<1>13. ASSUME NEW x \in is_undecided, NEW y \in is_undecided, <<x, y>> \in edges
       PROVE  \/ label'[y] <= label'[x]
              \/ x \in in_active' \/ (Rank(x) # Rank(y) /\ x \in has_changed')
              \/ \E m \in send_buffer' \cup recv_buffer' : m[2] = y /\ m[3] <= label'[x]
  <2>1. label[y] <= label[x] \/ Waits(x, y) \/ Told(y, label[x])
    BY <1>3, <1>13 DEF ForwardInv, UndecidedEdges
  <2>2. /\ label[x] \in Nat /\ label[y] \in Nat /\ map[y] \in Nat /\ label[y] <= map[y]
        /\ x \in Vertices /\ y \in Vertices
    BY <1>3, <1>4 DEF ForwardInv
  <2>3. CASE x = u /\ Rank(x) # Rank(y)
    <3>1. CASE <<u, y, l>> \in send_buffer'
      <4>1. PICK m \in send_buffer' : m = <<u, y, l>>
        BY <3>1
      <4>2. m[2] = y /\ m[3] <= label[x]
        BY <1>4, <2>3, <4>1
      <4> QED BY <1>5, <4>2
    <3>2. CASE l > map[y] \/ label[y] < l
      BY <1>4, <1>5, <2>2, <2>3, <3>2
    <3>3. ASSUME NEW m \in Messages, m[2] = y, m[3] < l
          PROVE  \E k \in send_buffer' \cup recv_buffer' : k[2] = y /\ k[3] <= label'[x]
      <4>1. m[3] \in Nat
        BY <1>4 DEF Messages
      <4>2. m[3] <= label'[x]
        BY <1>4, <1>5, <2>3, <3>3, <4>1
      <4> QED BY <1>12, <3>3, <4>2
    <3> QED BY <1>11, <1>13, <2>3, <3>1, <3>2, <3>3
  <2>4. CASE Waits(x, y) /\ ~ (x = u /\ Rank(x) # Rank(y))
    BY <1>5, <2>4 DEF Waits
  <2>5. CASE Told(y, label[x])
    BY <1>5, <2>5 DEF Told
  <2> QED BY <1>5, <2>1, <2>3, <2>4, <2>5
<1>14. \A m \in send_buffer' \cup recv_buffer' :
         /\ m[1] \in is_undecided /\ <<m[1], m[2]>> \in edges /\ Rank(m[1]) # Rank(m[2])
         /\ label'[m[1]] <= m[3] /\ Genuine(is_undecided, m[3], m[1])
  <2>1. \A m \in Messages :
         /\ m[1] \in is_undecided /\ <<m[1], m[2]>> \in edges /\ Rank(m[1]) # Rank(m[2])
         /\ label[m[1]] <= m[3] /\ Genuine(is_undecided, m[3], m[1])
    BY <1>3 DEF ForwardInv
  <2>2. ASSUME NEW v \in T, NEW m, m = <<u, v, l>>
        PROVE  /\ m[1] \in is_undecided /\ <<m[1], m[2]>> \in edges /\ Rank(m[1]) # Rank(m[2])
               /\ label[m[1]] <= m[3] /\ Genuine(is_undecided, m[3], m[1])
    <3>1. Genuine(is_undecided, label[u], u)
      BY <1>3, <1>5 DEF ForwardInv
    <3>2. m[1] = u /\ m[2] = v /\ m[3] = l
      BY <2>2
    <3>3. label[u] <= l
      BY <1>4
    <3> QED BY <1>4, <1>5, <1>6, <3>1, <3>2, <3>3
  <2>3. \A m \in {u} \X T \X {l} : \E v \in T : m = <<u, v, l>>
    OBVIOUS
  <2>4. label' = label /\ send_buffer' \cup recv_buffer' \subseteq Messages \cup ({u} \X T \X {l})
    BY <1>5 DEF Messages
  <2> HIDE DEF Messages
  <2> QED BY <2>1, <2>2, <2>3, <2>4
<1>15. ForwardInv'
  <2>1. /\ EarlierRounds(is_undecided) /\ has_changed' \subseteq is_undecided
        /\ \A v \in is_undecided : Genuine(is_undecided, label'[v], v) /\ label'[v] <= map[v]
    BY <1>3, <1>5 DEF ForwardInv
  <2> QED BY <1>5, <1>13, <1>14, <2>1, ForwardKept, Zenon
<1>16. NobodyAhead'
  <2>1. ASSUME NEW q \in Ranks, NEW v \in DOMAIN cache'[q] \cap is_undecided
        PROVE  label[v] <= cache'[q][v] \/ \E m \in Messages' : m[2] = v /\ m[3] <= cache'[q][v]
    <3>1. CASE v \in DOMAIN cache[q] /\ cache'[q][v] = cache[q][v]
      <4>1. label[v] <= cache[q][v] \/ Told(v, cache[q][v])
        BY <1>2, <1>3, <2>1, <3>1 DEF NobodyAhead
      <4> QED BY <1>12, <3>1, <4>1 DEF Told, Messages
    <3>2. CASE q = r /\ v \in T /\ cache'[q][v] = l
      <4>1. PICK m \in send_buffer' : m = <<u, v, l>>
        BY <1>5, <3>2
      <4>2. m[2] = v /\ m[3] <= cache'[q][v]
        BY <1>4, <3>2, <4>1
      <4> QED BY <1>12, <4>2
    <3>3. \/ v \in DOMAIN cache[q] /\ cache'[q][v] = cache[q][v]
          \/ q = r /\ v \in T /\ cache'[q][v] = l
      BY <1>4, <1>6, <1>7, <2>1
    <3> QED BY <3>1, <3>2, <3>3
  <2> QED BY <1>5, <1>12, <2>1 DEF NobodyAhead, Told
<1>17. PeersWillBeNoted'
  <2>1. ASSUME NEW x \in is_undecided, NEW y \in is_undecided, <<x, y>> \in edges, Rank(x) # Rank(y)
        PROVE  \/ x \in has_changed'
               \/ label[x] > map[y] \/ label[y] < label[x]
               \/ \E m \in Messages' : m[2] = y /\ m[3] < label[x]
               \/ <<x, y, label[x]>> \in Messages'
               \/ x \in DOMAIN cache'[Rank(y)] /\ cache'[Rank(y)][x] <= label[x]
    <3>1. WillBeNoted(x, y)
      BY <1>3, <2>1 DEF PeersWillBeNoted, UndecidedEdges
    <3>2. CASE x = u
      BY <1>4, <1>11, <1>12, <2>1, <3>2
    <3>3. CASE x \in has_changed /\ x # u
      BY <1>5, <3>3
    <3>4. CASE Noted(Rank(y), x) /\ cache[Rank(y)][x] <= label[x]
      <4>1. x \in DOMAIN cache[Rank(y)] /\ Rank(y) \in Ranks /\ label[x] \in Nat
        BY <1>4, <3>4 DEF Noted
      <4>2. /\ x \in DOMAIN cache'[Rank(y)] /\ cache'[Rank(y)][x] <= cache[Rank(y)][x]
            /\ cache[Rank(y)][x] \in Nat /\ cache'[Rank(y)][x] \in Nat
        BY <1>4, <1>7, <4>1
      <4> QED BY <3>4, <4>1, <4>2
    <3> QED BY <1>12, <3>1, <3>2, <3>3, <3>4 DEF WillBeNoted
  <2> QED BY <1>5, <1>8, <2>1 DEF PeersWillBeNoted, WillBeNoted, Noted, UndecidedEdges
<1>18. search = "plain" => cache' = cache
  OBVIOUS
<1> QED BY <1>2, <1>5, <1>9, <1>10, <1>15, <1>16, <1>17, <1>18, ForwardRound

\* A round begins: every undecided vertex has its own label and is on a stack.
LEMMA BeginStep ==
  ASSUME EitherInv, search # "pull", Begin, UNCHANGED <<cache, search>>
  PROVE  EitherInv'
<1>1. /\ phase = "call" /\ phase' = "forward"
      /\ label' = [v \in Vertices |-> IF v \in is_undecided THEN map[v] ELSE label[v]]
      /\ in_active' = is_undecided /\ has_changed' = is_undecided
      /\ active' = [v \in Vertices |-> IF v \in is_undecided THEN 1 ELSE 0]
      /\ UNCHANGED <<input, map, is_undecided, send_buffer, recv_buffer, scc_id, local_decided>>
  BY DEF Begin
<1>2. /\ CacheTypeOK /\ TypeOK /\ DecidedOnce /\ cache = NoCache /\ is_undecided # {}
      /\ EarlierRounds(is_undecided) /\ Messages = {}
  BY <1>1 DEF EitherInv, EitherTypeOK, CacheTypeOK
<1>3. is_undecided \in SUBSET Vertices /\ map \in [Vertices -> Nat] /\ label \in [Vertices -> Nat]
  BY <1>2, MapsAssumption DEF TypeOK
<1>4. /\ \A r : Local(r)' = Local(r)
      /\ \A v : Rank(v)' = Rank(v)
      /\ edges' = edges
  BY <1>1, InputUnchanged
<1>5. StacksAgree' /\ label' \in [Vertices -> Nat]
  BY <1>1, <1>3 DEF StacksAgree
<1>6. CacheTypeOK'
  BY <1>1, <1>2, <1>3, <1>4, <1>5 DEF CacheTypeOK, TypeOK
<1>7. DecidedOnce'
  BY <1>1, <1>2, <1>4 DEF DecidedOnce
<1>8. ForwardInv'
  <2>1. \A v \in is_undecided : Genuine(is_undecided, label'[v], v) /\ label'[v] <= map[v]
    BY <1>1, <1>3, GenuineOwn
  <2>2. /\ \A m \in send_buffer' \cup recv_buffer' :
             /\ m[1] \in is_undecided /\ <<m[1], m[2]>> \in edges /\ Rank(m[1]) # Rank(m[2])
             /\ label'[m[1]] <= m[3] /\ Genuine(is_undecided, m[3], m[1])
        /\ \A x, y \in is_undecided : <<x, y>> \in edges =>
             \/ label'[y] <= label'[x]
             \/ x \in in_active' \/ (Rank(x) # Rank(y) /\ x \in has_changed')
             \/ \E m \in send_buffer' \cup recv_buffer' : m[2] = y /\ m[3] <= label'[x]
        /\ has_changed' \subseteq is_undecided
    BY <1>1, <1>2 DEF Messages
  <2> QED BY <1>1, <1>2, <2>1, <2>2, ForwardKept
<1>9. NobodyAhead' /\ PeersWillBeNoted'
  <2>1. \A r \in Ranks : DOMAIN cache'[r] = {}
    BY <1>2 DEF NoCache
  <2>2. \A e \in UndecidedEdges' : e[1] \in has_changed'
    BY <1>1 DEF UndecidedEdges
  <2> QED BY <2>1, <2>2 DEF NobodyAhead, PeersWillBeNoted, WillBeNoted
<1>10. cache' = NoCache'
  BY <1>2 DEF NoCache
<1> QED BY <1>1, <1>2, <1>5, <1>6, <1>7, <1>8, <1>9, <1>10 DEF EitherInv, EitherTypeOK

\* Where messages go from one buffer to the other, or nothing happens, nothing
\* is said that was not true before.
LEMMA NothingChanges ==
  ASSUME EitherInv,
         UNCHANGED <<input, map, phase, label, active, in_active, has_changed, is_undecided,
                     scc_id, local_decided, cache, search>>,
         send_buffer' \cup recv_buffer' = send_buffer \cup recv_buffer
  PROVE  EitherInv'
<1>1. /\ EitherTypeOK /\ DecidedOnce
      /\ map \in Maps /\ phase \in {"call", "forward", "backward", "done"}
      /\ has_changed \in SUBSET Vertices
      /\ send_buffer \in SUBSET (Vertices \X Vertices \X Nat)
      /\ recv_buffer \in SUBSET (Vertices \X Vertices \X Nat)
  BY SharedTypes DEF EitherInv
<1>2. /\ edges' = edges
      /\ \A v : Rank(v)' = Rank(v)
      /\ \A r : Local(r)' = Local(r)
      /\ \A S : Within(S)' = Within(S)
      /\ \A S, l, v : Genuine(S, l, v)' = Genuine(S, l, v)
      /\ \A S, l, v : Reaching(S, l, v)' = Reaching(S, l, v)
      /\ NoCache' = NoCache
  BY InputUnchanged DEF NoCache
<1>3. Messages' = Messages
  BY DEF Messages
<1>4. EitherTypeOK'
  <2>1. /\ map' \in Maps /\ phase' \in {"call", "forward", "backward", "done"}
        /\ has_changed' \in SUBSET Vertices
        /\ send_buffer' \in SUBSET (Vertices \X Vertices \X Nat)
        /\ recv_buffer' \in SUBSET (Vertices \X Vertices \X Nat)
    BY <1>1
  <2>2. search # "pull" => in_active \subseteq has_changed'
    BY <1>1 DEF EitherTypeOK, CacheTypeOK, TypeOK, StacksAgree
  <2> QED BY <1>1, <2>1, <2>2, TypesKept
<1>5. DecidedOnce'
  BY <1>1, <1>2 DEF DecidedOnce
<1>6. \A S : EarlierRounds(S)' = EarlierRounds(S)
  BY <1>2 DEF EarlierRounds
<1>7. UndecidedEdges' = UndecidedEdges
  BY <1>2 DEF UndecidedEdges
<1>8. /\ \A v, l : Told(v, l)' <=> Told(v, l)
      /\ \A x, y : Waits(x, y)' <=> Waits(x, y)
      /\ \A r, v : Noted(r, v)' <=> Noted(r, v)
  BY <1>2 DEF Told, Waits, Noted
<1>9. \A y, l : Due(y, l)' <=> Due(y, l)
  BY <1>2, <1>8 DEF Due
<1>10. /\ \A x, y : WillBeHeard(x, y)' <=> WillBeHeard(x, y)
       /\ \A x, y : WillBeNoted(x, y)' <=> WillBeNoted(x, y)
       /\ \A x, y : WillAsk(x, y)' <=> WillAsk(x, y)
  <2>1. \A x, y : WillBeHeard(x, y)' <=> WillBeHeard(x, y)
    BY <1>2, <1>3, <1>8, <1>9 DEF WillBeHeard
  <2>2. \A x, y : WillBeNoted(x, y)' <=> WillBeNoted(x, y)
    BY <1>2, <1>3, <1>8 DEF WillBeNoted
  <2>3. \A x, y : WillAsk(x, y)' <=> WillAsk(x, y)
    BY <1>2 DEF WillAsk
  <2> QED BY <2>1, <2>2, <2>3
<1>11. ForwardInv' <=> ForwardInv
  BY <1>2, <1>3, <1>6, <1>7, <1>8 DEF ForwardInv
<1>12. NobodyAhead' <=> NobodyAhead
  BY <1>8 DEF NobodyAhead
<1>13. PeersWillBeNoted' <=> PeersWillBeNoted
  BY <1>2, <1>7, <1>10 DEF PeersWillBeNoted
<1>14. PullForwardInv' <=> PullForwardInv
  BY <1>2, <1>3, <1>6, <1>7, <1>9, <1>10 DEF PullForwardInv
<1>15. \A S : BackwardInv(S)' <=> BackwardInv(S)
  BY <1>2, <1>3, <1>6, <1>8, <1>10 DEF BackwardInv
<1> QED BY <1>2, <1>3, <1>4, <1>5, <1>6, <1>11, <1>12, <1>13, <1>14, <1>15 DEF EitherInv

\* The ranks exchange what they pushed: nothing is lost, and nothing else changes.
LEMMA ExchangeStep ==
  ASSUME EitherInv, Exchange, UNCHANGED <<cache, search>>
  PROVE  EitherInv'
BY NothingChanges DEF Exchange, AllAtComm

\* Nothing is said of an unchanged state that was not true before.
LEMMA RoundStutter ==
  ASSUME EitherInv, UNCHANGED searchVars
  PROVE  EitherInv'
BY NothingChanges DEF searchVars, cacheVars, vars

\* Nothing is left to do for any rank when comm returns false.
LEMMA NothingWaits ==
  ASSUME EitherTypeOK, AllAtComm, send_buffer = {}
  PROVE  in_active = {} /\ has_changed = {} /\ Messages = {}
<1>1. \A v \in in_active : v \in Vertices /\ active[v] = 1
  BY DEF EitherTypeOK, PullTypeOK, CacheTypeOK, TypeOK, StacksAgree
<1> QED BY <1>1 DEF AllAtComm, Messages

\* The labels are settled when the ranks agree to stop the forward search.
LEMMA ForwardSettled ==
  ASSUME EitherTypeOK, ForwardInv, AllAtComm, send_buffer = {}
  PROVE  \A e \in UndecidedEdges : label[e[2]] <= label[e[1]]
BY NothingWaits DEF ForwardInv, Waits, Told, Messages

\* The caches are exact then, if labels are pushed with a cache.
LEMMA PeersExact ==
  ASSUME EitherTypeOK, search = "push", ForwardInv, NobodyAhead, PeersWillBeNoted,
         AllAtComm, send_buffer = {}, phase = "forward"
  PROVE  \A e \in UndecidedEdges :
           Rank(e[1]) # Rank(e[2]) /\ label[e[1]] = label[e[2]]
             => Noted(Rank(e[2]), e[1]) /\ cache[Rank(e[2])][e[1]] = label[e[1]]
<1> SUFFICES ASSUME NEW x \in is_undecided, NEW y \in is_undecided, <<x, y>> \in edges,
                    Rank(x) # Rank(y), label[x] = label[y]
             PROVE  Noted(Rank(y), x) /\ cache[Rank(y)][x] = label[x]
  BY DEF UndecidedEdges
<1>1. CacheTypeOK /\ TypeOK /\ x \in Vertices /\ y \in Vertices
  BY DEF EitherTypeOK, CacheTypeOK, TypeOK
<1>2. /\ label[x] \in Nat /\ label[y] \in Nat /\ map[y] \in Nat /\ label[y] <= map[y]
      /\ Rank(y) \in Ranks
  BY <1>1, InputFacts, MapsAssumption DEF TypeOK, ForwardInv
<1>3. has_changed = {} /\ Messages = {}
  BY NothingWaits
<1>4. Noted(Rank(y), x) /\ cache[Rank(y)][x] <= label[x]
  <2>1. WillBeNoted(x, y)
    BY DEF PeersWillBeNoted, UndecidedEdges
  <2> QED BY <1>2, <1>3, <2>1 DEF WillBeNoted
<1>5. label[x] <= cache[Rank(y)][x] /\ cache[Rank(y)][x] \in Nat
  <2>1. x \in DOMAIN cache[Rank(y)]
    BY <1>4 DEF Noted
  <2>2. cache[Rank(y)][x] \in Nat
    BY <1>1, <1>2, <2>1 DEF CacheTypeOK
  <2> QED BY <1>2, <1>3, <2>1, <2>2 DEF NobodyAhead, Told, Messages
<1> QED BY <1>2, <1>4, <1>5

\* The vertices that kept their own label are decided, as roots of their
\* components, once the labels are settled and the caches are exact.
LEMMA BackwardBegins ==
  ASSUME EitherInv, phase = "forward", AllAtComm, send_buffer = {},
         NEW S, S = is_undecided, NEW D, D = {v \in S : label[v] = map[v]},
         EarlierRounds(S),
         \A v \in S : label[v] \in Nat /\ label[v] <= map[v] /\ Reaching(S, label[v], v),
         \A v \in Vertices \ S : search = "pull" => label[v] = Undecided,
         \A e \in UndecidedEdges : label[e[2]] <= label[e[1]],
         search # "plain" => \A e \in UndecidedEdges :
           Rank(e[1]) # Rank(e[2]) /\ label[e[1]] = label[e[2]]
             => Noted(Rank(e[2]), e[1]) /\ cache[Rank(e[2])][e[1]] = label[e[1]],
         DecideAll(D), has_changed' = D,
         phase' = "backward", EitherTypeOK',
         UNCHANGED <<input, map, label, send_buffer, recv_buffer, cache, search>>,
         \A x \in S \ D : \A y \in D : <<x, y>> \in edges /\ Rank(x) = Rank(y) =>
           IF search = "pull" THEN x \in in_active' ELSE y \in in_active'
  PROVE  EitherInv'
<1>1. /\ S \in SUBSET Vertices /\ D \in SUBSET S
      /\ map \in [Vertices -> Nat] /\ input \in Inputs /\ map \in Maps
      /\ DecidedOnce
      /\ scc_id \in [Vertices -> Vertices \cup {Undecided}] /\ local_decided \in [Ranks -> Nat]
  BY SharedTypes DEF EitherInv
<1>2. in_active = {} /\ has_changed = {} /\ Messages = {}
  BY NothingWaits DEF EitherInv
<1>3. /\ edges' = edges
      /\ \A v : Rank(v)' = Rank(v)
      /\ \A T : Within(T)' = Within(T)
      /\ \A T, l, v : Reaching(T, l, v)' = Reaching(T, l, v)
  BY InputUnchanged
<1>4. \A v \in D : label[v] = map[v] /\ unmap(label[v]) = v
  BY <1>1, MapFacts
<1>5. DecidedOnce'
  BY <1>1, <1>4, DecideKeepsRecords
<1>6. is_undecided' = S \ D /\ \A v \in Vertices : scc_id'[v] = IF v \in D THEN v ELSE scc_id[v]
  BY <1>4 DEF DecideAll
<1>7. UndecidedEdges = Within(S)
  BY DEF UndecidedEdges, Within
<1>8. BackwardInv(S)'
  <2>1. is_undecided' \subseteq S /\ has_changed' \subseteq S \ is_undecided'
    BY <1>1, <1>6
  <2>2. \A v \in is_undecided' : label[v] # map[v]
    BY <1>6
  <2>3. \A v \in S \ is_undecided' : label[v] = map[scc_id'[v]] /\ scc_id'[v] \in SCC(edges, v)
    BY <1>1, <1>4, <1>6, SccSelf
  <2>4. EarlierRounds(S)'
    <3>1. ASSUME NEW u \in Vertices \ S, NEW v \in SCC(edges, u) PROVE scc_id'[v] = scc_id[v]
      <4>1. v \in Vertices /\ v \notin S
        BY SccClass DEF EarlierRounds
      <4> QED BY <1>1, <1>6, <4>1
    <3>2. \A u \in Vertices \ S : scc_id'[u] = scc_id[u]
      BY <1>1, <1>6
    <3> QED BY <1>3, <3>1, <3>2 DEF EarlierRounds
  <2>5. Messages' = {}
    BY <1>2 DEF Messages
  <2>6. \A x \in is_undecided' : \A y \in S \ is_undecided' :
          <<x, y>> \in edges => WillAsk(y, x)'
    BY <1>1, <1>3, <1>6 DEF WillAsk
  <2> QED BY <1>3, <1>7, <2>1, <2>2, <2>3, <2>4, <2>5, <2>6 DEF BackwardInv, Noted
<1>9. S \in SUBSET Vertices /\ NoCache' = NoCache
  BY <1>1 DEF NoCache
<1> QED BY <1>5, <1>8, <1>9 DEF EitherInv

\* The searches that push find the labels settled and the caches exact.
LEMMA FwEndStep ==
  ASSUME EitherInv, search # "pull", FwEnd, UNCHANGED <<cache, search>>
  PROVE  EitherInv'
<1>1. PICK S, D : S = is_undecided /\ D = {v \in S : label[v] = map[v]}
  OBVIOUS
<1>2. /\ phase = "forward" /\ AllAtComm /\ send_buffer = {} /\ phase' = "backward"
      /\ DecideAll(D)
      /\ in_active' = D /\ has_changed' = D
      /\ active' = [v \in Vertices |-> active[v] + IF v \in D THEN 1 ELSE 0]
      /\ UNCHANGED <<input, map, label, send_buffer, recv_buffer, cache, search>>
  BY <1>1 DEF FwEnd, PhaseOver
<1>3. /\ CacheTypeOK /\ TypeOK /\ DecidedOnce /\ ForwardInv /\ NobodyAhead
      /\ search = "push" => PeersWillBeNoted
      /\ search \in {"plain", "push"} /\ EitherTypeOK
  BY <1>2 DEF EitherInv, EitherTypeOK, CacheTypeOK
<1>4. /\ S \in SUBSET Vertices /\ D \in SUBSET S /\ label \in [Vertices -> Nat]
      /\ map \in [Vertices -> Nat] /\ input \in Inputs /\ map \in Maps
  BY <1>1, <1>3, MapsAssumption DEF TypeOK
<1>5. \A v \in D : unmap(label[v]) \in Vertices
  BY <1>1, <1>4, MapFacts
<1>6. /\ is_undecided' \in SUBSET Vertices
      /\ scc_id' \in [Vertices -> Vertices \cup {Undecided}]
      /\ local_decided' \in [Ranks -> Nat]
  BY <1>1, <1>2, <1>3, <1>4, <1>5, DecideKeepsRecords DEF TypeOK
<1>7. StacksAgree' /\ active' \in [Vertices -> Nat]
  <2>1. \A v \in Vertices : active[v] = 0
    BY <1>2 DEF AllAtComm
  <2> QED BY <1>2, <2>1 DEF StacksAgree
<1>8. EitherTypeOK'
  <2>1. CacheTypeOK'
    BY <1>2, <1>3, <1>4, <1>6, <1>7, InputUnchanged DEF CacheTypeOK, TypeOK
  <2> QED BY <1>2, <1>3, <1>7, <2>1 DEF EitherTypeOK
<1>9. /\ EarlierRounds(S)
      /\ \A v \in S : label[v] \in Nat /\ label[v] <= map[v] /\ Reaching(S, label[v], v)
  BY <1>1, <1>3, <1>4, GenuineIsReaching DEF ForwardInv
<1>10. \A e \in UndecidedEdges : label[e[2]] <= label[e[1]]
  BY <1>2, <1>3, ForwardSettled
<1>11. search # "plain" => \A e \in UndecidedEdges :
         Rank(e[1]) # Rank(e[2]) /\ label[e[1]] = label[e[2]]
           => Noted(Rank(e[2]), e[1]) /\ cache[Rank(e[2])][e[1]] = label[e[1]]
  BY <1>2, <1>3, PeersExact
<1>12. \A x \in S \ D : \A y \in D : <<x, y>> \in edges /\ Rank(x) = Rank(y) =>
         IF search = "pull" THEN x \in in_active' ELSE y \in in_active'
  BY <1>2
<1>13. \A v \in Vertices \ S : search = "pull" => label[v] = Undecided
  OBVIOUS
<1> QED BY <1>1, <1>2, <1>8, <1>9, <1>10, <1>11, <1>12, <1>13, BackwardBegins
-----------------------------------------------------------------------------
(* The backward search                                                     *)

\* What a step of the backward search has to show, without primed definitions.
LEMMA BackwardKept ==
  ASSUME NEW S \in SUBSET Vertices, BackwardInv(S),
         UNCHANGED <<input, map, label, cache, search>>,
         is_undecided' \subseteq is_undecided, has_changed' \subseteq S \ is_undecided',
         \A v \in Vertices :
           \/ scc_id'[v] = scc_id[v] /\ (v \in is_undecided => v \in is_undecided')
           \/ /\ v \in is_undecided \ is_undecided'
              /\ label[v] = map[scc_id'[v]] /\ scc_id'[v] \in SCC(edges, v),
         \A m \in send_buffer' \cup recv_buffer' :
           /\ m[1] \in S \ is_undecided' /\ <<m[2], m[1]>> \in edges /\ Rank(m[1]) # Rank(m[2])
           /\ m[3] = label[m[1]],
         \A x \in is_undecided' : \A y \in S \ is_undecided' :
           <<x, y>> \in edges /\ label[x] = label[y] =>
             \/ IF Rank(x) # Rank(y) THEN y \in has_changed'
                ELSE IF search = "pull" THEN x \in in_active' ELSE y \in in_active'
             \/ \E m \in send_buffer' \cup recv_buffer' : m[2] = x /\ m[3] = label[x]
  PROVE  BackwardInv(S)'
<1>1. /\ \A v : Rank(v)' = Rank(v)
      /\ edges' = edges
      /\ \A T : Within(T)' = Within(T)
      /\ \A T, l, v : Reaching(T, l, v)' = Reaching(T, l, v)
  BY InputUnchanged
<1>2. /\ is_undecided \subseteq S /\ EarlierRounds(S)
      /\ \A v \in S : label[v] \in Nat /\ label[v] <= map[v] /\ Reaching(S, label[v], v)
  BY DEF BackwardInv
<1>3. EarlierRounds(S)'
  <2>1. \A v \in Vertices \ S : scc_id'[v] = scc_id[v]
    BY <1>2
  <2>2. \A u \in Vertices \ S : \A v \in SCC(edges, u) : v \in Vertices \ S
    BY <1>2, SccClass DEF EarlierRounds
  <2> QED BY <1>1, <1>2, <2>1, <2>2 DEF EarlierRounds
<1>4. \A v \in S : label'[v] \in Nat /\ label'[v] <= map'[v] /\ Reaching(S, label[v], v)'
  BY <1>1, <1>2
<1>5. \A v \in S \ is_undecided' : label[v] = map[scc_id'[v]] /\ scc_id'[v] \in SCC(edges, v)
  BY DEF BackwardInv
<1>6. /\ \A v \in is_undecided' : label[v] # map[v]
      /\ \A v \in Vertices \ S : search = "pull" => label[v] = Undecided
      /\ \A e \in Within(S) : label[e[2]] <= label[e[1]]
  BY DEF BackwardInv
<1>7. search # "plain" => \A e \in Within(S) :
         Rank(e[1]) # Rank(e[2]) /\ label[e[1]] = label[e[2]]
           => Noted(Rank(e[2]), e[1]) /\ cache[Rank(e[2])][e[1]] = label[e[1]]
  BY DEF BackwardInv
<1>8. Messages' = send_buffer' \cup recv_buffer'
  BY DEF Messages
<1>9. \A x \in is_undecided' : \A y \in S \ is_undecided' :
         <<x, y>> \in edges /\ label[x] = label[y] =>
           WillAsk(y, x)' \/ \E m \in Messages' : m[2] = x /\ m[3] = label[x]
  BY <1>1, <1>8 DEF WillAsk
<1>10. is_undecided' \subseteq S
  BY <1>2
<1> QED BY <1>1, <1>3, <1>4, <1>5, <1>6, <1>7, <1>8, <1>9, <1>10 DEF BackwardInv, Noted

\* Who shares its label with a decided vertex it has an edge to is of its
\* component, and the id is the one the label stands for.
LEMMA PeerOfDecided ==
  ASSUME EitherTypeOK, NEW S \in SUBSET Vertices, BackwardInv(S),
         NEW v \in is_undecided, NEW y \in S \ is_undecided,
         <<v, y>> \in edges, label[v] = label[y]
  PROVE  unmap(label[v]) \in SCC(edges, v) /\ label[v] = map[unmap(label[v])]
<1>1. PICK r : r = scc_id[y]
  OBVIOUS
<1>2. /\ label[y] = map[r] /\ r \in SCC(edges, y) /\ Reaching(S, label[v], v)
      /\ v \in S /\ v \in Vertices /\ y \in Vertices /\ map \in Maps
  BY <1>1, SharedTypes DEF BackwardInv
<1>3. r \in Vertices /\ r \in Reach(edges, y)
  BY <1>2 DEF SCC, Reach
<1>4. unmap(label[v]) = r
  BY <1>2, <1>3, MapFacts
<1>5. v \in Reach(edges, r)
  BY <1>2, <1>3, MapFacts DEF Reaching
<1>6. y \in Reach(edges, v)
  BY <1>2, ReachSelf, ReachStep
<1>7. r \in Reach(edges, v)
  BY <1>2, <1>3, <1>6, ReachTransitive
<1> QED BY <1>2, <1>4, <1>5, <1>7 DEF SCC

\* Deciding the vertices of T with label l.
LEMMA BwHandleStep ==
  ASSUME EitherTypeOK, search # "pull", DecidedOnce,
         NEW S \in SUBSET Vertices, BackwardInv(S),
         NEW T \in SUBSET Vertices, NEW drained \in SUBSET in_active,
         NEW y \in S \ is_undecided, \A v \in T : <<v, y>> \in edges,
         BwHandle(T, label[y], drained)
  PROVE  /\ UNCHANGED <<input, map, phase, label, send_buffer>>
         /\ StacksAgree' /\ DecidedOnce'
         /\ active' \in [Vertices -> Nat]
         /\ in_active' \in SUBSET Vertices /\ has_changed' \in SUBSET Vertices
         /\ is_undecided' \in SUBSET Vertices
         /\ scc_id' \in [Vertices -> Vertices \cup {Undecided}]
         /\ local_decided' \in [Ranks -> Nat]
         /\ in_active \ drained \subseteq in_active'
         /\ is_undecided \ is_undecided' \subseteq in_active'
         /\ has_changed \subseteq has_changed'
         /\ is_undecided' \subseteq is_undecided /\ has_changed' \subseteq S \ is_undecided'
         /\ \A v \in is_undecided' : v \notin T \/ label[v] # label[y]
         /\ \A v \in Vertices : \/ scc_id'[v] = scc_id[v]
                                   /\ (v \in is_undecided => v \in is_undecided')
                                \/ /\ v \in is_undecided \ is_undecided'
                                   /\ label[v] = map[scc_id'[v]] /\ scc_id'[v] \in SCC(edges, v)
<1>1. PICK D : D = SameLabel(T, label[y])
  OBVIOUS
<1>2. /\ DecideAll(D) /\ Activate(D, drained)
      /\ UNCHANGED <<input, map, phase, label, send_buffer>>
  BY <1>1 DEF BwHandle
<1>3. /\ is_undecided \in SUBSET Vertices /\ is_undecided \subseteq S
      /\ has_changed \subseteq S \ is_undecided
      /\ \A v \in Vertices : v \in in_active => v \in has_changed
      /\ in_active \in SUBSET Vertices
      /\ TypeOK /\ StacksAgree
  BY DEF EitherTypeOK, CacheTypeOK, TypeOK, BackwardInv, StacksAgree
<1>4. /\ D \in SUBSET is_undecided /\ D \in SUBSET Vertices
      /\ \A v \in D : v \in T /\ label[v] = label[y]
      /\ \A v \in is_undecided \ D : v \notin T \/ label[v] # label[y]
      /\ D \cap drained = {}
  BY <1>1, <1>3 DEF SameLabel
<1>5. \A v \in D : unmap(label[v]) \in SCC(edges, v) /\ label[v] = map[unmap(label[v])]
  BY <1>4, PeerOfDecided
<1>6. \A v \in D : unmap(label[v]) \in Vertices
  BY <1>5 DEF SCC, Reach
<1>7. /\ DecidedOnce'
      /\ is_undecided' \in SUBSET Vertices
      /\ scc_id' \in [Vertices -> Vertices \cup {Undecided}]
      /\ local_decided' \in [Ranks -> Nat]
  <2>1. /\ scc_id \in [Vertices -> Vertices \cup {Undecided}]
        /\ local_decided \in [Ranks -> Nat] /\ input' = input
    BY <1>2, <1>3 DEF TypeOK
  <2> QED BY <1>2, <1>3, <1>4, <1>6, <2>1, DecideKeepsRecords
<1>8. /\ StacksAgree'
      /\ active' \in [Vertices -> Nat]
      /\ in_active' \in SUBSET Vertices /\ has_changed' \in SUBSET Vertices
      /\ in_active' = (in_active \ drained) \cup D
      /\ has_changed' = has_changed \cup D
  BY <1>2, <1>3, <1>4, ActivateKeepsStacks
<1>9. /\ is_undecided' = is_undecided \ D
      /\ \A v \in Vertices : scc_id'[v] = IF v \in D THEN unmap(label[v]) ELSE scc_id[v]
  BY <1>2 DEF DecideAll
<1> QED BY <1>2, <1>3, <1>4, <1>5, <1>7, <1>8, <1>9

\* What a step of the backward search has to show for the invariant of a round.
LEMMA BackwardRound ==
  ASSUME EitherInv, phase = "backward", NEW S \in SUBSET Vertices,
         UNCHANGED <<input, phase, cache, search>>,
         EitherTypeOK', DecidedOnce', BackwardInv(S)'
  PROVE  EitherInv'
<1>1. search' = "plain" => cache' = NoCache'
  BY DEF EitherInv, NoCache
<1> QED BY <1>1 DEF EitherInv

\* A rank pops a decided vertex and asks its neighbours on the rank.
LEMMA BwDrainStep ==
  ASSUME EitherInv, search # "pull", NEW u \in Vertices, BwDrain(u), UNCHANGED <<cache, search>>
  PROVE  EitherInv'
<1>d. PICK T, d : /\ T = Concerned(Neighbours(u) \cap Local(Rank(u)), u)
                     /\ d = {u}
  OBVIOUS
<1>1. /\ phase = "backward" /\ active[u] > 0 /\ BwHandle(T, label[u], d)
      /\ UNCHANGED recv_buffer
  BY <1>d DEF BwDrain, MayDrain
<1>2. /\ CacheTypeOK /\ TypeOK /\ StacksAgree /\ DecidedOnce
  BY <1>1 DEF EitherInv, EitherTypeOK, CacheTypeOK
<1>3. PICK S \in SUBSET Vertices : BackwardInv(S)
  BY <1>1 DEF EitherInv, EitherTypeOK
<1>4. u \in in_active /\ u \in has_changed /\ u \in S \ is_undecided
  BY <1>1, <1>2, <1>3 DEF StacksAgree, BackwardInv
<1>5. /\ T \in SUBSET Vertices
      /\ \A v \in T : <<v, u>> \in edges
      /\ \A v \in Vertices : <<v, u>> \in edges /\ Rank(v) = Rank(u) /\ label[u] < map[v] => v \in T
  BY <1>1, <1>d DEF Concerned, Neighbours, Pred, Local
<1>6. /\ UNCHANGED <<input, map, phase, label, send_buffer>>
      /\ StacksAgree' /\ DecidedOnce'
      /\ active' \in [Vertices -> Nat]
      /\ in_active' \in SUBSET Vertices /\ has_changed' \in SUBSET Vertices
      /\ is_undecided' \in SUBSET Vertices
      /\ scc_id' \in [Vertices -> Vertices \cup {Undecided}]
      /\ local_decided' \in [Ranks -> Nat]
      /\ in_active \ d \subseteq in_active'
      /\ is_undecided \ is_undecided' \subseteq in_active'
      /\ has_changed \subseteq has_changed'
      /\ is_undecided' \subseteq is_undecided /\ has_changed' \subseteq S \ is_undecided'
      /\ \A v \in is_undecided' : v \notin T \/ label[v] # label[u]
      /\ \A v \in Vertices :
           \/ scc_id'[v] = scc_id[v] /\ (v \in is_undecided => v \in is_undecided')
           \/ /\ v \in is_undecided \ is_undecided'
              /\ label[v] = map[scc_id'[v]] /\ scc_id'[v] \in SCC(edges, v)
  <2>1. d \in SUBSET in_active
    BY <1>4, <1>d
  <2>2. /\ EitherTypeOK /\ search # "pull" /\ DecidedOnce /\ BackwardInv(S)
        /\ T \in SUBSET Vertices /\ u \in S \ is_undecided
        /\ \A v \in T : <<v, u>> \in edges
        /\ BwHandle(T, label[u], d)
    BY <1>1, <1>2, <1>3, <1>4, <1>5 DEF EitherInv
  <2> QED BY <2>1, <2>2, BwHandleStep
<1>7. EitherTypeOK'
  <2>1. TypeOK'
    BY <1>1, <1>2, <1>6 DEF TypeOK
  <2> QED BY <1>2, <1>6, <2>1, InputUnchanged DEF EitherInv, EitherTypeOK, CacheTypeOK
<1>8. \A m \in send_buffer' \cup recv_buffer' :
        /\ m[1] \in S \ is_undecided' /\ <<m[2], m[1]>> \in edges /\ Rank(m[1]) # Rank(m[2])
        /\ m[3] = label[m[1]]
  BY <1>1, <1>3, <1>6 DEF BackwardInv, Messages
<1>9. ASSUME NEW x \in is_undecided', NEW y \in S \ is_undecided',
             <<x, y>> \in edges, label[x] = label[y]
      PROVE  \/ IF Rank(x) # Rank(y) THEN y \in has_changed' ELSE y \in in_active'
             \/ \E m \in send_buffer' \cup recv_buffer' : m[2] = x /\ m[3] = label[x]
  <2>1. CASE y \in is_undecided
    <3>1. y \in in_active' /\ y \in Vertices
      BY <1>2, <1>6, <2>1 DEF TypeOK
    <3> QED BY <1>6, <3>1 DEF StacksAgree
  <2>2. CASE y \notin is_undecided /\ y # u
    <3>1. WillAsk(y, x) \/ \E m \in Messages : m[2] = x /\ m[3] = label[x]
      BY <1>3, <1>6, <1>9, <2>2 DEF BackwardInv
    <3> QED BY <1>1, <1>6, <1>d, <2>2, <3>1 DEF WillAsk, Messages
  <2>3. CASE y = u
    <3>1. CASE Rank(x) # Rank(u)
      BY <1>4, <1>6, <2>3, <3>1
    <3>2. CASE Rank(x) = Rank(u)
      <4>1. x \in Vertices /\ label[x] \in Nat /\ map[x] \in Nat
        BY <1>2, <1>6, MapsAssumption DEF TypeOK
      <4>2. label[x] <= map[x] /\ label[x] # map[x]
        BY <1>3, <1>6 DEF BackwardInv
      <4>3. x \in T
        <5>1. label[u] = label[x] /\ <<x, u>> \in edges
          BY <1>9, <2>3
        <5>2. label[u] < map[x]
          BY <4>1, <4>2, <5>1
        <5> QED BY <1>5, <3>2, <4>1, <5>1, <5>2
      <4> QED BY <1>6, <1>9, <2>3, <4>3
    <3> QED BY <3>1, <3>2
  <2> QED BY <2>1, <2>2, <2>3
<1>10. BackwardInv(S)'
  BY <1>3, <1>6, <1>8, <1>9, BackwardKept
<1> QED BY <1>1, <1>6, <1>7, <1>10, BackwardRound

\* A rank is asked by a decided vertex of another rank.
LEMMA BwReceiveStep ==
  ASSUME EitherInv, search # "pull", NEW m \in recv_buffer, BwReceive(m),
         UNCHANGED <<cache, search>>
  PROVE  EitherInv'
<1>1. /\ phase = "backward" /\ BwHandle({m[2]}, m[3], {})
      /\ recv_buffer' = recv_buffer \ {m}
  BY DEF BwReceive
<1>2. /\ CacheTypeOK /\ TypeOK /\ StacksAgree /\ DecidedOnce
  BY <1>1 DEF EitherInv, EitherTypeOK, CacheTypeOK
<1>3. PICK S \in SUBSET Vertices : BackwardInv(S)
  BY <1>1 DEF EitherInv, EitherTypeOK
<1>4. /\ m[1] \in S \ is_undecided /\ <<m[2], m[1]>> \in edges /\ Rank(m[1]) # Rank(m[2])
      /\ m[3] = label[m[1]] /\ m[2] \in Vertices
  BY <1>2, <1>3 DEF BackwardInv, Messages, TypeOK
<1>5. PICK T, d, u : T = {m[2]} /\ d = {} /\ u = m[1]
  OBVIOUS
<1>6. /\ UNCHANGED <<input, map, phase, label, send_buffer>>
      /\ StacksAgree' /\ DecidedOnce'
      /\ active' \in [Vertices -> Nat]
      /\ in_active' \in SUBSET Vertices /\ has_changed' \in SUBSET Vertices
      /\ is_undecided' \in SUBSET Vertices
      /\ scc_id' \in [Vertices -> Vertices \cup {Undecided}]
      /\ local_decided' \in [Ranks -> Nat]
      /\ in_active \ d \subseteq in_active'
      /\ is_undecided \ is_undecided' \subseteq in_active'
      /\ has_changed \subseteq has_changed'
      /\ is_undecided' \subseteq is_undecided /\ has_changed' \subseteq S \ is_undecided'
      /\ \A v \in is_undecided' : v \notin T \/ label[v] # label[u]
      /\ \A v \in Vertices :
           \/ scc_id'[v] = scc_id[v] /\ (v \in is_undecided => v \in is_undecided')
           \/ /\ v \in is_undecided \ is_undecided'
              /\ label[v] = map[scc_id'[v]] /\ scc_id'[v] \in SCC(edges, v)
  <2>1. d \in SUBSET in_active
    BY <1>5
  <2>2. /\ EitherTypeOK /\ search # "pull" /\ DecidedOnce /\ BackwardInv(S)
        /\ T \in SUBSET Vertices /\ u \in S \ is_undecided
        /\ \A v \in T : <<v, u>> \in edges
        /\ BwHandle(T, label[u], d)
    BY <1>1, <1>2, <1>3, <1>4, <1>5 DEF EitherInv
  <2> QED BY <2>1, <2>2, BwHandleStep
<1>7. EitherTypeOK'
  <2>1. TypeOK'
    BY <1>1, <1>2, <1>6 DEF TypeOK
  <2> QED BY <1>2, <1>6, <2>1, InputUnchanged DEF EitherInv, EitherTypeOK, CacheTypeOK
<1>8. \A k \in send_buffer' \cup recv_buffer' :
        /\ k[1] \in S \ is_undecided' /\ <<k[2], k[1]>> \in edges /\ Rank(k[1]) # Rank(k[2])
        /\ k[3] = label[k[1]]
  BY <1>1, <1>3, <1>6 DEF BackwardInv, Messages
<1>9. ASSUME NEW x \in is_undecided', NEW y \in S \ is_undecided',
             <<x, y>> \in edges, label[x] = label[y]
      PROVE  \/ IF Rank(x) # Rank(y) THEN y \in has_changed' ELSE y \in in_active'
             \/ \E k \in send_buffer' \cup recv_buffer' : k[2] = x /\ k[3] = label[x]
  <2>1. CASE y \in is_undecided
    <3>1. y \in in_active' /\ y \in Vertices
      BY <1>2, <1>6, <2>1 DEF TypeOK
    <3> QED BY <1>6, <3>1 DEF StacksAgree
  <2>2. CASE y \notin is_undecided
    <3>1. WillAsk(y, x) \/ \E k \in Messages : k[2] = x /\ k[3] = label[x]
      BY <1>3, <1>6, <1>9, <2>2 DEF BackwardInv
    <3>2. CASE WillAsk(y, x)
      BY <1>5, <1>6, <3>2 DEF WillAsk
    <3>3. ASSUME NEW k \in Messages, k[2] = x, k[3] = label[x]
          PROVE  k \in send_buffer' \cup recv_buffer'
      <4>1. k # m
        BY <1>4, <1>5, <1>6, <3>3
      <4> QED BY <1>1, <1>6, <4>1 DEF Messages
    <3> QED BY <3>1, <3>2, <3>3
  <2> QED BY <2>1, <2>2
<1>10. BackwardInv(S)'
  BY <1>3, <1>6, <1>8, <1>9, BackwardKept
<1> QED BY <1>1, <1>6, <1>7, <1>10, BackwardRound

\* What pushing does in the backward search: it unmarks the vertices changed,
\* none of them active, and sends the messages new, one to every remote
\* neighbour that waits for the label of a vertex no longer marked.
BwSends(changed, new) ==
  /\ UNCHANGED <<input, map, phase, label, active, in_active, is_undecided,
                 recv_buffer, scc_id, local_decided, cache, search>>
  /\ changed \subseteq has_changed /\ has_changed' = has_changed \ changed
  /\ \A u \in changed : active[u] = 0
  /\ new \subseteq (Vertices \X Vertices \X Nat) /\ send_buffer' = send_buffer \cup new
  /\ \A m \in new : /\ m[1] \in has_changed
                    /\ <<m[2], m[1]>> \in edges /\ Rank(m[1]) # Rank(m[2])
                    /\ m[3] = label[m[1]]
  /\ \A u \in changed : \A x \in is_undecided :
       (<<x, u>> \in edges /\ Rank(x) # Rank(u) /\ label[x] = label[u]
           /\ label[u] < map[x])
         => <<u, x, label[u]>> \in new

\* Pushing in the backward search keeps the invariant.
LEMMA BwSendStep ==
  ASSUME EitherInv, phase = "backward", NEW S \in SUBSET Vertices, BackwardInv(S),
         NEW changed, NEW new, BwSends(changed, new)
  PROVE  EitherInv'
<1>0. /\ UNCHANGED <<input, map, phase, label, active, in_active, is_undecided,
                     recv_buffer, scc_id, local_decided, cache, search>>
      /\ changed \in SUBSET has_changed /\ has_changed' = has_changed \ changed
      /\ \A u \in changed : active[u] = 0
      /\ new \in SUBSET (Vertices \X Vertices \X Nat) /\ send_buffer' = send_buffer \cup new
      /\ \A m \in new : /\ m[1] \in has_changed
                        /\ <<m[2], m[1]>> \in edges /\ Rank(m[1]) # Rank(m[2])
                        /\ m[3] = label[m[1]]
      /\ \A u \in changed : \A x \in is_undecided :
           (<<x, u>> \in edges /\ Rank(x) # Rank(u) /\ label[x] = label[u]
               /\ label[u] < map[x])
             => <<u, x, label[u]>> \in new
  BY DEF BwSends
<1> USE <1>0
<1>1. /\ EitherTypeOK /\ DecidedOnce /\ has_changed \in SUBSET Vertices
      /\ is_undecided \in SUBSET Vertices
      /\ map \in Maps /\ map \in [Vertices -> Nat]
      /\ send_buffer \in SUBSET (Vertices \X Vertices \X Nat)
      /\ recv_buffer \in SUBSET (Vertices \X Vertices \X Nat)
  BY SharedTypes DEF EitherInv
<1>2. search # "pull" => in_active \subseteq has_changed'
  <2>1. \A v \in changed : v \notin in_active
    BY <1>1, SharedTypes
  <2>2. search # "pull" => in_active \subseteq has_changed
    BY <1>1 DEF EitherTypeOK, CacheTypeOK, TypeOK, StacksAgree
  <2> QED BY <2>1, <2>2
<1>3. EitherTypeOK'
  <2>1. /\ map' \in Maps /\ phase' \in {"call", "forward", "backward", "done"}
        /\ has_changed' \in SUBSET Vertices
        /\ send_buffer' \in SUBSET (Vertices \X Vertices \X Nat)
        /\ recv_buffer' \in SUBSET (Vertices \X Vertices \X Nat)
    BY <1>1
  <2> QED BY <1>1, <1>2, <2>1, TypesKept
<1>4. DecidedOnce'
  <2>1. \A r : Local(r)' = Local(r)
    BY InputUnchanged
  <2> QED BY <1>1, <2>1 DEF DecidedOnce
<1>5. \A m \in send_buffer' \cup recv_buffer' :
        /\ m[1] \in S \ is_undecided' /\ <<m[2], m[1]>> \in edges /\ Rank(m[1]) # Rank(m[2])
        /\ m[3] = label[m[1]]
  BY DEF BackwardInv, Messages
<1>6. ASSUME NEW x \in is_undecided, NEW y \in S \ is_undecided,
             <<x, y>> \in edges, label[x] = label[y]
      PROVE  \/ IF Rank(x) # Rank(y) THEN y \in has_changed'
                ELSE IF search = "pull" THEN x \in in_active' ELSE y \in in_active'
             \/ \E m \in send_buffer' \cup recv_buffer' : m[2] = x /\ m[3] = label[x]
  <2>1. WillAsk(y, x) \/ \E m \in Messages : m[2] = x /\ m[3] = label[x]
    BY <1>6 DEF BackwardInv
  <2>2. CASE Rank(x) # Rank(y) /\ y \in changed
    <3>1. x \in Vertices /\ label[x] \in Nat /\ map[x] \in Nat
      BY <1>1 DEF BackwardInv
    <3>2. label[x] <= map[x] /\ label[x] # map[x]
      BY DEF BackwardInv
    <3>3. label[y] < map[x]
      BY <1>6, <3>1, <3>2
    <3>4. PICK m \in new : m = <<y, x, label[y]>>
      BY <1>6, <2>2, <3>3
    <3>5. m[2] = x /\ m[3] = label[x] /\ m \in send_buffer'
      BY <1>6, <3>4
    <3> QED BY <3>5
  <2>3. CASE WillAsk(y, x) /\ ~ (Rank(x) # Rank(y) /\ y \in changed)
    BY <2>3 DEF WillAsk
  <2> QED BY <2>1, <2>2, <2>3 DEF Messages
<1>7. is_undecided' \subseteq is_undecided /\ has_changed' \subseteq S \ is_undecided'
  BY DEF BackwardInv
<1>8. BackwardInv(S)'
  BY <1>5, <1>6, <1>7, BackwardKept
<1> QED BY <1>3, <1>4, <1>8, BackwardRound

\* A rank asks the other ranks, without a cache.
LEMMA BwPushStep ==
  ASSUME EitherInv, search = "plain", NEW r \in Ranks, BwPush(r), UNCHANGED <<cache, search>>
  PROVE  EitherInv'
<1> DEFINE changed == has_changed \cap Local(r)
           new == {<<e[1], e[2], label[e[1]]>> :
                     e \in {x \in changed \X (Vertices \ Local(r)) :
                              x[2] \in Concerned(Neighbours(x[1]), x[1])}}
<1>1. /\ phase = "backward"
      /\ UNCHANGED <<input, map, phase, label, active, in_active, is_undecided,
                     recv_buffer, scc_id, local_decided, cache, search>>
      /\ send_buffer' = send_buffer \cup new
      /\ has_changed' = has_changed \ changed
      /\ \A v \in Local(r) : active[v] = 0
  BY DEF BwPush, PushChanged
<1>2. PICK S \in SUBSET Vertices : BackwardInv(S)
  BY <1>1 DEF EitherInv, EitherTypeOK
<1>3. /\ label \in [Vertices -> Nat] /\ has_changed \in SUBSET Vertices
      /\ is_undecided \in SUBSET Vertices
  BY DEF EitherInv, EitherTypeOK, CacheTypeOK, TypeOK
<1>4. \A m \in new : /\ m \in Vertices \X Vertices \X Nat /\ m[1] \in has_changed
                     /\ <<m[2], m[1]>> \in edges /\ Rank(m[1]) # Rank(m[2])
                     /\ m[3] = label[m[1]]
  <2>1. ASSUME NEW x \in changed, NEW y \in Vertices \ Local(r), y \in Concerned(Neighbours(x), x)
        PROVE  /\ <<x, y, label[x]>> \in Vertices \X Vertices \X Nat
               /\ x \in has_changed /\ <<y, x>> \in edges /\ Rank(x) # Rank(y)
    BY <1>1, <1>3, <2>1 DEF Concerned, Neighbours, Pred, Local
  <2> QED BY <2>1
<1>5. ASSUME NEW u \in changed, NEW x \in is_undecided, <<x, u>> \in edges,
             Rank(x) # Rank(u), label[u] < map[x]
      PROVE  <<u, x, label[u]>> \in new
  <2>1. x \in Concerned(Neighbours(u), u) /\ x \in Vertices \ Local(r)
    BY <1>1, <1>3, <1>5 DEF Concerned, Neighbours, Pred, Local
  <2>2. <<u, x>> \in {z \in changed \X (Vertices \ Local(r)) :
                        z[2] \in Concerned(Neighbours(z[1]), z[1])}
    BY <2>1
  <2> QED BY <2>2
<1>6. \A u \in changed : \A x \in is_undecided :
        (<<x, u>> \in edges /\ Rank(x) # Rank(u) /\ label[x] = label[u]
            /\ label[u] < map[x])
          => <<u, x, label[u]>> \in new
  BY <1>5
<1>7. changed \in SUBSET has_changed /\ \A u \in changed : active[u] = 0
  BY <1>1
<1> HIDE DEF new, changed
<1>8. BwSends(changed, new)
  BY <1>1, <1>2, <1>4, <1>6, <1>7 DEF BwSends
<1> QED BY <1>1, <1>2, <1>8, BwSendStep

\* A rank asks the other ranks, where the cache knows the label.
LEMMA CacheBwPushStep ==
  ASSUME EitherInv, search # "plain", NEW u \in Vertices, CacheBwPush(u), UNCHANGED search
  PROVE  EitherInv'
<1>1. PICK T, changed, new :
        /\ T = {v \in RemoteNeighbours(u) : label[u] < map[v] /\ label[u] = Guess(Rank(u), v)}
        /\ changed = {u} /\ new = {u} \X T \X {label[u]}
  OBVIOUS
<1>2. /\ phase = "backward"
      /\ UNCHANGED <<input, map, phase, label, active, in_active, is_undecided,
                     recv_buffer, scc_id, local_decided, cache, search>>
      /\ send_buffer' = send_buffer \cup new
      /\ has_changed' = has_changed \ changed
      /\ u \in has_changed /\ active[u] = 0
  BY <1>1 DEF CacheBwPush, PushTo, MayPush, Local
<1>3. PICK S \in SUBSET Vertices : BackwardInv(S)
  BY <1>2 DEF EitherInv, EitherTypeOK
<1>4. has_changed \in SUBSET Vertices /\ is_undecided \in SUBSET Vertices /\ label[u] \in Nat
  BY <1>2, <1>3, SharedTypes DEF EitherInv, BackwardInv
<1>5. \A v \in T : <<v, u>> \in edges /\ Rank(v) # Rank(u) /\ v \in Vertices
  BY <1>1, <1>2, <1>4 DEF RemoteNeighbours, Neighbours, Pred, Local
<1>6. \A m \in new : /\ m \in Vertices \X Vertices \X Nat /\ m[1] \in has_changed
                     /\ <<m[2], m[1]>> \in edges /\ Rank(m[1]) # Rank(m[2])
                     /\ m[3] = label[m[1]]
  <2>1. ASSUME NEW v \in T, NEW m, m = <<u, v, label[u]>>
        PROVE  /\ m \in Vertices \X Vertices \X Nat /\ m[1] \in has_changed
               /\ <<m[2], m[1]>> \in edges /\ Rank(m[1]) # Rank(m[2])
               /\ m[3] = label[m[1]]
    BY <1>2, <1>4, <1>5, <2>1
  <2>2. \A m \in new : \E v \in T : m = <<u, v, label[u]>>
    BY <1>1
  <2> QED BY <2>1, <2>2
<1>7. ASSUME NEW x \in is_undecided, <<x, u>> \in edges, Rank(x) # Rank(u),
             label[x] = label[u], label[u] < map[x]
      PROVE  <<u, x, label[u]>> \in new
  <2>1. x \in RemoteNeighbours(u)
    BY <1>2, <1>4, <1>7 DEF RemoteNeighbours, Neighbours, Pred, Local
  <2>2. <<x, u>> \in Within(S)
    BY <1>3, <1>2, <1>7 DEF Within, BackwardInv
  <2>3. Noted(Rank(u), x) /\ cache[Rank(u)][x] = label[x]
    BY <1>3, <1>7, <2>2 DEF BackwardInv
  <2>4. label[u] = Guess(Rank(u), x)
    BY <1>7, <2>3 DEF Guess
  <2> QED BY <1>1, <1>7, <2>1, <2>4
<1>8. /\ changed \in SUBSET has_changed /\ \A v \in changed : active[v] = 0
      /\ \A v \in changed : v = u
  BY <1>1, <1>2
<1>9. \A v \in changed : \A x \in is_undecided :
        (<<x, v>> \in edges /\ Rank(x) # Rank(v) /\ label[x] = label[v]
            /\ label[v] < map[x])
          => <<v, x, label[v]>> \in new
  BY <1>7, <1>8
<1>10. BwSends(changed, new)
  BY <1>2, <1>6, <1>8, <1>9 DEF BwSends
<1> QED BY <1>2, <1>3, <1>10, BwSendStep

\* Where the backward search stops, no component is half decided: a vertex left
\* behind would reach a decided one over an edge that somebody waits to answer.
LEMMA WholeComponents ==
  ASSUME EitherTypeOK, NEW S \in SUBSET Vertices, BackwardInv(S),
         AllAtComm, send_buffer = {}
  PROVE  EarlierRounds(is_undecided)
<1>1. /\ is_undecided \in SUBSET Vertices /\ is_undecided \subseteq S
      /\ \A v \in S : label[v] \in Nat
      /\ map \in Maps /\ map \in [Vertices -> Nat] /\ input \in Inputs
  BY SharedTypes DEF BackwardInv
<1>2. in_active = {} /\ has_changed = {} /\ Messages = {}
  BY NothingWaits
<1>3. \A u \in Vertices \ S : SCC(edges, u) \cap S = {} /\ scc_id[u] \in SCC(edges, u)
                              /\ \A v \in SCC(edges, u) : scc_id[v] = scc_id[u]
  BY DEF BackwardInv, EarlierRounds
<1>4. ASSUME NEW u \in S
      PROVE  SCC(edges, u) \subseteq S
  <2> SUFFICES ASSUME NEW v \in SCC(edges, u), v \notin S PROVE FALSE
    OBVIOUS
  <2>1. v \in Vertices /\ u \in SCC(edges, v)
    BY SccClass
  <2> QED BY <1>3, <2>1
<1>5. ASSUME NEW u \in S, NEW v \in SCC(edges, u)
      PROVE  v \in S /\ label[v] = label[u]
  <2>1. v \in Vertices /\ v \in S /\ u \in SCC(edges, v)
    BY <1>4, SccClass
  <2>2. \A e \in Within(S) : label[e[2]] <= label[e[1]]
    BY DEF BackwardInv
  <2>3. label[v] <= label[u]
    BY <1>1, <1>4, <2>2, PeersShareLabels
  <2>4. label[u] <= label[v]
    BY <1>1, <1>4, <2>1, <2>2, PeersShareLabels
  <2> QED BY <1>1, <2>1, <2>3, <2>4
<1>6. ASSUME NEW u \in S \ is_undecided
      PROVE  SCC(edges, u) \cap is_undecided = {}
  <2> SUFFICES ASSUME NEW x \in SCC(edges, u), x \in is_undecided PROVE FALSE
    OBVIOUS
  <2> DEFINE C == (SCC(edges, u) \cap is_undecided) \cup {z \in Vertices : u \notin Reach(edges, z)}
  <2>1. C \in SUBSET Vertices /\ x \in C /\ x \in Vertices
    BY <1>1
  <2>2. ASSUME NEW v \in Vertices, NEW w \in Vertices, v \in C, <<v, w>> \in edges
        PROVE  w \in C
    <3>1. CASE u \notin Reach(edges, v)
      BY <2>2, <3>1, NotReachingClosed DEF IsClosed
    <3>2. CASE v \in SCC(edges, u) \cap is_undecided /\ u \in Reach(edges, w)
      <4>1. w \in SCC(edges, u)
        BY <2>2, <3>2, ReachStep DEF SCC
      <4>2. label[v] = label[w] /\ w \in S
        BY <1>5, <3>2, <4>1
      <4>3. CASE w \notin is_undecided
        <5>1. WillAsk(w, v) \/ \E m \in Messages : m[2] = v /\ m[3] = label[v]
          BY <2>2, <3>2, <4>2, <4>3 DEF BackwardInv
        <5> QED BY <1>2, <5>1 DEF WillAsk
      <4> QED BY <4>1, <4>3
    <3> QED BY <2>2, <3>1, <3>2
  <2>3. IsClosed(edges, C)
    BY <2>2 DEF IsClosed
  <2>4. Reach(edges, x) \subseteq C
    BY <2>1, <2>3, ReachInClosed
  <2>5. u \in Reach(edges, x)
    BY DEF SCC
  <2>6. u \in Reach(edges, u)
    BY ReachSelf
  <2> QED BY <2>4, <2>5, <2>6
<1>7. ASSUME NEW u \in S \ is_undecided
      PROVE  /\ scc_id[u] \in SCC(edges, u)
             /\ \A v \in SCC(edges, u) : scc_id[v] = scc_id[u]
  <2>1. scc_id[u] \in SCC(edges, u) /\ label[u] = map[scc_id[u]]
    BY DEF BackwardInv
  <2>2. ASSUME NEW v \in SCC(edges, u) PROVE scc_id[v] = scc_id[u]
    <3>1. v \in S \ is_undecided /\ label[v] = label[u]
      BY <1>5, <1>6
    <3>2. scc_id[v] \in SCC(edges, v) /\ label[v] = map[scc_id[v]]
      BY <3>1 DEF BackwardInv
    <3>3. scc_id[v] \in Vertices /\ scc_id[u] \in Vertices
      BY <2>1, <3>2 DEF SCC, Reach
    <3> QED BY <1>1, <2>1, <3>1, <3>2, <3>3, MapFacts
  <2> QED BY <2>1, <2>2
<1>8. \A u \in Vertices \ is_undecided : u \in Vertices \ S \/ u \in S \ is_undecided
  OBVIOUS
<1> QED BY <1>1, <1>3, <1>6, <1>7, <1>8 DEF EarlierRounds

\* The round is over: the driver counts, clears the cache and rotates.
LEMMA BwEndStep ==
  ASSUME EitherInv, BwEnd, UNCHANGED search,
         IF search = "plain" THEN UNCHANGED cache ELSE cache' = NoCache
  PROVE  EitherInv'
<1>1. /\ phase = "backward" /\ AllAtComm /\ send_buffer = {}
      /\ phase' = (IF global_decided >= Cardinality(Vertices) THEN "done" ELSE "call")
      /\ map' \in Maps
      /\ UNCHANGED <<input, label, active, in_active, has_changed, is_undecided,
                     send_buffer, recv_buffer, scc_id, local_decided>>
  BY DEF BwEnd, PhaseOver
<1>2. /\ EitherTypeOK /\ DecidedOnce
      /\ input \in Inputs /\ is_undecided \in SUBSET Vertices /\ local_decided \in [Ranks -> Nat]
  BY SharedTypes DEF EitherInv
<1>3. PICK S \in SUBSET Vertices : BackwardInv(S)
  BY <1>1 DEF EitherInv
<1>4. EarlierRounds(is_undecided)
  BY <1>1, <1>2, <1>3, WholeComponents
<1>5. /\ \A r : Local(r)' = Local(r)
      /\ edges' = edges
  BY <1>1, InputUnchanged
<1>6. EarlierRounds(is_undecided)'
  BY <1>1, <1>4, <1>5 DEF EarlierRounds
<1>7. in_active = {} /\ has_changed' = {} /\ Messages' = {}
  <2>1. in_active = {} /\ has_changed = {} /\ Messages = {}
    BY <1>1, <1>2, NothingWaits
  <2> QED BY <1>1, <2>1 DEF Messages
<1>8. cache' = NoCache /\ NoCache' = NoCache
  BY <1>1 DEF EitherInv, NoCache
<1>9. /\ phase' \in {"call", "done"}
      /\ phase' = "call" => is_undecided' # {}
      /\ phase' = "done" => is_undecided' = {}
  BY <1>1, <1>2, AllDecided
<1>10. EitherTypeOK'
  <2>1. DOMAIN NoCache = Ranks /\ \A r \in Ranks : DOMAIN NoCache[r] = {}
    BY DEF NoCache
  <2>2. CASE search = "pull"
    BY <1>1, <1>2, <1>8, <1>9, <2>1, <2>2 DEF EitherTypeOK, PullTypeOK
  <2>3. CASE search # "pull"
    <3>1. CacheTypeOK' /\ StacksAgree'
      BY <1>1, <1>2, <1>8, <1>9, <2>1, <2>3 DEF EitherTypeOK, CacheTypeOK, TypeOK, StacksAgree
    <3> QED BY <1>2, <2>3, <3>1 DEF EitherTypeOK
  <2> QED BY <2>2, <2>3
<1>11. DecidedOnce'
  BY <1>1, <1>2, <1>5 DEF DecidedOnce
<1> QED BY <1>6, <1>7, <1>8, <1>9, <1>10, <1>11 DEF EitherInv
-----------------------------------------------------------------------------
(* The searches that push labels keep the invariant                        *)

\* Where the loop starts.
LEMMA RoundInit ==
  ASSUME EitherInit
  PROVE  EitherInv
<1>1. /\ input \in Inputs /\ map \in Maps /\ phase = "call"
      /\ label = [v \in Vertices |-> 0] /\ active = [v \in Vertices |-> 0]
      /\ in_active = {} /\ has_changed = {} /\ send_buffer = {} /\ recv_buffer = {}
      /\ is_undecided = Vertices \ input.decided
      /\ scc_id = [v \in Vertices |-> IF v \notin input.decided THEN Undecided
                                      ELSE CHOOSE c \in SCC(edges, v) : TRUE]
      /\ local_decided = [r \in Ranks |-> Cardinality(Local(r) \cap input.decided)]
      /\ cache = NoCache
  BY DEF EitherInit, CacheInit, Init
<1>2. /\ input.decided \in SUBSET Vertices /\ input.decided # Vertices
      /\ \A v \in input.decided : SCC(edges, v) \subseteq input.decided
  BY <1>1, InputFacts
<1>3. ASSUME NEW v \in Vertices PROVE (CHOOSE c \in SCC(edges, v) : TRUE) \in SCC(edges, v)
  <2>1. v \in SCC(edges, v)
    BY SccSelf
  <2> QED BY <2>1
<1>4. \A v \in Vertices : SCC(edges, v) \in SUBSET Vertices
  BY SccClass
<1>5. scc_id \in [Vertices -> Vertices \cup {Undecided}]
  BY <1>1, <1>3, <1>4
<1>6. \A r \in Ranks : /\ Local(r) \cap input.decided = Local(r) \ is_undecided
                       /\ Cardinality(Local(r) \cap input.decided) \in Nat
  <2> TAKE r \in Ranks
  <2>1. IsFiniteSet(Local(r) \cap input.decided)
    BY <1>2, VerticesAssumption, FS_Subset
  <2> QED BY <1>1, <1>2, <2>1, FS_CardinalityType DEF Local
<1>7. CacheTypeOK
  <2>1. TypeOK
    BY <1>1, <1>5, <1>6 DEF TypeOK
  <2> QED BY <1>1, <2>1 DEF CacheTypeOK, NoCache
<1>8. StacksAgree
  BY <1>1 DEF StacksAgree
<1>9. DecidedOnce
  <2>1. ASSUME NEW v \in Vertices PROVE v \in is_undecided <=> scc_id[v] = Undecided
    BY <1>1, <1>3, <1>4, UndecidedAssumption
  <2> QED BY <1>1, <1>6, <2>1 DEF DecidedOnce
<1>10. EarlierRounds(is_undecided)
  <2>1. ASSUME NEW u \in Vertices \ is_undecided
        PROVE  /\ SCC(edges, u) \cap is_undecided = {}
               /\ scc_id[u] \in SCC(edges, u)
               /\ \A v \in SCC(edges, u) : scc_id[v] = scc_id[u]
    <3>1. u \in input.decided /\ SCC(edges, u) \subseteq input.decided
      BY <1>1, <1>2
    <3>2. \A v \in SCC(edges, u) : SCC(edges, v) = SCC(edges, u)
      BY SccClass
    <3>3. \A v \in input.decided : scc_id[v] = CHOOSE c \in SCC(edges, v) : TRUE
      BY <1>1, <1>2
    <3> QED BY <1>1, <1>3, <3>1, <3>2, <3>3
  <2> QED BY <2>1 DEF EarlierRounds
<1>11. is_undecided # {} /\ Messages = {}
  BY <1>1, <1>2 DEF Messages
<1>12. EitherTypeOK
  <2>1. PullTypeOK
    BY <1>1, <1>7 DEF PullTypeOK, CacheTypeOK, TypeOK
  <2> QED BY <1>7, <1>8, <2>1 DEF EitherTypeOK, EitherInit
<1> QED BY <1>1, <1>9, <1>10, <1>11, <1>12 DEF EitherInv

\* Every step of the searches that push labels keeps the invariant.
LEMMA PushedNext ==
  ASSUME EitherInv, search \in {"plain", "push"}, [EitherNext]_searchVars
  PROVE  EitherInv'
<1>1. CASE search = "plain" /\ Next /\ UNCHANGED cache /\ UNCHANGED search
  <2>1. CASE Begin
    BY <1>1, <2>1, BeginStep
  <2>2. ASSUME NEW u \in Vertices, FwDrain(u) \/ BwDrain(u) PROVE EitherInv'
    BY <1>1, <2>2, FwDrainStep, BwDrainStep
  <2>3. ASSUME NEW m \in recv_buffer, FwReceive(m) \/ BwReceive(m) PROVE EitherInv'
    BY <1>1, <2>3, FwReceiveStep, BwReceiveStep
  <2>4. ASSUME NEW r \in Ranks, FwPush(r) \/ BwPush(r) PROVE EitherInv'
    BY <1>1, <2>4, FwPushStep, BwPushStep
  <2>5. CASE Exchange
    BY <1>1, <2>5, ExchangeStep
  <2>6. CASE FwEnd
    BY <1>1, <2>6, FwEndStep
  <2>7. CASE BwEnd
    BY <1>1, <2>7, BwEndStep
  <2>8. CASE Returned
    BY <1>1, <2>8, RoundStutter DEF Returned, searchVars, cacheVars
  <2> QED BY <1>1, <2>1, <2>2, <2>3, <2>4, <2>5, <2>6, <2>7, <2>8 DEF Next
<1>2. CASE search = "push" /\ CacheNext /\ UNCHANGED search
  <2>1. CASE Begin /\ UNCHANGED cache
    BY <1>2, <2>1, BeginStep
  <2>2. ASSUME NEW u \in Vertices, FwDrain(u) \/ BwDrain(u), UNCHANGED cache PROVE EitherInv'
    BY <1>2, <2>2, FwDrainStep, BwDrainStep
  <2>3. ASSUME NEW u \in Vertices, CacheFwPush(u) \/ CacheBwPush(u) PROVE EitherInv'
    BY <1>2, <2>3, CacheFwPushStep, CacheBwPushStep
  <2>4. ASSUME NEW m \in recv_buffer, CacheFwReceive(m) \/ (BwReceive(m) /\ UNCHANGED cache)
        PROVE  EitherInv'
    BY <1>2, <2>4, FwReceiveStep, BwReceiveStep DEF CacheFwReceive
  <2>5. CASE Exchange /\ UNCHANGED cache
    BY <1>2, <2>5, ExchangeStep
  <2>6. CASE FwEnd /\ UNCHANGED cache
    BY <1>2, <2>6, FwEndStep
  <2>7. CASE CacheBwEnd
    BY <1>2, <2>7, BwEndStep DEF CacheBwEnd
  <2>8. CASE Returned /\ UNCHANGED cache
    BY <1>2, <2>8, RoundStutter DEF Returned, searchVars, cacheVars
  <2> QED BY <1>2, <2>1, <2>2, <2>3, <2>4, <2>5, <2>6, <2>7, <2>8 DEF CacheNext
<1>3. CASE UNCHANGED searchVars
  BY <1>3, RoundStutter
<1> QED BY <1>1, <1>2, <1>3 DEF EitherNext

-----------------------------------------------------------------------------
(* Steps of the search that pulls labels                                   *)

\* Waking vertices, and popping one, keeps a vertex from being on a stack twice.
LEMMA WakeKeepsStacks ==
  ASSUME EitherTypeOK, search = "pull", NEW T \in SUBSET Vertices,
         NEW drained \in SUBSET in_active, Wake(T, drained)
  PROVE  /\ in_active' = (in_active \cup T) \ drained
         /\ active' \in [Vertices -> {0, 1}]
         /\ in_active' = {v \in Vertices : active'[v] = 1}
<1>1. /\ in_active \in SUBSET Vertices
      /\ \A v \in Vertices : active[v] = (IF v \in in_active THEN 1 ELSE 0)
  BY SharedTypes
<1>2. in_active' = (in_active \cup T) \ drained
  BY DEF Wake
<1>3. ASSUME NEW v \in Vertices
      PROVE  active'[v] = IF v \in in_active' THEN 1 ELSE 0
  <2>1. active'[v] = active[v] + (IF v \in T \ in_active THEN 1 ELSE 0)
                               - (IF v \in drained THEN 1 ELSE 0)
    BY DEF Wake
  <2> QED BY <1>1, <1>2, <2>1
<1>4. active' = [v \in Vertices |-> active'[v]]
  BY DEF Wake
<1> QED BY <1>1, <1>2, <1>3, <1>4

\* The types of the state after a step of this search.
LEMMA PullTypes ==
  ASSUME EitherTypeOK, search = "pull", search' = search, input' = input, map' = map,
         phase' \in {"call", "forward", "backward", "done"},
         label' \in [Vertices -> Nat \cup {Undecided}],
         active' \in [Vertices -> {0, 1}], in_active' = {v \in Vertices : active'[v] = 1},
         has_changed' \in SUBSET Vertices, is_undecided' \in SUBSET Vertices,
         send_buffer' \in SUBSET (Vertices \X Vertices \X Nat),
         recv_buffer' \in SUBSET (Vertices \X Vertices \X Nat),
         scc_id' \in [Vertices -> Vertices \cup {Undecided}],
         local_decided' \in [Ranks -> Nat], DOMAIN cache' = Ranks,
         \A r \in Ranks : \A v \in DOMAIN cache'[r] :
           v \in Vertices \ Local(r) /\ cache'[r][v] \in Nat
  PROVE  EitherTypeOK'
<1>1. \A r : Local(r)' = Local(r)
  BY InputUnchanged
<1>2. PullTypeOK'
  <2>1. input' \in Inputs /\ map' \in Maps
    BY SharedTypes
  <2> QED BY <1>1, <2>1 DEF PullTypeOK
<1> QED BY <1>2 DEF EitherTypeOK

\* A label that gets to v gets to w, behind it.
LEMMA ReachingStep ==
  ASSUME input \in Inputs, NEW S \in SUBSET Vertices, NEW l, NEW v \in Vertices,
         NEW w \in Vertices, Reaching(S, l, v), <<v, w>> \in edges
  PROVE  Reaching(S, l, w)
<1>1. PICK u \in S : l = map[u] /\ v \in Reach(edges, u)
  BY DEF Reaching
<1>2. w \in Reach(edges, u)
  BY <1>1, ReachStep
<1> QED BY <1>1, <1>2 DEF Reaching

\* What is due by a label is due by every larger one.
LEMMA DueMonotone ==
  ASSUME EitherTypeOK, NEW y \in is_undecided, label[y] \in Nat, NEW k \in Int, NEW l \in Int,
         k <= l, Due(y, k)
  PROVE  Due(y, l)
<1>1. /\ \A m \in send_buffer \cup recv_buffer : m[3] \in Nat
      /\ \A x \in DOMAIN cache[Rank(y)] : cache[Rank(y)][x] \in Nat
  BY SharedTypes
<1>2. CASE label[y] <= k
  BY <1>2 DEF Due
<1>3. CASE Told(y, k)
  <2>1. Told(y, l)
    BY <1>1, <1>3 DEF Told
  <2> QED BY <2>1 DEF Due
<1>4. ASSUME NEW x \in Pred(edges, y) \cap DOMAIN cache[Rank(y)],
             \/ y \in in_active /\ cache[Rank(y)][x] <= k
             \/ x \in is_undecided /\ cache[Rank(y)][x] < k
      PROVE  Due(y, l)
  <2>1. cache[Rank(y)][x] \in Nat
    BY <1>1
  <2>2. \/ y \in in_active /\ cache[Rank(y)][x] <= l
        \/ x \in is_undecided /\ cache[Rank(y)][x] < l
    BY <1>4, <2>1
  <2> QED BY <2>2 DEF Due
<1> QED BY <1>2, <1>3, <1>4 DEF Due

\* What is due stays due: labels and notes only go down, and who leaves a stack,
\* or gets a message, has done what it was for.
LEMMA DueKept ==
  ASSUME EitherTypeOK, UNCHANGED <<input, is_undecided>>,
         NEW y \in is_undecided, NEW l \in Int, Due(y, l),
         label[y] \in Nat, label'[y] \in Nat, label'[y] <= label[y],
         \A m \in Messages : m[2] = y =>
           \/ m \in send_buffer' \cup recv_buffer'
           \/ \E x \in Pred(edges, y) \cap DOMAIN cache'[Rank(y)] :
                \/ y \in in_active' /\ cache'[Rank(y)][x] <= m[3]
                \/ x \in is_undecided /\ cache'[Rank(y)][x] < m[3],
         \A x \in DOMAIN cache[Rank(y)] :
           /\ x \in DOMAIN cache'[Rank(y)]
           /\ cache'[Rank(y)][x] <= cache[Rank(y)][x],
         \A x \in DOMAIN cache'[Rank(y)] : cache'[Rank(y)][x] \in Nat,
         y \in in_active /\ y \notin in_active' =>
           \A x \in Pred(edges, y) \cap DOMAIN cache[Rank(y)] : label'[y] <= cache[Rank(y)][x]
  PROVE  Due(y, l)'
<1>1. /\ edges' = edges /\ \A v : Rank(v)' = Rank(v)
  BY InputUnchanged
<1>2. /\ \A m \in Messages : m[3] \in Nat
      /\ \A x \in DOMAIN cache[Rank(y)] : cache[Rank(y)][x] \in Nat
  BY SharedTypes DEF Messages
<1>3. CASE label[y] <= l
  <2>1. label'[y] <= l
    BY <1>3
  <2> QED BY <2>1 DEF Due
<1>4. ASSUME NEW x \in Pred(edges, y) \cap DOMAIN cache'[Rank(y)],
             \/ y \in in_active' /\ cache'[Rank(y)][x] <= l
             \/ x \in is_undecided /\ cache'[Rank(y)][x] < l
      PROVE  Due(y, l)'
  BY <1>1, <1>4 DEF Due, Pred
<1>5. ASSUME NEW m \in Messages, m[2] = y, m[3] <= l
      PROVE  Due(y, l)'
  <2>1. CASE m \in send_buffer' \cup recv_buffer'
    BY <1>5, <2>1 DEF Due, Told
  <2>2. ASSUME NEW x \in Pred(edges, y) \cap DOMAIN cache'[Rank(y)],
               \/ y \in in_active' /\ cache'[Rank(y)][x] <= m[3]
               \/ x \in is_undecided /\ cache'[Rank(y)][x] < m[3]
        PROVE  Due(y, l)'
    <3>1. cache'[Rank(y)][x] \in Nat /\ m[3] \in Nat
      BY <1>2
    <3>2. \/ y \in in_active' /\ cache'[Rank(y)][x] <= l
          \/ x \in is_undecided /\ cache'[Rank(y)][x] < l
      BY <1>5, <2>2, <3>1
    <3> QED BY <1>4, <3>2
  <2> QED BY <1>5, <2>1, <2>2
<1>6. ASSUME NEW x \in Pred(edges, y) \cap DOMAIN cache[Rank(y)],
             \/ y \in in_active /\ cache[Rank(y)][x] <= l
             \/ x \in is_undecided /\ cache[Rank(y)][x] < l
      PROVE  Due(y, l)'
  <2>1. /\ x \in Pred(edges, y) \cap DOMAIN cache'[Rank(y)]
        /\ cache'[Rank(y)][x] <= cache[Rank(y)][x]
        /\ cache'[Rank(y)][x] \in Nat /\ cache[Rank(y)][x] \in Nat
    BY <1>2
  <2>2. CASE x \in is_undecided /\ cache[Rank(y)][x] < l
    <3>1. cache'[Rank(y)][x] < l
      BY <2>1, <2>2
    <3> QED BY <1>4, <2>1, <2>2, <3>1
  <2>3. CASE y \in in_active' /\ cache[Rank(y)][x] <= l
    <3>1. cache'[Rank(y)][x] <= l
      BY <2>1, <2>3
    <3> QED BY <1>4, <2>1, <2>3, <3>1
  <2>4. CASE y \in in_active /\ y \notin in_active' /\ cache[Rank(y)][x] <= l
    <3>1. label'[y] <= cache[Rank(y)][x]
      BY <2>4
    <3>2. label'[y] <= l
      BY <2>1, <2>4, <3>1
    <3> QED BY <3>2 DEF Due
  <2> QED BY <1>6, <2>2, <2>3, <2>4
<1> QED BY <1>3, <1>5, <1>6 DEF Due, Told, Messages

\* What a step of the forward search has to show, without primed definitions.
LEMMA PullForwardRound ==
  ASSUME EitherInv, search = "pull", phase = "forward",
         UNCHANGED <<input, map, phase, is_undecided, scc_id, local_decided, search>>,
         EitherTypeOK', has_changed' \subseteq is_undecided,
         \A v \in is_undecided :
           label'[v] \in Nat /\ label'[v] <= map[v] /\ Reaching(is_undecided, label'[v], v),
         \A v \in Vertices \ is_undecided : label'[v] = Undecided,
         \A m \in send_buffer' \cup recv_buffer' :
           /\ m[1] \in is_undecided /\ <<m[1], m[2]>> \in edges /\ Rank(m[1]) # Rank(m[2])
           /\ label'[m[1]] <= m[3] /\ Reaching(is_undecided, m[3], m[1]),
         \A r \in Ranks : \A v \in DOMAIN cache'[r] :
           /\ Reaching(is_undecided, cache'[r][v], v)
           /\ v \in is_undecided => Due(v, cache[r][v])',
         \A x, y \in is_undecided : <<x, y>> \in edges =>
           IF Rank(x) = Rank(y) THEN label'[y] <= label'[x] \/ y \in in_active'
           ELSE x \in has_changed' \/ Due(y, label[x])',
         \A x, y \in is_undecided : <<x, y>> \in edges /\ Rank(x) # Rank(y) =>
           \/ x \in has_changed'
           \/ Due(y, label[x] - 1)'
           \/ <<x, y, label'[x]>> \in send_buffer' \cup recv_buffer'
           \/ x \in DOMAIN cache'[Rank(y)] /\ cache'[Rank(y)][x] <= label'[x]
  PROVE  EitherInv'
<1>1. /\ edges' = edges
      /\ \A v : Rank(v)' = Rank(v)
      /\ \A r : Local(r)' = Local(r)
      /\ \A S, l, v : Reaching(S, l, v)' = Reaching(S, l, v)
  BY InputUnchanged
<1>2. PullForwardInv /\ DecidedOnce
  BY DEF EitherInv
<1>3. EarlierRounds(is_undecided)'
  BY <1>1, <1>2 DEF PullForwardInv, EarlierRounds
<1>4. Messages' = send_buffer' \cup recv_buffer'
  BY DEF Messages
<1>5. UndecidedEdges' = UndecidedEdges
  BY <1>1 DEF UndecidedEdges
<1>6. \A x, y \in is_undecided : <<x, y>> \in edges =>
        IF Rank(x) = Rank(y) THEN label'[y] <= label'[x] \/ y \in in_active'
        ELSE (x \in has_changed' \/ Due(y, label[x])') /\ WillBeHeard(x, y)'
  BY <1>1, <1>4 DEF WillBeHeard, Noted
<1>7. ASSUME NEW e \in UndecidedEdges
      PROVE  IF Rank(e[1]) = Rank(e[2]) THEN label'[e[2]] <= label'[e[1]] \/ e[2] \in in_active'
             ELSE /\ e[1] \in has_changed' \/ Due(e[2], label[e[1]])'
                  /\ WillBeHeard(e[1], e[2])'
  <2>1. PICK x \in is_undecided, y \in is_undecided : e = <<x, y>> /\ <<x, y>> \in edges
    BY DEF UndecidedEdges
  <2>2. IF Rank(x) = Rank(y) THEN label'[y] <= label'[x] \/ y \in in_active'
        ELSE (x \in has_changed' \/ Due(y, label[x])') /\ WillBeHeard(x, y)'
    BY <1>6, <2>1
  <2>3. e[1] = x /\ e[2] = y
    BY <2>1
  <2> QED BY <2>2, <2>3
<1>8. PullForwardInv'
  BY <1>1, <1>3, <1>4, <1>5, <1>7 DEF PullForwardInv
<1>9. DecidedOnce'
  BY <1>1, <1>2 DEF DecidedOnce
<1> QED BY <1>8, <1>9 DEF EitherInv

\* What the invariant says of two undecided vertices.
LEMMA PullForwardFacts ==
  ASSUME EitherInv, search = "pull", phase = "forward"
  PROVE  /\ EitherTypeOK
         /\ has_changed \subseteq is_undecided
         /\ \A v \in is_undecided :
              label[v] \in Nat /\ label[v] <= map[v] /\ Reaching(is_undecided, label[v], v)
         /\ \A v \in Vertices \ is_undecided : label[v] = Undecided
         /\ label \in [Vertices -> Nat \cup {Undecided}]
         /\ \A m \in send_buffer \cup recv_buffer :
              /\ m[1] \in is_undecided /\ <<m[1], m[2]>> \in edges /\ Rank(m[1]) # Rank(m[2])
              /\ label[m[1]] <= m[3] /\ Reaching(is_undecided, m[3], m[1])
         /\ \A r \in Ranks : \A v \in DOMAIN cache[r] :
              /\ Reaching(is_undecided, cache[r][v], v)
              /\ v \in is_undecided => Due(v, cache[r][v])
         /\ \A x, y \in is_undecided : <<x, y>> \in edges =>
              IF Rank(x) = Rank(y) THEN label[y] <= label[x] \/ y \in in_active
              ELSE x \in has_changed \/ Due(y, label[x])
         /\ \A x, y \in is_undecided : <<x, y>> \in edges /\ Rank(x) # Rank(y) =>
              \/ x \in has_changed
              \/ Due(y, label[x] - 1)
              \/ <<x, y, label[x]>> \in send_buffer \cup recv_buffer
              \/ x \in DOMAIN cache[Rank(y)] /\ cache[Rank(y)][x] <= label[x]
<1>1. PullForwardInv /\ PullTypeOK /\ EitherTypeOK
  BY DEF EitherInv, EitherTypeOK
<1>2. ASSUME NEW x \in is_undecided, NEW y \in is_undecided, <<x, y>> \in edges
      PROVE  IF Rank(x) = Rank(y) THEN label[y] <= label[x] \/ y \in in_active
             ELSE (x \in has_changed \/ Due(y, label[x])) /\ WillBeHeard(x, y)
  BY <1>1, <1>2 DEF PullForwardInv, UndecidedEdges
<1>3. \A x, y \in is_undecided : <<x, y>> \in edges /\ Rank(x) # Rank(y) =>
        \/ x \in has_changed
        \/ Due(y, label[x] - 1)
        \/ <<x, y, label[x]>> \in send_buffer \cup recv_buffer
        \/ x \in DOMAIN cache[Rank(y)] /\ cache[Rank(y)][x] <= label[x]
  BY <1>2 DEF WillBeHeard, Noted, Messages
<1> QED BY <1>1, <1>2, <1>3 DEF PullForwardInv, PullTypeOK, Messages

\* A round begins: every undecided vertex has its own label and is on a stack.
LEMMA PullBeginStep ==
  ASSUME EitherInv, search = "pull", PullBegin, UNCHANGED search
  PROVE  EitherInv'
<1>1. /\ phase = "call" /\ phase' = "forward"
      /\ label' = [v \in Vertices |-> IF v \in is_undecided THEN map[v] ELSE Undecided]
      /\ in_active' = is_undecided /\ has_changed' = is_undecided
      /\ active' = [v \in Vertices |-> IF v \in is_undecided THEN 1 ELSE 0]
      /\ UNCHANGED <<input, map, is_undecided, send_buffer, recv_buffer, scc_id, local_decided,
                     cache>>
  BY DEF PullBegin
<1>2. /\ EitherTypeOK /\ DecidedOnce /\ cache = NoCache /\ is_undecided # {}
      /\ EarlierRounds(is_undecided) /\ Messages = {}
  BY <1>1 DEF EitherInv
<1>3. is_undecided \in SUBSET Vertices /\ map \in [Vertices -> Nat]
  BY <1>2, SharedTypes
<1>4. /\ \A r : Local(r)' = Local(r)
      /\ \A v : Rank(v)' = Rank(v)
      /\ edges' = edges
      /\ \A S, l, v : Reaching(S, l, v)' = Reaching(S, l, v)
  BY <1>1, InputUnchanged
<1>5. EitherTypeOK'
  <2>1. /\ label' \in [Vertices -> Nat \cup {Undecided}] /\ active' \in [Vertices -> {0, 1}]
        /\ in_active' = {v \in Vertices : active'[v] = 1}
    BY <1>1, <1>3
  <2> QED BY <1>1, <1>2, <2>1, SharedTypes, PullTypes
<1>6. DecidedOnce'
  BY <1>1, <1>2, <1>4 DEF DecidedOnce
<1>7. PullForwardInv'
  <2>1. \A v \in is_undecided :
          label'[v] \in Nat /\ label'[v] <= map[v] /\ Reaching(is_undecided, label'[v], v)
    BY <1>1, <1>3, GenuineOwn, GenuineIsReaching
  <2>2. \A r \in Ranks : DOMAIN cache'[r] = {}
    BY <1>1, <1>2 DEF NoCache
  <2>3. \A e \in UndecidedEdges' : /\ e[1] \in is_undecided /\ e[2] \in is_undecided
                                   /\ WillBeHeard(e[1], e[2])'
    BY <1>1 DEF UndecidedEdges, WillBeHeard
  <2>4. EarlierRounds(is_undecided)' /\ Messages' = {}
    BY <1>1, <1>2, <1>4 DEF EarlierRounds, Messages
  <2> QED BY <1>1, <1>4, <2>1, <2>2, <2>3, <2>4 DEF PullForwardInv
<1> QED BY <1>1, <1>2, <1>5, <1>6, <1>7 DEF EitherInv

\* What a vertex pulls has a minimum, a label that can have got to it.
LEMMA LeastPulled ==
  ASSUME EitherInv, search = "pull", phase = "forward", NEW u \in is_undecided
  PROVE  /\ Min(Pulled(u)) \in Nat
         /\ \A l \in Pulled(u) : l \in Nat /\ Min(Pulled(u)) <= l
         /\ Reaching(is_undecided, Min(Pulled(u)), u)
<1>1. /\ is_undecided \in SUBSET Vertices /\ map \in [Vertices -> Nat] /\ input \in Inputs
      /\ edges \in SUBSET (Vertices \X Vertices) /\ Rank(u) \in Ranks
      /\ \A v \in is_undecided : Reaching(is_undecided, label[v], v)
      /\ \A r \in Ranks : \A v \in DOMAIN cache[r] : Reaching(is_undecided, cache[r][v], v)
  BY PullForwardFacts, SharedTypes
<1>2. ASSUME NEW l \in Pulled(u)
      PROVE  Reaching(is_undecided, l, u)
  <2>1. ASSUME NEW v \in Pred(edges, u), Reaching(is_undecided, l, v)
        PROVE  Reaching(is_undecided, l, u)
    <3>1. v \in Vertices /\ <<v, u>> \in edges /\ u \in Vertices
      BY <1>1 DEF Pred
    <3> QED BY <1>1, <2>1, <3>1, ReachingStep
  <2>2. CASE l = label[u]
    BY <1>1, <2>2
  <2>3. ASSUME NEW v \in SameRank(Pred(edges, u), u) \cap is_undecided, l = label[v]
        PROVE  Reaching(is_undecided, l, u)
    BY <1>1, <2>1, <2>3 DEF SameRank
  <2>4. ASSUME NEW v \in Pred(edges, u) \cap DOMAIN cache[Rank(u)], l = cache[Rank(u)][v]
        PROVE  Reaching(is_undecided, l, u)
    BY <1>1, <2>1, <2>4
  <2> QED BY <2>2, <2>3, <2>4 DEF Pulled
<1>3. PICK M, W : M = Pulled(u) /\ W = {w \in is_undecided : map[w] \in M}
  OBVIOUS
<1>4. \A l \in M : \E w \in W : l = map[w]
  BY <1>2, <1>3 DEF Reaching
<1>5. W \in SUBSET Vertices /\ W # {}
  <2>1. label[u] \in M
    BY <1>3 DEF Pulled
  <2> QED BY <1>1, <1>3, <1>4, <2>1
<1>6. PICK w \in W : \A x \in W : map[w] <= map[x]
  BY <1>1, <1>5, LeastVertex
<1>7. /\ map[w] \in M /\ M \in SUBSET Nat
      /\ \A l \in M : map[w] <= l
  BY <1>1, <1>3, <1>4, <1>6
<1>8. PICK k : k = map[w]
  OBVIOUS
<1>9. Min(M) = k
  BY <1>7, <1>8, MinIs
<1> QED BY <1>2, <1>3, <1>7, <1>8, <1>9

\* A vertex on the stack looks at the labels of its predecessors, and wakes its
\* successors on the rank where its own changed.
LEMMA PullFwDrainStep ==
  ASSUME EitherInv, search = "pull", NEW u \in Vertices, PullFwDrain(u), UNCHANGED search
  PROVE  EitherInv'
<1>1. PICK least, changed, T, d :
        /\ least = Min(Pulled(u)) /\ changed = {u} \cap {v \in Vertices : least < label[u]}
        /\ T = UNION {SameRank(Succ(edges, v), v) \cap is_undecided : v \in changed}
        /\ d = {u}
  OBVIOUS
<1>2. /\ phase = "forward" /\ active[u] > 0 /\ u \in is_undecided
      /\ label' = [label EXCEPT ![u] = least]
      /\ has_changed' = has_changed \cup changed
      /\ Wake(T, d)
      /\ UNCHANGED <<input, map, phase, is_undecided, send_buffer, recv_buffer,
                     scc_id, local_decided, cache, search>>
  BY <1>1 DEF PullFwDrain, MayDrain
<1>3. /\ EitherTypeOK
      /\ has_changed \subseteq is_undecided
      /\ \A v \in is_undecided :
           label[v] \in Nat /\ label[v] <= map[v] /\ Reaching(is_undecided, label[v], v)
      /\ \A v \in Vertices \ is_undecided : label[v] = Undecided
      /\ label \in [Vertices -> Nat \cup {Undecided}]
  BY <1>2, PullForwardFacts
<1>4. /\ is_undecided \in SUBSET Vertices /\ map \in [Vertices -> Nat] /\ input \in Inputs
      /\ edges \in SUBSET (Vertices \X Vertices)
      /\ in_active \in SUBSET Vertices /\ has_changed \in SUBSET Vertices
      /\ DOMAIN cache = Ranks
      /\ \A r \in Ranks : \A v \in DOMAIN cache[r] : cache[r][v] \in Nat
      /\ \A v \in Vertices : Rank(v) \in Ranks
      /\ send_buffer \in SUBSET (Vertices \X Vertices \X Nat)
      /\ recv_buffer \in SUBSET (Vertices \X Vertices \X Nat)
  BY <1>3, SharedTypes
<1>5. /\ least \in Nat /\ Reaching(is_undecided, least, u)
      /\ least <= label[u]
      /\ \A v \in SameRank(Pred(edges, u), u) \cap is_undecided : least <= label[v]
      /\ \A v \in Pred(edges, u) \cap DOMAIN cache[Rank(u)] : least <= cache[Rank(u)][v]
  BY <1>1, <1>2, LeastPulled DEF Pulled
<1>6. /\ \A v \in Vertices \ {u} : label'[v] = label[v]
      /\ label'[u] = least
      /\ label' \in [Vertices -> Nat \cup {Undecided}]
      /\ u \in changed <=> least < label[u]
      /\ changed \subseteq {u}
  BY <1>1, <1>2, <1>3, <1>5
<1>7. /\ T \in SUBSET Vertices
      /\ u \in changed => \A y \in is_undecided : <<u, y>> \in edges /\ Rank(y) = Rank(u) => y \in T
  <2>1. \A v \in Vertices : SameRank(Succ(edges, v), v) \subseteq Vertices
    BY DEF SameRank, Succ
  <2>2. T \in SUBSET Vertices
    BY <1>1, <2>1
  <2>3. ASSUME u \in changed, NEW y \in is_undecided, <<u, y>> \in edges, Rank(y) = Rank(u)
        PROVE  y \in T
    <3>1. y \in SameRank(Succ(edges, u), u) \cap is_undecided
      BY <1>4, <2>3 DEF SameRank, Succ
    <3> QED BY <1>1, <2>3, <3>1
  <2> QED BY <2>2, <2>3
<1>8. d \in SUBSET in_active
  BY <1>1, <1>2, <1>3, SharedTypes
<1>9. /\ in_active' = (in_active \cup T) \ {u}
      /\ active' \in [Vertices -> {0, 1}]
      /\ in_active' = {v \in Vertices : active'[v] = 1}
  BY <1>1, <1>2, <1>3, <1>7, <1>8, WakeKeepsStacks
<1>10. EitherTypeOK'
  <2>1. has_changed' \in SUBSET Vertices
    BY <1>2, <1>4, <1>6
  <2> QED BY <1>2, <1>3, <1>6, <1>9, <2>1, SharedTypes, PullTypes
<1>11. ASSUME NEW v \in is_undecided
       PROVE  /\ label'[v] \in Nat /\ label'[v] <= label[v] /\ label'[v] <= map[v]
              /\ Reaching(is_undecided, label'[v], v)
  <2>1. label[v] \in Nat /\ map[v] \in Nat
    BY <1>3, <1>4
  <2> QED BY <1>3, <1>4, <1>5, <1>6, <2>1
<1>12. ASSUME NEW y \in is_undecided, NEW l \in Int, Due(y, l)
       PROVE  Due(y, l)'
  <2>1. /\ \A m \in Messages : m \in send_buffer' \cup recv_buffer'
        /\ cache' = cache /\ Rank(y) \in Ranks
    BY <1>2, <1>4 DEF Messages
  <2>2. y \in in_active /\ y \notin in_active' => y = u
    BY <1>9
  <2>3. /\ \A x \in DOMAIN cache[Rank(y)] :
             /\ x \in DOMAIN cache'[Rank(y)]
             /\ cache'[Rank(y)][x] <= cache[Rank(y)][x]
        /\ \A x \in DOMAIN cache'[Rank(y)] : cache'[Rank(y)][x] \in Nat
    BY <1>4, <2>1
  <2>4. y \in in_active /\ y \notin in_active' =>
          \A x \in Pred(edges, y) \cap DOMAIN cache[Rank(y)] : label'[y] <= cache[Rank(y)][x]
    BY <1>5, <1>6, <2>2
  <2> QED BY <1>2, <1>3, <1>11, <1>12, <2>1, <2>3, <2>4, DueKept
<1>13. \A m \in send_buffer' \cup recv_buffer' :
         /\ m[1] \in is_undecided /\ <<m[1], m[2]>> \in edges /\ Rank(m[1]) # Rank(m[2])
         /\ label'[m[1]] <= m[3] /\ Reaching(is_undecided, m[3], m[1])
  <2> SUFFICES ASSUME NEW m \in send_buffer \cup recv_buffer
               PROVE  /\ m[1] \in is_undecided /\ <<m[1], m[2]>> \in edges
                      /\ Rank(m[1]) # Rank(m[2])
                      /\ label'[m[1]] <= m[3] /\ Reaching(is_undecided, m[3], m[1])
    BY <1>2
  <2>1. /\ m[1] \in is_undecided /\ <<m[1], m[2]>> \in edges /\ Rank(m[1]) # Rank(m[2])
        /\ label[m[1]] <= m[3] /\ Reaching(is_undecided, m[3], m[1])
    BY <1>2, PullForwardFacts
  <2>2. m[3] \in Nat /\ label[m[1]] \in Nat
    BY <1>3, <1>4, <2>1
  <2>3. label'[m[1]] \in Nat /\ label'[m[1]] <= label[m[1]]
    BY <1>11, <2>1
  <2> QED BY <2>1, <2>2, <2>3
<1>14. ASSUME NEW r \in Ranks, NEW v \in DOMAIN cache'[r]
       PROVE  /\ Reaching(is_undecided, cache'[r][v], v)
              /\ v \in is_undecided => Due(v, cache[r][v])'
  <2>1. cache' = cache /\ v \in DOMAIN cache[r]
    BY <1>2, <1>14
  <2>2. /\ Reaching(is_undecided, cache[r][v], v)
        /\ v \in is_undecided => Due(v, cache[r][v])
    BY <1>2, <2>1, PullForwardFacts
  <2>3. PICK l \in Int : l = cache[r][v]
    BY <1>4, <2>1
  <2> QED BY <1>12, <2>1, <2>2, <2>3
<1>15. ASSUME NEW x \in is_undecided, NEW y \in is_undecided, <<x, y>> \in edges
       PROVE  IF Rank(x) = Rank(y) THEN label'[y] <= label'[x] \/ y \in in_active'
              ELSE x \in has_changed' \/ Due(y, label[x])'
  <2>1. /\ label[x] \in Nat /\ label[y] \in Nat /\ label'[x] \in Nat /\ label'[y] \in Nat
        /\ x \in Vertices /\ y \in Vertices
        /\ label'[y] <= label[y] /\ label'[x] <= label[x]
    BY <1>3, <1>4, <1>11
  <2>2. IF Rank(x) = Rank(y) THEN label[y] <= label[x] \/ y \in in_active
        ELSE x \in has_changed \/ Due(y, label[x])
    BY <1>2, <1>15, PullForwardFacts
  <2>3. CASE Rank(x) = Rank(y) /\ y = u
    <3>1. x \in SameRank(Pred(edges, u), u) \cap is_undecided
      BY <1>15, <2>1, <2>3 DEF SameRank, Pred
    <3>2. least <= label[x]
      BY <1>5, <3>1
    <3> QED BY <1>6, <2>1, <2>3, <3>2
  <2>4. CASE Rank(x) = Rank(y) /\ y # u /\ x = u /\ u \in changed
    BY <1>7, <1>9, <1>15, <2>4
  <2>5. CASE Rank(x) = Rank(y) /\ y # u /\ ~ (x = u /\ u \in changed)
    <3>1. label'[x] = label[x]
      <4>1. x = u => ~ (least < label[u])
        BY <1>6, <2>5
      <4> QED BY <1>5, <1>6, <2>1, <4>1
    <3> QED BY <1>6, <1>9, <2>1, <2>2, <2>5, <3>1
  <2>6. CASE Rank(x) # Rank(y)
    <3>1. CASE x \in has_changed'
      BY <2>6, <3>1
    <3>2. CASE x \notin has_changed'
      <4>1. x \notin has_changed /\ label'[x] = label[x]
        BY <1>2, <1>5, <1>6, <2>1, <3>2
      <4>2. PICK l \in Int : l = label[x]
        BY <2>1
      <4> QED BY <1>12, <2>2, <2>6, <4>1, <4>2
    <3> QED BY <3>1, <3>2
  <2> QED BY <2>3, <2>4, <2>5, <2>6
<1>16. ASSUME NEW x \in is_undecided, NEW y \in is_undecided, <<x, y>> \in edges, Rank(x) # Rank(y)
       PROVE  \/ x \in has_changed'
              \/ Due(y, label[x] - 1)'
              \/ <<x, y, label'[x]>> \in send_buffer' \cup recv_buffer'
              \/ x \in DOMAIN cache'[Rank(y)] /\ cache'[Rank(y)][x] <= label'[x]
  <2> SUFFICES ASSUME x \notin has_changed'
               PROVE  \/ Due(y, label[x] - 1)'
                      \/ <<x, y, label'[x]>> \in send_buffer' \cup recv_buffer'
                      \/ x \in DOMAIN cache'[Rank(y)] /\ cache'[Rank(y)][x] <= label'[x]
    OBVIOUS
  <2>1. label[x] \in Nat /\ x \in Vertices
    BY <1>3, <1>4
  <2>2. x \notin has_changed /\ label'[x] = label[x]
    BY <1>2, <1>5, <1>6, <1>11, <2>1
  <2>3. PICK l \in Int : l = label[x] - 1
    BY <2>1
  <2>4. Due(y, label[x] - 1) => Due(y, label[x] - 1)'
    BY <1>12, <2>2, <2>3
  <2>5. \/ Due(y, label[x] - 1)
        \/ <<x, y, label[x]>> \in send_buffer \cup recv_buffer
        \/ x \in DOMAIN cache[Rank(y)] /\ cache[Rank(y)][x] <= label[x]
    BY <1>2, <1>16, <2>2, PullForwardFacts
  <2> QED BY <1>2, <2>2, <2>4, <2>5
<1>17. \A v \in Vertices \ is_undecided : label'[v] = Undecided
  BY <1>2, <1>3, <1>6
<1>18. has_changed' \subseteq is_undecided
  BY <1>2, <1>3, <1>6
<1> QED BY <1>2, <1>10, <1>11, <1>13, <1>14, <1>15, <1>16, <1>17, <1>18, PullForwardRound

\* A rank notes a label and wakes the vertex it is for.
LEMMA PullFwReceiveStep ==
  ASSUME EitherInv, search = "pull", NEW m \in recv_buffer, PullFwReceive(m), UNCHANGED search
  PROVE  EitherInv'
<1>1. PICK r, x0, y0, l0, W, N, d :
        /\ r = Rank(m[2]) /\ x0 = m[1] /\ y0 = m[2] /\ l0 = m[3] /\ N = {m[1]} /\ d = {}
        /\ W = {v \in {m[2]} \cap is_undecided : Accepts(Rank(v), m[1], m[3])}
  OBVIOUS
<1>2. /\ phase = "forward" /\ Wake(W, d) /\ Note(r, N, l0)
      /\ recv_buffer' = recv_buffer \ {m}
      /\ UNCHANGED <<input, map, phase, label, has_changed, is_undecided,
                     send_buffer, scc_id, local_decided, search>>
  BY <1>1 DEF PullFwReceive
<1>3. /\ EitherTypeOK
      /\ has_changed \subseteq is_undecided
      /\ \A v \in is_undecided :
           label[v] \in Nat /\ label[v] <= map[v] /\ Reaching(is_undecided, label[v], v)
      /\ \A v \in Vertices \ is_undecided : label[v] = Undecided
      /\ label \in [Vertices -> Nat \cup {Undecided}]
      /\ \A k \in send_buffer \cup recv_buffer :
           /\ k[1] \in is_undecided /\ <<k[1], k[2]>> \in edges /\ Rank(k[1]) # Rank(k[2])
           /\ label[k[1]] <= k[3] /\ Reaching(is_undecided, k[3], k[1])
  BY <1>2, PullForwardFacts
<1>4. /\ is_undecided \in SUBSET Vertices
      /\ edges \in SUBSET (Vertices \X Vertices)
      /\ DOMAIN cache = Ranks
      /\ \A q \in Ranks : \A v \in DOMAIN cache[q] :
           v \in Vertices \ Local(q) /\ cache[q][v] \in Nat
      /\ \A v \in Vertices : Rank(v) \in Ranks
      /\ send_buffer \in SUBSET (Vertices \X Vertices \X Nat)
      /\ recv_buffer \in SUBSET (Vertices \X Vertices \X Nat)
  BY <1>3, SharedTypes
<1>5. /\ x0 \in is_undecided /\ x0 \in Vertices /\ y0 \in Vertices /\ l0 \in Nat
      /\ <<x0, y0>> \in edges /\ Rank(x0) # Rank(y0) /\ r = Rank(y0) /\ r \in Ranks
      /\ label[x0] <= l0 /\ Reaching(is_undecided, l0, x0)
      /\ x0 \in Pred(edges, y0)
  BY <1>1, <1>3, <1>4 DEF Pred
<1>6. /\ DOMAIN cache' = Ranks
      /\ \A q \in Ranks \ {r} : cache'[q] = cache[q]
      /\ DOMAIN cache'[r] = DOMAIN cache[r] \cup N
      /\ \A v \in DOMAIN cache'[r] :
           cache'[r][v] = IF v \in N /\ Accepts(r, v, l0) THEN l0 ELSE cache[r][v]
      /\ \A v \in DOMAIN cache[r] : cache'[r][v] <= cache[r][v]
      /\ \A v \in N : cache'[r][v] <= l0
      /\ \A q \in Ranks : \A v \in DOMAIN cache'[q] :
           v \in Vertices \ Local(q) /\ cache'[q][v] \in Nat
  <2>1. N \in SUBSET (Vertices \ Local(r))
    BY <1>1, <1>5 DEF Local
  <2>2. /\ DOMAIN cache = Ranks
        /\ \A q \in Ranks : \A v \in DOMAIN cache[q] :
             v \in Vertices \ Local(q) /\ cache[q][v] \in Nat
        /\ r \in Ranks /\ l0 \in Nat /\ Note(r, N, l0)
    BY <1>2, <1>4, <1>5
  <2> QED BY <2>1, <2>2, NoteFacts
<1>7. /\ in_active' = in_active \cup W
      /\ active' \in [Vertices -> {0, 1}]
      /\ in_active' = {v \in Vertices : active'[v] = 1}
  <2>1. W \in SUBSET Vertices /\ d \in SUBSET in_active
    BY <1>1, <1>4
  <2> QED BY <1>1, <1>2, <1>3, <2>1, WakeKeepsStacks
<1>8. EitherTypeOK'
  <2>1. recv_buffer' \in SUBSET (Vertices \X Vertices \X Nat)
    BY <1>2, <1>4
  <2> QED BY <1>2, <1>3, <1>6, <1>7, <2>1, SharedTypes, PullTypes
<1>9. /\ x0 \in DOMAIN cache'[r] /\ cache'[r][x0] <= l0
      /\ \A q \in Ranks : \A v \in DOMAIN cache[q] :
           v \in DOMAIN cache'[q] /\ cache'[q][v] <= cache[q][v]
      /\ \A q \in Ranks : \A v \in DOMAIN cache'[q] :
           \/ v \in DOMAIN cache[q] /\ cache'[q][v] = cache[q][v]
           \/ q = r /\ v = x0 /\ cache'[q][v] = l0
  <2>1. \A q \in Ranks : \A v \in DOMAIN cache[q] :
          v \in DOMAIN cache'[q] /\ cache'[q][v] <= cache[q][v]
    BY <1>4, <1>6
  <2>2. \A v \in DOMAIN cache'[r] : v \in DOMAIN cache[r] \/ (v \in N /\ cache'[r][v] = l0)
    BY <1>6 DEF Accepts, Noted
  <2> QED BY <1>1, <1>6, <2>1, <2>2
\* The vertex is woken, or less is noted for the neighbour.
<1>10. y0 \in is_undecided => \/ y0 \in in_active' /\ cache'[r][x0] <= l0
                              \/ cache'[r][x0] < l0
  <2> SUFFICES ASSUME y0 \in is_undecided, ~ Accepts(r, x0, l0) PROVE cache'[r][x0] < l0
    BY <1>1, <1>7, <1>9
  <2>1. x0 \in DOMAIN cache[r] /\ ~ (l0 <= cache[r][x0]) /\ cache'[r][x0] = cache[r][x0]
    BY <1>6, <1>9 DEF Accepts, Noted
  <2>2. cache[r][x0] \in Nat
    BY <1>4, <1>5, <2>1
  <2> QED BY <1>5, <2>1, <2>2
<1>11. ASSUME NEW y \in is_undecided, NEW l \in Int, Due(y, l)
       PROVE  Due(y, l)'
  <2>1. \A k \in Messages : k[2] = y =>
          \/ k \in send_buffer' \cup recv_buffer'
          \/ \E x \in Pred(edges, y) \cap DOMAIN cache'[Rank(y)] :
               \/ y \in in_active' /\ cache'[Rank(y)][x] <= k[3]
               \/ x \in is_undecided /\ cache'[Rank(y)][x] < k[3]
    <3>1. ASSUME y = y0
          PROVE  \E x \in Pred(edges, y) \cap DOMAIN cache'[Rank(y)] :
                   \/ y \in in_active' /\ cache'[Rank(y)][x] <= l0
                   \/ x \in is_undecided /\ cache'[Rank(y)][x] < l0
      <4>1. x0 \in Pred(edges, y) \cap DOMAIN cache'[Rank(y)] /\ Rank(y) = r
        BY <1>5, <1>9, <3>1
      <4>2. \/ y \in in_active' /\ cache'[Rank(y)][x0] <= l0
            \/ x0 \in is_undecided /\ cache'[Rank(y)][x0] < l0
        BY <1>5, <1>10, <3>1, <4>1
      <4> QED BY <4>1, <4>2
    <3>2. \A k \in Messages : k \in send_buffer' \cup recv_buffer' \/ k = m
      BY <1>2 DEF Messages
    <3> QED BY <1>1, <3>1, <3>2
  <2>2. /\ \A x \in DOMAIN cache[Rank(y)] :
             /\ x \in DOMAIN cache'[Rank(y)]
             /\ cache'[Rank(y)][x] <= cache[Rank(y)][x]
        /\ \A x \in DOMAIN cache'[Rank(y)] : cache'[Rank(y)][x] \in Nat
    BY <1>4, <1>6, <1>9
  <2>3. /\ label[y] \in Nat /\ label'[y] \in Nat /\ label'[y] <= label[y]
        /\ ~ (y \in in_active /\ y \notin in_active')
    BY <1>2, <1>3, <1>7
  <2> QED BY <1>2, <1>3, <1>11, <2>1, <2>2, <2>3, DueKept
<1>12. \A k \in send_buffer' \cup recv_buffer' :
         /\ k[1] \in is_undecided /\ <<k[1], k[2]>> \in edges /\ Rank(k[1]) # Rank(k[2])
         /\ label'[k[1]] <= k[3] /\ Reaching(is_undecided, k[3], k[1])
  BY <1>2, <1>3
<1>13. ASSUME NEW q \in Ranks, NEW v \in DOMAIN cache'[q]
       PROVE  /\ Reaching(is_undecided, cache'[q][v], v)
              /\ v \in is_undecided => Due(v, cache[q][v])'
  <2>1. CASE v \in DOMAIN cache[q] /\ cache'[q][v] = cache[q][v]
    <3>1. /\ Reaching(is_undecided, cache[q][v], v)
          /\ v \in is_undecided => Due(v, cache[q][v])
      BY <1>2, <2>1, PullForwardFacts
    <3>2. PICK l \in Int : l = cache[q][v]
      BY <1>4, <2>1
    <3> QED BY <1>11, <2>1, <3>1, <3>2
  <2>2. CASE q = r /\ v = x0 /\ cache'[q][v] = l0
    <3>1. label'[v] <= cache'[q][v]
      BY <1>2, <1>5, <2>2
    <3> QED BY <1>5, <2>2, <3>1 DEF Due
  <2> QED BY <1>9, <2>1, <2>2
<1>14. ASSUME NEW x \in is_undecided, NEW y \in is_undecided, <<x, y>> \in edges
       PROVE  IF Rank(x) = Rank(y) THEN label'[y] <= label'[x] \/ y \in in_active'
              ELSE x \in has_changed' \/ Due(y, label[x])'
  <2>1. IF Rank(x) = Rank(y) THEN label[y] <= label[x] \/ y \in in_active
        ELSE x \in has_changed \/ Due(y, label[x])
    BY <1>2, <1>14, PullForwardFacts
  <2>2. PICK l \in Int : l = label[x]
    BY <1>3
  <2>3. Due(y, label[x]) => Due(y, label[x])'
    BY <1>2, <1>11, <2>2
  <2> QED BY <1>2, <1>7, <2>1, <2>3
<1>15. ASSUME NEW x \in is_undecided, NEW y \in is_undecided, <<x, y>> \in edges, Rank(x) # Rank(y)
       PROVE  \/ x \in has_changed'
              \/ Due(y, label[x] - 1)'
              \/ <<x, y, label'[x]>> \in send_buffer' \cup recv_buffer'
              \/ x \in DOMAIN cache'[Rank(y)] /\ cache'[Rank(y)][x] <= label'[x]
  <2>1. label[x] \in Nat /\ x \in Vertices /\ y \in Vertices
    BY <1>3, <1>4
  <2>2. PICK l \in Int : l = label[x] - 1
    BY <2>1
  <2>3. Due(y, label[x] - 1) => Due(y, label[x] - 1)'
    BY <1>2, <1>11, <2>2
  <2>4. CASE <<x, y, label[x]>> = m
    BY <1>1, <1>2, <1>5, <1>9, <2>4
  <2>5. CASE x \in DOMAIN cache[Rank(y)] /\ cache[Rank(y)][x] <= label[x]
    <3>1. /\ x \in DOMAIN cache'[Rank(y)] /\ cache'[Rank(y)][x] <= cache[Rank(y)][x]
          /\ cache'[Rank(y)][x] \in Nat /\ cache[Rank(y)][x] \in Nat
      BY <1>4, <1>6, <1>9, <2>1, <2>5
    <3> QED BY <1>2, <2>1, <2>5, <3>1
  <2>6. \/ x \in has_changed
        \/ Due(y, label[x] - 1)
        \/ <<x, y, label[x]>> \in send_buffer \cup recv_buffer
        \/ x \in DOMAIN cache[Rank(y)] /\ cache[Rank(y)][x] <= label[x]
    BY <1>2, <1>15, PullForwardFacts
  <2> QED BY <1>2, <2>3, <2>4, <2>5, <2>6
<1> QED BY <1>2, <1>3, <1>8, <1>12, <1>13, <1>14, <1>15, PullForwardRound

\* A rank sends what changed at one vertex, to where it may matter.
LEMMA PullFwPushStep ==
  ASSUME EitherInv, search = "pull", NEW u \in Vertices, CacheFwPush(u), UNCHANGED search
  PROVE  EitherInv'
<1>1. PICK r, l, T : /\ r = Rank(u) /\ l = label[u]
                     /\ T = {v \in RemoteNeighbours(u) :
                               label[u] <= map[v] /\ Accepts(Rank(u), v, label[u])}
  OBVIOUS
<1>2. /\ phase = "forward" /\ MayPush(u) /\ PushTo(u, T) /\ Note(r, T, l)
  BY <1>1 DEF CacheFwPush
<1>3. /\ UNCHANGED <<input, map, phase, label, active, in_active, is_undecided,
                     recv_buffer, scc_id, local_decided, search>>
      /\ send_buffer' = send_buffer \cup ({u} \X T \X {l})
      /\ has_changed' = has_changed \ {u}
      /\ u \in has_changed
  BY <1>1, <1>2 DEF PushTo, MayPush
<1>4. /\ EitherTypeOK
      /\ has_changed \subseteq is_undecided
      /\ \A v \in is_undecided :
           label[v] \in Nat /\ label[v] <= map[v] /\ Reaching(is_undecided, label[v], v)
      /\ \A v \in Vertices \ is_undecided : label[v] = Undecided
      /\ \A k \in send_buffer \cup recv_buffer :
           /\ k[1] \in is_undecided /\ <<k[1], k[2]>> \in edges /\ Rank(k[1]) # Rank(k[2])
           /\ label[k[1]] <= k[3] /\ Reaching(is_undecided, k[3], k[1])
  BY <1>2, PullForwardFacts
<1>5. /\ is_undecided \in SUBSET Vertices /\ map \in [Vertices -> Nat] /\ input \in Inputs
      /\ edges \in SUBSET (Vertices \X Vertices)
      /\ DOMAIN cache = Ranks
      /\ \A q \in Ranks : \A v \in DOMAIN cache[q] :
           v \in Vertices \ Local(q) /\ cache[q][v] \in Nat
      /\ \A v \in Vertices : Rank(v) \in Ranks
      /\ send_buffer \in SUBSET (Vertices \X Vertices \X Nat)
      /\ recv_buffer \in SUBSET (Vertices \X Vertices \X Nat)
      /\ has_changed \in SUBSET Vertices
      /\ u \in is_undecided /\ l = label[u] /\ l \in Nat /\ r = Rank(u) /\ r \in Ranks
      /\ Reaching(is_undecided, l, u)
  BY <1>1, <1>3, <1>4, SharedTypes
<1>6. /\ T \in SUBSET (Vertices \ Local(r))
      /\ \A v \in T : <<u, v>> \in edges /\ Rank(v) # Rank(u) /\ v \in Vertices
      /\ \A v \in T : Accepts(r, v, l)
      /\ \A v \in Vertices \ T : <<u, v>> \in edges /\ Rank(v) # Rank(u) =>
           ~ (l <= map[v]) \/ ~ Accepts(r, v, l)
  BY <1>1, <1>2, <1>5 DEF RemoteNeighbours, Neighbours, Succ, Local
<1>7. /\ DOMAIN cache' = Ranks
      /\ \A q \in Ranks \ {r} : cache'[q] = cache[q]
      /\ DOMAIN cache'[r] = DOMAIN cache[r] \cup T
      /\ \A v \in DOMAIN cache'[r] :
           cache'[r][v] = IF v \in T /\ Accepts(r, v, l) THEN l ELSE cache[r][v]
      /\ \A v \in DOMAIN cache[r] : cache'[r][v] <= cache[r][v]
      /\ \A v \in T : cache'[r][v] <= l
      /\ \A q \in Ranks : \A v \in DOMAIN cache'[q] :
           v \in Vertices \ Local(q) /\ cache'[q][v] \in Nat
  <2>1. /\ DOMAIN cache = Ranks
        /\ \A q \in Ranks : \A v \in DOMAIN cache[q] :
             v \in Vertices \ Local(q) /\ cache[q][v] \in Nat
        /\ r \in Ranks /\ T \in SUBSET (Vertices \ Local(r)) /\ l \in Nat /\ Note(r, T, l)
    BY <1>2, <1>5, <1>6
  <2> QED BY <2>1, NoteFacts
<1>8. EitherTypeOK'
  <2>1. /\ send_buffer' \in SUBSET (Vertices \X Vertices \X Nat)
        /\ recv_buffer' \in SUBSET (Vertices \X Vertices \X Nat)
        /\ has_changed' \in SUBSET Vertices
    BY <1>3, <1>5, <1>6
  <2>2. PullTypeOK
    BY <1>4 DEF EitherTypeOK
  <2>3. /\ label' \in [Vertices -> Nat \cup {Undecided}] /\ active' \in [Vertices -> {0, 1}]
        /\ in_active' = {v \in Vertices : active'[v] = 1}
        /\ phase' \in {"call", "forward", "backward", "done"}
        /\ is_undecided' \in SUBSET Vertices
        /\ scc_id' \in [Vertices -> Vertices \cup {Undecided}]
        /\ local_decided' \in [Ranks -> Nat]
    BY <1>3, <2>2 DEF PullTypeOK
  <2> QED BY <1>3, <1>4, <1>7, <2>1, <2>3, PullTypes
<1>9. /\ \A q \in Ranks : \A v \in DOMAIN cache[q] :
           v \in DOMAIN cache'[q] /\ cache'[q][v] <= cache[q][v]
      /\ \A q \in Ranks : \A v \in DOMAIN cache'[q] :
           \/ v \in DOMAIN cache[q] /\ cache'[q][v] = cache[q][v]
           \/ q = r /\ v \in T /\ cache'[q][v] = l
  BY <1>5, <1>6, <1>7
<1>10. ASSUME NEW v \in T PROVE <<u, v, l>> \in send_buffer'
  BY <1>3, <1>10
<1>11. ASSUME NEW y \in is_undecided, NEW k \in Int, Due(y, k)
       PROVE  Due(y, k)'
  <2>1. \A m \in Messages : m \in send_buffer' \cup recv_buffer'
    BY <1>3 DEF Messages
  <2>2. /\ \A x \in DOMAIN cache[Rank(y)] :
             /\ x \in DOMAIN cache'[Rank(y)]
             /\ cache'[Rank(y)][x] <= cache[Rank(y)][x]
        /\ \A x \in DOMAIN cache'[Rank(y)] : cache'[Rank(y)][x] \in Nat
    BY <1>5, <1>7, <1>9
  <2>3. /\ label[y] \in Nat /\ label'[y] \in Nat /\ label'[y] <= label[y]
        /\ ~ (y \in in_active /\ y \notin in_active')
    BY <1>3, <1>4
  <2> QED BY <1>3, <1>4, <1>11, <2>1, <2>2, <2>3, DueKept
\* Who is not told has a smaller label, or will have.
<1>12. ASSUME NEW y \in is_undecided, <<u, y>> \in edges, Rank(u) # Rank(y), y \notin T
       PROVE  Due(y, l - 1) /\ Due(y, l)
  <2>1. y \in Vertices /\ map[y] \in Nat /\ label[y] \in Nat /\ label[y] <= map[y]
        /\ l - 1 \in Int /\ l \in Int /\ l - 1 <= l
    BY <1>4, <1>5
  <2>2. Due(y, l - 1)
    <3>1. CASE ~ (l <= map[y])
      <4>1. label[y] <= l - 1
        BY <1>5, <2>1, <3>1
      <4> QED BY <4>1 DEF Due
    <3>2. CASE ~ Accepts(r, y, l)
      <4>1. y \in DOMAIN cache[r] /\ ~ (l <= cache[r][y])
        BY <3>2 DEF Accepts, Noted
      <4>2. PICK c \in Nat : c = cache[r][y]
        BY <1>5, <4>1
      <4>3. Due(y, c)
        BY <1>2, <1>5, <4>1, <4>2, PullForwardFacts
      <4>4. c <= l - 1 /\ c \in Int
        BY <1>5, <4>1, <4>2
      <4>5. PICK k \in Int : k = l - 1
        BY <2>1
      <4> QED BY <1>4, <2>1, <4>3, <4>4, <4>5, DueMonotone
    <3> QED BY <1>6, <1>12, <2>1, <3>1, <3>2
  <2>3. PICK k \in Int : k = l - 1
    BY <2>1
  <2> QED BY <1>4, <2>1, <2>2, <2>3, DueMonotone
<1>13. \A m \in send_buffer' \cup recv_buffer' :
         /\ m[1] \in is_undecided /\ <<m[1], m[2]>> \in edges /\ Rank(m[1]) # Rank(m[2])
         /\ label'[m[1]] <= m[3] /\ Reaching(is_undecided, m[3], m[1])
  <2>1. ASSUME NEW v \in T, NEW m, m = <<u, v, l>>
        PROVE  /\ m[1] \in is_undecided /\ <<m[1], m[2]>> \in edges /\ Rank(m[1]) # Rank(m[2])
               /\ label[m[1]] <= m[3] /\ Reaching(is_undecided, m[3], m[1])
    <3>1. m[1] = u /\ m[2] = v /\ m[3] = l
      BY <2>1
    <3>2. label[u] <= l
      BY <1>5
    <3> QED BY <1>5, <1>6, <3>1, <3>2
  <2>2. \A m \in {u} \X T \X {l} : \E v \in T : m = <<u, v, l>>
    OBVIOUS
  <2> QED BY <1>3, <1>4, <2>1, <2>2
<1>14. ASSUME NEW q \in Ranks, NEW v \in DOMAIN cache'[q]
       PROVE  /\ Reaching(is_undecided, cache'[q][v], v)
              /\ v \in is_undecided => Due(v, cache[q][v])'
  <2>1. CASE v \in DOMAIN cache[q] /\ cache'[q][v] = cache[q][v]
    <3>1. /\ Reaching(is_undecided, cache[q][v], v)
          /\ v \in is_undecided => Due(v, cache[q][v])
      BY <1>2, <2>1, PullForwardFacts
    <3>2. PICK k \in Int : k = cache[q][v]
      BY <1>5, <2>1
    <3> QED BY <1>11, <2>1, <3>1, <3>2
  <2>2. CASE q = r /\ v \in T /\ cache'[q][v] = l
    <3>1. Reaching(is_undecided, l, v)
      BY <1>5, <1>6, <2>2, ReachingStep
    <3>2. PICK m \in send_buffer' : m = <<u, v, l>>
      BY <1>10, <2>2
    <3>3. m[2] = v /\ m[3] <= cache'[q][v]
      BY <1>5, <2>2, <3>2
    <3>4. Due(v, cache[q][v])'
      BY <3>3 DEF Due, Told
    <3> QED BY <2>2, <3>1, <3>4
  <2> QED BY <1>9, <2>1, <2>2
<1>15. ASSUME NEW x \in is_undecided, NEW y \in is_undecided, <<x, y>> \in edges
       PROVE  IF Rank(x) = Rank(y) THEN label'[y] <= label'[x] \/ y \in in_active'
              ELSE x \in has_changed' \/ Due(y, label[x])'
  <2>1. IF Rank(x) = Rank(y) THEN label[y] <= label[x] \/ y \in in_active
        ELSE x \in has_changed \/ Due(y, label[x])
    BY <1>2, <1>15, PullForwardFacts
  <2>2. PICK k \in Int : k = label[x]
    BY <1>4
  <2>3. Due(y, label[x]) => Due(y, label[x])'
    BY <1>3, <1>11, <2>2
  <2>4. CASE x = u /\ Rank(x) # Rank(y) /\ y \in T
    <3>1. PICK m \in send_buffer' : m = <<u, y, l>>
      BY <1>10, <2>4
    <3>2. m[2] = y /\ m[3] <= label'[x]
      BY <1>3, <1>5, <2>4, <3>1
    <3> QED BY <2>4, <3>2 DEF Due, Told
  <2>5. CASE x = u /\ Rank(x) # Rank(y) /\ y \notin T
    BY <1>5, <1>12, <1>15, <2>3, <2>5
  <2> QED BY <1>3, <2>1, <2>3, <2>4, <2>5
<1>16. ASSUME NEW x \in is_undecided, NEW y \in is_undecided, <<x, y>> \in edges, Rank(x) # Rank(y)
       PROVE  \/ x \in has_changed'
              \/ Due(y, label[x] - 1)'
              \/ <<x, y, label'[x]>> \in send_buffer' \cup recv_buffer'
              \/ x \in DOMAIN cache'[Rank(y)] /\ cache'[Rank(y)][x] <= label'[x]
  <2>1. label[x] \in Nat /\ x \in Vertices /\ y \in Vertices
    BY <1>4, <1>5
  <2>2. PICK k \in Int : k = label[x] - 1
    BY <2>1
  <2>3. Due(y, label[x] - 1) => Due(y, label[x] - 1)'
    BY <1>3, <1>11, <2>2
  <2>4. CASE x = u /\ y \in T
    BY <1>3, <1>5, <1>10, <2>4
  <2>5. CASE x = u /\ y \notin T
    BY <1>5, <1>12, <1>16, <2>3, <2>5
  <2>6. CASE x \in DOMAIN cache[Rank(y)] /\ cache[Rank(y)][x] <= label[x]
    <3>1. /\ x \in DOMAIN cache'[Rank(y)] /\ cache'[Rank(y)][x] <= cache[Rank(y)][x]
          /\ cache'[Rank(y)][x] \in Nat /\ cache[Rank(y)][x] \in Nat
      BY <1>5, <1>7, <1>9, <2>1, <2>6
    <3> QED BY <1>3, <2>1, <2>6, <3>1
  <2>7. \/ x \in has_changed
        \/ Due(y, label[x] - 1)
        \/ <<x, y, label[x]>> \in send_buffer \cup recv_buffer
        \/ x \in DOMAIN cache[Rank(y)] /\ cache[Rank(y)][x] <= label[x]
    BY <1>2, <1>16, PullForwardFacts
  <2> QED BY <1>3, <2>3, <2>4, <2>5, <2>6, <2>7
<1>17. /\ \A v \in is_undecided :
            label'[v] \in Nat /\ label'[v] <= map[v] /\ Reaching(is_undecided, label'[v], v)
       /\ \A v \in Vertices \ is_undecided : label'[v] = Undecided
       /\ has_changed' \subseteq is_undecided
  BY <1>3, <1>4
<1> QED BY <1>2, <1>3, <1>8, <1>13, <1>14, <1>15, <1>16, <1>17, PullForwardRound

\* A decided vertex is popped, for which nothing waits.
LEMMA SkipStep ==
  ASSUME EitherInv, search = "pull", NEW u \in Vertices, Skip(u), UNCHANGED search
  PROVE  EitherInv'
<1>1. PICK T, d : T = {} /\ d = {u}
  OBVIOUS
<1>2. /\ phase \in {"forward", "backward"} /\ active[u] > 0 /\ u \notin is_undecided
      /\ Wake(T, d)
      /\ UNCHANGED <<input, map, phase, label, has_changed, is_undecided, send_buffer,
                     recv_buffer, scc_id, local_decided, cache, search>>
  BY <1>1 DEF Skip, MayDrain
<1>3. EitherTypeOK /\ DecidedOnce
  BY DEF EitherInv
<1>4. /\ in_active' = in_active \ {u}
      /\ active' \in [Vertices -> {0, 1}]
      /\ in_active' = {v \in Vertices : active'[v] = 1}
  <2>1. T \in SUBSET Vertices /\ d \in SUBSET in_active
    BY <1>1, <1>2, <1>3, SharedTypes
  <2> QED BY <1>1, <1>2, <1>3, <2>1, WakeKeepsStacks
<1>5. EitherTypeOK'
  <2>1. label \in [Vertices -> Nat \cup {Undecided}]
    BY <1>3 DEF EitherTypeOK, PullTypeOK
  <2> QED BY <1>2, <1>3, <1>4, <2>1, SharedTypes, PullTypes
<1>6. CASE phase = "forward"
  <2>1. /\ has_changed \subseteq is_undecided
        /\ \A v \in is_undecided :
             label[v] \in Nat /\ label[v] <= map[v] /\ Reaching(is_undecided, label[v], v)
        /\ \A v \in Vertices \ is_undecided : label[v] = Undecided
        /\ \A m \in send_buffer \cup recv_buffer :
             /\ m[1] \in is_undecided /\ <<m[1], m[2]>> \in edges /\ Rank(m[1]) # Rank(m[2])
             /\ label[m[1]] <= m[3] /\ Reaching(is_undecided, m[3], m[1])
    BY <1>6, PullForwardFacts
  <2>2. /\ \A r \in Ranks : \A v \in DOMAIN cache[r] : cache[r][v] \in Nat
        /\ \A v \in Vertices : Rank(v) \in Ranks
        /\ is_undecided \in SUBSET Vertices
    BY <1>3, SharedTypes
  <2>3. ASSUME NEW y \in is_undecided, NEW l \in Int, Due(y, l)
        PROVE  Due(y, l)'
    <3>1. \A m \in Messages : m \in send_buffer' \cup recv_buffer'
      BY <1>2 DEF Messages
    <3>2. /\ \A x \in DOMAIN cache[Rank(y)] :
               /\ x \in DOMAIN cache'[Rank(y)]
               /\ cache'[Rank(y)][x] <= cache[Rank(y)][x]
          /\ \A x \in DOMAIN cache'[Rank(y)] : cache'[Rank(y)][x] \in Nat
      BY <1>2, <2>2
    <3>3. /\ label[y] \in Nat /\ label'[y] \in Nat /\ label'[y] <= label[y]
          /\ ~ (y \in in_active /\ y \notin in_active')
      BY <1>2, <1>4, <2>1
    <3> QED BY <1>2, <1>3, <2>3, <3>1, <3>2, <3>3, DueKept
  <2>4. ASSUME NEW r \in Ranks, NEW v \in DOMAIN cache'[r]
        PROVE  /\ Reaching(is_undecided, cache'[r][v], v)
               /\ v \in is_undecided => Due(v, cache[r][v])'
    <3>1. cache' = cache /\ v \in DOMAIN cache[r]
      BY <1>2, <2>4
    <3>2. /\ Reaching(is_undecided, cache[r][v], v)
          /\ v \in is_undecided => Due(v, cache[r][v])
      BY <1>6, <3>1, PullForwardFacts
    <3>3. PICK l \in Int : l = cache[r][v]
      BY <2>2, <3>1
    <3> QED BY <2>3, <3>1, <3>2, <3>3
  <2>5. ASSUME NEW x \in is_undecided, NEW y \in is_undecided, <<x, y>> \in edges
        PROVE  IF Rank(x) = Rank(y) THEN label'[y] <= label'[x] \/ y \in in_active'
               ELSE x \in has_changed' \/ Due(y, label[x])'
    <3>1. IF Rank(x) = Rank(y) THEN label[y] <= label[x] \/ y \in in_active
          ELSE x \in has_changed \/ Due(y, label[x])
      BY <1>6, <2>5, PullForwardFacts
    <3>2. PICK l \in Int : l = label[x]
      BY <2>1
    <3>3. Due(y, label[x]) => Due(y, label[x])'
      BY <1>2, <2>3, <3>2
    <3> QED BY <1>2, <1>4, <3>1, <3>3
  <2>6. ASSUME NEW x \in is_undecided, NEW y \in is_undecided, <<x, y>> \in edges,
               Rank(x) # Rank(y)
        PROVE  \/ x \in has_changed'
               \/ Due(y, label[x] - 1)'
               \/ <<x, y, label'[x]>> \in send_buffer' \cup recv_buffer'
               \/ x \in DOMAIN cache'[Rank(y)] /\ cache'[Rank(y)][x] <= label'[x]
    <3>1. label[x] \in Nat
      BY <2>1
    <3>2. PICK l \in Int : l = label[x] - 1
      BY <3>1
    <3>3. Due(y, label[x] - 1) => Due(y, label[x] - 1)'
      BY <1>2, <2>3, <3>2
    <3>4. \/ x \in has_changed
          \/ Due(y, label[x] - 1)
          \/ <<x, y, label[x]>> \in send_buffer \cup recv_buffer
          \/ x \in DOMAIN cache[Rank(y)] /\ cache[Rank(y)][x] <= label[x]
      BY <1>6, <2>6, PullForwardFacts
    <3> QED BY <1>2, <3>3, <3>4
  <2> QED BY <1>2, <1>5, <1>6, <2>1, <2>4, <2>5, <2>6, PullForwardRound
<1>7. CASE phase = "backward"
  <2>1. PICK S \in SUBSET Vertices : BackwardInv(S)
    BY <1>7 DEF EitherInv
  <2>2. /\ has_changed \subseteq S \ is_undecided
        /\ \A m \in send_buffer \cup recv_buffer :
             /\ m[1] \in S \ is_undecided /\ <<m[2], m[1]>> \in edges /\ Rank(m[1]) # Rank(m[2])
             /\ m[3] = label[m[1]]
    BY <2>1 DEF BackwardInv, Messages
  <2>3. \A x \in is_undecided' : \A y \in S \ is_undecided' :
          <<x, y>> \in edges /\ label[x] = label[y] =>
            \/ IF Rank(x) # Rank(y) THEN y \in has_changed'
               ELSE IF search = "pull" THEN x \in in_active' ELSE y \in in_active'
            \/ \E m \in send_buffer' \cup recv_buffer' : m[2] = x /\ m[3] = label[x]
    BY <1>2, <1>4, <2>1 DEF BackwardInv, WillAsk, Messages
  <2>4. BackwardInv(S)'
    BY <1>2, <2>1, <2>2, <2>3, BackwardKept
  <2>5. DecidedOnce'
    BY <1>2, <1>3, InputUnchanged DEF DecidedOnce
  <2> QED BY <1>2, <1>5, <1>7, <2>1, <2>4, <2>5, BackwardRound
<1> QED BY <1>2, <1>6, <1>7

\* When comm returns false, what is due is there: of the labels that were not,
\* the smallest would have somebody on its way with less.  So labels are settled,
\* and the caches exact.
LEMMA PullSettled ==
  ASSUME EitherInv, search = "pull", phase = "forward", AllAtComm, send_buffer = {}
  PROVE  /\ \A e \in UndecidedEdges : label[e[2]] <= label[e[1]]
         /\ \A e \in UndecidedEdges :
              Rank(e[1]) # Rank(e[2]) /\ label[e[1]] = label[e[2]]
                => Noted(Rank(e[2]), e[1]) /\ cache[Rank(e[2])][e[1]] = label[e[1]]
<1>1. /\ EitherTypeOK
      /\ in_active = {} /\ has_changed = {} /\ Messages = {}
      /\ send_buffer \cup recv_buffer = {}
  BY NothingWaits DEF EitherInv, Messages
<1>2. /\ \A v \in is_undecided : label[v] \in Nat /\ Reaching(is_undecided, label[v], v)
      /\ \A r \in Ranks : \A v \in DOMAIN cache[r] :
           /\ Reaching(is_undecided, cache[r][v], v)
           /\ v \in is_undecided => Due(v, cache[r][v])
      /\ \A x, y \in is_undecided : <<x, y>> \in edges =>
           IF Rank(x) = Rank(y) THEN label[y] <= label[x] ELSE Due(y, label[x])
      /\ \A x, y \in is_undecided : <<x, y>> \in edges /\ Rank(x) # Rank(y) =>
           \/ Due(y, label[x] - 1)
           \/ x \in DOMAIN cache[Rank(y)] /\ cache[Rank(y)][x] <= label[x]
  BY <1>1, PullForwardFacts
<1>3. /\ is_undecided \in SUBSET Vertices /\ map \in [Vertices -> Nat]
      /\ edges \in SUBSET (Vertices \X Vertices)
      /\ \A v \in Vertices : Rank(v) \in Ranks
      /\ \A r \in Ranks : \A v \in DOMAIN cache[r] :
           v \in Vertices \ Local(r) /\ cache[r][v] \in Nat
  BY <1>1, SharedTypes
<1>4. ASSUME NEW y \in is_undecided, NEW l, Due(y, l), ~ (label[y] <= l)
      PROVE  \E x \in is_undecided : /\ x \in DOMAIN cache[Rank(y)] /\ cache[Rank(y)][x] < l
                                     /\ <<x, y>> \in edges /\ Rank(x) # Rank(y)
  <2>1. PICK x \in Pred(edges, y) \cap DOMAIN cache[Rank(y)] :
          x \in is_undecided /\ cache[Rank(y)][x] < l
    BY <1>1, <1>4 DEF Due, Told
  <2>2. Rank(x) # Rank(y)
    BY <1>3, <2>1 DEF Local
  <2> QED BY <2>1, <2>2 DEF Pred
\* The labels, by the vertices they are of.
<1>5. PICK B : B = {w \in is_undecided : \E y \in is_undecided :
                                          Due(y, map[w]) /\ ~ (label[y] <= map[w])}
  OBVIOUS
<1>6. ASSUME NEW l, NEW v, Reaching(is_undecided, l, v)
      PROVE  \E w \in is_undecided : l = map[w]
  BY <1>6 DEF Reaching
<1>7. B = {}
  <2> SUFFICES ASSUME B # {} PROVE FALSE
    OBVIOUS
  <2>1. B \in SUBSET Vertices
    BY <1>3, <1>5
  <2>2. PICK w \in B : \A z \in B : map[w] <= map[z]
    BY <1>3, <2>1, LeastVertex
  <2>3. PICK y \in is_undecided : Due(y, map[w]) /\ ~ (label[y] <= map[w])
    BY <1>5, <2>2
  <2>4. PICK x \in is_undecided :
          /\ x \in DOMAIN cache[Rank(y)] /\ cache[Rank(y)][x] < map[w]
          /\ <<x, y>> \in edges /\ Rank(x) # Rank(y)
    BY <1>4, <2>3
  <2>5. ASSUME NEW u \in is_undecided, NEW z \in is_undecided, map[z] < map[w], Due(u, map[z])
        PROVE  label[u] <= map[z]
    <3>1. z \notin B
      BY <1>3, <2>1, <2>2, <2>5
    <3> QED BY <1>5, <2>5, <3>1
  <2>6. /\ Rank(y) \in Ranks /\ Due(x, cache[Rank(y)][x])
        /\ Reaching(is_undecided, cache[Rank(y)][x], x)
    BY <1>2, <1>3, <2>4
  <2>7. PICK z \in is_undecided : cache[Rank(y)][x] = map[z]
    BY <1>6, <2>6
  <2>8. label[x] <= map[z] /\ map[z] < map[w]
    BY <2>4, <2>5, <2>6, <2>7
  <2>9. PICK u \in is_undecided : label[x] = map[u]
    BY <1>2, <1>6
  <2>10. Due(y, map[u])
    BY <1>2, <2>4, <2>9
  <2>11. /\ map[u] \in Nat /\ map[z] \in Nat /\ map[w] \in Nat /\ label[y] \in Nat
    BY <1>2, <1>3, <2>1
  <2>12. label[y] <= map[u]
    BY <2>5, <2>8, <2>9, <2>10, <2>11
  <2> QED BY <2>3, <2>8, <2>9, <2>11, <2>12
<1>8. ASSUME NEW y \in is_undecided, NEW v, NEW l, Reaching(is_undecided, l, v), Due(y, l)
      PROVE  label[y] <= l
  <2>1. PICK w \in is_undecided : l = map[w]
    BY <1>6, <1>8
  <2> QED BY <1>5, <1>7, <1>8, <2>1
<1>9. ASSUME NEW x \in is_undecided, NEW y \in is_undecided, <<x, y>> \in edges
      PROVE  label[y] <= label[x]
  BY <1>2, <1>8, <1>9
<1>10. ASSUME NEW x \in is_undecided, NEW r \in Ranks, x \in DOMAIN cache[r]
       PROVE  label[x] <= cache[r][x] /\ cache[r][x] \in Nat
  BY <1>2, <1>3, <1>8, <1>10
<1>11. ASSUME NEW x \in is_undecided, NEW y \in is_undecided, <<x, y>> \in edges,
              Rank(x) # Rank(y), label[x] = label[y]
       PROVE  Noted(Rank(y), x) /\ cache[Rank(y)][x] = label[x]
  <2>1. label[x] \in Nat /\ label[y] \in Nat /\ Rank(y) \in Ranks
    BY <1>2, <1>3
  <2>2. PICK l : l = label[x] - 1
    OBVIOUS
  <2>3. ~ Due(y, l)
    <3> SUFFICES ASSUME Due(y, l) PROVE FALSE
      OBVIOUS
    <3>1. ~ (label[y] <= l)
      BY <1>11, <2>1, <2>2
    <3>2. PICK z \in is_undecided : /\ z \in DOMAIN cache[Rank(y)] /\ cache[Rank(y)][z] < l
                                    /\ <<z, y>> \in edges /\ Rank(z) # Rank(y)
      BY <1>4, <3>1
    <3>3. label[z] <= cache[Rank(y)][z] /\ cache[Rank(y)][z] \in Nat
      BY <1>10, <2>1, <3>2
    <3>4. label[y] <= label[z] /\ label[z] \in Nat
      BY <1>2, <1>9, <3>2
    <3> QED BY <2>1, <2>2, <3>1, <3>2, <3>3, <3>4
  <2>4. x \in DOMAIN cache[Rank(y)] /\ cache[Rank(y)][x] <= label[x]
    BY <1>2, <1>11, <2>2, <2>3
  <2>5. label[x] <= cache[Rank(y)][x] /\ cache[Rank(y)][x] \in Nat
    BY <1>10, <2>1, <2>4
  <2> QED BY <2>1, <2>4, <2>5 DEF Noted
<1>12. ASSUME NEW e \in UndecidedEdges
       PROVE  /\ label[e[2]] <= label[e[1]]
              /\ Rank(e[1]) # Rank(e[2]) /\ label[e[1]] = label[e[2]]
                   => Noted(Rank(e[2]), e[1]) /\ cache[Rank(e[2])][e[1]] = label[e[1]]
  <2>1. PICK x \in is_undecided, y \in is_undecided : e = <<x, y>> /\ <<x, y>> \in edges
    BY DEF UndecidedEdges
  <2>2. e[1] = x /\ e[2] = y
    BY <2>1
  <2> QED BY <1>9, <1>11, <2>1, <2>2
<1> QED BY <1>12

\* comm returns false: the roots are decided, and who may be asked for them on
\* their rank is woken.
LEMMA PullFwEndStep ==
  ASSUME EitherInv, search = "pull", PullFwEnd, UNCHANGED search
  PROVE  EitherInv'
<1>1. PICK S, D, T, d :
        /\ S = is_undecided /\ D = {v \in S : label[v] = map[v]} /\ d = {}
        /\ T = UNION {SameRank(Pred(edges, u), u) \cap (is_undecided \ D) : u \in D}
  OBVIOUS
<1>2. /\ phase = "forward" /\ AllAtComm /\ send_buffer = {} /\ phase' = "backward"
      /\ DecideAll(D) /\ Wake(T, d) /\ has_changed' = D
      /\ UNCHANGED <<input, map, label, send_buffer, recv_buffer, cache, search>>
  BY <1>1 DEF PullFwEnd, PhaseOver, DecideAndWake
<1>3. /\ EitherTypeOK /\ DecidedOnce /\ PullForwardInv
  BY <1>2 DEF EitherInv
<1>4. /\ EarlierRounds(S)
      /\ \A v \in S : label[v] \in Nat /\ label[v] <= map[v] /\ Reaching(S, label[v], v)
      /\ \A v \in Vertices \ S : label[v] = Undecided
  BY <1>1, <1>3 DEF PullForwardInv
<1>5. /\ \A e \in UndecidedEdges : label[e[2]] <= label[e[1]]
      /\ \A e \in UndecidedEdges :
           Rank(e[1]) # Rank(e[2]) /\ label[e[1]] = label[e[2]]
             => Noted(Rank(e[2]), e[1]) /\ cache[Rank(e[2])][e[1]] = label[e[1]]
  BY <1>2, PullSettled
<1>6. /\ S \in SUBSET Vertices /\ D \in SUBSET S /\ map \in Maps
      /\ scc_id \in [Vertices -> Vertices \cup {Undecided}]
      /\ local_decided \in [Ranks -> Nat]
      /\ edges \in SUBSET (Vertices \X Vertices)
      /\ recv_buffer \in SUBSET (Vertices \X Vertices \X Nat)
      /\ send_buffer \in SUBSET (Vertices \X Vertices \X Nat)
  BY <1>1, <1>3, SharedTypes
<1>7. \A v \in D : unmap(label[v]) \in Vertices
  BY <1>1, <1>6, MapFacts
<1>8. /\ is_undecided' \in SUBSET Vertices
      /\ scc_id' \in [Vertices -> Vertices \cup {Undecided}]
      /\ local_decided' \in [Ranks -> Nat]
  BY <1>1, <1>2, <1>3, <1>6, <1>7, DecideKeepsRecords
<1>9. /\ in_active' = in_active \cup T
      /\ active' \in [Vertices -> {0, 1}]
      /\ in_active' = {v \in Vertices : active'[v] = 1}
  <2>1. T \in SUBSET Vertices /\ d \in SUBSET in_active
    BY <1>1, <1>6
  <2> QED BY <1>1, <1>2, <1>3, <2>1, WakeKeepsStacks
<1>10. EitherTypeOK'
  <2>1. /\ has_changed' \in SUBSET Vertices
        /\ label' \in [Vertices -> Nat \cup {Undecided}]
        /\ phase' \in {"call", "forward", "backward", "done"}
    BY <1>2, <1>3, <1>6 DEF EitherTypeOK, PullTypeOK
  <2>2. /\ DOMAIN cache' = Ranks
        /\ \A r \in Ranks : \A v \in DOMAIN cache'[r] :
             v \in Vertices \ Local(r) /\ cache'[r][v] \in Nat
    BY <1>2, <1>3, SharedTypes
  <2> QED BY <1>2, <1>3, <1>6, <1>8, <1>9, <2>1, <2>2, PullTypes
<1>11. ASSUME NEW x \in S \ D, NEW y \in D, <<x, y>> \in edges, Rank(x) = Rank(y)
       PROVE  IF search = "pull" THEN x \in in_active' ELSE y \in in_active'
  <2>1. x \in SameRank(Pred(edges, y), y) \cap (is_undecided \ D)
    BY <1>1, <1>6, <1>11 DEF SameRank, Pred
  <2>2. x \in T
    BY <1>1, <2>1
  <2> QED BY <1>9, <2>2
<1> QED BY <1>1, <1>2, <1>4, <1>5, <1>10, <1>11, BackwardBegins
-----------------------------------------------------------------------------
(* Backward, pulling                                                       *)

\* Who asks a neighbour on its rank and finds one with its label, or is told of
\* one elsewhere, is decided, and wakes who may be asked in turn.
LEMMA PullDecide ==
  ASSUME EitherInv, search = "pull", phase = "backward", search' = search,
         NEW S \in SUBSET Vertices, BackwardInv(S),
         NEW D \in SUBSET is_undecided,
         \A v \in D : \E y \in S \ is_undecided : <<v, y>> \in edges /\ label[v] = label[y],
         NEW drained \in SUBSET in_active, \A x \in drained : D \subseteq {x},
         DecideAndWake(D, drained), has_changed' = has_changed \cup D,
         UNCHANGED <<input, map, phase, label, send_buffer, cache>>,
         recv_buffer' \subseteq recv_buffer,
         \A m \in recv_buffer \ recv_buffer' :
           m[2] \in is_undecided /\ label[m[2]] = m[3] => m[2] \in D,
         \A x \in drained \cap is_undecided : x \notin D =>
           \A y \in S \ is_undecided :
             <<x, y>> \in edges /\ Rank(x) = Rank(y) => label[x] # label[y]
  PROVE  EitherInv'
<1>1. PICK T : T = UNION {SameRank(Pred(edges, u), u) \cap (is_undecided \ D) : u \in D}
  OBVIOUS
<1>2. DecideAll(D) /\ Wake(T, drained)
  BY <1>1 DEF DecideAndWake
<1>3. EitherTypeOK /\ DecidedOnce
  BY DEF EitherInv
<1>4. /\ is_undecided \in SUBSET Vertices /\ map \in Maps
      /\ scc_id \in [Vertices -> Vertices \cup {Undecided}]
      /\ local_decided \in [Ranks -> Nat]
      /\ edges \in SUBSET (Vertices \X Vertices)
      /\ has_changed \in SUBSET Vertices
      /\ recv_buffer \in SUBSET (Vertices \X Vertices \X Nat)
      /\ send_buffer \in SUBSET (Vertices \X Vertices \X Nat)
  BY <1>3, SharedTypes
<1>5. ASSUME NEW v \in D
      PROVE  /\ unmap(label[v]) \in SCC(edges, v) /\ label[v] = map[unmap(label[v])]
             /\ unmap(label[v]) \in Vertices
  <2>1. PICK y \in S \ is_undecided : <<v, y>> \in edges /\ label[v] = label[y]
    OBVIOUS
  <2>2. v \in is_undecided
    OBVIOUS
  <2>3. unmap(label[v]) \in SCC(edges, v) /\ label[v] = map[unmap(label[v])]
    BY <1>3, <2>1, <2>2, PeerOfDecided
  <2> QED BY <2>3 DEF SCC, Reach
<1>6. /\ DecidedOnce'
      /\ is_undecided' \in SUBSET Vertices
      /\ scc_id' \in [Vertices -> Vertices \cup {Undecided}]
      /\ local_decided' \in [Ranks -> Nat]
  BY <1>2, <1>3, <1>4, <1>5, DecideKeepsRecords
<1>7. /\ in_active' = (in_active \cup T) \ drained
      /\ active' \in [Vertices -> {0, 1}]
      /\ in_active' = {v \in Vertices : active'[v] = 1}
  <2>1. T \in SUBSET Vertices
    BY <1>1, <1>4
  <2> QED BY <1>2, <1>3, <2>1, WakeKeepsStacks
<1>8. EitherTypeOK'
  <2>1. /\ has_changed' \in SUBSET Vertices
        /\ recv_buffer' \in SUBSET (Vertices \X Vertices \X Nat)
        /\ send_buffer' \in SUBSET (Vertices \X Vertices \X Nat)
        /\ label' \in [Vertices -> Nat \cup {Undecided}]
        /\ phase' \in {"call", "forward", "backward", "done"}
    BY <1>3, <1>4 DEF EitherTypeOK, PullTypeOK
  <2>2. /\ DOMAIN cache' = Ranks
        /\ \A r \in Ranks : \A v \in DOMAIN cache'[r] :
             v \in Vertices \ Local(r) /\ cache'[r][v] \in Nat
    BY <1>3, SharedTypes
  <2> QED BY <1>3, <1>6, <1>7, <2>1, <2>2, PullTypes
<1>9. /\ is_undecided' = is_undecided \ D
      /\ \A v \in Vertices : scc_id'[v] = IF v \in D THEN unmap(label[v]) ELSE scc_id[v]
  BY <1>2 DEF DecideAll
<1>10. /\ is_undecided \subseteq S /\ has_changed \subseteq S \ is_undecided
       /\ \A m \in send_buffer \cup recv_buffer :
            /\ m[1] \in S \ is_undecided /\ <<m[2], m[1]>> \in edges /\ Rank(m[1]) # Rank(m[2])
            /\ m[3] = label[m[1]]
       /\ \A x \in is_undecided : \A y \in S \ is_undecided :
            <<x, y>> \in edges /\ label[x] = label[y] =>
              \/ IF Rank(x) # Rank(y) THEN y \in has_changed ELSE x \in in_active
              \/ \E m \in send_buffer \cup recv_buffer : m[2] = x /\ m[3] = label[x]
  BY DEF BackwardInv, WillAsk, Messages
<1>11. ASSUME NEW x \in is_undecided', NEW y \in S \ is_undecided', <<x, y>> \in edges,
              label[x] = label[y]
       PROVE  \/ IF Rank(x) # Rank(y) THEN y \in has_changed' ELSE x \in in_active'
              \/ \E m \in send_buffer' \cup recv_buffer' : m[2] = x /\ m[3] = label[x]
  <2>1. x \in is_undecided /\ x \notin D /\ x \in Vertices
    BY <1>4, <1>9
  <2>2. CASE y \in D /\ Rank(x) # Rank(y)
    BY <2>2
  <2>3. CASE y \in D /\ Rank(x) = Rank(y)
    <3>1. x \in SameRank(Pred(edges, y), y) \cap (is_undecided \ D)
      BY <1>11, <2>1, <2>3 DEF SameRank, Pred
    <3>2. x \in T
      BY <1>1, <2>3, <3>1
    <3>3. x \notin drained
      BY <2>1, <2>3
    <3> QED BY <1>7, <2>3, <3>2, <3>3
  <2>4. CASE y \notin D
    <3>1. y \in S \ is_undecided
      BY <1>9, <2>4
    <3>2. CASE Rank(x) # Rank(y) /\ y \in has_changed
      BY <3>2
    <3>3. CASE Rank(x) = Rank(y) /\ x \in in_active
      BY <1>7, <1>11, <2>1, <3>1, <3>3
    <3>4. ASSUME NEW m \in send_buffer \cup recv_buffer, m[2] = x, m[3] = label[x]
          PROVE  m \in send_buffer' \cup recv_buffer'
      BY <2>1, <3>4
    <3> QED BY <1>10, <1>11, <2>1, <3>1, <3>2, <3>3, <3>4
  <2> QED BY <2>2, <2>3, <2>4
<1>12. BackwardInv(S)'
  <2>1. is_undecided' \subseteq is_undecided /\ has_changed' \subseteq S \ is_undecided'
    BY <1>9, <1>10
  <2>2. \A v \in Vertices : \/ scc_id'[v] = scc_id[v] /\ (v \in is_undecided => v \in is_undecided')
                            \/ /\ v \in is_undecided \ is_undecided'
                               /\ label[v] = map[scc_id'[v]] /\ scc_id'[v] \in SCC(edges, v)
    BY <1>5, <1>9
  <2>3. \A m \in send_buffer' \cup recv_buffer' :
          /\ m[1] \in S \ is_undecided' /\ <<m[2], m[1]>> \in edges /\ Rank(m[1]) # Rank(m[2])
          /\ m[3] = label[m[1]]
    BY <1>9, <1>10
  <2>4. \A x \in is_undecided' : \A y \in S \ is_undecided' :
          <<x, y>> \in edges /\ label[x] = label[y] =>
            \/ IF Rank(x) # Rank(y) THEN y \in has_changed'
               ELSE IF search = "pull" THEN x \in in_active' ELSE y \in in_active'
            \/ \E m \in send_buffer' \cup recv_buffer' : m[2] = x /\ m[3] = label[x]
    BY <1>11
  <2> QED BY <2>1, <2>2, <2>3, <2>4, BackwardKept
<1> QED BY <1>6, <1>8, <1>12, BackwardRound

\* A vertex on the stack looks for a decided successor with its label.
LEMMA PullBwDrainStep ==
  ASSUME EitherInv, search = "pull", NEW u \in Vertices, PullBwDrain(u), UNCHANGED search
  PROVE  EitherInv'
<1>1. PICK reached, D, d :
        /\ reached = (\E v \in SameRank(Succ(edges, u), u) \ is_undecided : label[v] = label[u])
        /\ D = (IF reached THEN {u} ELSE {}) /\ d = {u}
  OBVIOUS
<1>2. /\ phase = "backward" /\ active[u] > 0 /\ u \in is_undecided
      /\ DecideAndWake(D, d) /\ has_changed' = has_changed \cup D
      /\ UNCHANGED <<input, map, phase, label, send_buffer, recv_buffer, cache>>
  BY <1>1 DEF PullBwDrain, MayDrain
<1>3. PICK S \in SUBSET Vertices : BackwardInv(S)
  BY <1>2 DEF EitherInv
<1>4. /\ EitherTypeOK /\ edges \in SUBSET (Vertices \X Vertices)
      /\ \A v \in is_undecided : label[v] \in Nat /\ Reaching(S, label[v], v)
      /\ \A v \in Vertices \ S : label[v] = Undecided
      /\ map \in Maps /\ S \in SUBSET Vertices
  BY <1>3, SharedTypes DEF EitherInv, BackwardInv
\* What was decided in an earlier round has no label.
<1>5. ASSUME NEW v \in Vertices \ is_undecided, label[v] = label[u]
      PROVE  v \in S
  <2>1. PICK w \in S : label[u] = map[w]
    BY <1>2, <1>4 DEF Reaching
  <2>2. label[u] # Undecided
    BY <1>4, <2>1, MapsAssumption
  <2> QED BY <1>4, <1>5, <2>2
<1>6. \A v \in D : \E y \in S \ is_undecided : <<v, y>> \in edges /\ label[v] = label[y]
  <2> SUFFICES ASSUME reached
               PROVE  \E y \in S \ is_undecided : <<u, y>> \in edges /\ label[u] = label[y]
    BY <1>1
  <2>1. PICK y \in SameRank(Succ(edges, u), u) \ is_undecided : label[y] = label[u]
    BY <1>1
  <2>2. y \in Vertices /\ <<u, y>> \in edges
    BY <2>1 DEF SameRank, Succ
  <2> QED BY <1>5, <2>1, <2>2
<1>7. \A x \in d \cap is_undecided : x \notin D =>
        \A y \in S \ is_undecided : <<x, y>> \in edges /\ Rank(x) = Rank(y) => label[x] # label[y]
  <2> SUFFICES ASSUME ~ reached, NEW y \in S \ is_undecided, <<u, y>> \in edges,
                      Rank(u) = Rank(y), label[u] = label[y]
               PROVE  FALSE
    BY <1>1
  <2>1. y \in SameRank(Succ(edges, u), u) \ is_undecided
    BY <1>4 DEF SameRank, Succ
  <2> QED BY <1>1, <2>1
<1>8. /\ D \in SUBSET is_undecided /\ d \in SUBSET in_active
      /\ \A x \in d : D \subseteq {x}
      /\ recv_buffer' \subseteq recv_buffer
      /\ \A m \in recv_buffer \ recv_buffer' :
           m[2] \in is_undecided /\ label[m[2]] = m[3] => m[2] \in D
  BY <1>1, <1>2, <1>4, SharedTypes
<1> QED BY <1>2, <1>3, <1>6, <1>7, <1>8, PullDecide

\* A rank is told that a neighbour elsewhere was decided.
LEMMA PullBwReceiveStep ==
  ASSUME EitherInv, search = "pull", NEW m \in recv_buffer, PullBwReceive(m), UNCHANGED search
  PROVE  EitherInv'
<1>1. PICK D, d : D = SameLabel({m[2]}, m[3]) /\ d = {}
  OBVIOUS
<1>2. /\ phase = "backward"
      /\ DecideAndWake(D, d) /\ has_changed' = has_changed \cup D
      /\ recv_buffer' = recv_buffer \ {m}
      /\ UNCHANGED <<input, map, phase, label, send_buffer, cache>>
  BY <1>1 DEF PullBwReceive
<1>3. PICK S \in SUBSET Vertices : BackwardInv(S)
  BY <1>2 DEF EitherInv
<1>4. m[1] \in S \ is_undecided /\ <<m[2], m[1]>> \in edges /\ m[3] = label[m[1]]
  BY <1>3 DEF BackwardInv, Messages
<1>5. /\ D \in SUBSET is_undecided
      /\ \A v \in D : v = m[2] /\ label[v] = m[3]
      /\ m[2] \in is_undecided /\ label[m[2]] = m[3] => m[2] \in D
  BY <1>1 DEF SameLabel
<1>6. \A v \in D : \E y \in S \ is_undecided : <<v, y>> \in edges /\ label[v] = label[y]
  BY <1>4, <1>5
<1>7. /\ d \in SUBSET in_active
      /\ \A x \in d : D \subseteq {x}
      /\ recv_buffer' \subseteq recv_buffer
      /\ \A k \in recv_buffer \ recv_buffer' :
           k[2] \in is_undecided /\ label[k[2]] = k[3] => k[2] \in D
      /\ \A x \in d \cap is_undecided : x \notin D =>
           \A y \in S \ is_undecided : <<x, y>> \in edges /\ Rank(x) = Rank(y) =>
             label[x] # label[y]
  BY <1>1, <1>2, <1>5
<1> QED BY <1>2, <1>3, <1>5, <1>6, <1>7, PullDecide
-----------------------------------------------------------------------------
(* The theorems                                                            *)

\* Every step of each of the searches keeps the invariant.
LEMMA RoundNext ==
  ASSUME EitherInv, [EitherNext]_searchVars
  PROVE  EitherInv'
<1>1. search \in {"plain", "push", "pull"}
  BY DEF EitherInv, EitherTypeOK
<1>2. CASE search # "pull"
  BY <1>1, <1>2, PushedNext
<1>3. CASE search = "pull" /\ PullNext /\ UNCHANGED search
  <2>1. CASE PullBegin
    BY <1>3, <2>1, PullBeginStep
  <2>2. ASSUME NEW u \in Vertices, Skip(u)
        PROVE  EitherInv'
    BY <1>3, <2>2, SkipStep
  <2>3. ASSUME NEW u \in Vertices, PullFwDrain(u)
        PROVE  EitherInv'
    BY <1>3, <2>3, PullFwDrainStep
  <2>4. ASSUME NEW u \in Vertices, PullBwDrain(u)
        PROVE  EitherInv'
    BY <1>3, <2>4, PullBwDrainStep
  <2>5. ASSUME NEW u \in Vertices, CacheFwPush(u)
        PROVE  EitherInv'
    BY <1>3, <2>5, PullFwPushStep
  <2>6. ASSUME NEW u \in Vertices, CacheBwPush(u)
        PROVE  EitherInv'
    BY <1>3, <2>6, CacheBwPushStep
  <2>7. ASSUME NEW m \in recv_buffer, PullFwReceive(m)
        PROVE  EitherInv'
    BY <1>3, <2>7, PullFwReceiveStep
  <2>8. ASSUME NEW m \in recv_buffer, PullBwReceive(m)
        PROVE  EitherInv'
    BY <1>3, <2>8, PullBwReceiveStep
  <2>9. CASE PullFwEnd
    BY <1>3, <2>9, PullFwEndStep
  <2>10. CASE CacheBwEnd
    BY <1>3, <2>10, BwEndStep DEF CacheBwEnd
  <2>11. CASE Exchange /\ UNCHANGED cache
    BY <1>3, <2>11, ExchangeStep
  <2>12. CASE Returned /\ UNCHANGED cache
    BY <1>3, <2>12, RoundStutter DEF Returned, searchVars, cacheVars
  <2> QED BY <1>3, <2>1, <2>2, <2>3, <2>4, <2>5, <2>6, <2>7, <2>8, <2>9, <2>10, <2>11, <2>12
          DEF PullNext
<1>4. CASE UNCHANGED searchVars
  BY <1>4, RoundStutter
<1> QED BY <1>1, <1>2, <1>3, <1>4 DEF EitherNext

\* Whatever the graph, its partition, the relabellings and the order of messages:
\* stacks, counters, labels and caches of all three searches keep to EitherInv
\* (multi_pivot_search.hpp, cache_multi_pivot_search.hpp and
\* cache_multi_pivot_search_pull.hpp).
THEOREM RoundInvariant == EitherSpec => []EitherInv
<1>1. EitherInit => EitherInv
  BY RoundInit
<1>2. EitherInv /\ [EitherNext]_searchVars => EitherInv'
  BY RoundNext
<1> QED BY <1>1, <1>2, PTL DEF EitherSpec

\* What all searches have when comm ends the forward search: settled labels of
\* undecided vertices, and exact caches.
LEMMA Settled ==
  ASSUME EitherInv, PhaseOver("forward")
  PROVE  /\ is_undecided \in SUBSET Vertices /\ is_undecided # {}
         /\ \A v \in is_undecided :
              label[v] \in Nat /\ label[v] <= map[v] /\ Reaching(is_undecided, label[v], v)
         /\ \A e \in UndecidedEdges : label[e[2]] <= label[e[1]]
         /\ search # "plain" => \A e \in UndecidedEdges :
              Rank(e[1]) # Rank(e[2]) /\ label[e[1]] = label[e[2]]
                => Noted(Rank(e[2]), e[1]) /\ cache[Rank(e[2])][e[1]] = label[e[1]]
<1>1. /\ phase = "forward" /\ AllAtComm /\ send_buffer = {} /\ EitherTypeOK
      /\ is_undecided \in SUBSET Vertices /\ is_undecided # {}
  BY SharedTypes DEF PhaseOver, EitherInv
<1>2. CASE search = "pull"
  <2>1. PullForwardInv
    BY <1>1, <1>2 DEF EitherInv
  <2> QED BY <1>1, <1>2, <2>1, PullSettled DEF PullForwardInv
<1>3. CASE search # "pull"
  <2>1. /\ ForwardInv /\ NobodyAhead /\ (search = "push" => PeersWillBeNoted)
        /\ search \in {"plain", "push"}
        /\ label \in [Vertices -> Nat]
    BY <1>1, <1>3 DEF EitherInv, EitherTypeOK, CacheTypeOK, TypeOK
  <2>2. \A e \in UndecidedEdges : label[e[2]] <= label[e[1]]
    BY <1>1, <2>1, ForwardSettled
  <2>3. search # "plain" => \A e \in UndecidedEdges :
          Rank(e[1]) # Rank(e[2]) /\ label[e[1]] = label[e[2]]
            => Noted(Rank(e[2]), e[1]) /\ cache[Rank(e[2])][e[1]] = label[e[1]]
    BY <1>1, <2>1, PeersExact
  <2>4. \A v \in is_undecided :
          label[v] \in Nat /\ label[v] <= map[v] /\ Reaching(is_undecided, label[v], v)
    BY <1>1, <2>1, GenuineIsReaching DEF ForwardInv
  <2> QED BY <1>1, <2>2, <2>3, <2>4
<1> QED BY <1>2, <1>3

\* No label change gets lost: whatever is pushed or pulled, by the time the ranks
\* agree to stop no label can still go down, and each comes from a vertex that
\* reaches this one (comm after label_search, cache_label_search and
\* cache_label_search_pull).
THEOREM LabelsAlwaysSettle == EitherSpec => []LabelsSettle
<1>1. EitherInv => LabelsSettle
  BY Settled DEF LabelsSettle, Reaching
<1> QED BY <1>1, RoundInvariant, PTL

\* When the backward search starts, asking the cache for a label cuts no
\* component (cache.get_default in both searches with a cache).
THEOREM PeersAlwaysNoted == EitherSpec => []CachedPeersNoted
<1>1. EitherInv => CachedPeersNoted
  <2> SUFFICES ASSUME EitherInv, search # "plain", PhaseOver("forward")
               PROVE  \A e \in UndecidedEdges :
                        Rank(e[1]) # Rank(e[2]) /\ label[e[1]] = label[e[2]]
                          => Noted(Rank(e[2]), e[1]) /\ cache[Rank(e[2])][e[1]] = label[e[1]]
    BY DEF CachedPeersNoted, PeersNoted
  <2> QED BY Settled
<1> QED BY <1>1, RoundInvariant, PTL

\* A round finds a root, and ends with whole components decided: the next round,
\* or a trim between the rounds, finds no half of one.
THEOREM RoundsAlwaysDecide == EitherSpec => []RoundsDecideComponents
<1>1. ASSUME EitherInv PROVE RoundsDecideComponents
  <2>1. phase \in {"call", "done"} =>
          \A v \in Vertices \ is_undecided : SCC(edges, v) \cap is_undecided = {}
    BY <1>1 DEF EitherInv, EarlierRounds
  <2>2. ASSUME PhaseOver("forward")
        PROVE  \E v \in is_undecided : label[v] = map[v]
    <3>1. /\ is_undecided \in SUBSET Vertices /\ is_undecided # {}
          /\ \A v \in is_undecided :
               label[v] \in Nat /\ label[v] <= map[v] /\ Reaching(is_undecided, label[v], v)
      BY <1>1, <2>2, Settled
    <3>2. map \in [Vertices -> Nat]
      BY <1>1, SharedTypes DEF EitherInv
    <3>3. PICK v \in is_undecided : \A y \in is_undecided : map[v] <= map[y]
      BY <3>1, <3>2, LeastVertex
    <3>4. PICK u \in is_undecided : label[v] = map[u]
      BY <3>1 DEF Reaching
    <3>5. map[v] <= label[v] /\ label[v] <= map[v] /\ map[v] \in Nat /\ label[v] \in Nat
      BY <3>1, <3>2, <3>3, <3>4
    <3> QED BY <3>5
  <2> QED BY <2>1, <2>2 DEF RoundsDecideComponents
<1> QED BY <1>1, RoundInvariant, PTL

\* The smallest label that reaches a vertex over undecided vertices is the one
\* it has when the forward search stops.
LEMMA MinimalWhenSettled ==
  ASSUME EitherInv, search # "pull"
  PROVE  LabelsAreMinimal
<1> SUFFICES ASSUME PhaseOver("forward"), NEW v \in is_undecided
             PROVE  label[v] = Min({map[u] : u \in {x \in is_undecided :
                                                     v \in Reach(UndecidedEdges, x)}})
  BY DEF LabelsAreMinimal
<1>1. /\ phase = "forward" /\ AllAtComm /\ send_buffer = {}
      /\ TypeOK /\ ForwardInv /\ EitherTypeOK
  BY DEF PhaseOver, EitherInv, EitherTypeOK, CacheTypeOK
<1>2. /\ is_undecided \in SUBSET Vertices /\ label \in [Vertices -> Nat]
      /\ map \in [Vertices -> Nat]
  BY <1>1, MapsAssumption DEF TypeOK
<1>3. \A e \in UndecidedEdges : label[e[2]] <= label[e[1]]
  BY <1>1, ForwardSettled
<1>4. UndecidedEdges = Within(is_undecided)
  BY DEF UndecidedEdges, Within
<1>5. PICK M : M = {map[u] : u \in {x \in is_undecided : v \in Reach(UndecidedEdges, x)}}
  OBVIOUS
<1>6. M \in SUBSET Nat
  BY <1>2, <1>5
<1>7. label[v] \in M
  <2>1. Genuine(is_undecided, label[v], v)
    BY <1>1 DEF ForwardInv
  <2> QED BY <1>4, <1>5, <2>1 DEF Genuine
<1>8. ASSUME NEW u \in is_undecided, v \in Reach(UndecidedEdges, u)
      PROVE  label[v] <= map[u]
  <2> DEFINE C == {z \in is_undecided : label[z] <= map[u]} \cup (Vertices \ is_undecided)
  <2>1. C \in SUBSET Vertices /\ u \in C /\ u \in Vertices
    BY <1>1, <1>2 DEF ForwardInv
  <2>2. IsClosed(UndecidedEdges, C)
    <3> SUFFICES ASSUME NEW x \in C, NEW y \in Vertices, <<x, y>> \in UndecidedEdges PROVE y \in C
      BY DEF IsClosed
    <3>1. x \in is_undecided /\ y \in is_undecided /\ label[x] <= map[u]
      BY DEF UndecidedEdges
    <3>2. label[y] <= label[x]
      BY <1>3
    <3>3. label[x] \in Nat /\ label[y] \in Nat /\ map[u] \in Nat
      BY <1>2, <2>1, <3>1
    <3> QED BY <3>1, <3>2, <3>3
  <2>3. v \in C
    BY <1>8, <2>1, <2>2, ReachInClosed
  <2> QED BY <2>3
<1>9. \A y \in M : label[v] <= y
  BY <1>5, <1>8
<1> QED BY <1>5, <1>6, <1>7, <1>9, MinIs

\* Pushed, labels are the smallest that can get to a vertex over undecided ones
\* (label_search, cache_label_search).
THEOREM PushedLabelsMinimal == EitherSpec => []PushedLabelsAreMinimal
<1>1. EitherInv => PushedLabelsAreMinimal
  BY MinimalWhenSettled DEF PushedLabelsAreMinimal
<1> QED BY <1>1, RoundInvariant, PTL
-----------------------------------------------------------------------------
(* The refinement                                                          *)

\* At any time, two decided vertices share an id if and only if they share a
\* component, which the id is of.
LEMMA RoundLabelling == EitherInv => IsLabelling(edges, scc_id, Undecided)
<1> SUFFICES ASSUME EitherInv, NEW u \in Vertices, scc_id[u] # Undecided
             PROVE  /\ scc_id[u] \in SCC(edges, u)
                    /\ \A v \in SCC(edges, u) : scc_id[v] # Undecided => scc_id[v] = scc_id[u]
  BY DEF IsLabelling
<1>1. EitherTypeOK /\ DecidedOnce
  BY DEF EitherInv
<1>2. u \notin is_undecided
  BY <1>1 DEF DecidedOnce
<1>3. ASSUME NEW S, EarlierRounds(S), u \notin S
      PROVE  /\ scc_id[u] \in SCC(edges, u)
             /\ \A v \in SCC(edges, u) : scc_id[v] = scc_id[u]
  BY <1>3 DEF EarlierRounds
<1>4. CASE phase # "backward"
  <2>1. phase \in {"call", "forward", "done"}
    BY <1>1, <1>4, SharedTypes
  <2>2. EarlierRounds(is_undecided)
    BY <2>1 DEF EitherInv, ForwardInv, PullForwardInv
  <2> QED BY <1>2, <1>3, <2>2
<1>5. ASSUME NEW S \in SUBSET Vertices, BackwardInv(S)
      PROVE  /\ scc_id[u] \in SCC(edges, u)
             /\ \A v \in SCC(edges, u) : scc_id[v] # Undecided => scc_id[v] = scc_id[u]
  <2>1. CASE u \notin S
    <3>1. EarlierRounds(S)
      BY <1>5 DEF BackwardInv
    <3> QED BY <1>3, <2>1, <3>1
  <2>2. ASSUME u \in S, NEW v \in SCC(edges, u), scc_id[v] # Undecided
        PROVE  scc_id[v] = scc_id[u]
    <3>1. /\ v \in Vertices /\ u \in SCC(edges, v) /\ SCC(edges, v) = SCC(edges, u)
      BY SccClass
    <3>2. /\ EarlierRounds(S) /\ \A e \in Within(S) : label[e[2]] <= label[e[1]]
      BY <1>5 DEF BackwardInv
    <3>3. SCC(edges, u) \subseteq S
      <4> SUFFICES ASSUME NEW w \in SCC(edges, u), w \notin S PROVE FALSE
        OBVIOUS
      <4>1. w \in Vertices /\ u \in SCC(edges, w)
        BY SccClass
      <4> QED BY <2>2, <3>2, <4>1 DEF EarlierRounds
    <3>4. v \in S /\ v \notin is_undecided
      BY <1>1, <2>2, <3>1, <3>3 DEF DecidedOnce
    <3>5. /\ input \in Inputs /\ map \in Maps /\ \A x \in S : label[x] \in Nat
      BY <1>1, <1>5, SharedTypes DEF BackwardInv
    <3>6. label[v] <= label[u]
      BY <2>2, <3>2, <3>3, <3>5, PeersShareLabels
    <3>7. label[u] <= label[v]
      BY <3>1, <3>2, <3>3, <3>4, <3>5, PeersShareLabels
    <3>8. label[u] = label[v]
      BY <2>2, <3>4, <3>5, <3>6, <3>7
    <3>9. /\ label[u] = map[scc_id[u]] /\ scc_id[u] \in SCC(edges, u)
          /\ label[v] = map[scc_id[v]] /\ scc_id[v] \in SCC(edges, v)
      BY <1>2, <1>5, <2>2, <3>4 DEF BackwardInv
    <3>10. scc_id[u] \in Vertices /\ scc_id[v] \in Vertices
      BY <3>9 DEF SCC, Reach
    <3> QED BY <3>5, <3>8, <3>9, <3>10, MapFacts
  <2>3. CASE u \in S
    <3>1. scc_id[u] \in SCC(edges, u)
      BY <1>2, <1>5, <2>3 DEF BackwardInv
    <3> QED BY <2>2, <2>3, <3>1
  <2> QED BY <2>1, <2>3
<1> QED BY <1>4, <1>5 DEF EitherInv

\* What is decided is not decided again, and the graph stays.
LEMMA IdsStay ==
  ASSUME EitherInv, [EitherNext]_searchVars
  PROVE  /\ edges' = edges
         /\ \A v \in Vertices : scc_id[v] # Undecided => scc_id'[v] = scc_id[v]
<1>1. \A D : D \subseteq is_undecided /\ DecideAll(D) =>
        \A v \in Vertices : scc_id[v] # Undecided => scc_id'[v] = scc_id[v]
  BY DEF DecideAll, EitherInv, DecidedOnce
<1>2. \/ UNCHANGED <<input, scc_id>>
      \/ UNCHANGED input /\ \E D : D \subseteq is_undecided /\ DecideAll(D)
  <2>1. \A T, l, d : BwHandle(T, l, d) =>
          UNCHANGED input /\ \E D : D \subseteq is_undecided /\ DecideAll(D)
    BY DEF BwHandle, SameLabel
  <2>2. FwEnd \/ PullFwEnd => UNCHANGED input /\ \E D : D \subseteq is_undecided /\ DecideAll(D)
    <3>1. {v \in is_undecided : label[v] = map[v]} \subseteq is_undecided
      OBVIOUS
    <3> QED BY <3>1 DEF FwEnd, PullFwEnd, DecideAndWake
  <2>3. CASE search = "plain" /\ Next
    BY <2>1, <2>2, <2>3 DEF Next, Begin, FwDrain, FwReceive, FwHandle, FwPush, PushChanged,
         Exchange, BwDrain, BwReceive, BwPush, BwEnd, Returned, vars
  <2>4. CASE search = "push" /\ CacheNext
    BY <2>1, <2>2, <2>4 DEF CacheNext, Begin, FwDrain, CacheFwReceive, FwReceive, FwHandle,
         CacheFwPush, PushTo, Exchange, BwDrain, BwReceive, CacheBwPush, CacheBwEnd, BwEnd,
         Returned, vars
  <2>5. CASE search = "pull" /\ PullNext
    <3>1. ASSUME NEW u \in Vertices, PullBwDrain(u)
          PROVE  UNCHANGED input /\ \E D : D \subseteq is_undecided /\ DecideAll(D)
      <4>1. PICK D : D \subseteq is_undecided /\ DecideAll(D)
        BY <3>1 DEF PullBwDrain, DecideAndWake
      <4> QED BY <3>1, <4>1 DEF PullBwDrain
    <3>2. ASSUME NEW m \in recv_buffer, PullBwReceive(m)
          PROVE  UNCHANGED input /\ \E D : D \subseteq is_undecided /\ DecideAll(D)
      <4>1. SameLabel({m[2]}, m[3]) \subseteq is_undecided
        BY DEF SameLabel
      <4> QED BY <3>2, <4>1 DEF PullBwReceive, DecideAndWake
    <3> QED BY <2>2, <2>5, <3>1, <3>2 DEF PullNext, PullBegin, Skip, PullFwDrain, CacheFwPush,
          CacheBwPush, PushTo, PullFwReceive, CacheBwEnd, BwEnd, Exchange, Returned, vars
  <2>6. CASE UNCHANGED searchVars
    BY <2>6 DEF searchVars, cacheVars, vars
  <2> QED BY <2>3, <2>4, <2>5, <2>6 DEF EitherNext
<1> QED BY <1>1, <1>2 DEF edges

\* The labelling of the abstract specification is the one of the proofs.
LEMMA CanonicalIsLabelling ==
  \A E : Labelling!Canonical(E, scc_id) <=> IsLabelling(E, scc_id, Undecided)
<1>1. \A E : \A u \in Vertices : Labelling!SCC(E, u) = SCC(E, u)
  BY DEF Labelling!SCC, Labelling!Reach, Labelling!IsClosed, SCC, Reach, IsClosed
<1>2. \A E : \A u \in Vertices : SCC(E, u) \in SUBSET Vertices
  BY DEF SCC, Reach
<1> QED BY <1>1, <1>2 DEF Labelling!Canonical, Labelling!Decided, IsLabelling

\* A step that decides vertices, of one component or of several, is a step of
\* the abstract specification.
LEMMA RoundLabellingStep ==
  ASSUME EitherInv, EitherInv', [EitherNext]_searchVars
  PROVE  [Labelling!Next]_(Labelling!labellingVars)
<1>1. edges' = edges /\ \A v \in Vertices : scc_id[v] # Undecided => scc_id'[v] = scc_id[v]
  BY IdsStay
<1>2. scc_id' \in [Vertices -> Vertices \cup {Undecided}]
  <2>1. EitherTypeOK'
    BY DEF EitherInv
  <2> QED BY <2>1 DEF EitherTypeOK, PullTypeOK, CacheTypeOK, TypeOK
<1>3. (EitherInv => IsLabelling(edges, scc_id, Undecided))'
  BY RoundLabelling, PTL
<1>4. (\A E : Labelling!Canonical(E, scc_id) <=> IsLabelling(E, scc_id, Undecided))'
  BY CanonicalIsLabelling, PTL
<1>5. Labelling!Canonical(edges, scc_id')
  BY <1>1, <1>3, <1>4 DEF IsLabelling, Labelling!Canonical, Labelling!Decided
<1> QED BY <1>1, <1>2, <1>5 DEF Labelling!Next, Labelling!Decided

\* Several searches at once label the vertices as one search per component
\* would: label_search, cache_label_search and cache_label_search_pull, repeated
\* by the drivers, implement the abstract labelling.
THEOREM RoundRefinement == EitherSpec => ImplementsLabelling
<1>1. EitherInit => Labelling!Init
  <2> SUFFICES ASSUME EitherInit PROVE Labelling!Init
    OBVIOUS
  <2>1. /\ EitherInv /\ EitherTypeOK /\ DecidedOnce /\ phase = "call"
        /\ EarlierRounds(is_undecided)
        /\ scc_id \in [Vertices -> Vertices \cup {Undecided}]
    BY RoundInit, SharedTypes DEF EitherInv, EitherInit, CacheInit, Init
  <2>2. edges \in SUBSET (Vertices \X Vertices)
    BY <2>1, SharedTypes
  <2>3. Labelling!Canonical(edges, scc_id)
    BY <2>1, RoundLabelling, CanonicalIsLabelling
  <2>4. \A v \in Vertices : scc_id[v] # Undecided =>
          \A w \in SCC(edges, v) : scc_id[w] # Undecided
    BY <2>1 DEF EarlierRounds, DecidedOnce
  <2>5. \A u \in Vertices : Labelling!SCC(edges, u) = SCC(edges, u)
                            /\ SCC(edges, u) \in SUBSET Vertices
    BY DEF Labelling!SCC, Labelling!Reach, Labelling!IsClosed, SCC, Reach, IsClosed
  <2> QED BY <2>1, <2>2, <2>3, <2>4, <2>5
          DEF Labelling!Init, Labelling!Graphs, Labelling!Whole, Labelling!Decided
<1> QED
  BY <1>1, RoundInvariant, RoundLabellingStep, PTL
     DEF EitherSpec, ImplementsLabelling, Labelling!Spec
=============================================================================
