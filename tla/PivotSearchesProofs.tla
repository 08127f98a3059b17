------------------------- MODULE PivotSearchesProofs -------------------------
(* Proofs about either search for the component of a pivot, for every      *)
(* graph, partition, pivot and number of ranks.  First PivotSearch: the    *)
(* types, the inductive invariant SearchInv, and the safety properties it  *)
(* implies.  Then CachePivotSearch, whose steps are those of PivotSearch   *)
(* but for one: draining a vertex backward, it asks only the predecessors  *)
(* it has noted.  So SearchInv is still inductive if what is not noted     *)
(* need not be asked, which is what CacheCoversReached says.               *)
EXTENDS CachePivotSearch, ReachableSetsProofs, FiniteSetTheorems
-----------------------------------------------------------------------------
(* The search without a cache                                              *)

\* What the callers' assumption says of the current input.
LEMMA InputFacts ==
  ASSUME input \in Inputs
  PROVE  /\ root \in Vertices
         /\ edges \in SUBSET (Vertices \X Vertices)
         /\ input.trimmed \in SUBSET Vertices
         /\ root \notin input.trimmed
         /\ \A v \in Vertices : Rank(v) \in Ranks
         /\ \A v \in input.trimmed : SCC(edges, v) = {v}
BY InputsAssumption DEF root, edges, Rank, Graphs

\* The stacks after pushing the vertices of S.
LEMMA PushAt ==
  ASSUME TypeOK, NEW S
  PROVE  /\ Push(S) \in [Vertices -> Nat]
         /\ \A v \in Vertices : Push(S)[v] = active[v] + (IF v \in S THEN 1 ELSE 0)
BY DEF TypeOK, Push

\* The stacks after popping u and pushing the vertices of S.
LEMMA PopPushAt ==
  ASSUME TypeOK, NEW S, NEW u \in Vertices, NEW v \in Vertices
  PROVE  /\ PopPush(u, S)[v] = active[v] + (IF v \in S THEN 1 ELSE 0)
                                         - (IF v = u THEN 1 ELSE 0)
         /\ active[u] > 0 => PopPush(u, S) \in [Vertices -> Nat]
BY DEF TypeOK, Push, PopPush

\* A rank's vertices are finitely many, so its counters are numbers.
LEMMA LocalFinite ==
  ASSUME NEW r, NEW S
  PROVE  /\ IsFiniteSet(Local(r) \cap S)
         /\ Cardinality(Local(r) \cap S) \in Nat
<1>1. IsFiniteSet(Local(r))
  BY VerticesAssumption, FS_Subset DEF Local
<1> QED BY <1>1, FS_Intersection, FS_CardinalityType

\* Deciding a set of vertices keeps the types of the state it writes:
\* the loops that set scc_id, clear is_undecided and count local_decided.
LEMMA DecideAllType ==
  ASSUME TypeOK, NEW D \in SUBSET Vertices, DecideAll(D)
  PROVE  /\ is_reached' \in SUBSET Vertices
         /\ is_undecided' \in SUBSET Vertices
         /\ scc_id' \in [Vertices -> Vertices \cup {Undecided}]
         /\ local_decided' \in [Ranks -> Nat]
<1>1. root \in Vertices
  BY InputFacts DEF TypeOK
<1>2. \A r \in Ranks : Cardinality(Local(r) \cap D) \in Nat
  BY LocalFinite
<1>3. local_decided' \in [Ranks -> Nat]
  BY <1>2 DEF TypeOK, DecideAll
<1>4. scc_id' \in [Vertices -> Vertices \cup {Undecided}]
  BY <1>1 DEF TypeOK, DecideAll
<1> QED BY <1>3, <1>4 DEF TypeOK, DecideAll
-----------------------------------------------------------------------------
(* Type correctness                                                        *)

\* The state in which a search is called has the right types.
LEMMA TypeInit == Init => TypeOK
<1> SUFFICES ASSUME Init PROVE TypeOK
  OBVIOUS
<1>1. root \in Vertices /\ input.trimmed \in SUBSET Vertices
  BY InputFacts DEF Init
<1>2. \A r \in Ranks : Cardinality(Local(r) \cap input.trimmed) \in Nat
  BY LocalFinite
<1> QED BY <1>1, <1>2 DEF Init, TypeOK

\* Every step of the plain search keeps the types.
LEMMA TypeNext == TypeOK /\ [Next]_vars => TypeOK'
<1> SUFFICES ASSUME TypeOK, [Next]_vars PROVE TypeOK'
  OBVIOUS
<1>i. root \in Vertices
  BY InputFacts DEF TypeOK
<1>1. ASSUME NEW u \in Vertices, FwDrain(u) PROVE TypeOK'
  <2>1. active[u] > 0
    BY <1>1 DEF FwDrain, MayDrain
  <2>2. \A S : PopPush(u, S) \in [Vertices -> Nat]
    BY <2>1, PopPushAt
  <2> QED BY <1>1, <2>2 DEF FwDrain, TypeOK, FwFresh, Succ
<1>2. ASSUME NEW u \in Vertices, BwDrain(u) PROVE TypeOK'
  <2>1. active[u] > 0
    BY <1>2 DEF BwDrain, MayDrain
  <2>2. \A S : PopPush(u, S) \in [Vertices -> Nat]
    BY <2>1, PopPushAt
  <2> DEFINE D == BwFresh({v \in Pred(edges, u) : Rank(v) = Rank(u)})
  <2>3. D \in SUBSET Vertices /\ DecideAll(D)
    BY <1>2 DEF BwDrain, BwFresh, TypeOK
  <2> HIDE DEF D
  <2>4. /\ is_reached' \in SUBSET Vertices
        /\ is_undecided' \in SUBSET Vertices
        /\ scc_id' \in [Vertices -> Vertices \cup {Undecided}]
        /\ local_decided' \in [Ranks -> Nat]
    BY <2>3, DecideAllType
  <2> QED BY <1>2, <2>2, <2>4 DEF BwDrain, TypeOK, Pred
<1>3. ASSUME NEW m \in recv_buffer, FwReceive(m) PROVE TypeOK'
  <2>1. \A S : Push(S) \in [Vertices -> Nat]
    BY PushAt
  <2> QED BY <1>3, <2>1 DEF FwReceive, TypeOK, FwFresh
<1>4. ASSUME NEW m \in recv_buffer, BwReceive(m) PROVE TypeOK'
  <2>1. \A S : Push(S) \in [Vertices -> Nat]
    BY PushAt
  <2>2. /\ BwFresh({m[2]}) \in SUBSET Vertices
        /\ DecideAll(BwFresh({m[2]}))
    BY <1>4 DEF BwReceive, BwFresh, TypeOK
  <2>3. /\ is_reached' \in SUBSET Vertices
        /\ is_undecided' \in SUBSET Vertices
        /\ scc_id' \in [Vertices -> Vertices \cup {Undecided}]
        /\ local_decided' \in [Ranks -> Nat]
    BY <2>2, DecideAllType
  <2> QED BY <1>4, <2>1, <2>3 DEF BwReceive, TypeOK
<1>5. CASE Exchange
  BY <1>5 DEF Exchange, TypeOK
<1>6. CASE FwEnd
  <2>1. Push({root}) \in [Vertices -> Nat]
    BY PushAt
  <2>2. DecideAll({root})
    BY <1>6 DEF FwEnd
  <2>3. /\ is_reached' \in SUBSET Vertices
        /\ is_undecided' \in SUBSET Vertices
        /\ scc_id' \in [Vertices -> Vertices \cup {Undecided}]
        /\ local_decided' \in [Ranks -> Nat]
    BY <1>i, <2>2, DecideAllType
  <2> QED BY <1>6, <2>1, <2>3 DEF FwEnd, TypeOK
<1>7. CASE BwEnd
  BY <1>7 DEF BwEnd, TypeOK
<1>8. CASE UNCHANGED vars
  BY <1>8 DEF vars, TypeOK
<1> QED
  BY <1>1, <1>2, <1>3, <1>4, <1>5, <1>6, <1>7, <1>8 DEF Next, Returned

\* Every reachable state of the search has the types the code declares.
THEOREM TypeCorrect == Spec => []TypeOK
BY TypeInit, TypeNext, PTL DEF Spec
-----------------------------------------------------------------------------
(* The inductive invariant                                                 *)

\* Deciding reached vertices keeps the three records of what is decided
\* (the bits, the ids and the counters) together.
LEMMA DecideAllKeepsRecords ==
  ASSUME TypeOK, ReachedProtectsUndecided, NEW D \in SUBSET is_reached,
         DecideAll(D), input' = input
  PROVE  ReachedProtectsUndecided'
<1>1. root \in Vertices /\ root # Undecided
  BY InputFacts, UndecidedAssumption DEF TypeOK
<1>2. \A v \in Vertices : scc_id'[v] # Undecided <=> v \in D \/ scc_id[v] # Undecided
  BY <1>1 DEF DecideAll, TypeOK
<1>3. \A v \in D : scc_id[v] = Undecided /\ v \in Vertices
  BY DEF ReachedProtectsUndecided, TypeOK
<1>4. ASSUME NEW r \in Ranks
      PROVE  local_decided'[r] = Cardinality({v \in Local(r) : scc_id'[v] # Undecided})
  <2> DEFINE Old == Local(r) \cap {v \in Vertices : scc_id[v] # Undecided}
             New == Local(r) \cap D
  <2>1. {v \in Local(r) : scc_id[v] # Undecided} = Old
    BY DEF Local
  <2>2. {v \in Local(r) : scc_id'[v] # Undecided} = Old \cup New
    <3>1. \A v \in Local(r) : v \in Vertices
      BY DEF Local
    <3>2. \A v \in Local(r) : scc_id'[v] # Undecided <=> v \in Old \cup New
      BY <1>2, <3>1
    <3>3. Old \cup New \subseteq Local(r)
      OBVIOUS
    <3> HIDE DEF Old, New
    <3> QED BY <3>2, <3>3
  <2>3. Old \cap New = {}
    BY <1>3
  <2>4. IsFiniteSet(Old) /\ IsFiniteSet(New)
    BY LocalFinite
  <2>5. Cardinality(Old) \in Nat /\ Cardinality(New) \in Nat
    BY LocalFinite
  <2>6. local_decided'[r] = Cardinality(Old) + Cardinality(New)
    BY <2>1 DEF DecideAll, TypeOK, ReachedProtectsUndecided
  <2> HIDE DEF Old, New
  <2>7. Cardinality(Old \cup New) = Cardinality(Old) + Cardinality(New)
    <3>1. Cardinality(Old \cup New) =
            Cardinality(Old) + Cardinality(New) - Cardinality(Old \cap New)
      BY <2>4, FS_Union
    <3>2. Cardinality(Old \cap New) = 0
      BY <2>3, FS_EmptySet, Zenon
    <3> QED BY <2>5, <3>1, <3>2
  <2> QED BY <2>2, <2>6, <2>7
<1>5. is_undecided' = {v \in Vertices : scc_id'[v] = Undecided}
  BY <1>2, <1>3 DEF DecideAll, ReachedProtectsUndecided
<1>6. is_reached' \subseteq is_undecided'
  BY DEF DecideAll, ReachedProtectsUndecided
<1>7. \A r \in Ranks : Local(r)' = Local(r)
  BY DEF Local, Rank
<1> QED BY <1>4, <1>5, <1>6, <1>7 DEF ReachedProtectsUndecided

\* The closed set that contains what the forward search reached: were a
\* vertex of the component missing, the set would exclude it.
LEMMA ForwardComplete ==
  ASSUME TypeOK, SearchInv, phase = "forward", AllAtComm, send_buffer = {}
  PROVE  SCC(edges, root) \subseteq is_reached
<1> DEFINE C == is_reached \cup {x \in Vertices : root \notin Reach(edges, x)}
<1>1. root \in Vertices /\ edges \in SUBSET (Vertices \X Vertices)
  BY InputFacts DEF TypeOK
<1>2. IsClosed(edges, C)
  <2> SUFFICES ASSUME NEW x \in Vertices, NEW y \in Vertices, x \in C, <<x, y>> \in edges
               PROVE  y \in C
    BY DEF IsClosed
  <2>1. CASE root \notin Reach(edges, x)
    BY <1>1, <2>1, NotReachingClosed DEF IsClosed
  <2>2. CASE x \in is_reached
    <3>1. CASE y \in is_undecided
      BY <2>2, <3>1 DEF SearchInv, ForwardInv, AllAtComm, Messages
    <3>2. CASE y \notin is_undecided
      <4>1. y \in input.trimmed
        BY <3>2 DEF SearchInv, ForwardInv, Found, ReachedProtectsUndecided
      <4>2. y # root /\ SCC(edges, y) = {y}
        BY <4>1, InputFacts DEF TypeOK
      <4>3. y \in Reach(edges, root)
        BY <2>2, <1>1, ReachStep DEF SearchInv, ForwardInv
      <4>4. root \notin Reach(edges, y)
        BY <1>1, <4>2, <4>3 DEF SCC
      <4> QED BY <4>4
    <3> QED BY <3>1, <3>2
  <2> QED BY <2>1, <2>2
<1>3. root \in C /\ C \in SUBSET Vertices
  BY DEF SearchInv, ForwardInv, TypeOK
<1>4. Reach(edges, root) \subseteq C
  BY <1>1, <1>2, <1>3, ReachInClosed
<1> QED BY <1>4 DEF SCC

\* The same for the backward search: a vertex of the component that is not
\* found could not reach the pivot.
LEMMA BackwardComplete ==
  ASSUME TypeOK, SearchInv, phase = "backward", AllAtComm, send_buffer = {}
  PROVE  Found = SCC(edges, root)
<1>1. root \in Vertices /\ edges \in SUBSET (Vertices \X Vertices)
  BY InputFacts DEF TypeOK
<1>2. SUFFICES ASSUME NEW w \in SCC(edges, root), w \notin Found
               PROVE  FALSE
  BY DEF SearchInv, BackwardInv
<1> DEFINE C == (SCC(edges, root) \ Found)
                \cup {x \in Vertices : root \notin Reach(edges, x)}
<1>3. C \in SUBSET Vertices
  BY <1>1, SccClass
<1>4. IsClosed(edges, C)
  <2> SUFFICES ASSUME NEW x \in Vertices, NEW y \in Vertices, x \in C, <<x, y>> \in edges
               PROVE  y \in C
    BY DEF IsClosed
  <2>1. CASE root \notin Reach(edges, x)
    BY <1>1, <2>1, NotReachingClosed DEF IsClosed
  <2>2. CASE x \in SCC(edges, root) \ Found /\ root \in Reach(edges, y)
    <3>1. y \in SCC(edges, root)
      BY <1>1, <2>2, ReachStep DEF SCC
    <3>2. x \in is_reached
      BY <2>2 DEF SearchInv, BackwardInv
    <3>3. y \notin Found
      BY <3>2 DEF SearchInv, BackwardInv, AllAtComm, Messages, Asked, Found
    <3> QED BY <3>1, <3>3
  <2> QED BY <2>1, <2>2
<1>5. Reach(edges, w) \subseteq C
  BY <1>2, <1>3, <1>4, ReachInClosed
<1>6. root \in Reach(edges, w) /\ root \in Reach(edges, root)
  BY <1>1, ReachSelf DEF SCC
<1> QED BY <1>5, <1>6 DEF SearchInv, BackwardInv

\* The state in which a search is called satisfies the search's invariant:
\* only trimmed vertices are decided, and only the pivot is reached.
LEMMA SearchInit == Init => SearchInv
<1> SUFFICES ASSUME Init PROVE SearchInv
  OBVIOUS
<1>1. /\ root \in Vertices
      /\ input.trimmed \in SUBSET Vertices
      /\ root \notin input.trimmed
  BY InputFacts DEF Init
<1>2. \A v \in Vertices : scc_id[v] # Undecided <=> v \in input.trimmed
  BY <1>1, UndecidedAssumption DEF Init
<1>3. Found = {}
  BY <1>2 DEF Found
<1>4. ReachedProtectsUndecided
  <2>1. \A r \in Ranks : {v \in Local(r) : scc_id[v] # Undecided}
                         = Local(r) \cap input.trimmed
    BY <1>2 DEF Local
  <2>2. is_undecided = {v \in Vertices : scc_id[v] = Undecided}
    BY <1>2 DEF Init
  <2>3. is_reached \subseteq is_undecided
    BY <1>1 DEF Init
  <2>4. \A r \in Ranks : local_decided[r] = Cardinality({v \in Local(r) : scc_id[v] # Undecided})
    BY <2>1 DEF Init
  <2> QED BY <2>2, <2>3, <2>4 DEF ReachedProtectsUndecided
<1>5. ForwardInv
  BY <1>1, <1>3, ReachSelf DEF Init, ForwardInv, Messages
<1> QED BY <1>1, <1>3, <1>4, <1>5 DEF SearchInv, StackFits, WholePivotComponent, Init

\* One rank drains one vertex of the forward search.
LEMMA FwDrainStep ==
  ASSUME TypeOK, SearchInv, NEW u \in Vertices, FwDrain(u)
  PROVE  SearchInv'
<1> DEFINE local == {v \in Succ(edges, u) : Rank(v) = Rank(u)}
           New == FwFresh(local)
<1>1. /\ root \in Vertices
      /\ edges' = edges /\ root' = root /\ Found' = Found
      /\ \A r \in Ranks : Local(r)' = Local(r)
  BY InputFacts DEF TypeOK, FwDrain, edges, root, Found, Local, Rank
<1>2. /\ \A v \in local : v \in Vertices /\ <<u, v>> \in edges
      /\ \A v \in New : v \in local /\ v \in is_undecided /\ v \notin is_reached
      /\ \A v \in Vertices : <<u, v>> \in edges =>
           \/ v \in New \/ v \in is_reached \/ v \notin is_undecided
           \/ <<u, v>> \in send_buffer'
  BY DEF Succ, FwFresh, FwDrain
<1>3. /\ u \in is_reached /\ active[u] = 1 /\ ForwardInv
  BY DEF FwDrain, MayDrain, SearchInv, ForwardInv, StackFits, TypeOK
<1>4. \A v \in Vertices : active'[v] = active[v] + (IF v \in New THEN 1 ELSE 0)
                                               - (IF v = u THEN 1 ELSE 0)
  BY PopPushAt DEF FwDrain
<1>5. /\ is_reached' = is_reached \cup New
      /\ \A m \in send_buffer' : m \in send_buffer
                                 \/ (m[1] = u /\ m \in edges)
      /\ send_buffer \subseteq send_buffer'
  BY DEF FwDrain, Succ
<1>u. UNCHANGED <<input, phase, is_undecided, recv_buffer, scc_id, local_decided>>
  BY DEF FwDrain
<1> HIDE DEF local, New
<1>6. StackFits'
  BY <1>2, <1>3, <1>4 DEF SearchInv, StackFits, ForwardInv, TypeOK
<1>7. ReachedProtectsUndecided'
  BY <1>1, <1>2, <1>5, <1>u DEF SearchInv, ReachedProtectsUndecided
<1>8. ForwardInv'
  <2>1. is_reached' \subseteq Reach(edges, root)
    BY <1>1, <1>2, <1>3, <1>5, ReachStep DEF ForwardInv
  <2>2. \A v \in Vertices : active'[v] > 0 => v \in is_reached'
    BY <1>3, <1>4, <1>5 DEF ForwardInv, TypeOK
  <2>3. \A m \in Messages' : m \in edges /\ m[1] \in is_reached'
    BY <1>3, <1>5, <1>u DEF ForwardInv, Messages
  <2>4. ASSUME NEW x \in is_reached', NEW y \in is_undecided',
               <<x, y>> \in edges, active'[x] = 0
        PROVE  y \in is_reached' \/ <<x, y>> \in Messages'
    <3>1. y \in Vertices /\ x \in Vertices /\ y \in is_undecided
      BY <1>2, <1>5, <1>u DEF TypeOK
    <3>2. CASE x = u
      BY <1>2, <1>5, <2>4, <3>1, <3>2 DEF Messages
    <3>3. CASE x # u
      <4>1. x \notin New /\ active[x] = 0
        BY <1>4, <2>4, <3>1, <3>3 DEF TypeOK
      <4> QED BY <1>3, <1>5, <1>u, <2>4, <3>1, <4>1 DEF ForwardInv, Messages
    <3> QED BY <3>2, <3>3
  <2> QED BY <1>1, <1>3, <1>5, <2>1, <2>2, <2>3, <2>4 DEF ForwardInv
<1> QED BY <1>1, <1>6, <1>7, <1>8, <1>u DEF SearchInv, FwDrain, WholePivotComponent
\* One rank consumes one message of the forward search.
LEMMA FwReceiveStep ==
  ASSUME TypeOK, SearchInv, NEW m \in recv_buffer, FwReceive(m)
  PROVE  SearchInv'
<1> DEFINE New == FwFresh({m[2]})
<1>1. /\ root \in Vertices
      /\ edges' = edges /\ root' = root /\ Found' = Found
      /\ \A r \in Ranks : Local(r)' = Local(r)
  BY InputFacts DEF TypeOK, FwReceive, edges, root, Found, Local, Rank
<1>2. ForwardInv /\ m \in edges /\ m[1] \in is_reached
  BY DEF FwReceive, SearchInv, ForwardInv, Messages
<1>3. /\ m[1] \in Vertices /\ m[2] \in Vertices /\ m = <<m[1], m[2]>>
  <2>1. m \in Vertices \X Vertices
    BY DEF TypeOK
  <2> QED BY <2>1
<1>4. /\ \A v \in New : v = m[2] /\ v \in is_undecided /\ v \notin is_reached
      /\ m[2] \in New \/ m[2] \in is_reached \/ m[2] \notin is_undecided
  BY DEF FwFresh
<1>5. \A v \in Vertices : active'[v] = active[v] + (IF v \in New THEN 1 ELSE 0)
  <2>1. \A v \in Vertices : Push(New)[v] = active[v] + (IF v \in New THEN 1 ELSE 0)
    BY PushAt
  <2> QED BY <2>1 DEF FwReceive
<1>6. /\ is_reached' = is_reached \cup New
      /\ recv_buffer' = recv_buffer \ {m}
  BY DEF FwReceive
<1>u. UNCHANGED <<input, phase, is_undecided, send_buffer, scc_id, local_decided>>
  BY DEF FwReceive
<1> HIDE DEF New
<1>7. StackFits'
  BY <1>2, <1>4, <1>5 DEF SearchInv, StackFits, ForwardInv, TypeOK
<1>8. ReachedProtectsUndecided'
  BY <1>1, <1>4, <1>6, <1>u DEF SearchInv, ReachedProtectsUndecided
<1>9. ForwardInv'
  <2>1. is_reached' \subseteq Reach(edges, root)
    BY <1>1, <1>2, <1>3, <1>4, <1>6, ReachStep DEF ForwardInv
  <2>2. \A v \in Vertices : active'[v] > 0 => v \in is_reached'
    BY <1>2, <1>5, <1>6 DEF ForwardInv, TypeOK
  <2>3. \A k \in Messages' : k \in edges /\ k[1] \in is_reached'
    BY <1>2, <1>6, <1>u DEF ForwardInv, Messages
  <2>4. ASSUME NEW x \in is_reached', NEW y \in is_undecided',
               <<x, y>> \in edges, active'[x] = 0
        PROVE  y \in is_reached' \/ <<x, y>> \in Messages'
    <3>1. y \in Vertices /\ x \in Vertices /\ y \in is_undecided
      BY <1>4, <1>6, <1>u, <1>3 DEF TypeOK
    <3>2. x \notin New /\ active[x] = 0
      BY <1>5, <2>4, <3>1 DEF TypeOK
    <3>3. y \in is_reached \/ <<x, y>> \in Messages
      BY <1>2, <1>6, <2>4, <3>1, <3>2 DEF ForwardInv
    <3>4. CASE <<x, y>> = m
      BY <1>3, <1>4, <1>6, <3>1, <3>4
    <3>5. CASE <<x, y>> # m
      BY <1>6, <1>u, <3>3, <3>5 DEF Messages
    <3> QED BY <3>4, <3>5
  <2> QED BY <1>1, <1>2, <1>6, <2>1, <2>2, <2>3, <2>4 DEF ForwardInv
<1> QED BY <1>1, <1>7, <1>8, <1>9, <1>u DEF SearchInv, FwReceive, WholePivotComponent

\* The messages of a round change hands.
LEMMA ExchangeStep ==
  ASSUME TypeOK, SearchInv, Exchange
  PROVE  SearchInv'
<1>1. /\ edges' = edges /\ root' = root /\ Found' = Found
      /\ \A r \in Ranks : Local(r)' = Local(r)
      /\ Messages' = Messages /\ \A v : Asked(v)' = Asked(v)
  BY DEF Exchange, AllAtComm, edges, root, Found, Local, Rank, Messages, Asked
<1>u. UNCHANGED <<input, phase, is_reached, is_undecided, active, scc_id, local_decided>>
  BY DEF Exchange
<1>2. StackFits' /\ ReachedProtectsUndecided'
  BY <1>1, <1>u DEF SearchInv, StackFits, ReachedProtectsUndecided
<1>3. phase = "forward" => ForwardInv'
  BY <1>1, <1>u DEF SearchInv, ForwardInv
<1>4. phase # "forward" => BackwardInv'
  BY <1>1, <1>u DEF SearchInv, BackwardInv
<1> QED BY <1>1, <1>2, <1>3, <1>4, <1>u DEF SearchInv, WholePivotComponent

\* Nobody pushed: the ranks turn to the backward search and decide the pivot.
LEMMA FwEndStep ==
  ASSUME TypeOK, SearchInv, FwEnd
  PROVE  SearchInv'
<1>1. /\ root \in Vertices
      /\ edges' = edges /\ root' = root /\ input' = input
      /\ \A v \in input.trimmed : v # root
  BY InputFacts DEF TypeOK, FwEnd, edges, root
<1>2. /\ ForwardInv /\ SCC(edges, root) \subseteq is_reached
  BY ForwardComplete DEF FwEnd, SearchInv
<1>3. /\ is_reached' = is_reached \ {root}
      /\ \A v \in Vertices : scc_id'[v] = IF v = root THEN root ELSE scc_id[v]
      /\ Messages' = {}
      /\ phase' = "backward"
  BY DEF FwEnd, DecideAll, AllAtComm, Messages
<1>4. \A v \in Vertices : active'[v] = IF v = root THEN 1 ELSE 0
  <2>1. \A v \in Vertices : Push({root})[v] = active[v] + (IF v \in {root} THEN 1 ELSE 0)
    BY PushAt
  <2> QED BY <2>1 DEF FwEnd, AllAtComm
<1>5. Found' = {root}
  <2>1. \A v \in Vertices : v \in input.trimmed \/ scc_id[v] = Undecided
    BY <1>2 DEF Found, ForwardInv
  <2>2. root # Undecided
    BY <1>1, UndecidedAssumption
  <2>3. \A v \in Vertices : v \in Found' <=> scc_id'[v] # Undecided /\ v \notin input.trimmed
    BY <1>1 DEF Found
  <2>4. \A v \in Vertices : v \in Found' <=> v = root
    BY <1>1, <1>3, <2>1, <2>2, <2>3
  <2> QED BY <1>1, <2>4 DEF Found
<1>6. ReachedProtectsUndecided'
  <2>1. {root} \in SUBSET is_reached /\ DecideAll({root})
    BY <1>2 DEF FwEnd, ForwardInv
  <2> QED BY <1>1, <2>1, DecideAllKeepsRecords DEF SearchInv
<1>7. StackFits'
  BY <1>4 DEF StackFits
<1>8. BackwardInv'
  BY <1>1, <1>2, <1>3, <1>4, <1>5, SccSelf DEF BackwardInv, ForwardInv
<1>9. \A v \in Vertices : /\ v \in input'.trimmed => scc_id'[v] = v
                          /\ v \in Found' => scc_id'[v] = root'
  BY <1>1, <1>3, <1>5 DEF SearchInv
<1> QED BY <1>3, <1>6, <1>7, <1>8, <1>9 DEF SearchInv, WholePivotComponent
\* A vertex that is reached and is an edge away from a found one belongs to
\* the component.
LEMMA BackwardSound ==
  ASSUME TypeOK, BackwardInv, NEW u \in Found, NEW w \in is_reached, <<w, u>> \in edges
  PROVE  w \in SCC(edges, root)
<1>1. u \in Vertices /\ w \in Vertices /\ root \in Reach(edges, u)
  BY DEF BackwardInv, SCC, Found, TypeOK
<1>2. u \in Reach(edges, w)
  BY <1>1, ReachSelf, ReachStep
<1> QED BY <1>1, <1>2, ReachTransitive DEF BackwardInv, SCC

\* What both backward handlers do: the vertices of D, all reached and all
\* predecessors of u, are decided and pushed.
LEMMA BackwardDecide ==
  ASSUME TypeOK, SearchInv, phase = "backward", input' = input,
         NEW u \in Found, NEW D \in SUBSET is_reached,
         \A v \in D : <<v, u>> \in edges,
         DecideAll(D)
  PROVE  /\ Found' = Found \cup D
         /\ Found' \subseteq SCC(edges, root)
         /\ SCC(edges, root) \subseteq Found' \cup is_reached'
         /\ is_reached' \subseteq is_reached
         /\ \A v \in Found' : scc_id'[v] = root
         /\ \A v \in input.trimmed : scc_id'[v] = v
         /\ \A v \in D : v \in Vertices /\ v \notin Found /\ active[v] = 0
         /\ ReachedProtectsUndecided'
<1>1. root \in Vertices /\ root # Undecided /\ input.trimmed \in SUBSET Vertices
  BY InputFacts, UndecidedAssumption DEF TypeOK
<1>2. BackwardInv
  BY DEF SearchInv
<1>3. \A v \in Vertices : scc_id'[v] = IF v \in D THEN root ELSE scc_id[v]
  BY DEF DecideAll
<1>4. \A v \in D : /\ v \in Vertices
                   /\ scc_id[v] = Undecided
                   /\ v \notin input.trimmed
  <2>1. \A v \in D : v \in Vertices /\ scc_id[v] = Undecided
    BY DEF SearchInv, ReachedProtectsUndecided, TypeOK
  <2> QED BY <2>1, UndecidedAssumption DEF SearchInv
<1>5. Found' = Found \cup D
  <2>1. \A v \in Vertices : v \in Found' <=> scc_id'[v] # Undecided /\ v \notin input.trimmed
    BY DEF Found
  <2>2. \A v \in Vertices : v \in Found <=> scc_id[v] # Undecided /\ v \notin input.trimmed
    BY DEF Found
  <2>3. \A v \in Vertices : v \in Found' <=> v \in Found \cup D
    BY <1>1, <1>3, <1>4, <2>1, <2>2
  <2>4. Found \subseteq Vertices /\ Found' \subseteq Vertices /\ D \subseteq Vertices
    BY <1>4 DEF Found
  <2> QED BY <2>3, <2>4
<1>6. \A v \in D : v \in SCC(edges, root)
  BY <1>2, BackwardSound
<1>7. is_reached' = is_reached \ D
  BY DEF DecideAll
<1>8. \A v \in D : v \notin Found /\ active[v] = 0
  BY <1>2, <1>4 DEF BackwardInv, Found, TypeOK
<1>9. \A v \in Found' : scc_id'[v] = root
  BY <1>3, <1>4, <1>5 DEF SearchInv, Found
<1>10. \A v \in input.trimmed : scc_id'[v] = v
  BY <1>1, <1>3, <1>4 DEF SearchInv
<1>11. ReachedProtectsUndecided'
  BY DecideAllKeepsRecords DEF SearchInv
<1> QED BY <1>2, <1>4, <1>5, <1>6, <1>7, <1>8, <1>9, <1>10, <1>11 DEF BackwardInv

\* What draining a vertex u in the backward search has to do: decide the
\* vertices of D, reached predecessors of u, and see to it that the other
\* ones are asked, by new messages or by some that are under way.
LEMMA BwVisitStep ==
  ASSUME TypeOK, SearchInv, NEW u \in Vertices, active[u] > 0, phase = "backward",
         NEW D \in SUBSET is_reached, \A v \in D : <<v, u>> \in edges,
         DecideAll(D), active' = PopPush(u, D),
         UNCHANGED <<input, phase, recv_buffer>>,
         send_buffer \subseteq send_buffer',
         \A m \in send_buffer' : m \in send_buffer
                                 \/ (m[1] = u /\ <<m[2], m[1]>> \in edges),
         \A w \in is_reached : <<w, u>> \in edges => w \in D \/ Asked(w)'
  PROVE  SearchInv'
<1>1. /\ edges' = edges /\ root' = root /\ input' = input
      /\ phase = "backward" /\ phase' = "backward"
      /\ recv_buffer' = recv_buffer
  BY DEF edges, root
<1>2. BackwardInv /\ u \in Found /\ active[u] = 1
  BY DEF SearchInv, BackwardInv, StackFits, TypeOK
<1>5. \A v \in Vertices : active'[v] = active[v] + (IF v \in D THEN 1 ELSE 0)
                                               - (IF v = u THEN 1 ELSE 0)
  BY PopPushAt
<1>6. /\ Found' = Found \cup D
      /\ Found' \subseteq SCC(edges, root)
      /\ SCC(edges, root) \subseteq Found' \cup is_reached'
      /\ is_reached' = is_reached \ D
      /\ \A v \in Found' : scc_id'[v] = root
      /\ \A v \in input.trimmed : scc_id'[v] = v
      /\ \A v \in D : v \in Vertices /\ v \notin Found /\ active[v] = 0
      /\ ReachedProtectsUndecided'
  BY <1>1, <1>2, BackwardDecide DEF DecideAll
<1>7. StackFits'
  BY <1>2, <1>5, <1>6 DEF SearchInv, StackFits, TypeOK
<1>8. BackwardInv'
  <2>1. \A v \in Vertices : active'[v] > 0 => v \in Found'
    BY <1>2, <1>5, <1>6 DEF BackwardInv, TypeOK
  <2>2. \A m \in Messages' : <<m[2], m[1]>> \in edges /\ m[1] \in Found'
    BY <1>1, <1>2, <1>6 DEF BackwardInv, Messages
  <2>3. ASSUME NEW x \in Found', NEW w \in is_reached',
               <<w, x>> \in edges, active'[x] = 0
        PROVE  Asked(w)'
    <3>1. w \in Vertices /\ w \in is_reached /\ w \notin D
      BY <1>6 DEF TypeOK
    <3>2. CASE x = u
      BY <2>3, <3>1, <3>2
    <3>3. CASE x # u
      <4>0. x \in Vertices
        BY <2>3 DEF Found
      <4>1. x \notin D /\ active[x] = 0 /\ x \in Found
        BY <1>5, <1>6, <2>3, <3>3, <4>0 DEF TypeOK
      <4> QED BY <1>1, <1>2, <2>3, <3>1, <4>0, <4>1 DEF BackwardInv, Messages, Asked
    <3> QED BY <3>2, <3>3
  <2> QED BY <1>1, <1>2, <1>6, <2>1, <2>2, <2>3 DEF BackwardInv
<1> QED BY <1>1, <1>6, <1>7, <1>8 DEF SearchInv, WholePivotComponent

\* One rank drains one vertex of the backward search.
LEMMA BwDrainStep ==
  ASSUME TypeOK, SearchInv, NEW u \in Vertices, BwDrain(u)
  PROVE  SearchInv'
<1> DEFINE local == {v \in Pred(edges, u) : Rank(v) = Rank(u)}
           D == BwFresh(local)
<1>1. /\ D \in SUBSET is_reached
      /\ \A v \in D : <<v, u>> \in edges
  BY DEF Pred, BwFresh
<1>2. ASSUME NEW w \in is_reached, <<w, u>> \in edges, w \notin D
      PROVE  Asked(w)'
  <2>1. <<u, w>> \in send_buffer'
    BY <1>2 DEF BwDrain, BwFresh, Pred, TypeOK
  <2> QED BY <2>1 DEF Asked, Messages
<1>3. /\ DecideAll(D) /\ active' = PopPush(u, D) /\ active[u] > 0
      /\ UNCHANGED <<input, phase, recv_buffer>> /\ phase = "backward"
      /\ send_buffer \subseteq send_buffer'
      /\ \A m \in send_buffer' : m \in send_buffer
                                 \/ (m[1] = u /\ <<m[2], m[1]>> \in edges)
  BY DEF BwDrain, MayDrain, Pred
<1> HIDE DEF D
<1> QED BY <1>1, <1>2, <1>3, BwVisitStep

\* One rank consumes one message of the backward search.
LEMMA BwReceiveStep ==
  ASSUME TypeOK, SearchInv, NEW m \in recv_buffer, BwReceive(m)
  PROVE  SearchInv'
<1> DEFINE D == BwFresh({m[2]})
           u == m[1]
<1>1. /\ edges' = edges /\ root' = root /\ input' = input
      /\ phase = "backward" /\ phase' = "backward"
      /\ send_buffer' = send_buffer /\ recv_buffer' = recv_buffer \ {m}
  BY DEF BwReceive, edges, root
<1>2. /\ BackwardInv /\ u \in Found /\ <<m[2], u>> \in edges
      /\ u \in Vertices /\ m[2] \in Vertices /\ m = <<u, m[2]>>
  <2>1. m \in Vertices \X Vertices
    BY DEF TypeOK
  <2> QED BY <1>1, <2>1 DEF SearchInv, BackwardInv, Messages
<1>3. /\ D \in SUBSET is_reached
      /\ \A v \in D : v = m[2]
      /\ m[2] \in is_reached => m[2] \in D
  BY DEF BwFresh
<1>4. DecideAll(D)
  BY DEF BwReceive
<1>5. \A v \in Vertices : active'[v] = active[v] + (IF v \in D THEN 1 ELSE 0)
  <2>1. \A v \in Vertices : Push(D)[v] = active[v] + (IF v \in D THEN 1 ELSE 0)
    BY PushAt
  <2> QED BY <2>1 DEF BwReceive
<1> HIDE DEF D, u
<1>6. /\ Found' = Found \cup D
      /\ Found' \subseteq SCC(edges, root)
      /\ SCC(edges, root) \subseteq Found' \cup is_reached'
      /\ is_reached' = is_reached \ D
      /\ \A v \in Found' : scc_id'[v] = root
      /\ \A v \in input.trimmed : scc_id'[v] = v
      /\ \A v \in D : v \in Vertices /\ v \notin Found /\ active[v] = 0
      /\ ReachedProtectsUndecided'
  BY <1>1, <1>2, <1>3, <1>4, BackwardDecide DEF DecideAll
<1>7. StackFits'
  BY <1>5, <1>6 DEF SearchInv, StackFits, TypeOK
<1>8. BackwardInv'
  <2>1. \A v \in Vertices : active'[v] > 0 => v \in Found'
    BY <1>2, <1>5, <1>6 DEF BackwardInv, TypeOK
  <2>2. \A k \in Messages' : <<k[2], k[1]>> \in edges /\ k[1] \in Found'
    BY <1>1, <1>2, <1>6 DEF BackwardInv, Messages
  <2>3. ASSUME NEW x \in Found', NEW w \in is_reached',
               <<w, x>> \in edges, active'[x] = 0
        PROVE  Asked(w)'
    <3>1. w \in is_reached /\ w \notin D /\ x \in Vertices
      BY <1>6 DEF Found
    <3>2. x \notin D /\ active[x] = 0 /\ x \in Found
      BY <1>5, <1>6, <2>3, <3>1 DEF TypeOK
    <3>3. PICK k \in Messages : k[2] = w
      BY <1>2, <2>3, <3>1, <3>2 DEF BackwardInv, Asked
    <3>4. k # m
      BY <1>3, <3>1, <3>3
    <3> QED BY <1>1, <3>3, <3>4 DEF Messages, Asked
  <2> QED BY <1>1, <1>2, <1>6, <2>1, <2>2, <2>3 DEF BackwardInv
<1> QED BY <1>1, <1>6, <1>7, <1>8 DEF SearchInv, WholePivotComponent

\* Nobody pushed in the backward search: the ranks return.
LEMMA BwEndStep ==
  ASSUME TypeOK, SearchInv, BwEnd
  PROVE  SearchInv'
<1>1. /\ edges' = edges /\ root' = root /\ Found' = Found /\ Messages' = Messages
      /\ \A r \in Ranks : Local(r)' = Local(r)
      /\ \A v : Asked(v)' = Asked(v)
  BY DEF BwEnd, edges, root, Found, Local, Rank, Messages, Asked
<1>2. Found = SCC(edges, root)
  BY BackwardComplete DEF BwEnd
<1>u. /\ phase = "backward" /\ phase' = "done"
      /\ UNCHANGED <<input, is_reached, is_undecided, active, send_buffer,
                     recv_buffer, scc_id, local_decided>>
  BY DEF BwEnd
<1>3. StackFits' /\ ReachedProtectsUndecided'
  BY <1>1, <1>u DEF SearchInv, StackFits, ReachedProtectsUndecided
<1>4. BackwardInv'
  BY <1>1, <1>u DEF SearchInv, BackwardInv
<1> QED BY <1>1, <1>2, <1>3, <1>4, <1>u DEF SearchInv, WholePivotComponent

\* A stuttering step keeps the search's invariant.
LEMMA SearchStutter ==
  ASSUME SearchInv, UNCHANGED vars
  PROVE  SearchInv'
BY DEF vars, SearchInv, StackFits, ReachedProtectsUndecided, ForwardInv,
       BackwardInv, WholePivotComponent, Found, Messages, Asked, edges, root, Local, Rank

\* Every step of the plain search keeps the search's invariant.
LEMMA SearchNext == TypeOK /\ SearchInv /\ [Next]_vars => SearchInv'
<1> SUFFICES ASSUME TypeOK, SearchInv, [Next]_vars PROVE SearchInv'
  OBVIOUS
<1>1. ASSUME NEW u \in Vertices, FwDrain(u) PROVE SearchInv'
  BY <1>1, FwDrainStep
<1>2. ASSUME NEW u \in Vertices, BwDrain(u) PROVE SearchInv'
  BY <1>2, BwDrainStep
<1>3. ASSUME NEW m \in recv_buffer, FwReceive(m) PROVE SearchInv'
  BY <1>3, FwReceiveStep
<1>4. ASSUME NEW m \in recv_buffer, BwReceive(m) PROVE SearchInv'
  BY <1>4, BwReceiveStep
<1>5. CASE Exchange
  BY <1>5, ExchangeStep
<1>6. CASE FwEnd
  BY <1>6, FwEndStep
<1>7. CASE BwEnd
  BY <1>7, BwEndStep
<1>8. CASE UNCHANGED vars
  BY <1>8, SearchStutter
<1> QED
  BY <1>1, <1>2, <1>3, <1>4, <1>5, <1>6, <1>7, <1>8 DEF Next, Returned

\* SearchInv holds in every reachable state: why the search is right.
THEOREM SearchInvariant == Spec => []SearchInv
<1>1. Spec => [](TypeOK /\ SearchInv)
  BY TypeInit, TypeNext, SearchInit, SearchNext, PTL DEF Spec
<1> QED BY <1>1, PTL
-----------------------------------------------------------------------------
(* The properties of the runs, for every value of the constants            *)

\* The active stacks never overflow the local_n slots they are given.
THEOREM StacksFit == Spec => []StackFits
<1>1. SearchInv => StackFits
  BY DEF SearchInv
<1> QED BY <1>1, SearchInvariant, PTL

\* Ids, bits and counters agree, and a reached vertex is undecided.
THEOREM RecordsAgree == Spec => []ReachedProtectsUndecided
<1>1. SearchInv => ReachedProtectsUndecided
  BY DEF SearchInv
<1> QED BY <1>1, SearchInvariant, PTL

\* Only vertices of the pivot's component are decided.
THEOREM Soundness == Spec => []OnlyPivotComponent
<1>1. SearchInv /\ TypeOK => OnlyPivotComponent
  BY DEF SearchInv, ForwardInv, BackwardInv, OnlyPivotComponent, TypeOK
<1> QED BY <1>1, SearchInvariant, TypeCorrect, PTL

\* When the ranks return, all of the pivot's component is decided.
THEOREM Completeness == Spec => []WholePivotComponent
<1>1. SearchInv => WholePivotComponent
  BY DEF SearchInv
<1> QED BY <1>1, SearchInvariant, PTL
-----------------------------------------------------------------------------
(* Refinement                                                              *)

\* What is decided, at any time, is a canonical labelling: a vertex trimmed
\* earlier is alone in its component, and the others are the pivot's.
LEMMA LabellingCanonical ==
  ASSUME TypeOK, SearchInv
  PROVE  Labelling!Canonical(edges, scc_id)
<1> DEFINE Dec == Labelling!Decided(scc_id)
<1>1. root \in Vertices /\ root \notin input.trimmed
      /\ \A v \in input.trimmed : SCC(edges, v) = {v}
  BY InputFacts DEF TypeOK
<1>2. \A v \in Dec : v \in Vertices /\ (v \in input.trimmed \/ v \in Found)
  BY DEF Labelling!Decided, Found
<1>3. Found \subseteq SCC(edges, root)
  BY DEF SearchInv, ForwardInv, BackwardInv
<1>4. \A v \in Vertices : /\ v \in input.trimmed => scc_id[v] = v
                          /\ v \in Found => scc_id[v] = root
  BY DEF SearchInv
<1>5. ASSUME NEW u \in Dec
      PROVE  scc_id[u] \in SCC(edges, u)
             /\ \A v \in SCC(edges, u) \cap Dec : scc_id[v] = scc_id[u]
  <2>1. CASE u \in input.trimmed
    BY <1>1, <1>2, <1>4, <1>5, <2>1
  <2>2. CASE u \in Found
    <3>1. root \in SCC(edges, u) /\ SCC(edges, u) = SCC(edges, root)
      BY <1>1, <1>3, <2>2, SccClass
    <3>2. ASSUME NEW v \in SCC(edges, u) \cap Dec PROVE v \in Found
      <4>1. root \in SCC(edges, v)
        BY <1>1, <3>1, <3>2, SccClass
      <4> QED BY <1>1, <1>2, <3>2, <4>1
    <3> QED BY <1>2, <1>4, <1>5, <2>2, <3>1, <3>2
  <2> QED BY <1>2, <1>5, <2>1, <2>2
<1>6. \A u \in Vertices : Labelling!SCC(edges, u) = SCC(edges, u)
  BY DEF Labelling!SCC, Labelling!Reach, Labelling!IsClosed, SCC, Reach, IsClosed
<1> QED BY <1>2, <1>5, <1>6 DEF Labelling!Canonical

\* The labelling the search starts from is one earlier phases may leave.
LEMMA LabellingInit == Init => Labelling!Init
<1> SUFFICES ASSUME Init PROVE Labelling!Init
  OBVIOUS
<1>1. TypeOK /\ SearchInv
  BY TypeInit, SearchInit
<1>2. /\ edges \in Graphs
      /\ input.trimmed \in SUBSET Vertices
      /\ \A v \in input.trimmed : SCC(edges, v) = {v}
  BY InputFacts DEF Init, Graphs
<1>3. Labelling!Decided(scc_id) = input.trimmed
  BY <1>2, UndecidedAssumption DEF Labelling!Decided, Init
<1>4. Labelling!Whole(edges, scc_id)
  BY <1>2, <1>3 DEF Labelling!Whole, Labelling!SCC, Labelling!Reach,
       Labelling!IsClosed, SCC, Reach, IsClosed
<1> QED BY <1>1, <1>2, <1>4, LabellingCanonical
          DEF Labelling!Init, Labelling!Graphs, Graphs, TypeOK

\* No step takes back or replaces an id.
LEMMA IdsStay ==
  ASSUME TypeOK, SearchInv, [Next]_vars
  PROVE  /\ input' = input
         /\ \A v \in Vertices : scc_id[v] # Undecided => scc_id'[v] = scc_id[v]
<1>1. ASSUME NEW D \in SUBSET is_reached, DecideAll(D)
      PROVE  \A v \in Vertices : scc_id[v] # Undecided => scc_id'[v] = scc_id[v]
  BY <1>1 DEF DecideAll, SearchInv, ReachedProtectsUndecided
<1>2. ASSUME NEW u \in Vertices, BwDrain(u)
      PROVE  \A v \in Vertices : scc_id[v] # Undecided => scc_id'[v] = scc_id[v]
  BY <1>1, <1>2 DEF BwDrain, BwFresh
<1>3. ASSUME NEW m \in recv_buffer, BwReceive(m)
      PROVE  \A v \in Vertices : scc_id[v] # Undecided => scc_id'[v] = scc_id[v]
  BY <1>1, <1>3 DEF BwReceive, BwFresh
<1>4. CASE FwEnd
  <2>1. {root} \in SUBSET is_reached
    BY <1>4 DEF FwEnd, SearchInv, ForwardInv
  <2> QED BY <1>1, <1>4, <2>1 DEF FwEnd
<1> QED
  BY <1>2, <1>3, <1>4 DEF Next, FwDrain, FwReceive, Exchange, FwEnd, BwDrain,
     BwReceive, BwEnd, Returned, vars

\* Every step of the search is a step of the abstract specification.
LEMMA LabellingStep ==
  TypeOK /\ SearchInv /\ TypeOK' /\ SearchInv' /\ [Next]_vars => Labelling!Next
<1> SUFFICES ASSUME TypeOK, SearchInv, TypeOK', SearchInv', [Next]_vars
             PROVE  Labelling!Next
  OBVIOUS
<1>1. edges' = edges
  BY IdsStay DEF edges
<1>2. \A v \in Labelling!Decided(scc_id) : scc_id'[v] = scc_id[v]
  BY IdsStay DEF Labelling!Decided
<1>3. Labelling!Canonical(edges, scc_id)'
  BY LabellingCanonical, PTL
<1>4. Labelling!Canonical(edges, scc_id')
  BY <1>1, <1>3 DEF Labelling!Canonical, Labelling!Decided
<1> QED BY <1>1, <1>2, <1>4 DEF Labelling!Next, TypeOK

\* The search implements the abstract labelling: it only ever gives
\* undecided vertices the one id of their component.
THEOREM Refinement == Spec => ImplementsLabelling
<1>1. Spec => [](TypeOK /\ SearchInv)
  BY TypeInit, TypeNext, SearchInit, SearchNext, PTL DEF Spec
<1> QED
  BY <1>1, LabellingInit, LabellingStep, PTL DEF Spec, ImplementsLabelling, Labelling!Spec
-----------------------------------------------------------------------------
(* The search with a cache, and either of the two                          *)

\* A step of the cached search is one of the plain search or a backward drain.
LEMMA CacheSteps ==
  ASSUME CacheNext
  PROVE  [Next]_vars \/ \E u \in Vertices : CacheBwDrain(u)
<1>1. ASSUME NEW u \in Vertices, CacheFwDrain(u) PROVE Next
  BY <1>1 DEF CacheFwDrain, Next
<1>2. ASSUME NEW m \in recv_buffer, CacheFwReceive(m) \/ CacheBwReceive(m) PROVE Next
  BY <1>2 DEF CacheFwReceive, CacheBwReceive, Next
<1>3. ASSUME Exchange \/ FwEnd \/ BwEnd \/ Returned PROVE Next
  BY <1>3 DEF Next
<1> QED BY <1>1, <1>2, <1>3 DEF CacheNext

\* What draining u backward changes.
LEMMA CacheBwDrainFacts ==
  ASSUME TypeOK, NEW u \in Vertices, CacheBwDrain(u)
  PROVE  \E D \in SUBSET is_reached, noted \in SUBSET Vertices :
           /\ phase = "backward" /\ active[u] > 0
           /\ noted = Remote(Pred(edges, u), u) \cap cache[Rank(u)]
           /\ D = BwFresh(Pred(edges, u) \cap Local(Rank(u)))
           /\ \A v \in D \cup noted : <<v, u>> \in edges
           /\ DecideAll(D)
           /\ active' = PopPush(u, D)
           /\ send_buffer' = send_buffer \cup ({u} \X noted)
           /\ Invalidate(Rank(u), noted)
           /\ UNCHANGED <<input, phase, recv_buffer>>
<1> DEFINE D == BwFresh(Pred(edges, u) \cap Local(Rank(u)))
           noted == Remote(Pred(edges, u), u) \cap cache[Rank(u)]
<1>1. D \in SUBSET is_reached /\ noted \in SUBSET Vertices
  BY DEF BwFresh, Remote, Pred
<1>2. \A v \in D \cup noted : <<v, u>> \in edges
  BY DEF BwFresh, Remote, Pred
<1>3. /\ phase = "backward" /\ active[u] > 0
      /\ DecideAll(D)
      /\ active' = PopPush(u, D)
      /\ send_buffer' = send_buffer \cup ({u} \X noted)
      /\ Invalidate(Rank(u), noted)
      /\ UNCHANGED <<input, phase, recv_buffer>>
  BY DEF CacheBwDrain, MayDrain
<1> HIDE DEF D, noted
<1>4. /\ noted = Remote(Pred(edges, u), u) \cap cache[Rank(u)]
      /\ D = BwFresh(Pred(edges, u) \cap Local(Rank(u)))
  BY DEF D, noted
<1> QED BY <1>1, <1>2, <1>3, <1>4
-----------------------------------------------------------------------------
(* The state of PivotSearch                                                *)

\* A backward drain with a cache keeps the types.
LEMMA CacheBwDrainType ==
  ASSUME TypeOK, NEW u \in Vertices, CacheBwDrain(u)
  PROVE  TypeOK'
<1>1. PICK D \in SUBSET is_reached, noted \in SUBSET Vertices :
           /\ active[u] > 0
           /\ DecideAll(D)
           /\ active' = PopPush(u, D)
           /\ send_buffer' = send_buffer \cup ({u} \X noted)
           /\ UNCHANGED <<input, phase, recv_buffer>>
  BY CacheBwDrainFacts
<1>2. active' \in [Vertices -> Nat]
  BY <1>1, PopPushAt
<1>3. /\ is_reached' \in SUBSET Vertices
      /\ is_undecided' \in SUBSET Vertices
      /\ scc_id' \in [Vertices -> Vertices \cup {Undecided}]
      /\ local_decided' \in [Ranks -> Nat]
  <2>1. D \in SUBSET Vertices
    BY DEF TypeOK
  <2> QED BY <1>1, <2>1, DecideAllType
<1> QED BY <1>1, <1>2, <1>3 DEF TypeOK

\* It keeps the invariant of the search, although it asks the noted
\* predecessors only: the other ones are asked already.
LEMMA CacheBwDrainStep ==
  ASSUME TypeOK, SearchInv, CacheInv, NEW u \in Vertices, CacheBwDrain(u)
  PROVE  SearchInv'
<1>1. PICK D \in SUBSET is_reached, noted \in SUBSET Vertices :
           /\ phase = "backward" /\ active[u] > 0
           /\ noted = Remote(Pred(edges, u), u) \cap cache[Rank(u)]
           /\ D = BwFresh(Pred(edges, u) \cap Local(Rank(u)))
           /\ \A v \in D \cup noted : <<v, u>> \in edges
           /\ DecideAll(D)
           /\ active' = PopPush(u, D)
           /\ send_buffer' = send_buffer \cup ({u} \X noted)
           /\ UNCHANGED <<input, phase, recv_buffer>>
  BY CacheBwDrainFacts
<1>2. Messages \subseteq Messages'
  BY <1>1 DEF Messages
<1>3. ASSUME NEW w \in is_reached, <<w, u>> \in edges, w \notin D
      PROVE  Asked(w)'
  <2>1. w \in Vertices /\ w \in Pred(edges, u) /\ u \in Succ(edges, w)
    BY <1>3 DEF TypeOK, Pred, Succ
  <2>2. Rank(w) # Rank(u)
    BY <1>1, <1>3, <2>1 DEF BwFresh, Local
  <2>3. CASE w \in cache[Rank(u)]
    <3>1. <<u, w>> \in Messages'
      BY <1>1, <2>1, <2>2, <2>3 DEF Messages, Remote
    <3> QED BY <3>1 DEF Asked
  <2>4. CASE w \notin cache[Rank(u)]
    <3>1. Asked(w)
      BY <1>1, <2>1, <2>2, <2>4 DEF CacheInv, CacheCoversReached, Remote
    <3> QED BY <1>2, <3>1 DEF Asked
  <2> QED BY <2>3, <2>4
<1>4. /\ send_buffer \subseteq send_buffer'
      /\ \A m \in send_buffer' : m \in send_buffer
                                 \/ (m[1] = u /\ <<m[2], m[1]>> \in edges)
      /\ \A v \in D : <<v, u>> \in edges
  BY <1>1
<1> QED BY <1>1, <1>3, <1>4, BwVisitStep
-----------------------------------------------------------------------------
(* The cache                                                               *)

\* In the forward search an inserted vertex was sent to or heard from, and
\* a drained vertex has sent to its successors elsewhere.
LEMMA CacheFwDrainStep ==
  ASSUME TypeOK, SearchInv, CacheInv, NEW u \in Vertices, CacheFwDrain(u), TypeOK'
  PROVE  CacheInv'
<1> DEFINE New == FwFresh({y \in Succ(edges, u) : Rank(y) = Rank(u)})
<1>1. /\ phase = "forward" /\ phase' = "forward"
      /\ input' = input /\ edges' = edges /\ recv_buffer' = recv_buffer
      /\ \A v : Rank(v)' = Rank(v)
      /\ \A r : Local(r)' = Local(r)
  BY DEF CacheFwDrain, FwDrain, edges, Rank, Local
<1>2. Rank(u) \in Ranks
  BY InputFacts DEF TypeOK
<1>3. /\ cache \in [Ranks -> SUBSET Vertices]
      /\ cache' = [cache EXCEPT ![Rank(u)] = @ \cup Remote(Succ(edges, u), u)]
  BY DEF CacheFwDrain, Insert, CacheInv, CacheTypeOK
<1>4. send_buffer' = send_buffer \cup ({u} \X Remote(Succ(edges, u), u))
  BY DEF CacheFwDrain, FwDrain, Remote
<1>n. /\ is_reached' = is_reached \cup New
      /\ \A v \in Vertices : active'[v] = active[v] + (IF v \in New THEN 1 ELSE 0)
                                                 - (IF v = u THEN 1 ELSE 0)
  BY PopPushAt DEF CacheFwDrain, FwDrain
<1> HIDE DEF New
<1>5. Messages' = Messages \cup ({u} \X Remote(Succ(edges, u), u))
  BY <1>1, <1>4 DEF Messages
<1>6. CacheTypeOK'
  <2>1. cache' \in [Ranks -> SUBSET Vertices]
    BY <1>3 DEF Remote, Succ
  <2>2. ASSUME NEW r \in Ranks PROVE cache'[r] \cap Local(r) = {}
    BY <1>2, <1>3 DEF CacheInv, CacheTypeOK, Remote, Local
  <2>3. \A m \in Messages' : Rank(m[1]) # Rank(m[2])
    BY <1>5 DEF CacheInv, CacheTypeOK, Remote
  <2> QED BY <1>1, <2>1, <2>2, <2>3 DEF CacheTypeOK
<1>7. CacheCoversReached'
  <2> SUFFICES ASSUME NEW w \in is_reached', NEW x \in Remote(Succ(edges, w), w)
               PROVE  \/ w \in cache'[Rank(x)]
                      \/ active'[w] > 0 \/ <<w, x>> \in Messages'
    BY <1>1 DEF CacheCoversReached, Remote
  <2>1. w \in Vertices /\ x \in Vertices
    BY DEF TypeOK, Remote, Succ
  <2>2. Rank(x) \in Ranks
    BY <2>1, InputFacts DEF TypeOK
  <2>4. CASE w = u
    BY <1>5, <2>4
  <2>5. CASE w # u /\ w \in is_reached
    <3>1. w \in cache[Rank(x)] \/ active[w] > 0 \/ <<w, x>> \in Messages
      BY <1>1, <2>5 DEF CacheInv, CacheCoversReached
    <3>2. active[w] > 0 => active'[w] > 0
      BY <1>n, <2>1, <2>5 DEF TypeOK
    <3> QED BY <1>2, <1>3, <1>5, <2>2, <3>1, <3>2
  <2>6. CASE w # u /\ w \notin is_reached
    BY <1>n, <2>1, <2>6 DEF TypeOK
  <2> QED BY <2>4, <2>5, <2>6
<1> QED BY <1>1, <1>6, <1>7 DEF CacheInv, AskedOnce

\* Receiving a forward message keeps the cache's invariant: the
\* receiver notes its sender, which the message shows to be reached.
LEMMA CacheFwReceiveStep ==
  ASSUME TypeOK, SearchInv, CacheInv, NEW m \in recv_buffer, CacheFwReceive(m), TypeOK'
  PROVE  CacheInv'
<1> DEFINE New == FwFresh({m[2]})
<1>1. /\ phase = "forward" /\ phase' = "forward"
      /\ input' = input /\ edges' = edges /\ send_buffer' = send_buffer
      /\ recv_buffer' = recv_buffer \ {m}
      /\ \A v : Rank(v)' = Rank(v)
      /\ \A r : Local(r)' = Local(r)
  BY DEF CacheFwReceive, FwReceive, edges, Rank, Local
<1>2. /\ m[1] \in Vertices /\ m[2] \in Vertices /\ m = <<m[1], m[2]>>
      /\ Rank(m[2]) \in Ranks /\ Rank(m[1]) # Rank(m[2])
  BY InputFacts DEF TypeOK, CacheInv, CacheTypeOK, Messages
<1>3. /\ cache \in [Ranks -> SUBSET Vertices]
      /\ cache' = [cache EXCEPT ![Rank(m[2])] = @ \cup {m[1]}]
  BY DEF CacheFwReceive, Insert, CacheInv, CacheTypeOK
<1>n. /\ is_reached' = is_reached \cup New
      /\ \A v \in Vertices : active'[v] = active[v] + (IF v \in New THEN 1 ELSE 0)
  <2>1. active' = Push(New)
    BY DEF CacheFwReceive, FwReceive
  <2> QED BY <2>1, PushAt DEF CacheFwReceive, FwReceive
<1> HIDE DEF New
<1>5. Messages' \subseteq Messages /\ Messages \subseteq Messages' \cup {m}
  BY <1>1 DEF Messages
<1>6. CacheTypeOK'
  <2>1. cache' \in [Ranks -> SUBSET Vertices]
    BY <1>2, <1>3
  <2>2. ASSUME NEW r \in Ranks PROVE cache'[r] \cap Local(r) = {}
    BY <1>2, <1>3 DEF CacheInv, CacheTypeOK, Local
  <2>3. \A o \in Messages' : Rank(o[1]) # Rank(o[2])
    BY <1>5 DEF CacheInv, CacheTypeOK
  <2> QED BY <1>1, <2>1, <2>2, <2>3 DEF CacheTypeOK
<1>7. CacheCoversReached'
  <2> SUFFICES ASSUME NEW w \in is_reached', NEW x \in Remote(Succ(edges, w), w)
               PROVE  \/ w \in cache'[Rank(x)]
                      \/ active'[w] > 0 \/ <<w, x>> \in Messages'
    BY <1>1 DEF CacheCoversReached, Remote
  <2>1. w \in Vertices /\ x \in Vertices
    BY DEF TypeOK, Remote, Succ
  <2>2. Rank(x) \in Ranks
    BY <2>1, InputFacts DEF TypeOK
  <2>4. CASE w \in is_reached
    <3>1. w \in cache[Rank(x)] \/ active[w] > 0 \/ <<w, x>> \in Messages
      BY <1>1, <2>4 DEF CacheInv, CacheCoversReached
    <3>2. active[w] > 0 => active'[w] > 0
      BY <1>n, <2>1 DEF TypeOK
    <3> QED BY <1>2, <1>3, <1>5, <2>2, <3>1, <3>2
  <2>5. CASE w \notin is_reached
    BY <1>n, <2>1, <2>5 DEF TypeOK
  <2> QED BY <2>4, <2>5
<1> QED BY <1>1, <1>6, <1>7 DEF CacheInv, AskedOnce

\* The steps of all ranks leave the cache alone.  At the end of the forward
\* search nothing is active or under way: all that was owed is noted.
LEMMA CacheCollectiveStep ==
  ASSUME TypeOK, SearchInv, CacheInv, Exchange \/ FwEnd \/ BwEnd, cache' = cache, TypeOK'
  PROVE  CacheInv'
<1>1. /\ input' = input /\ edges' = edges
      /\ \A v : Rank(v)' = Rank(v)
      /\ \A r : Local(r)' = Local(r)
      /\ Messages' = Messages
  BY DEF Exchange, FwEnd, BwEnd, edges, Rank, Local, Messages, AllAtComm
<1>2. CacheTypeOK'
  BY <1>1 DEF CacheInv, CacheTypeOK
<1>3. CASE Exchange
  <2>1. \A v : Asked(v)' = Asked(v)
    BY <1>1 DEF Asked
  <2>2. phase' = phase /\ is_reached' = is_reached /\ active' = active
    BY <1>3 DEF Exchange
  <2>3. CacheCoversReached'
    BY <1>1, <2>1, <2>2 DEF CacheInv, CacheCoversReached, Remote
  <2>4. AskedOnce'
    BY <1>1, <2>2 DEF CacheInv, AskedOnce
  <2> QED BY <1>2, <2>3, <2>4 DEF CacheInv
<1>4. CASE FwEnd
  <2>1. /\ phase = "forward" /\ phase' = "backward" /\ Messages = {}
        /\ is_reached' = is_reached \ {root}
        /\ \A v \in Vertices : active[v] = 0
    BY <1>4 DEF FwEnd, AllAtComm, Messages, DecideAll
  <2>2. \A w \in is_reached : \A x \in Remote(Succ(edges, w), w) : w \in cache[Rank(x)]
    BY <2>1 DEF CacheInv, CacheCoversReached, TypeOK
  <2>3. CacheCoversReached'
    BY <1>1, <2>1, <2>2 DEF CacheCoversReached, Remote
  <2>4. AskedOnce'
    BY <1>1, <2>1 DEF AskedOnce
  <2> QED BY <1>2, <2>3, <2>4 DEF CacheInv
<1>5. CASE BwEnd
  BY <1>2, <1>5 DEF BwEnd, CacheInv, CacheCoversReached, AskedOnce
<1> QED BY <1>3, <1>4, <1>5

\* Backward, what is struck out has been asked, or was found already.
LEMMA CacheBwDrainCache ==
  ASSUME TypeOK, SearchInv, CacheInv, NEW u \in Vertices, CacheBwDrain(u), TypeOK'
  PROVE  CacheInv'
<1>1. PICK D \in SUBSET is_reached, noted \in SUBSET Vertices :
           /\ phase = "backward" /\ phase' = "backward" /\ input' = input
           /\ noted = Remote(Pred(edges, u), u) \cap cache[Rank(u)]
           /\ DecideAll(D)
           /\ send_buffer' = send_buffer \cup ({u} \X noted)
           /\ cache' = [cache EXCEPT ![Rank(u)] = @ \ noted]
           /\ recv_buffer' = recv_buffer
  BY CacheBwDrainFacts DEF Invalidate
<1>2. /\ edges' = edges
      /\ \A v : Rank(v)' = Rank(v)
      /\ \A r : Local(r)' = Local(r)
      /\ Messages' = Messages \cup ({u} \X noted)
      /\ is_reached' \subseteq is_reached
  BY <1>1 DEF edges, Rank, Local, Messages, DecideAll
<1>3. /\ cache \in [Ranks -> SUBSET Vertices]
      /\ \A v \in Vertices : Rank(v) \in Ranks
      /\ \A w \in noted : Rank(w) # Rank(u)
  BY <1>1, InputFacts DEF CacheInv, CacheTypeOK, TypeOK, Remote
<1>7. cache' \in [Ranks -> SUBSET Vertices] /\ \A r \in Ranks : cache'[r] \subseteq cache[r]
  BY <1>1, <1>3
<1>4. CacheTypeOK'
  <2>1. \A m \in Messages' : Rank(m[1]) # Rank(m[2])
    BY <1>2, <1>3 DEF CacheInv, CacheTypeOK
  <2> QED BY <1>2, <1>7, <2>1 DEF CacheInv, CacheTypeOK
<1>5. CacheCoversReached'
  <2> SUFFICES ASSUME NEW w \in is_reached', NEW x \in Remote(Succ(edges, w), w),
                      w \notin cache'[Rank(x)]
               PROVE  Asked(w)'
    BY <1>1, <1>2 DEF CacheCoversReached, Remote
  <2>1. w \in is_reached /\ x \in Vertices
    BY <1>2 DEF Remote, Succ
  <2>2. CASE w \in cache[Rank(x)]
    <3>1. w \in noted
      BY <1>1, <1>3, <2>1, <2>2
    <3>2. <<u, w>> \in Messages'
      BY <1>2, <3>1
    <3> QED BY <3>2 DEF Asked
  <2>3. CASE w \notin cache[Rank(x)]
    <3>1. Asked(w)
      BY <1>1, <2>1, <2>3 DEF CacheInv, CacheCoversReached
    <3> QED BY <1>2, <3>1 DEF Asked
  <2> QED BY <2>2, <2>3
<1>6. AskedOnce'
  <2> SUFFICES ASSUME NEW m \in Messages', NEW o \in Messages'
               PROVE  /\ m[2] \notin cache'[Rank(m[1])]
                      /\ m[2] = o[2] /\ Rank(m[1]) = Rank(o[1]) => m = o
    BY <1>2 DEF AskedOnce
  <2>1. /\ m \in Vertices \X Vertices /\ o \in Vertices \X Vertices
        /\ Rank(m[1]) \in Ranks
    BY <1>2, <1>3 DEF TypeOK, Messages
  <2>2. \A k \in Messages : /\ k[2] \notin cache[Rank(k[1])]
                            /\ Rank(k[1]) = Rank(u) => k[2] \notin noted
    BY <1>1 DEF CacheInv, AskedOnce
  <2>5. \A k \in {m, o} : k \in Messages \/ (k[1] = u /\ k[2] \in noted)
    BY <1>2
  <2>3. m[2] \notin cache'[Rank(m[1])]
    <3>1. cache'[Rank(u)] = cache[Rank(u)] \ noted
      BY <1>1, <1>3
    <3>2. CASE m \in Messages
      BY <1>7, <2>1, <2>2, <3>2
    <3>3. CASE m[1] = u /\ m[2] \in noted
      BY <3>1, <3>3
    <3> QED BY <2>5, <3>2, <3>3
  <2>4. ASSUME m[2] = o[2], Rank(m[1]) = Rank(o[1]) PROVE m = o
    <3>1. CASE m \in Messages /\ o \in Messages
      BY <1>1, <2>4, <3>1 DEF CacheInv, AskedOnce
    <3>2. CASE m \notin Messages \/ o \notin Messages
      BY <2>1, <2>2, <2>4, <2>5, <3>2
    <3> QED BY <3>1, <3>2
  <2> QED BY <2>3, <2>4
<1> QED BY <1>4, <1>5, <1>6 DEF CacheInv

\* Receiving a backward message keeps the cache's invariant: the
\* receiver forgets its sender, which the message shows to be decided.
LEMMA CacheBwReceiveStep ==
  ASSUME TypeOK, SearchInv, CacheInv, NEW m \in recv_buffer, CacheBwReceive(m), TypeOK'
  PROVE  CacheInv'
<1> DEFINE D == BwFresh({m[2]})
<1>1. /\ phase = "backward" /\ phase' = "backward" /\ input' = input
      /\ is_reached' = is_reached \ D
      /\ m[2] \in is_reached => m[2] \in D
      /\ cache' = [cache EXCEPT ![Rank(m[2])] = @ \ {m[1]}]
      /\ recv_buffer' = recv_buffer \ {m} /\ send_buffer' = send_buffer
  BY DEF CacheBwReceive, BwReceive, BwFresh, DecideAll, Invalidate
<1> HIDE DEF D
<1>2. /\ edges' = edges
      /\ \A v : Rank(v)' = Rank(v)
      /\ \A r : Local(r)' = Local(r)
      /\ Messages' \subseteq Messages /\ Messages \subseteq Messages' \cup {m}
  BY <1>1 DEF edges, Rank, Local, Messages
<1>3. /\ cache \in [Ranks -> SUBSET Vertices]
      /\ \A v \in Vertices : Rank(v) \in Ranks
      /\ m[1] \in Vertices /\ m[2] \in Vertices
  BY InputFacts DEF CacheInv, CacheTypeOK, TypeOK
<1>4. m[1] \notin is_reached
  BY <1>1 DEF SearchInv, BackwardInv, Messages, Found, ReachedProtectsUndecided
<1>5. cache' \in [Ranks -> SUBSET Vertices] /\ \A r \in Ranks : cache'[r] \subseteq cache[r]
  BY <1>1, <1>3
<1>6. CacheTypeOK'
  BY <1>2, <1>5 DEF CacheInv, CacheTypeOK
<1>7. CacheCoversReached'
  <2> SUFFICES ASSUME NEW w \in is_reached', NEW x \in Remote(Succ(edges, w), w),
                      w \notin cache'[Rank(x)]
               PROVE  Asked(w)'
    BY <1>1, <1>2 DEF CacheCoversReached, Remote
  <2>1. w \in is_reached /\ w # m[2] /\ w # m[1] /\ x \in Vertices
    BY <1>1, <1>4 DEF Remote, Succ
  <2>2. w \notin cache[Rank(x)]
    BY <1>1, <1>3, <2>1
  <2>3. PICK k \in Messages : k[2] = w
    BY <1>1, <2>1, <2>2 DEF CacheInv, CacheCoversReached, Asked
  <2> QED BY <1>2, <2>1, <2>3 DEF Asked
<1>8. AskedOnce'
  <2>1. \A k \in Messages' : Rank(k[1]) \in Ranks
    BY <1>2, <1>3 DEF TypeOK, Messages
  <2> QED BY <1>1, <1>2, <1>5, <2>1 DEF CacheInv, AskedOnce
<1> QED BY <1>6, <1>7, <1>8 DEF CacheInv
-----------------------------------------------------------------------------
(* Either search                                                           *)

\* The inductive invariant.
EitherSearchInv ==
  TypeOK /\ SearchInv /\ CachedInv /\ search \in {"plain", "cached"}

\* Either search starts in the inductive invariant.
LEMMA EitherSearchInit == EitherInit => EitherSearchInv
<1> SUFFICES ASSUME EitherInit PROVE EitherSearchInv
  OBVIOUS
<1>1. TypeOK /\ SearchInv
  BY TypeInit, SearchInit DEF EitherInit, CacheInit
<1>2. Messages = {} /\ phase = "forward" /\ cache = [r \in Ranks |-> {}]
  BY DEF EitherInit, CacheInit, Init, Messages
<1>3. CacheTypeOK
  BY <1>1, <1>2 DEF CacheTypeOK
<1>4. CacheCoversReached
  <2>1. \A w \in is_reached : active[w] > 0
    BY InputFacts DEF EitherInit, CacheInit, Init
  <2> QED BY <1>2, <2>1 DEF CacheCoversReached
<1> QED BY <1>1, <1>2, <1>3, <1>4 DEF EitherInit, EitherSearchInv, CachedInv, CacheInv, AskedOnce

\* Every step of the cached search keeps the types, the search's invariant
\* and the cache's.
LEMMA CachedNext == TypeOK /\ SearchInv /\ CacheInv /\ CacheNext
                      => TypeOK' /\ SearchInv' /\ CacheInv'
<1> SUFFICES ASSUME TypeOK, SearchInv, CacheInv, CacheNext
             PROVE  TypeOK' /\ SearchInv' /\ CacheInv'
  OBVIOUS
<1>1. TypeOK' /\ SearchInv'
  <2>1. CASE [Next]_vars
    BY <2>1, TypeNext, SearchNext
  <2>2. ASSUME NEW u \in Vertices, CacheBwDrain(u) PROVE TypeOK' /\ SearchInv'
    BY <2>2, CacheBwDrainType, CacheBwDrainStep
  <2> QED BY <2>1, <2>2, CacheSteps
<1>2. ASSUME NEW u \in Vertices, CacheFwDrain(u) PROVE CacheInv'
  BY <1>1, <1>2, CacheFwDrainStep
<1>3. ASSUME NEW u \in Vertices, CacheBwDrain(u) PROVE CacheInv'
  BY <1>1, <1>3, CacheBwDrainCache
<1>4. ASSUME NEW m \in recv_buffer, CacheFwReceive(m) PROVE CacheInv'
  BY <1>1, <1>4, CacheFwReceiveStep
<1>5. ASSUME NEW m \in recv_buffer, CacheBwReceive(m) PROVE CacheInv'
  BY <1>1, <1>5, CacheBwReceiveStep
<1>6. CASE (Exchange \/ FwEnd \/ BwEnd) /\ UNCHANGED cache
  BY <1>1, <1>6, CacheCollectiveStep
<1>7. CASE Returned /\ UNCHANGED cache
  BY <1>1, <1>7 DEF Returned, vars, CacheInv, CacheTypeOK, CacheCoversReached,
     AskedOnce, Messages, Asked, Local, Rank, edges, Remote
<1> QED BY <1>1, <1>2, <1>3, <1>4, <1>5, <1>6, <1>7 DEF CacheNext

\* Every step of either search keeps the inductive invariant.
LEMMA EitherSearchNext == EitherSearchInv /\ [EitherNext]_searchVars => EitherSearchInv'
<1> SUFFICES ASSUME EitherSearchInv, [EitherNext]_searchVars PROVE EitherSearchInv'
  OBVIOUS
<1>1. CASE search = "plain" /\ Next /\ UNCHANGED search
  BY <1>1, TypeNext, SearchNext DEF EitherSearchInv, CachedInv
<1>2. CASE search = "cached" /\ CacheNext /\ UNCHANGED search
  BY <1>2, CachedNext DEF EitherSearchInv, CachedInv
<1>3. CASE UNCHANGED searchVars
  <2>1. TypeOK' /\ SearchInv'
    BY <1>3, TypeNext, SearchNext DEF EitherSearchInv, searchVars, cacheVars
  <2> QED BY <1>3, <2>1 DEF EitherSearchInv, searchVars, cacheVars, vars, CachedInv,
     CacheInv, CacheTypeOK, CacheCoversReached, AskedOnce, Messages, Asked, Local,
     Rank, edges, Remote
<1> QED BY <1>1, <1>2, <1>3 DEF EitherNext

\* Both searches keep SearchInv, and the cache keeps to what it is for.
THEOREM EitherSearchInvariant == EitherSpec => []EitherSearchInv
BY EitherSearchInit, EitherSearchNext, PTL DEF EitherSpec
-----------------------------------------------------------------------------
(* The properties of the run, for every value of the constants             *)

\* The cache covers the reached vertices, and nobody is asked twice by a rank.
THEOREM CacheIsRight == EitherSpec => []CachedInv
<1>1. EitherSearchInv => CachedInv
  BY DEF EitherSearchInv
<1> QED BY <1>1, EitherSearchInvariant, PTL

\* With or without the cache exactly the pivot's component is decided, the
\* stacks fit and the records agree.
THEOREM EitherIsRight == EitherSpec => [](SearchInv /\ WholePivotComponent)
<1>1. EitherSearchInv => SearchInv /\ WholePivotComponent
  BY DEF EitherSearchInv, SearchInv
<1> QED BY <1>1, EitherSearchInvariant, PTL

\* A backward drain of the cached search takes back no id either.
LEMMA EitherLabellingStep ==
  EitherSearchInv /\ EitherSearchInv' /\ [EitherNext]_searchVars
    => [Labelling!Next]_(Labelling!labellingVars)
<1> SUFFICES ASSUME EitherSearchInv, EitherSearchInv', [EitherNext]_searchVars
             PROVE  [Labelling!Next]_(Labelling!labellingVars)
  OBVIOUS
<1>1. TypeOK /\ SearchInv /\ TypeOK' /\ SearchInv'
  BY DEF EitherSearchInv
<1>2. CASE [Next]_vars
  BY <1>1, <1>2, LabellingStep
<1>3. ASSUME NEW u \in Vertices, CacheBwDrain(u) PROVE Labelling!Next
  <2>1. PICK D \in SUBSET is_reached : DecideAll(D) /\ input' = input
    BY <1>1, <1>3, CacheBwDrainFacts
  <2>2. \A v \in Vertices : scc_id[v] # Undecided => scc_id'[v] = scc_id[v]
    BY <1>1, <2>1 DEF DecideAll, SearchInv, ReachedProtectsUndecided
  <2>5. Labelling!Canonical(edges, scc_id)'
    BY <1>1, LabellingCanonical, PTL
  <2>3. edges' = edges /\ Labelling!Canonical(edges, scc_id)'
    BY <2>1, <2>5 DEF edges
  <2>4. Labelling!Canonical(edges, scc_id')
    BY <2>3 DEF Labelling!Canonical, Labelling!Decided
  <2> QED BY <1>1, <2>2, <2>3, <2>4 DEF Labelling!Next, Labelling!Decided, TypeOK
<1> QED BY <1>2, <1>3, CacheSteps DEF EitherNext, searchVars, cacheVars

\* Either search only gives undecided vertices the one id of their component.
THEOREM EitherRefinement == EitherSpec => ImplementsLabelling
<1>1. EitherInit => Labelling!Init
  BY LabellingInit DEF EitherInit, CacheInit
<1> QED BY <1>1, EitherSearchInvariant, EitherLabellingStep, PTL
        DEF EitherSpec, ImplementsLabelling, Labelling!Spec
=============================================================================
