------------------------ MODULE AsyncSearchesProofs ------------------------
(* Proofs about the asynchronous driver, for every graph, partition, pivot *)
(* and number of ranks, and whatever the order in which the ranks act and  *)
(* the queue hands over: every step keeps SearchesInv, from which the      *)
(* safety properties of both searches and the refinement follow.           *)
EXTENDS AsyncSearches, ReachableSetsProofs

\* What the callers' assumption says of the current input.
LEMMA InputFacts ==
  ASSUME input \in Inputs
  PROVE  /\ edges \in SUBSET (Vertices \X Vertices)
         /\ \A v \in Vertices : Rank(v) \in Ranks
         /\ pivot \in Vertices /\ Ranks # {}
         /\ input.trimmed \in SUBSET Vertices /\ pivot \notin input.trimmed
         /\ \A v \in input.trimmed : SCC(edges, v) = {v}
<1>1. input \in [edges : Graphs, owner : [Vertices -> Ranks],
                 trimmed : SUBSET Vertices, root : Vertices]
      /\ input.root \notin input.trimmed
      /\ \A v \in input.trimmed : SCC(input.edges, v) = {v}
  BY InputsAssumption
<1> QED BY <1>1 DEF edges, Rank, Graphs, pivot

\* A relabelling gives every vertex a label of its own, which unmap takes back.
LEMMA MapFacts ==
  ASSUME map \in Maps
  PROVE  /\ map \in [Vertices -> Nat]
         /\ \A u, v \in Vertices : map[u] = map[v] => u = v
         /\ \A v \in Vertices : unmap(map[v]) = v
<1>1. map \in [Vertices -> Nat] /\ \A u, v \in Vertices : map[u] = map[v] => u = v
  BY MapsAssumption
<1>2. ASSUME NEW v \in Vertices PROVE unmap(map[v]) = v
  BY <1>1 DEF unmap
<1> QED BY <1>1, <1>2

\* What the definitions that only depend on the input stand for, and on the
\* relabelling of the round.
LEMMA InputUnchanged ==
  ASSUME input' = input
  PROVE  /\ edges' = edges /\ pivot' = pivot
         /\ \A v : Rank(v)' = Rank(v)
         /\ \A r : Local(r)' = Local(r)
         /\ \A S : Within(S)' = Within(S)
         /\ map' = map => \A S, l, v : Genuine(S, l, v)' = Genuine(S, l, v)
BY DEF edges, pivot, Rank, Local, Within, Genuine

\* They are the same in the pivot search.
LEMMA PivotNames ==
  /\ PivotSearch!edges = edges /\ PivotSearch!root = pivot
  /\ \A v : PivotSearch!Rank(v) = Rank(v)
  /\ \A r : PivotSearch!Local(r) = Local(r)
  /\ \A r : PivotSearch!Idle(r) = Idle(r)
  /\ \A r : PivotSearch!Searching(r) = Searching(r)
  /\ \A E, u : PivotSearch!Succ(E, u) = Succ(E, u) /\ PivotSearch!Pred(E, u) = Pred(E, u)
  /\ \A u : PivotSearch!Neighbours(u) = Neighbours(u)
  /\ \A E, u : PivotSearch!SCC(E, u) = SCC(E, u)
  /\ \A r, p, q, t : PivotSearch!Terminate(r, p, q, t) = Terminate(r, p, q, t)
BY DEF edges, pivot, Rank, Local, Idle, Searching, Neighbours, SCC, Terminate, Succ, Pred,
       Reach, IsClosed,
       PivotSearch!edges, PivotSearch!root, PivotSearch!Rank, PivotSearch!Local,
       PivotSearch!Idle, PivotSearch!Searching, PivotSearch!Neighbours, PivotSearch!SCC,
       PivotSearch!Terminate, PivotSearch!Succ, PivotSearch!Pred, PivotSearch!Reach,
       PivotSearch!IsClosed

\* Its library is the same.
LEMMA PivotCounts == \A S : PivotSearch!Cardinality(S) = Cardinality(S)
BY DEF Cardinality, PivotSearch!Cardinality

\* The types of the state, whichever search runs.
LEMMA StateTypes ==
  ASSUME SearchesTypeOK
  PROVE  /\ input \in Inputs
         /\ edges \in SUBSET (Vertices \X Vertices)
         /\ \A v \in Vertices : Rank(v) \in Ranks /\ v \in Local(Rank(v))
         /\ \A r : Local(r) \in SUBSET Vertices
         /\ \A r : \A v \in Local(r) : Rank(v) = r
         /\ Ranks # {} /\ pivot \in Vertices
         /\ stage \in {"pivot", "trim", "label"}
         /\ at \in [Ranks -> {"call", "forward", "barrier", "backward", "sum", "done"}]
         /\ label \in [Vertices -> Nat] /\ label_k \in [Ranks -> Nat]
         /\ in_active \in SUBSET Vertices /\ is_undecided \in SUBSET Vertices
         /\ popped \in [Ranks -> SUBSET Vertices] /\ left \in [Ranks -> SUBSET Vertices]
         /\ scc_id \in [Vertices -> Vertices \cup {Undecided}]
         /\ local_decided \in [Ranks -> Nat]
<1>1. input \in Inputs
  BY DEF SearchesTypeOK
<1> QED BY <1>1, InputFacts DEF SearchesTypeOK, Local
-----------------------------------------------------------------------------
(* The records of what is decided                                          *)

\* D is decided: bits, ids and counters together.
Decides(D) ==
  /\ is_undecided' = is_undecided \ D
  /\ scc_id' \in [Vertices -> Vertices \cup {Undecided}]
  /\ \A v \in Vertices : IF v \in D THEN scc_id'[v] \in Vertices ELSE scc_id'[v] = scc_id[v]
  /\ local_decided' = [r \in Ranks |-> local_decided[r] + Cardinality(Local(r) \cap D)]

\* Deciding undecided vertices keeps the three records together.
LEMMA DecidesKeepsRecords ==
  ASSUME SearchesTypeOK, DecidedOnce, input' = input, NEW D \in SUBSET is_undecided, Decides(D)
  PROVE  /\ DecidedOnce'
         /\ is_undecided' \in SUBSET Vertices
         /\ scc_id' \in [Vertices -> Vertices \cup {Undecided}]
         /\ local_decided' \in [Ranks -> Nat]
<1>1. is_undecided \in SUBSET Vertices /\ Undecided \notin Vertices
  BY UndecidedAssumption, StateTypes
<1>2. \A r : Local(r)' = Local(r) /\ Local(r) \in SUBSET Vertices
  BY StateTypes, InputUnchanged
<1>3. scc_id' \in [Vertices -> Vertices \cup {Undecided}] /\ is_undecided' = is_undecided \ D
  BY DEF Decides
<1>4. is_undecided' = {v \in Vertices : scc_id'[v] = Undecided}
  BY <1>1 DEF DecidedOnce, Decides
<1>5. ASSUME NEW r \in Ranks
      PROVE  /\ local_decided'[r] = Cardinality(Local(r) \ is_undecided')
             /\ local_decided'[r] \in Nat
  <2>1. IsFiniteSet(Local(r))
    BY <1>2, VerticesAssumption, FS_Subset
  <2>2. local_decided'[r] = Cardinality(Local(r) \ is_undecided) + Cardinality(Local(r) \cap D)
    BY DEF Decides, DecidedOnce
  <2>3. /\ Cardinality(Local(r) \ (is_undecided \ D))
             = Cardinality(Local(r) \ is_undecided) + Cardinality(Local(r) \cap D)
        /\ Cardinality(Local(r) \ (is_undecided \ D)) \in Nat
    BY <2>1, CountMore
  <2> QED BY <1>3, <2>2, <2>3
<1>6. local_decided' \in [Ranks -> Nat]
  BY <1>5 DEF Decides
<1> QED BY <1>1, <1>2, <1>3, <1>4, <1>5, <1>6 DEF DecidedOnce

\* They stay where nothing is decided.
LEMMA RecordsStay ==
  ASSUME DecidedOnce, UNCHANGED <<input, is_undecided, scc_id, local_decided>>
  PROVE  DecidedOnce'
<1>1. \A r : Local(r)' = Local(r)
  BY InputUnchanged
<1> QED BY <1>1 DEF DecidedOnce

\* The counters sum up to n when every vertex is decided, and to less before.
LEMMA AllDecided ==
  ASSUME SearchesTypeOK, DecidedOnce
  PROVE  /\ global_decided = Cardinality(Vertices) <=> is_undecided = {}
         /\ global_decided < Cardinality(Vertices) <=> is_undecided # {}
<1> DEFINE S == Vertices \ is_undecided
<1>1. IsFiniteSet(S) /\ IsFiniteSet(Vertices) /\ S \subseteq Vertices
  BY VerticesAssumption, FS_Subset
<1>2. \A v \in S : input.owner[v] \in Ranks
  BY StateTypes DEF Rank
<1>3. \A r \in Ranks : local_decided[r] = Cardinality({v \in S : input.owner[v] = r})
  <2>1. \A r \in Ranks : Local(r) \ is_undecided = {v \in S : input.owner[v] = r}
    BY DEF Local, Rank
  <2> QED BY <2>1 DEF DecidedOnce
<1>4. DOMAIN local_decided = Ranks
  BY StateTypes
<1>s. S = Vertices <=> is_undecided = {}
  BY StateTypes
<1> HIDE DEF S
<1>5. global_decided = Cardinality(S)
  <2>1. CountsMembers(local_decided, S, Ranks, input.owner)
    BY <1>2, <1>3, <1>4 DEF CountsMembers
  <2>2. SumOverRanks(local_decided) = Cardinality(S)
    BY <1>1, <2>1, SumCountsAll
  <2> QED BY <2>2 DEF global_decided
<1>6. /\ Cardinality(S) \in Nat /\ Cardinality(Vertices) \in Nat
      /\ Cardinality(S) <= Cardinality(Vertices)
      /\ Cardinality(S) = Cardinality(Vertices) <=> S = Vertices
  <2>1. Cardinality(S) \in Nat /\ Cardinality(Vertices) \in Nat
    BY <1>1, FS_CardinalityType
  <2> QED BY <1>1, <2>1, FS_Subset
<1> QED BY <1>5, <1>6, <1>s
-----------------------------------------------------------------------------
(* The work of the ranks                                                   *)

\* A rank goes on with its search: with the vertex it visits, what is left of
\* its edges, and the stacks.
Works(r) ==
  /\ r \in Ranks /\ Searching(r) /\ ~ NothingLeft
  /\ UNCHANGED <<input, at>>
  /\ \A s \in Ranks \ {r} : popped'[s] = popped[s] /\ left'[s] = left[s]
  /\ popped'[r] \subseteq Local(r) /\ \A u, w \in popped'[r] : u = w
  /\ popped'[r] = {} => left'[r] = {}
  /\ \A u \in popped'[r] : left'[r] \subseteq Neighbours(u)
  /\ active' \in [Vertices -> {0, 1}]
  /\ \A v \in Vertices : at[Rank(v)] = "call" => active'[v] = 0

\* In the middle of a search no rank has left it, and the ranks stay together.
LEMMA WorksKeepsWork ==
  ASSUME SearchesTypeOK, WorkInv, NEW r, Works(r)
  PROVE  /\ WorkInv'
         /\ \A s \in Ranks : at[s] \in {"call", "forward", "backward"}
<1>1. /\ at' = at /\ r \in Ranks /\ Searching(r) /\ ~ NothingLeft
      /\ \A v : Rank(v)' = Rank(v)
      /\ \A s : Local(s)' = Local(s)
      /\ edges' = edges
  BY InputUnchanged DEF Works
<1>2. \A s \in Ranks : at[s] \in {"call", "forward", "backward"}
  BY <1>1, StateTypes DEF WorkInv
<1>3. \A u \in Vertices : Neighbours(u)' = Neighbours(u)
  BY <1>1 DEF Neighbours
<1>4. ASSUME NEW s \in Ranks
      PROVE  /\ popped'[s] \subseteq Local(s) /\ \A u, w \in popped'[s] : u = w
             /\ popped'[s] = {} => left'[s] = {}
             /\ ~ Searching(s) => popped'[s] = {}
             /\ \A u \in popped'[s] : left'[s] \subseteq Neighbours(u)
  <2>1. CASE s = r
    BY <2>1 DEF Works
  <2>2. CASE s # r
    BY <2>2 DEF Works, WorkInv
  <2> QED BY <2>1, <2>2
<1>5. \A s \in Ranks : Searching(s)' <=> Searching(s)
  BY <1>1 DEF Searching
<1>6. Forward' \/ Backward'
  BY <1>1 DEF WorkInv, Forward, Backward
<1>7. \A s \in Ranks : \A u \in popped'[s] : u \in Vertices
  BY <1>4, StateTypes
<1>8. WorkInv'
  BY <1>1, <1>2, <1>3, <1>4, <1>5, <1>6, <1>7 DEF WorkInv, Works
<1> QED BY <1>2, <1>8

\* A rank that has neighbours left to visit is at the edges of one vertex.
LEMMA VisitsEdges ==
  ASSUME SearchesTypeOK, WorkInv, NEW r \in Ranks, NEW v \in left[r]
  PROVE  /\ Searching(r) /\ ~ NothingLeft
         /\ v \in Vertices
         /\ \E u \in popped[r] : /\ popped[r] = {u} /\ u \in Vertices /\ Rank(u) = r
                                 /\ v \in Neighbours(u)
<1>1. popped[r] # {} /\ Searching(r)
  BY DEF WorkInv
<1>2. PICK u \in popped[r] : TRUE
  BY <1>1
<1>3. popped[r] = {u} /\ u \in Local(r) /\ v \in Neighbours(u)
  BY <1>2 DEF WorkInv
<1> QED BY <1>1, <1>3, StateTypes DEF NothingLeft

\* A rank whose stack has a vertex, or that gets a message, is not through.
LEMMA HasWork ==
  ASSUME SearchesTypeOK, WorkInv
  PROVE  /\ \A u \in Vertices : Searching(Rank(u)) /\ active[u] > 0 => ~ NothingLeft
         /\ \A r \in Ranks : popped[r] # {} => Searching(r) /\ ~ NothingLeft
         /\ \A m \in network : ~ NothingLeft
<1>1. ASSUME NEW u \in Vertices, Searching(Rank(u)), active[u] > 0
      PROVE  ~ NothingLeft
  BY <1>1 DEF NothingLeft, Searching
<1> QED BY <1>1 DEF NothingLeft, WorkInv

\* A rank begins the forward search.
LEMMA BeginWork ==
  ASSUME SearchesTypeOK, WorkInv, NEW r \in Ranks,
         at[r] = "call", at' = [at EXCEPT ![r] = "forward"],
         UNCHANGED <<input, popped, left, network>>,
         active' \in [Vertices -> {0, 1}],
         \A v \in Vertices : Rank(v) # r => active'[v] = active[v]
  PROVE  /\ WorkInv' /\ Forward /\ Forward'
         /\ popped[r] = {} /\ left[r] = {} /\ \A v \in Vertices : Rank(v) = r => active[v] = 0
         /\ \A s \in Ranks : at[s] \in {"call", "forward"} /\ at'[s] \in {"call", "forward"}
<1>1. ~ NothingLeft
  BY DEF NothingLeft
<1>2. \A s \in Ranks : at[s] \in {"call", "forward"}
  BY <1>1 DEF WorkInv, Forward, Backward
<1>3. /\ at'[r] = "forward" /\ \A s \in Ranks \ {r} : at'[s] = at[s]
  BY StateTypes
<1>4. popped[r] = {} /\ left[r] = {}
  BY DEF WorkInv, Searching
<1>5. /\ \A v : Rank(v)' = Rank(v)
      /\ \A s : Local(s)' = Local(s)
      /\ edges' = edges
  BY InputUnchanged
<1>6. \A s \in Ranks : \A u \in popped[s] : u \in Vertices /\ Rank(u) = s
  BY StateTypes DEF WorkInv
<1>7. \A s \in Ranks : \A u \in popped[s] : Neighbours(u)' = Neighbours(u)
  BY <1>3, <1>4, <1>5, <1>6 DEF Neighbours
<1>8. Forward /\ Forward' /\ \A s \in Ranks : at'[s] \in {"call", "forward"}
  BY <1>2, <1>3 DEF Forward
<1>9. \A s \in Ranks : ~ Searching(s)' => popped[s] = {}
  BY <1>3 DEF WorkInv, Searching
<1>10. \A v \in Vertices : Rank(v) = r => active[v] = 0
  BY DEF WorkInv
<1>11. \A v \in Vertices : at'[Rank(v)] = "call" => active'[v] = 0
  BY <1>3, StateTypes DEF WorkInv
<1>12. WorkInv'
  BY <1>3, <1>4, <1>5, <1>7, <1>8, <1>9, <1>11 DEF WorkInv
<1> QED BY <1>2, <1>4, <1>8, <1>10, <1>12

\* A rank leaves the forward search: nothing was left.
LEMMA FwTerminateWork ==
  ASSUME SearchesTypeOK, WorkInv, NEW r \in Ranks,
         Terminate(r, "call", "forward", "barrier"),
         UNCHANGED <<input, popped, left, network>>,
         active' \in [Vertices -> {0, 1}],
         \A v \in Vertices : Rank(v) # r => active'[v] = active[v]
  PROVE  /\ WorkInv' /\ Forward /\ Forward' /\ NothingLeft'
         /\ network = {} /\ \A s \in Ranks : popped[s] = {} /\ left[s] = {}
         /\ \A v \in Vertices : at[Rank(v)] = "forward" => active[v] = 0
         /\ at[r] = "forward" /\ at'[r] = "barrier"
         /\ \A s \in Ranks \ {r} : at'[s] = at[s]
         /\ \A s \in Ranks : at[s] \in {"forward", "barrier"}
<1>1. at[r] = "forward" /\ network = {}
      /\ \A s \in Ranks : at[s] # "call" /\ (at[s] = "forward" => Idle(s))
  BY DEF Terminate
<1>2. /\ at'[r] = "barrier" /\ \A s \in Ranks \ {r} : at'[s] = at[s]
  BY StateTypes DEF Terminate
<1>3. Forward /\ \A s \in Ranks : at[s] \in {"forward", "barrier"}
  BY <1>1 DEF WorkInv, Forward, Backward
<1>4. \A s \in Ranks : popped[s] = {} /\ left[s] = {}
  BY <1>1, <1>3 DEF WorkInv, Searching, Idle
<1>5. \A v \in Vertices : at[Rank(v)] = "forward" => active[v] = 0
  BY <1>1, StateTypes DEF Idle
<1>6. \A s \in Ranks : at'[s] \in {"forward", "barrier"}
  BY <1>2, <1>3
<1>7. /\ \A v : Rank(v)' = Rank(v)
      /\ \A s : Local(s)' = Local(s)
  BY InputUnchanged
<1>8. \A v \in Vertices : at'[Rank(v)] # "barrier" => active'[v] = 0
  BY <1>2, <1>3, <1>5, StateTypes
<1>9. NothingLeft'
  BY <1>1, <1>4, <1>6, <1>7, <1>8 DEF NothingLeft
<1>10. Forward'
  BY <1>6 DEF Forward
<1>11. \A v \in Vertices : at'[Rank(v)] # "call"
  BY <1>6, StateTypes
<1>12. WorkInv'
  BY <1>4, <1>7, <1>9, <1>10, <1>11 DEF WorkInv
<1> QED BY <1>1, <1>2, <1>3, <1>4, <1>5, <1>9, <1>10, <1>12

\* All ranks pass the barrier between the searches.
LEMMA BarrierWork ==
  ASSUME SearchesTypeOK, WorkInv,
         \A r \in Ranks : at[r] = "barrier", at' = [r \in Ranks |-> "backward"],
         UNCHANGED <<input, active, popped, left, network>>
  PROVE  /\ WorkInv' /\ Forward /\ ~ Forward' /\ Backward'
         /\ network = {} /\ \A s \in Ranks : popped[s] = {} /\ left[s] = {}
         /\ \A s \in Ranks : at'[s] = "backward"
<1>1. PICK r \in Ranks : TRUE
  BY StateTypes
<1>2. NothingLeft
  BY <1>1 DEF WorkInv
<1>3. network = {} /\ \A s \in Ranks : popped[s] = {} /\ left[s] = {}
  BY <1>2 DEF NothingLeft, WorkInv
<1>4. /\ \A v : Rank(v)' = Rank(v)
      /\ \A s : Local(s)' = Local(s)
  BY InputUnchanged
<1>5. \A s \in Ranks : at'[s] = "backward"
  OBVIOUS
<1>6. Forward /\ ~ Forward' /\ Backward'
  BY <1>1, <1>5 DEF Forward, Backward
<1>7. \A v \in Vertices : at'[Rank(v)] = "backward"
  BY <1>5, StateTypes
<1>8. WorkInv'
  BY <1>3, <1>4, <1>5, <1>6, <1>7 DEF WorkInv
<1> QED BY <1>3, <1>5, <1>6, <1>8

\* Where a rank has left the backward search, nothing is left.
LEMMA OverWork ==
  ASSUME SearchesTypeOK, WorkInv, \A r \in Ranks : at[r] # "barrier",
         \E r \in Ranks : at[r] \in {"sum", "done"}
  PROVE  /\ Backward /\ ~ Forward
         /\ network = {} /\ \A s \in Ranks : popped[s] = {} /\ left[s] = {}
         /\ \A v \in Vertices : active[v] = 0
<1>1. NothingLeft /\ Backward /\ ~ Forward
  BY DEF WorkInv, Forward, Backward
<1>2. \A v \in Vertices : active[v] = 0
  BY <1>1, StateTypes DEF NothingLeft
<1> QED BY <1>1, <1>2 DEF NothingLeft, WorkInv

\* A rank leaves the backward search: nothing was left.
LEMMA BwTerminateWork ==
  ASSUME SearchesTypeOK, WorkInv, NEW r \in Ranks, NEW next \in {"sum", "done"},
         Terminate(r, "barrier", "backward", next),
         UNCHANGED <<input, active, popped, left, network>>
  PROVE  /\ WorkInv' /\ Backward /\ Backward' /\ ~ Forward'
         /\ network = {} /\ \A s \in Ranks : popped[s] = {} /\ left[s] = {}
         /\ \A v \in Vertices : active[v] = 0
         /\ at'[r] = next /\ \A s \in Ranks \ {r} : at'[s] = at[s]
<1>1. at[r] = "backward" /\ network = {}
      /\ \A s \in Ranks : at[s] # "barrier" /\ (at[s] = "backward" => Idle(s))
  BY DEF Terminate
<1>2. /\ at'[r] = next /\ \A s \in Ranks \ {r} : at'[s] = at[s]
  BY StateTypes DEF Terminate
<1>3. Backward /\ \A s \in Ranks : at[s] \in {"backward", "sum", "done"}
  BY <1>1 DEF WorkInv, Forward, Backward
<1>4. \A s \in Ranks : at'[s] \in {"backward", "sum", "done"}
  BY <1>2, <1>3
<1>5. Backward' /\ ~ Forward'
  BY <1>2, <1>4 DEF Backward, Forward
<1>6. \A s \in Ranks : popped[s] = {} /\ left[s] = {}
  BY <1>1, <1>3 DEF WorkInv, Searching, Idle
<1>7. \A v \in Vertices : active[v] = 0
  <2>1. CASE \E s \in Ranks : at[s] \in {"sum", "done"}
    BY <1>1, <2>1, OverWork
  <2>2. CASE ~ \E s \in Ranks : at[s] \in {"sum", "done"}
    <3>1. \A v \in Vertices : at[Rank(v)] = "backward"
      BY <1>3, <2>2, StateTypes
    <3> QED BY <1>1, <3>1, StateTypes DEF Idle
  <2> QED BY <2>1, <2>2
<1>8. /\ \A v : Rank(v)' = Rank(v)
      /\ \A s : Local(s)' = Local(s)
  BY InputUnchanged
<1>9. NothingLeft'
  BY <1>1, <1>4, <1>6, <1>7, <1>8 DEF NothingLeft
<1>10. WorkInv'
  BY <1>5, <1>6, <1>7, <1>8, <1>9 DEF WorkInv
<1> QED BY <1>1, <1>2, <1>3, <1>5, <1>6, <1>7, <1>10

\* All ranks go on from an allreduce to the next round, or return.
LEMMA CollectiveWork ==
  ASSUME SearchesTypeOK, WorkInv, \A r \in Ranks : at[r] \in {"sum", "done"},
         NEW to \in {"call", "done"}, at' = [r \in Ranks |-> to],
         UNCHANGED <<input, active, popped, left, network>>
  PROVE  /\ WorkInv' /\ Backward
         /\ network = {} /\ \A s \in Ranks : popped[s] = {} /\ left[s] = {}
         /\ \A v \in Vertices : active[v] = 0
         /\ \A s \in Ranks : at'[s] = to
<1>1. PICK r \in Ranks : at[r] \in {"sum", "done"}
  BY StateTypes
<1>2. /\ Backward
      /\ network = {} /\ \A s \in Ranks : popped[s] = {} /\ left[s] = {}
      /\ \A v \in Vertices : active[v] = 0
  <2>1. \A s \in Ranks : at[s] # "barrier"
    OBVIOUS
  <2> QED BY <1>1, <2>1, OverWork
<1>3. \A s \in Ranks : at'[s] = to
  OBVIOUS
<1>4. /\ \A v : Rank(v)' = Rank(v)
      /\ \A s : Local(s)' = Local(s)
  BY InputUnchanged
<1>5. Forward' \/ Backward'
  BY <1>3 DEF Forward, Backward
<1>6. to = "done" => NothingLeft'
  BY <1>2, <1>3, <1>4 DEF NothingLeft
<1>7. WorkInv'
  BY <1>2, <1>3, <1>4, <1>5, <1>6 DEF WorkInv
<1> QED BY <1>2, <1>3, <1>7

\* Between the searches nothing is left to do, and that stays so.
LEMMA SameWork ==
  ASSUME SearchesTypeOK, WorkInv,
         UNCHANGED <<input, at, active, popped, left, network>>
  PROVE  WorkInv'
<1>1. /\ \A v : Rank(v)' = Rank(v)
      /\ \A s : Local(s)' = Local(s)
      /\ edges' = edges
  BY InputUnchanged
<1>2. NothingLeft' = NothingLeft /\ Forward' = Forward /\ Backward' = Backward
  BY <1>1 DEF NothingLeft, Forward, Backward
<1>3. /\ \A u : Neighbours(u)' = Neighbours(u)
      /\ \A r : Searching(r)' = Searching(r)
  BY <1>1 DEF Neighbours, Searching
<1> QED BY <1>1, <1>2, <1>3 DEF WorkInv
-----------------------------------------------------------------------------
(* The pivot search, forward                                               *)

\* What SearchesInv says while the pivot search runs.
LEMMA PivotStage ==
  ASSUME SearchesInv, stage = "pivot"
  PROVE  /\ SearchesTypeOK /\ WorkInv /\ DecidedOnce /\ PivotRound
         /\ input \in Inputs /\ pivot \in Vertices /\ pivot \notin input.trimmed
         /\ input.trimmed \in SUBSET Vertices
         /\ \A v \in input.trimmed : SCC(edges, v) = {v}
<1>1. SearchesTypeOK /\ WorkInv /\ DecidedOnce /\ PivotRound
  BY DEF SearchesInv
<1>2. input \in Inputs
  BY <1>1, StateTypes
<1> QED BY <1>1, <1>2, InputFacts

\* A step of the pivot search keeps SearchesInv when it keeps these.
LEMMA PivotKept ==
  ASSUME SearchesTypeOK, stage = "pivot", UNCHANGED <<input, label, label_k, stage>>,
         at' \in [Ranks -> {"call", "forward", "barrier", "backward", "sum", "done"}],
         in_active' \in SUBSET Vertices, is_undecided' \in SUBSET Vertices,
         popped' \in [Ranks -> SUBSET Vertices], left' \in [Ranks -> SUBSET Vertices],
         scc_id' \in [Vertices -> Vertices \cup {Undecided}],
         local_decided' \in [Ranks -> Nat],
         WorkInv', DecidedOnce', PivotRound'
  PROVE  SearchesInv'
<1>1. SearchesTypeOK'
  BY DEF SearchesTypeOK
<1> QED BY <1>1 DEF SearchesInv

\* What a step of the forward search has to show, without primed definitions.
PivotFinds ==
  /\ UNCHANGED <<input, at, is_undecided, scc_id>>
  /\ \A r \in Ranks : at[r] \in {"call", "forward"}
  /\ in_active \subseteq in_active' /\ in_active' \subseteq is_undecided \cap Reach(edges, pivot)
  /\ \A v \in in_active' \ in_active : at[Rank(v)] = "forward"
  /\ \A v \in Vertices : at[Rank(v)] = "forward" /\ active'[v] = 1 => v \in in_active'
  /\ \A r \in Ranks : popped'[r] \subseteq in_active'
  /\ \A m \in network' : m \in edges /\ m[1] \in in_active'
  /\ \A u \in in_active' : \A v \in Succ(edges, u) :
       \/ v \in in_active' \cup input.trimmed \cup {pivot}
       \/ Searching(Rank(u)) /\ active'[u] = 1
       \/ u \in popped'[Rank(u)] /\ v \in left'[Rank(u)]
       \/ <<u, v>> \in network'

\* A step that spreads what is reached from the pivot keeps the invariant of the
\* forward phase.
LEMMA PivotForwardKept ==
  ASSUME SearchesInv, stage = "pivot", PivotForward, PivotFinds
  PROVE  PivotRound'
<1>0. /\ UNCHANGED <<input, at, is_undecided, scc_id>>
      /\ \A r \in Ranks : at[r] \in {"call", "forward"}
      /\ in_active \subseteq in_active' /\ in_active' \subseteq is_undecided \cap Reach(edges, pivot)
      /\ \A v \in in_active' \ in_active : at[Rank(v)] = "forward"
      /\ \A v \in Vertices : at[Rank(v)] = "forward" /\ active'[v] = 1 => v \in in_active'
      /\ \A r \in Ranks : popped'[r] \subseteq in_active'
      /\ \A m \in network' : m \in edges /\ m[1] \in in_active'
      /\ \A u \in in_active' : \A v \in Succ(edges, u) :
           \/ v \in in_active' \cup input.trimmed \cup {pivot}
           \/ Searching(Rank(u)) /\ active'[u] = 1
           \/ u \in popped'[Rank(u)] /\ v \in left'[Rank(u)]
           \/ <<u, v>> \in network'
  BY DEF PivotFinds
<1> USE <1>0
<1>1. /\ edges' = edges /\ pivot' = pivot
      /\ \A v : Rank(v)' = Rank(v)
  BY InputUnchanged
<1>2. SearchesTypeOK /\ PivotRound /\ edges \in SUBSET (Vertices \X Vertices) /\ Ranks # {}
      /\ \A v \in Vertices : Rank(v) \in Ranks
  BY PivotStage, StateTypes
<1>3. ~ Backward'
  BY <1>2 DEF Backward
<1>4. \A u : Searching(Rank(u))' <=> Searching(Rank(u))
  BY <1>1 DEF Searching
<1>5. PivotIds'
  BY <1>1, <1>2 DEF PivotRound, PivotIds
<1>6. network' \subseteq Vertices \X Vertices
  BY <1>2
<1>7. \A v \in Vertices : at[Rank(v)] = "call" => v \notin in_active'
  BY DEF PivotForward
<1>8. pivot \in Vertices
  BY <1>2, PivotStage
<1>9. \A v \in Vertices : at[Rank(v)] # "barrier"
  BY <1>2
<1>10. is_undecided' = (Vertices \ input'.trimmed)
                         \ (IF at'[Rank(pivot)'] = "barrier" THEN {pivot'} ELSE {})
       /\ in_active' \subseteq is_undecided' \cap Reach(edges', pivot')
  BY <1>1 DEF PivotForward
<1>11. \A u \in in_active' : \A v \in Succ(edges', u) :
         v \in in_active' \cup input'.trimmed \cup {pivot'} \/ Visiting(u, v)' \/ <<u, v>> \in network'
  <2>1. \A u, v : Visiting(u, v)' <=> \/ Searching(Rank(u)) /\ active'[u] = 1
                                      \/ u \in popped'[Rank(u)] /\ v \in left'[Rank(u)]
    BY <1>1, <1>4 DEF Visiting
  <2> QED BY <1>1, <2>1
<1>12. at[Rank(pivot)] = "forward" => pivot \in in_active'
  BY DEF PivotForward
<1>13. PivotForward'
  BY <1>1, <1>7, <1>9, <1>10, <1>11, <1>12 DEF PivotForward
<1> QED BY <1>2, <1>3, <1>5, <1>6, <1>13 DEF PivotRound

\* Between the ranks' steps of a search, what PivotForward says.
LEMMA PivotForwardFacts ==
  ASSUME SearchesInv, stage = "pivot", NEW r \in Ranks, at[r] \in {"call", "forward"}
  PROVE  /\ Forward /\ PivotForward
         /\ in_active \subseteq is_undecided \cap Reach(edges, pivot)
         /\ \A u \in in_active : \A v \in Succ(edges, u) :
              v \in in_active \cup input.trimmed \cup {pivot} \/ Visiting(u, v) \/ <<u, v>> \in network
         /\ \A m \in network : m \in edges /\ m[1] \in in_active
         /\ \A s \in Ranks : popped[s] \subseteq in_active
<1>1. Forward
  BY PivotStage DEF WorkInv, Forward, Backward
<1>2. PivotForward
  BY <1>1, PivotStage DEF PivotRound
<1> QED BY <1>1, <1>2 DEF PivotForward

\* The handler on v: it is reached afterwards if it is undecided, and on a
\* stack once.
LEMMA PivotFwHandle ==
  ASSUME SearchesInv, stage = "pivot", NEW v \in Vertices, at[Rank(v)] = "forward",
         v \in Reach(edges, pivot), PivotSearch!Handle(v),
         \A r \in Ranks : at[r] \in {"call", "forward"}
  PROVE  /\ UNCHANGED decisions
         /\ \E S \in SUBSET (is_undecided \cap Reach(edges, pivot)) :
              /\ in_active' = in_active \cup S /\ S \subseteq {v}
              /\ v \in in_active \cup S \cup input.trimmed
              /\ \A w \in Vertices : active'[w] = IF w \in S THEN 1 ELSE active[w]
         /\ active' \in [Vertices -> {0, 1}]
         /\ \A w \in Vertices : at[Rank(w)] = "call" => active'[w] = 0
<1> DEFINE S == ({v} \cap is_undecided) \ in_active
<1>1. PivotSearch!on_fw_message(v)
  BY PivotNames DEF PivotSearch!Handle
<1>2. in_active' = in_active \cup S /\ UNCHANGED decisions
      /\ active' = [w \in Vertices |-> active[w] + IF w \in S THEN 1 ELSE 0]
  BY <1>1 DEF PivotSearch!on_fw_message, PivotSearch!Push, PivotSearch!decisions, decisions
<1>3. /\ SearchesTypeOK /\ WorkInv /\ Rank(v) \in Ranks /\ Rank(pivot) \in Ranks
  BY PivotStage, StateTypes
<1>4. PivotForward
  BY <1>3, PivotForwardFacts
<1>5. at[Rank(pivot)] # "barrier"
  BY <1>3
<1>6. v \in in_active \cup S \cup input.trimmed
  BY <1>4, <1>5 DEF PivotForward
<1>7. v \in S => active[v] = 0
  BY <1>3, <1>4 DEF PivotForward, WorkInv
<1>8. \A w \in Vertices : active[w] \in {0, 1}
  BY <1>3 DEF WorkInv
<1>9. S \in SUBSET (is_undecided \cap Reach(edges, pivot)) /\ S \subseteq {v}
  OBVIOUS
<1> HIDE DEF S
<1>10. \A w \in Vertices : active'[w] = IF w \in S THEN 1 ELSE active[w]
  BY <1>2, <1>7, <1>8, <1>9
<1>11. active' \in [Vertices -> {0, 1}]
  BY <1>2, <1>8, <1>10
<1>12. \A w \in Vertices : at[Rank(w)] = "call" => active'[w] = 0
  BY <1>3, <1>9, <1>10 DEF WorkInv
<1> QED BY <1>2, <1>6, <1>9, <1>10, <1>11, <1>12

\* What else a step of the pivot search leaves as it is.
PivotRest == UNCHANGED <<map, label, label_k, stage, todo>>

\* The forward search takes a vertex from a stack.
LEMMA PivotPopFw ==
  ASSUME SearchesInv, stage = "pivot", PivotRest, NEW u \in Vertices, PivotSearch!Pop(u),
         at[Rank(u)] = "forward"
  PROVE  SearchesInv'
<1> DEFINE r == Rank(u)
<1>0. /\ SearchesTypeOK /\ WorkInv /\ DecidedOnce /\ PivotRound /\ r \in Ranks
      /\ u \in Local(r)
  BY PivotStage, StateTypes
<1>1. /\ Searching(r) /\ popped[r] = {} /\ active[u] > 0
      /\ active' = [active EXCEPT ![u] = @ - 1]
      /\ popped' = [popped EXCEPT ![r] = {u}]
      /\ left' = [left EXCEPT ![r] = Succ(edges, u)]
      /\ UNCHANGED <<input, at, in_active, is_undecided, scc_id, local_decided, network>>
  BY PivotNames DEF PivotSearch!Pop, PivotSearch!decisions, PivotSearch!Neighbours
<1>2. active[u] = 1 /\ \A w \in Vertices : active'[w] = IF w = u THEN 0 ELSE active[w]
  BY <1>0, <1>1 DEF WorkInv
<1>3. /\ popped'[r] = {u} /\ left'[r] = Succ(edges, u)
      /\ \A s \in Ranks \ {r} : popped'[s] = popped[s] /\ left'[s] = left[s]
      /\ popped' \in [Ranks -> SUBSET Vertices] /\ left' \in [Ranks -> SUBSET Vertices]
  BY <1>0, <1>1, StateTypes DEF Succ
<1>4. active' \in [Vertices -> {0, 1}]
  BY <1>0, <1>1, <1>2 DEF WorkInv
<1>5. Works(r)
  <2>1. ~ NothingLeft
    BY <1>0, <1>1, HasWork
  <2>2. Neighbours(u) = Succ(edges, u)
    BY DEF Neighbours
  <2>3. \A v \in Vertices : at[Rank(v)] = "call" => active'[v] = 0
    BY <1>0, <1>2 DEF WorkInv
  <2> HIDE DEF r
  <2> QED BY <1>0, <1>1, <1>3, <1>4, <2>1, <2>2, <2>3 DEF Works
<1>6. WorkInv' /\ \A s \in Ranks : at[s] \in {"call", "forward"}
  <2>1. WorkInv' /\ \A s \in Ranks : at[s] \in {"call", "forward", "backward"}
    BY <1>0, <1>5, WorksKeepsWork
  <2>2. Forward
    BY <1>0, PivotForwardFacts
  <2> QED BY <2>1, <2>2 DEF Forward
<1>7. /\ PivotForward /\ u \in in_active
      /\ \A w \in in_active : \A v \in Succ(edges, w) :
           w # u => \/ v \in in_active \cup input.trimmed \cup {pivot}
                    \/ Searching(Rank(w)) /\ active'[w] = 1
                    \/ w \in popped'[Rank(w)] /\ v \in left'[Rank(w)]
                    \/ <<w, v>> \in network
  <2>1. /\ PivotForward
        /\ \A w \in in_active : \A v \in Succ(edges, w) :
             v \in in_active \cup input.trimmed \cup {pivot} \/ Visiting(w, v) \/ <<w, v>> \in network
    BY <1>0, PivotForwardFacts
  <2>2. u \in in_active
    BY <1>2, <2>1 DEF PivotForward
  <2>3. \A w \in Vertices : w \in popped[Rank(w)] => Rank(w) # r
    BY <1>1
  <2>4. in_active \in SUBSET Vertices /\ \A w \in Vertices : Rank(w) \in Ranks
    BY <1>0, StateTypes
  <2> HIDE DEF r
  <2> QED BY <1>2, <1>3, <2>1, <2>2, <2>3, <2>4 DEF Visiting
<1>8. PivotRound'
  <2>1. in_active' = in_active \cup {}
    BY <1>1
  <2>2. \A v \in Vertices : at[Rank(v)] = "forward" /\ active'[v] = 1 => v \in in_active'
    BY <1>1, <1>2, <1>7 DEF PivotForward
  <2>3. \A s \in Ranks : popped'[s] \subseteq in_active'
    BY <1>1, <1>3, <1>7 DEF PivotForward
  <2>4. \A m \in network' : m \in edges /\ m[1] \in in_active'
    BY <1>1, <1>7 DEF PivotForward
  <2>5. \A w \in in_active' : \A v \in Succ(edges, w) :
           \/ v \in in_active' \cup input.trimmed \cup {pivot}
           \/ Searching(Rank(w)) /\ active'[w] = 1
           \/ w \in popped'[Rank(w)] /\ v \in left'[Rank(w)]
           \/ <<w, v>> \in network'
    BY <1>1, <1>3, <1>7
  <2>6. PivotFinds
    BY <1>1, <1>6, <1>7, <2>1, <2>2, <2>3, <2>4, <2>5 DEF PivotFinds, PivotForward
  <2> QED BY <1>7, <2>6, PivotForwardKept
<1>9. DecidedOnce'
  BY <1>0, <1>1, RecordsStay
<1> HIDE DEF r
<1> QED BY <1>0, <1>1, <1>3, <1>6, <1>8, <1>9, PivotKept, StateTypes DEF PivotRest

\* It visits a neighbour of the same rank.
LEMMA PivotVisitLocalFw ==
  ASSUME SearchesInv, stage = "pivot", PivotRest, NEW r \in Ranks, NEW v \in left[r],
         PivotSearch!VisitLocal(r, v), at[r] = "forward"
  PROVE  SearchesInv'
<1>0. /\ SearchesTypeOK /\ WorkInv /\ DecidedOnce /\ PivotRound
      /\ in_active \in SUBSET Vertices /\ \A w \in Vertices : Rank(w) \in Ranks
      /\ edges \in SUBSET (Vertices \X Vertices)
  BY PivotStage, StateTypes
<1>1. /\ Rank(v) = r /\ PivotSearch!Handle(v)
      /\ left' = [left EXCEPT ![r] = @ \ {v}]
      /\ UNCHANGED <<input, at, popped, network>>
  BY PivotNames DEF PivotSearch!VisitLocal
<1>2. /\ Searching(r) /\ ~ NothingLeft /\ v \in Vertices
      /\ \E u \in popped[r] : /\ popped[r] = {u} /\ u \in Vertices /\ Rank(u) = r
                              /\ v \in Neighbours(u)
  BY <1>0, VisitsEdges
<1>3. PICK u \in popped[r] : popped[r] = {u} /\ u \in Vertices /\ Rank(u) = r
                             /\ v \in Succ(edges, u)
  BY <1>2 DEF Neighbours
<1>4. /\ left'[r] = left[r] \ {v} /\ \A s \in Ranks \ {r} : left'[s] = left[s]
      /\ left' \in [Ranks -> SUBSET Vertices]
  BY <1>0, <1>1, StateTypes
<1>5. /\ Forward /\ PivotForward /\ u \in in_active
      /\ in_active \subseteq Reach(edges, pivot)
  BY <1>0, <1>3, PivotForwardFacts
<1>6. \A s \in Ranks : at[s] \in {"call", "forward"}
  <2>1. \A s \in Ranks : at[s] # "barrier"
    BY <1>0, <1>2 DEF WorkInv
  <2> QED BY <1>5, <2>1 DEF Forward
<1>7. v \in Reach(edges, pivot)
  <2>1. u \in Reach(edges, pivot) /\ <<u, v>> \in edges /\ pivot \in Vertices
    BY <1>3, <1>5, PivotStage DEF Succ
  <2> QED BY <1>2, <2>1, ReachStep
<1>8. /\ UNCHANGED decisions
      /\ \E S \in SUBSET (is_undecided \cap Reach(edges, pivot)) :
              /\ in_active' = in_active \cup S /\ S \subseteq {v}
              /\ v \in in_active \cup S \cup input.trimmed
              /\ \A w \in Vertices : active'[w] = IF w \in S THEN 1 ELSE active[w]
      /\ active' \in [Vertices -> {0, 1}]
      /\ \A w \in Vertices : at[Rank(w)] = "call" => active'[w] = 0
  BY <1>1, <1>2, <1>6, <1>7, PivotFwHandle
<1>9. PICK S \in SUBSET (is_undecided \cap Reach(edges, pivot)) :
              /\ in_active' = in_active \cup S /\ S \subseteq {v}
              /\ v \in in_active \cup S \cup input.trimmed
              /\ \A w \in Vertices : active'[w] = IF w \in S THEN 1 ELSE active[w]
  BY <1>8
<1>10. Works(r)
  BY <1>0, <1>1, <1>2, <1>4, <1>8 DEF Works, WorkInv
<1>11. WorkInv'
  BY <1>0, <1>10, WorksKeepsWork
<1>12. PivotRound'
  <2>1. UNCHANGED <<input, at, is_undecided, scc_id>>
    BY <1>1, <1>8 DEF decisions
  <2>2. \A w \in S : at[Rank(w)] = "forward"
    BY <1>1, <1>9
  <2>3. \A w \in Vertices : at[Rank(w)] = "forward" /\ active'[w] = 1 => w \in in_active'
    BY <1>5, <1>9 DEF PivotForward
  <2>4. \A s \in Ranks : popped'[s] \subseteq in_active'
    BY <1>1, <1>5, <1>9 DEF PivotForward
  <2>5. \A m \in network' : m \in edges /\ m[1] \in in_active'
    BY <1>1, <1>5, <1>9 DEF PivotForward
  <2>6. ASSUME NEW w \in in_active', NEW x \in Succ(edges, w)
        PROVE  \/ x \in in_active' \cup input.trimmed \cup {pivot}
               \/ Searching(Rank(w)) /\ active'[w] = 1
               \/ w \in popped'[Rank(w)] /\ x \in left'[Rank(w)]
               \/ <<w, x>> \in network'
    <3>1. CASE w \in S
      BY <1>1, <1>2, <1>9, <3>1
    <3>2. CASE w \in in_active /\ x = v
      BY <1>9, <3>2
    <3>3. CASE w \in in_active \ S /\ x # v
      <4>1. x \in in_active \cup input.trimmed \cup {pivot} \/ Visiting(w, x) \/ <<w, x>> \in network
        BY <1>5, <3>3 DEF PivotForward
      <4>2. w \in Vertices /\ Rank(w) \in Ranks /\ active'[w] = active[w]
        BY <1>0, <1>9, <3>3
      <4>3. x \in left[Rank(w)] => x \in left'[Rank(w)]
        BY <1>4, <3>3, <4>2
      <4> QED BY <1>1, <1>9, <4>1, <4>2, <4>3 DEF Visiting
    <3> QED BY <1>9, <3>1, <3>2, <3>3
  <2>7. in_active \subseteq is_undecided \cap Reach(edges, pivot)
    BY <1>5 DEF PivotForward
  <2>8. PivotFinds
    BY <1>6, <1>9, <2>1, <2>2, <2>3, <2>4, <2>5, <2>6, <2>7 DEF PivotFinds
  <2> QED BY <1>5, <2>8, PivotForwardKept
<1>13. DecidedOnce'
  BY <1>0, <1>1, <1>8, RecordsStay DEF decisions
<1>14. in_active' \in SUBSET Vertices
  BY <1>0, <1>2, <1>9
<1> QED BY <1>0, <1>1, <1>4, <1>8, <1>11, <1>12, <1>13, <1>14, PivotKept, StateTypes
        DEF PivotRest, decisions

\* It posts a message for a neighbour on another rank.
LEMMA PivotPostFw ==
  ASSUME SearchesInv, stage = "pivot", PivotRest, NEW r \in Ranks, NEW v \in left[r],
         PivotSearch!Post(r, v), at[r] = "forward"
  PROVE  SearchesInv'
<1>0. /\ SearchesTypeOK /\ WorkInv /\ DecidedOnce /\ PivotRound
      /\ in_active \in SUBSET Vertices /\ \A w \in Vertices : Rank(w) \in Ranks
      /\ edges \in SUBSET (Vertices \X Vertices)
  BY PivotStage, StateTypes
<1>1. /\ \E u \in popped[r] : network' = network \cup {<<u, v>>}
      /\ left' = [left EXCEPT ![r] = @ \ {v}]
      /\ UNCHANGED <<input, at, in_active, is_undecided, scc_id, local_decided, active, popped>>
  BY PivotNames DEF PivotSearch!Post, PivotSearch!decisions
<1>2. /\ Searching(r) /\ ~ NothingLeft /\ v \in Vertices
      /\ \E u \in popped[r] : /\ popped[r] = {u} /\ u \in Vertices /\ Rank(u) = r
                              /\ v \in Neighbours(u)
  BY <1>0, VisitsEdges
<1>3. PICK u \in popped[r] : popped[r] = {u} /\ u \in Vertices /\ Rank(u) = r
                             /\ v \in Succ(edges, u) /\ network' = network \cup {<<u, v>>}
  BY <1>1, <1>2 DEF Neighbours
<1>4. /\ left'[r] = left[r] \ {v} /\ \A s \in Ranks \ {r} : left'[s] = left[s]
      /\ left' \in [Ranks -> SUBSET Vertices]
  BY <1>0, <1>1, StateTypes
<1>5. /\ Forward /\ PivotForward /\ u \in in_active
  BY <1>0, <1>3, PivotForwardFacts
<1>6. \A s \in Ranks : at[s] \in {"call", "forward"}
  <2>1. \A s \in Ranks : at[s] # "barrier"
    BY <1>0, <1>2 DEF WorkInv
  <2> QED BY <1>5, <2>1 DEF Forward
<1>7. Works(r)
  BY <1>0, <1>1, <1>2, <1>4 DEF Works, WorkInv
<1>8. WorkInv'
  BY <1>0, <1>7, WorksKeepsWork
<1>9. PivotRound'
  <2>1. in_active' = in_active \cup {}
    BY <1>1
  <2>2. \A w \in Vertices : at[Rank(w)] = "forward" /\ active'[w] = 1 => w \in in_active'
    BY <1>1, <1>5 DEF PivotForward
  <2>3. \A s \in Ranks : popped'[s] \subseteq in_active'
    BY <1>1, <1>5 DEF PivotForward
  <2>4. \A m \in network' : m \in edges /\ m[1] \in in_active'
    BY <1>1, <1>3, <1>5 DEF PivotForward, Succ
  <2>5. ASSUME NEW w \in in_active', NEW x \in Succ(edges, w)
        PROVE  \/ x \in in_active' \cup input.trimmed \cup {pivot}
               \/ Searching(Rank(w)) /\ active'[w] = 1
               \/ w \in popped'[Rank(w)] /\ x \in left'[Rank(w)]
               \/ <<w, x>> \in network'
    <3>1. x \in in_active \cup input.trimmed \cup {pivot} \/ Visiting(w, x) \/ <<w, x>> \in network
      BY <1>1, <1>5 DEF PivotForward
    <3>2. w \in Vertices /\ Rank(w) \in Ranks
      BY <1>0, <1>1
    <3>3. w \in popped[Rank(w)] /\ x \in left[Rank(w)] => x \in left'[Rank(w)] \/ (w = u /\ x = v)
      BY <1>3, <1>4, <3>2
    <3> QED BY <1>1, <1>3, <3>1, <3>3 DEF Visiting
  <2>6. PivotFinds
    BY <1>1, <1>5, <1>6, <2>1, <2>2, <2>3, <2>4, <2>5 DEF PivotFinds, PivotForward
  <2> QED BY <1>5, <2>6, PivotForwardKept
<1>10. DecidedOnce'
  BY <1>0, <1>1, RecordsStay
<1> QED BY <1>0, <1>1, <1>4, <1>8, <1>9, <1>10, PivotKept, StateTypes DEF PivotRest

\* It is through with the edges of a vertex.
LEMMA PivotVisitedFw ==
  ASSUME SearchesInv, stage = "pivot", PivotRest, NEW r \in Ranks,
         PivotSearch!Visited(r), at[r] = "forward"
  PROVE  SearchesInv'
<1>0. /\ SearchesTypeOK /\ WorkInv /\ DecidedOnce /\ PivotRound
      /\ in_active \in SUBSET Vertices /\ \A w \in Vertices : Rank(w) \in Ranks
  BY PivotStage, StateTypes
<1>1. /\ popped[r] # {} /\ left[r] = {}
      /\ popped' = [popped EXCEPT ![r] = {}]
      /\ UNCHANGED <<input, at, in_active, is_undecided, scc_id, local_decided, active, left,
                     network>>
  BY PivotNames DEF PivotSearch!Visited, PivotSearch!decisions
<1>2. Searching(r) /\ ~ NothingLeft
  BY <1>0, <1>1, HasWork
<1>3. /\ popped'[r] = {} /\ \A s \in Ranks \ {r} : popped'[s] = popped[s]
      /\ popped' \in [Ranks -> SUBSET Vertices]
  BY <1>0, <1>1, StateTypes
<1>4. /\ Forward /\ PivotForward
  BY <1>0, PivotForwardFacts
<1>5. \A s \in Ranks : at[s] \in {"call", "forward"}
  <2>1. \A s \in Ranks : at[s] # "barrier"
    BY <1>0, <1>2 DEF WorkInv
  <2> QED BY <1>4, <2>1 DEF Forward
<1>6. Works(r)
  BY <1>0, <1>1, <1>2, <1>3 DEF Works, WorkInv
<1>7. WorkInv'
  BY <1>0, <1>6, WorksKeepsWork
<1>8. PivotRound'
  <2>1. in_active' = in_active \cup {}
    BY <1>1
  <2>2. \A w \in Vertices : at[Rank(w)] = "forward" /\ active'[w] = 1 => w \in in_active'
    BY <1>1, <1>4 DEF PivotForward
  <2>3. \A s \in Ranks : popped'[s] \subseteq in_active'
    BY <1>1, <1>3, <1>4 DEF PivotForward
  <2>4. \A m \in network' : m \in edges /\ m[1] \in in_active'
    BY <1>1, <1>4 DEF PivotForward
  <2>5. ASSUME NEW w \in in_active', NEW x \in Succ(edges, w)
        PROVE  \/ x \in in_active' \cup input.trimmed \cup {pivot}
               \/ Searching(Rank(w)) /\ active'[w] = 1
               \/ w \in popped'[Rank(w)] /\ x \in left'[Rank(w)]
               \/ <<w, x>> \in network'
    <3>1. x \in in_active \cup input.trimmed \cup {pivot} \/ Visiting(w, x) \/ <<w, x>> \in network
      BY <1>1, <1>4 DEF PivotForward
    <3>2. w \in Vertices /\ Rank(w) \in Ranks
      BY <1>0, <1>1
    <3>3. x \in left[Rank(w)] => Rank(w) # r
      BY <1>1
    <3> QED BY <1>1, <1>3, <3>1, <3>2, <3>3 DEF Visiting
  <2>6. PivotFinds
    BY <1>1, <1>4, <1>5, <2>1, <2>2, <2>3, <2>4, <2>5 DEF PivotFinds, PivotForward
  <2> QED BY <1>4, <2>6, PivotForwardKept
<1>9. DecidedOnce'
  BY <1>0, <1>1, RecordsStay
<1> QED BY <1>0, <1>1, <1>3, <1>7, <1>8, <1>9, PivotKept, StateTypes DEF PivotRest

\* The queue hands over a message.
LEMMA PivotReceiveFw ==
  ASSUME SearchesInv, stage = "pivot", PivotRest, NEW m \in network,
         PivotSearch!Receive(m), at[Rank(m[2])] = "forward"
  PROVE  SearchesInv'
<1> DEFINE r == Rank(m[2])
           v == m[2]
<1>0. /\ SearchesTypeOK /\ WorkInv /\ DecidedOnce /\ PivotRound
      /\ in_active \in SUBSET Vertices /\ \A w \in Vertices : Rank(w) \in Ranks
      /\ edges \in SUBSET (Vertices \X Vertices)
  BY PivotStage, StateTypes
<1>1. /\ PivotSearch!Handle(v) /\ Searching(r)
      /\ network' = network \ {m}
      /\ UNCHANGED <<input, at, popped, left>>
  BY PivotNames DEF PivotSearch!Receive
<1>2. m[1] \in Vertices /\ v \in Vertices /\ m = <<m[1], m[2]>> /\ r \in Ranks
  BY <1>0 DEF PivotRound
<1>5. /\ Forward /\ PivotForward /\ m[1] \in in_active /\ m \in edges
      /\ in_active \subseteq Reach(edges, pivot)
  BY <1>2, PivotForwardFacts
<1>3. ~ NothingLeft
  BY <1>0, HasWork
<1>6. \A s \in Ranks : at[s] \in {"call", "forward"}
  <2>1. \A s \in Ranks : at[s] # "barrier"
    BY <1>0, <1>3 DEF WorkInv
  <2> QED BY <1>5, <2>1 DEF Forward
<1>7. v \in Reach(edges, pivot)
  <2>1. m[1] \in Reach(edges, pivot) /\ <<m[1], v>> \in edges /\ pivot \in Vertices
    BY <1>2, <1>5, PivotStage
  <2> QED BY <1>2, <2>1, ReachStep
<1> HIDE DEF r, v
<1>8. /\ UNCHANGED decisions
      /\ \E S \in SUBSET (is_undecided \cap Reach(edges, pivot)) :
              /\ in_active' = in_active \cup S /\ S \subseteq {v}
              /\ v \in in_active \cup S \cup input.trimmed
              /\ \A w \in Vertices : active'[w] = IF w \in S THEN 1 ELSE active[w]
      /\ active' \in [Vertices -> {0, 1}]
      /\ \A w \in Vertices : at[Rank(w)] = "call" => active'[w] = 0
  BY <1>1, <1>2, <1>6, <1>7, PivotFwHandle DEF r, v
<1>9. PICK S \in SUBSET (is_undecided \cap Reach(edges, pivot)) :
              /\ in_active' = in_active \cup S /\ S \subseteq {v}
              /\ v \in in_active \cup S \cup input.trimmed
              /\ \A w \in Vertices : active'[w] = IF w \in S THEN 1 ELSE active[w]
  BY <1>8
<1>10. Works(r)
  BY <1>0, <1>1, <1>2, <1>3, <1>8 DEF Works, WorkInv
<1>11. WorkInv'
  BY <1>0, <1>10, WorksKeepsWork
<1>r. Rank(v) = r
  BY DEF r, v
<1>12. PivotRound'
  <2>1. UNCHANGED <<input, at, is_undecided, scc_id>>
    BY <1>1, <1>8 DEF decisions
  <2>2. \A w \in S : at[Rank(w)] = "forward"
    BY <1>9, <1>r DEF r
  <2>3. \A w \in Vertices : at[Rank(w)] = "forward" /\ active'[w] = 1 => w \in in_active'
    BY <1>5, <1>9 DEF PivotForward
  <2>4. \A s \in Ranks : popped'[s] \subseteq in_active'
    BY <1>1, <1>5, <1>9 DEF PivotForward
  <2>5. \A n \in network' : n \in edges /\ n[1] \in in_active'
    BY <1>1, <1>5, <1>9 DEF PivotForward
  <2>6. ASSUME NEW w \in in_active', NEW x \in Succ(edges, w)
        PROVE  \/ x \in in_active' \cup input.trimmed \cup {pivot}
               \/ Searching(Rank(w)) /\ active'[w] = 1
               \/ w \in popped'[Rank(w)] /\ x \in left'[Rank(w)]
               \/ <<w, x>> \in network'
    <3>1. CASE w \in S
      BY <1>1, <1>2, <1>9, <1>r, <3>1
    <3>2. CASE w \in in_active /\ x = v
      BY <1>9, <3>2
    <3>3. CASE w \in in_active \ S /\ x # v
      <4>1. x \in in_active \cup input.trimmed \cup {pivot} \/ Visiting(w, x) \/ <<w, x>> \in network
        BY <1>5, <3>3 DEF PivotForward
      <4>2. w \in Vertices /\ active'[w] = active[w]
        BY <1>0, <1>9, <3>3
      <4>3. <<w, x>> # m
        BY <1>2, <3>3 DEF v
      <4> QED BY <1>1, <1>9, <4>1, <4>2, <4>3 DEF Visiting
    <3> QED BY <1>9, <3>1, <3>2, <3>3
  <2>7. in_active \subseteq is_undecided \cap Reach(edges, pivot)
    BY <1>5 DEF PivotForward
  <2>8. PivotFinds
    BY <1>6, <1>9, <2>1, <2>2, <2>3, <2>4, <2>5, <2>6, <2>7 DEF PivotFinds
  <2> QED BY <1>5, <2>8, PivotForwardKept
<1>13. DecidedOnce'
  BY <1>0, <1>1, <1>8, RecordsStay DEF decisions
<1>14. in_active' \in SUBSET Vertices
  BY <1>0, <1>2, <1>9
<1> QED BY <1>0, <1>1, <1>8, <1>11, <1>12, <1>13, <1>14, PivotKept, StateTypes
        DEF PivotRest, decisions

\* A rank begins, and the pivot's rank with the pivot.
LEMMA PivotBegin ==
  ASSUME SearchesInv, stage = "pivot", PivotRest, NEW r \in Ranks, PivotSearch!Begin(r)
  PROVE  SearchesInv'
<1> DEFINE mine == Local(r) \cap {pivot}
<1>0. /\ SearchesTypeOK /\ WorkInv /\ DecidedOnce /\ PivotRound
      /\ in_active \in SUBSET Vertices /\ \A w \in Vertices : Rank(w) \in Ranks
      /\ pivot \in Vertices /\ pivot \notin input.trimmed
      /\ \A v \in Local(r) : v \in Vertices /\ Rank(v) = r
      /\ \A v \in Vertices : Rank(v) = r => v \in Local(r)
      /\ Ranks # {}
  BY PivotStage, StateTypes
<1>1. /\ at[r] = "call" /\ at' = [at EXCEPT ![r] = "forward"]
      /\ in_active' = (in_active \ Local(r)) \cup mine
      /\ active' = [v \in Vertices |-> active[v] + IF v \in mine THEN 1 ELSE 0]
      /\ UNCHANGED <<input, is_undecided, scc_id, local_decided, popped, left, network>>
  BY PivotNames DEF PivotSearch!Begin, PivotSearch!Push, PivotSearch!decisions
<1>2. \A v \in mine : v = pivot /\ Rank(v) = r
  BY <1>0
<1>p. Rank(pivot) = r => pivot \in mine
  BY <1>0
<1> HIDE DEF mine
<1>3. \A v \in Vertices : Rank(v) = r => active[v] = 0
  BY <1>0, <1>1 DEF WorkInv
<1>4. \A v \in Vertices : active'[v] = IF v \in mine THEN 1 ELSE active[v]
  <2>1. \A v \in Vertices : active[v] \in {0, 1}
    BY <1>0 DEF WorkInv
  <2> QED BY <1>1, <1>2, <1>3, <2>1
<1>5. active' \in [Vertices -> {0, 1}]
  <2>1. \A v \in Vertices : active[v] \in {0, 1}
    BY <1>0 DEF WorkInv
  <2> QED BY <1>1, <1>4, <2>1
<1>6. /\ WorkInv' /\ Forward /\ Forward'
      /\ popped[r] = {} /\ left[r] = {} /\ \A v \in Vertices : Rank(v) = r => active[v] = 0
      /\ \A s \in Ranks : at[s] \in {"call", "forward"} /\ at'[s] \in {"call", "forward"}
  <2>1. \A v \in Vertices : Rank(v) # r => active'[v] = active[v]
    BY <1>2, <1>4
  <2>2. UNCHANGED <<input, popped, left, network>>
    BY <1>1
  <2> QED BY <1>0, <1>1, <1>5, <2>1, <2>2, BeginWork
<1>7. PivotForward
  BY <1>0, <1>1, PivotForwardFacts
<1>8. in_active' = in_active \cup mine
  <2>1. \A v \in in_active : v \notin Local(r)
    BY <1>0, <1>1, <1>7 DEF PivotForward
  <2> QED BY <1>1, <2>1
<1>9. /\ edges' = edges /\ pivot' = pivot
      /\ \A v : Rank(v)' = Rank(v)
  BY <1>1, InputUnchanged
<1>10. at'[r] = "forward" /\ \A s \in Ranks \ {r} : at'[s] = at[s]
  BY <1>0, <1>1, StateTypes
<1>11. PivotForward'
  <2>1. is_undecided' = (Vertices \ input.trimmed)
                         \ (IF at'[Rank(pivot)] = "barrier" THEN {pivot} ELSE {})
    <3>1. at[Rank(pivot)] # "barrier" /\ at'[Rank(pivot)] # "barrier"
      BY <1>0, <1>6
    <3>2. is_undecided = Vertices \ input.trimmed
      BY <1>7, <3>1 DEF PivotForward
    <3> QED BY <1>1, <3>1, <3>2
  <2>2. in_active' \subseteq is_undecided' \cap Reach(edges, pivot)
    <3>1. pivot \in is_undecided' \cap Reach(edges, pivot)
      BY <1>0, <1>6, <2>1, ReachSelf
    <3>2. in_active \subseteq is_undecided' \cap Reach(edges, pivot)
      BY <1>1, <1>7 DEF PivotForward
    <3> QED BY <1>2, <1>8, <3>1, <3>2
  <2>3. ASSUME NEW v \in Vertices
        PROVE  /\ at'[Rank(v)] = "call" => v \notin in_active'
               /\ at'[Rank(v)] = "forward" /\ active'[v] = 1 => v \in in_active'
               /\ at'[Rank(v)] # "barrier"
    <3>1. CASE Rank(v) = r
      BY <1>3, <1>4, <1>8, <1>10, <3>1
    <3>2. CASE Rank(v) # r
      <4>1. at'[Rank(v)] = at[Rank(v)] /\ Rank(v) \in Ranks
        BY <1>0, <1>10, <3>2
      <4>2. active'[v] = active[v] /\ (v \in in_active' <=> v \in in_active)
        BY <1>2, <1>4, <1>8, <3>2
      <4> QED BY <1>6, <1>7, <4>1, <4>2 DEF PivotForward
    <3> QED BY <3>1, <3>2
  <2>4. at'[Rank(pivot)] = "forward" => pivot \in in_active'
    BY <1>0, <1>7, <1>8, <1>10, <1>p DEF PivotForward
  <2>5. \A s \in Ranks : popped'[s] \subseteq in_active'
    BY <1>1, <1>7, <1>8 DEF PivotForward
  <2>6. \A m \in network' : m \in edges /\ m[1] \in in_active'
    BY <1>1, <1>7, <1>8 DEF PivotForward
  <2>7. ASSUME NEW u \in in_active', NEW v \in Succ(edges, u)
        PROVE  v \in in_active' \cup input.trimmed \cup {pivot} \/ Visiting(u, v)'
               \/ <<u, v>> \in network'
    <3>1. CASE u \in mine
      <4>1. Searching(Rank(u))' /\ active'[u] = 1
        BY <1>0, <1>2, <1>4, <1>9, <1>10, <3>1 DEF Searching
      <4> QED BY <1>9, <4>1 DEF Visiting
    <3>2. CASE u \in in_active
      <4>1. v \in in_active \cup input.trimmed \cup {pivot} \/ Visiting(u, v) \/ <<u, v>> \in network
        BY <1>7, <3>2 DEF PivotForward
      <4>2. Rank(u) # r /\ Rank(u) \in Ranks /\ u \in Vertices
        BY <1>0, <1>1, <1>7, <3>2 DEF PivotForward
      <4>3. Searching(Rank(u)) => Searching(Rank(u))'
        BY <1>9, <1>10, <4>2 DEF Searching
      <4>4. active[u] = 1 => active'[u] = 1
        BY <1>4, <4>2
      <4>5. Visiting(u, v) => Visiting(u, v)'
        BY <1>1, <1>9, <4>3, <4>4 DEF Visiting
      <4> QED BY <1>1, <1>8, <4>1, <4>5
    <3> QED BY <1>8, <3>1, <3>2
  <2>8. ~ \E s \in Ranks : at'[s] = "barrier"
    BY <1>6
  <2>9. input' = input /\ Succ(edges', pivot) = Succ(edges, pivot)
    BY <1>1, <1>9
  <2> QED BY <1>9, <2>1, <2>2, <2>3, <2>4, <2>5, <2>6, <2>7, <2>8, <2>9 DEF PivotForward
<1>12. PivotRound'
  <2>1. PivotIds'
    BY <1>0, <1>1, <1>9 DEF PivotRound, PivotIds
  <2>2. ~ Backward' /\ \A s \in Ranks : at'[s] # "sum"
    BY <1>0, <1>6 DEF Backward
  <2> QED BY <1>0, <1>1, <1>11, <2>1, <2>2 DEF PivotRound
<1>13. DecidedOnce'
  BY <1>0, <1>1, RecordsStay
<1>14. in_active' \in SUBSET Vertices
       /\ at' \in [Ranks -> {"call", "forward", "barrier", "backward", "sum", "done"}]
  BY <1>0, <1>1, <1>2, <1>8, StateTypes
<1> QED BY <1>0, <1>1, <1>6, <1>12, <1>13, <1>14, PivotKept, StateTypes DEF PivotRest

\* When the forward search stops, it has reached the pivot's whole component.
LEMMA PivotForwardComplete ==
  ASSUME SearchesInv, stage = "pivot", PivotForward,
         \A u \in in_active : \A v \in Succ(edges, u) :
           v \in in_active \cup input.trimmed \cup {pivot},
         pivot \in in_active
  PROVE  SCC(edges, pivot) \subseteq in_active \cup {pivot}
<1> DEFINE Missing == {x \in Vertices : pivot \notin Reach(edges, x)}
           C == in_active \cup {pivot} \cup Missing
<1>1. /\ pivot \in Vertices /\ pivot \notin input.trimmed
      /\ \A v \in input.trimmed : SCC(edges, v) = {v}
      /\ in_active \in SUBSET Vertices
  BY PivotStage, StateTypes
<1>2. IsClosed(edges, Missing)
  BY <1>1, NotReachingClosed
<1>3. ASSUME NEW u \in Vertices, NEW v \in Vertices, u \in C, <<u, v>> \in edges
      PROVE  v \in C
  <2>1. CASE u \in Missing
    BY <1>2, <1>3, <2>1 DEF IsClosed
  <2>2. CASE u \in in_active
    <3>1. v \in in_active \cup input.trimmed \cup {pivot}
      BY <1>3, <2>2 DEF Succ
    <3>2. CASE v \in input.trimmed
      <4>1. v \in Reach(edges, pivot)
        BY <1>1, <1>3, <2>2, ReachStep DEF PivotForward
      <4>2. pivot \in Reach(edges, v) => pivot \in SCC(edges, v)
        BY <1>1, <4>1 DEF SCC
      <4> QED BY <1>1, <1>3, <3>2, <4>2
    <3> QED BY <3>1, <3>2
  <2> QED BY <1>3, <2>1, <2>2
<1>4. IsClosed(edges, C)
  BY <1>3 DEF IsClosed
<1>5. Reach(edges, pivot) \subseteq C
  BY <1>1, <1>4, ReachInClosed
<1> QED BY <1>5 DEF SCC

\* What the pivot search decides gets the pivot as its id, and is counted.
LEMMA PivotDecides ==
  ASSUME SearchesInv, stage = "pivot", NEW D \in SUBSET is_undecided,
         PivotSearch!DecideAll(D), input' = input
  PROVE  /\ PivotIds' /\ DecidedOnce'
         /\ in_active' = in_active \ D /\ is_undecided' = is_undecided \ D
         /\ in_active' \in SUBSET Vertices /\ is_undecided' \in SUBSET Vertices
         /\ scc_id' \in [Vertices -> Vertices \cup {Undecided}]
         /\ local_decided' \in [Ranks -> Nat]
<1>0. /\ SearchesTypeOK /\ DecidedOnce /\ PivotRound /\ pivot \in Vertices
      /\ in_active \in SUBSET Vertices /\ is_undecided \in SUBSET Vertices
      /\ scc_id \in [Vertices -> Vertices \cup {Undecided}]
  BY PivotStage, StateTypes
<1>1. /\ in_active' = in_active \ D /\ is_undecided' = is_undecided \ D
      /\ scc_id' = [v \in Vertices |-> IF v \in D THEN pivot ELSE scc_id[v]]
      /\ local_decided' = [r \in Ranks |-> local_decided[r] + Cardinality(Local(r) \cap D)]
  <2>1. \A r \in Ranks :
          PivotSearch!Cardinality(PivotSearch!Local(r) \cap D) = Cardinality(Local(r) \cap D)
    BY PivotNames, PivotCounts
  <2> QED BY <2>1, PivotNames DEF PivotSearch!DecideAll
<1>2. Decides(D)
  BY <1>0, <1>1 DEF Decides
<1>3. /\ DecidedOnce'
      /\ is_undecided' \in SUBSET Vertices
      /\ scc_id' \in [Vertices -> Vertices \cup {Undecided}]
      /\ local_decided' \in [Ranks -> Nat]
  BY <1>0, <1>2, DecidesKeepsRecords
<1>4. \A v \in input.trimmed : v \in Vertices => v \notin D
  BY <1>0, UndecidedAssumption DEF PivotRound, PivotIds, DecidedOnce
<1>5. pivot' = pivot
  BY InputUnchanged
<1>6. PivotIds'
  BY <1>0, <1>1, <1>4, <1>5 DEF PivotRound, PivotIds
<1> QED BY <1>0, <1>1, <1>3, <1>6

\* A rank leaves the forward search, and the pivot's rank decides the pivot.
LEMMA PivotFwTerminate ==
  ASSUME SearchesInv, stage = "pivot", PivotRest, NEW r \in Ranks, PivotSearch!FwTerminate(r)
  PROVE  SearchesInv'
<1> DEFINE mine == Local(r) \cap {pivot}
<1>0. /\ SearchesTypeOK /\ WorkInv /\ DecidedOnce /\ PivotRound
      /\ in_active \in SUBSET Vertices /\ \A w \in Vertices : Rank(w) \in Ranks
      /\ pivot \in Vertices /\ pivot \notin input.trimmed
      /\ \A v \in Local(r) : v \in Vertices /\ Rank(v) = r
      /\ \A v \in Vertices : Rank(v) = r => v \in Local(r)
      /\ Ranks # {}
  BY PivotStage, StateTypes
<1>1. /\ Terminate(r, "call", "forward", "barrier")
      /\ PivotSearch!DecideAll(mine)
      /\ active' = [v \in Vertices |-> active[v] + IF v \in mine THEN 1 ELSE 0]
      /\ UNCHANGED <<input, popped, left, network>>
  BY PivotNames DEF PivotSearch!FwTerminate, PivotSearch!Push
<1>2. \A v \in mine : v = pivot /\ Rank(v) = r
  BY <1>0
<1>p. Rank(pivot) = r => mine = {pivot}
  BY <1>0
<1>q. Rank(pivot) # r => mine = {}
  BY <1>0
<1> HIDE DEF mine
<1>3. at[r] = "forward"
  BY <1>1 DEF Terminate
<1>4. /\ Forward /\ PivotForward
  BY <1>0, <1>3, PivotForwardFacts
<1>5. mine \in SUBSET is_undecided
  BY <1>0, <1>2, <1>3, <1>4 DEF PivotForward
<1>6. /\ PivotIds' /\ DecidedOnce'
      /\ in_active' = in_active \ mine /\ is_undecided' = is_undecided \ mine
      /\ in_active' \in SUBSET Vertices /\ is_undecided' \in SUBSET Vertices
      /\ scc_id' \in [Vertices -> Vertices \cup {Undecided}]
      /\ local_decided' \in [Ranks -> Nat]
  BY <1>1, <1>5, PivotDecides
<1>7. \A v \in Vertices : at[Rank(v)] = "forward" => active[v] = 0
  BY <1>1, <1>0 DEF Terminate, Idle, Local
<1>8. /\ \A v \in Vertices : active'[v] = IF v \in mine THEN 1 ELSE active[v]
      /\ active' \in [Vertices -> {0, 1}]
  <2>1. \A v \in Vertices : active[v] \in {0, 1}
    BY <1>0 DEF WorkInv
  <2>2. \A v \in mine : active[v] = 0
    BY <1>0, <1>2, <1>3, <1>7
  <2>3. \A v \in Vertices : active'[v] = IF v \in mine THEN 1 ELSE active[v]
    BY <1>1, <2>1, <2>2
  <2> QED BY <1>1, <2>1, <2>3
<1>9. /\ WorkInv' /\ Forward' /\ NothingLeft'
      /\ network = {} /\ \A s \in Ranks : popped[s] = {} /\ left[s] = {}
      /\ at'[r] = "barrier" /\ \A s \in Ranks \ {r} : at'[s] = at[s]
      /\ \A s \in Ranks : at[s] \in {"forward", "barrier"}
  <2>1. \A v \in Vertices : Rank(v) # r => active'[v] = active[v]
    BY <1>2, <1>8
  <2>2. UNCHANGED <<input, popped, left, network>>
    BY <1>1
  <2> QED BY <1>0, <1>1, <1>8, <2>1, <2>2, FwTerminateWork
<1>10. /\ edges' = edges /\ pivot' = pivot
       /\ \A v : Rank(v)' = Rank(v)
  BY <1>1, InputUnchanged
<1>11. \A u \in in_active : \A v \in Succ(edges, u) : v \in in_active \cup input.trimmed \cup {pivot}
  <2> SUFFICES ASSUME NEW u \in in_active, NEW v \in Succ(edges, u)
               PROVE  v \in in_active \cup input.trimmed \cup {pivot}
    OBVIOUS
  <2>1. v \in in_active \cup input.trimmed \cup {pivot} \/ Visiting(u, v) \/ <<u, v>> \in network
    BY <1>4 DEF PivotForward
  <2>2. Rank(u) \in Ranks /\ u \in Vertices
    BY <1>0
  <2>3. ~ Visiting(u, v)
    BY <1>7, <1>9, <2>2 DEF Visiting, Searching
  <2> QED BY <1>9, <2>1, <2>3
<1>12. SCC(edges, pivot) \subseteq in_active \cup {pivot}
  <2>1. CASE at[Rank(pivot)] = "forward"
    <3>1. pivot \in in_active
      BY <1>4, <2>1 DEF PivotForward
    <3> QED BY <1>4, <1>11, <3>1, PivotForwardComplete
  <2>2. CASE at[Rank(pivot)] = "barrier"
    BY <1>0, <1>4, <2>2 DEF PivotForward
  <2> QED BY <1>0, <1>9, <2>1, <2>2
<1>c. \A v : v \in in_active' \cup {pivot} <=> v \in in_active \cup {pivot}
  BY <1>2, <1>6
<1>13. PivotForward'
  <2>1. is_undecided' = (Vertices \ input.trimmed)
                         \ (IF at'[Rank(pivot)] = "barrier" THEN {pivot} ELSE {})
    <3>1. CASE Rank(pivot) = r
      <4>1. is_undecided = Vertices \ input.trimmed
        BY <1>3, <1>4, <3>1 DEF PivotForward
      <4> QED BY <1>6, <1>9, <1>p, <3>1, <4>1
    <3>2. CASE Rank(pivot) # r
      <4>1. at'[Rank(pivot)] = at[Rank(pivot)]
        BY <1>0, <1>9, <3>2
      <4> QED BY <1>4, <1>6, <1>q, <3>2, <4>1 DEF PivotForward
    <3> QED BY <3>1, <3>2
  <2>2. in_active' \subseteq is_undecided' \cap Reach(edges, pivot)
    BY <1>4, <1>6 DEF PivotForward
  <2>3. ASSUME NEW v \in Vertices
        PROVE  /\ at'[Rank(v)] # "call"
               /\ at'[Rank(v)] = "forward" => active'[v] = 0
               /\ at'[Rank(v)] = "barrier" => (active'[v] = 1 <=> v = pivot)
    <3>1. CASE Rank(v) = r
      <4>1. active[v] = 0
        BY <1>3, <1>7, <3>1
      <4>2. v \in mine <=> v = pivot
        BY <1>2, <1>p, <3>1
      <4> QED BY <1>8, <1>9, <3>1, <4>1, <4>2
    <3>2. CASE Rank(v) # r
      <4>1. at'[Rank(v)] = at[Rank(v)] /\ Rank(v) \in Ranks /\ active'[v] = active[v]
        BY <1>0, <1>2, <1>8, <1>9, <3>2
      <4> QED BY <1>4, <1>7, <1>9, <4>1 DEF PivotForward
    <3> QED BY <3>1, <3>2
  <2>4. at'[Rank(pivot)] = "forward" => pivot \in in_active'
    <3>1. CASE Rank(pivot) = r
      BY <1>9, <3>1
    <3>2. CASE Rank(pivot) # r
      <4>1. at'[Rank(pivot)] = at[Rank(pivot)]
        BY <1>0, <1>9, <3>2
      <4> QED BY <1>4, <1>6, <1>q, <3>2, <4>1 DEF PivotForward
    <3> QED BY <3>1, <3>2
  <2>5. \A u \in in_active' : \A v \in Succ(edges, u) :
          v \in in_active' \cup input.trimmed \cup {pivot}
    BY <1>c, <1>6, <1>11
  <2>6. SCC(edges, pivot) \subseteq in_active' \cup {pivot}
    BY <1>c, <1>12
  <2>7. \A s \in Ranks : popped'[s] \subseteq in_active'
    BY <1>1, <1>9
  <2>8. network' = {} /\ input' = input
    BY <1>1, <1>9
  <2> QED BY <1>10, <2>1, <2>2, <2>3, <2>4, <2>5, <2>6, <2>7, <2>8 DEF PivotForward
<1>14. PivotRound'
  <2>1. ~ Backward' /\ \A s \in Ranks : at'[s] # "sum"
    BY <1>0, <1>9 DEF Backward
  <2>2. network' = {}
    BY <1>1, <1>9
  <2> QED BY <1>6, <1>13, <2>1, <2>2 DEF PivotRound
<1>15. at' \in [Ranks -> {"call", "forward", "barrier", "backward", "sum", "done"}]
  BY <1>0, <1>1, StateTypes DEF Terminate
<1> QED BY <1>0, <1>1, <1>6, <1>9, <1>14, <1>15, PivotKept, StateTypes DEF PivotRest

\* The backward search begins with the pivot.
LEMMA PivotBarrier ==
  ASSUME SearchesInv, stage = "pivot", PivotRest, PivotSearch!Barrier
  PROVE  SearchesInv'
<1>0. /\ SearchesTypeOK /\ WorkInv /\ DecidedOnce /\ PivotRound
      /\ in_active \in SUBSET Vertices /\ \A w \in Vertices : Rank(w) \in Ranks
      /\ pivot \in Vertices /\ pivot \notin input.trimmed /\ Ranks # {}
  BY PivotStage, StateTypes
<1>1. /\ \A r \in Ranks : at[r] = "barrier"
      /\ at' = [r \in Ranks |-> "backward"]
      /\ UNCHANGED <<input, in_active, is_undecided, scc_id, local_decided, active, popped,
                     left, network>>
  BY DEF PivotSearch!Barrier, PivotSearch!decisions
<1>2. /\ WorkInv' /\ Forward /\ ~ Forward' /\ Backward'
      /\ network = {} /\ \A s \in Ranks : popped[s] = {} /\ left[s] = {}
      /\ \A s \in Ranks : at'[s] = "backward"
  <2>1. UNCHANGED <<input, active, popped, left, network>>
    BY <1>1
  <2> QED BY <1>0, <1>1, <2>1, BarrierWork
<1>3. PivotForward
  BY <1>0, <1>2 DEF PivotRound
<1>4. /\ edges' = edges /\ pivot' = pivot
      /\ \A v : Rank(v)' = Rank(v)
  BY <1>1, InputUnchanged
<1>5. /\ is_undecided = (Vertices \ input.trimmed) \ {pivot}
      /\ in_active \subseteq is_undecided \cap Reach(edges, pivot)
      /\ SCC(edges, pivot) \subseteq in_active \cup {pivot}
      /\ \A v \in Vertices : active[v] = 1 <=> v = pivot
  BY <1>0, <1>1, <1>3 DEF PivotForward
<1>6. (Vertices \ is_undecided) \ input.trimmed = {pivot}
  BY <1>0, <1>5
<1>7. PivotBackward'
  <2>1. pivot \in SCC(edges, pivot)
    BY <1>0, SccSelf
  <2>2. \A v : Visiting(pivot, v)'
    <3>1. Searching(Rank(pivot))' /\ active'[pivot] = 1
      BY <1>0, <1>1, <1>2, <1>4, <1>5 DEF Searching
    <3> QED BY <1>4, <3>1 DEF Visiting
  <2>3. is_undecided \cap input.trimmed = {}
    BY <1>5
  <2> QED BY <1>1, <1>2, <1>4, <1>5, <1>6, <2>1, <2>2, <2>3 DEF PivotBackward
<1>8. PivotRound'
  <2>1. PivotIds'
    BY <1>0, <1>1, <1>4 DEF PivotRound, PivotIds
  <2> QED BY <1>0, <1>1, <1>2, <1>7, <2>1 DEF PivotRound
<1>9. DecidedOnce'
  BY <1>0, <1>1, RecordsStay
<1> QED BY <1>0, <1>1, <1>2, <1>8, <1>9, PivotKept, StateTypes DEF PivotRest
-----------------------------------------------------------------------------
(* The pivot search, backward                                              *)

\* What the pivot search has decided.
OfPivot == (Vertices \ is_undecided) \ input.trimmed

\* What PivotBackward says, with that name.
LEMMA PivotBackwardFacts ==
  ASSUME SearchesInv, stage = "pivot", Backward
  PROVE  /\ PivotBackward
         /\ is_undecided \cap input.trimmed = {}
         /\ in_active \subseteq is_undecided \cap Reach(edges, pivot)
         /\ pivot \in OfPivot /\ OfPivot \subseteq SCC(edges, pivot)
         /\ SCC(edges, pivot) \subseteq in_active \cup OfPivot
         /\ \A v \in Vertices : active[v] = 1 => v \in OfPivot
         /\ \A r \in Ranks : popped[r] \subseteq OfPivot
         /\ \A m \in network : <<m[2], m[1]>> \in edges /\ m[1] \in OfPivot
         /\ \A u \in OfPivot : \A v \in Pred(edges, u) \cap in_active :
              Visiting(u, v) \/ <<u, v>> \in network
         /\ OfPivot \in SUBSET Vertices
<1>1. PivotBackward
  BY PivotStage DEF PivotRound
<1> QED BY <1>1 DEF PivotBackward, OfPivot

\* What a step of the backward search that decides D has to show.
PivotAnswers(D) ==
  /\ UNCHANGED <<input, at>>
  /\ D \subseteq in_active \cap SCC(edges, pivot)
  /\ in_active' = in_active \ D /\ is_undecided' = is_undecided \ D
  /\ \A v \in Vertices : active'[v] = 1 => v \in OfPivot \cup D
  /\ \A r \in Ranks : popped'[r] \subseteq OfPivot \cup D
  /\ network' \subseteq Vertices \X Vertices
  /\ \A m \in network' : <<m[2], m[1]>> \in edges /\ m[1] \in OfPivot \cup D
  /\ \A u \in OfPivot \cup D : \A v \in Pred(edges, u) \cap (in_active \ D) :
       \/ Searching(Rank(u)) /\ active'[u] = 1
       \/ u \in popped'[Rank(u)] /\ v \in left'[Rank(u)]
       \/ <<u, v>> \in network'

\* A step that decides vertices D of the pivot's component keeps the invariant of
\* the backward phase.
LEMMA PivotBackwardKept ==
  ASSUME SearchesInv, stage = "pivot", Backward, PivotIds', NEW D, PivotAnswers(D)
  PROVE  PivotRound'
<1>0. /\ UNCHANGED <<input, at>>
      /\ D \subseteq in_active \cap SCC(edges, pivot)
      /\ in_active' = in_active \ D /\ is_undecided' = is_undecided \ D
      /\ \A v \in Vertices : active'[v] = 1 => v \in OfPivot \cup D
      /\ \A r \in Ranks : popped'[r] \subseteq OfPivot \cup D
      /\ network' \subseteq Vertices \X Vertices
      /\ \A m \in network' : <<m[2], m[1]>> \in edges /\ m[1] \in OfPivot \cup D
      /\ \A u \in OfPivot \cup D : \A v \in Pred(edges, u) \cap (in_active \ D) :
           \/ Searching(Rank(u)) /\ active'[u] = 1
           \/ u \in popped'[Rank(u)] /\ v \in left'[Rank(u)]
           \/ <<u, v>> \in network'
  BY DEF PivotAnswers
<1> USE <1>0
<1>1. /\ edges' = edges /\ pivot' = pivot
      /\ \A v : Rank(v)' = Rank(v)
  BY InputUnchanged
<1>2. /\ PivotRound /\ Ranks # {} /\ in_active \in SUBSET Vertices
      /\ is_undecided \in SUBSET Vertices
  BY PivotStage, StateTypes
<1>3. ~ Forward'
  BY <1>2 DEF Forward, Backward
<1>4. /\ is_undecided \cap input.trimmed = {}
      /\ in_active \subseteq is_undecided \cap Reach(edges, pivot)
      /\ pivot \in OfPivot /\ OfPivot \subseteq SCC(edges, pivot)
      /\ SCC(edges, pivot) \subseteq in_active \cup OfPivot
  BY PivotBackwardFacts
<1>5. (Vertices \ is_undecided') \ input'.trimmed = OfPivot \cup D
  BY <1>2, <1>4 DEF OfPivot
<1>6. \A u, v : Visiting(u, v)' <=> \/ Searching(Rank(u)) /\ active'[u] = 1
                                    \/ u \in popped'[Rank(u)] /\ v \in left'[Rank(u)]
  BY <1>1 DEF Visiting, Searching
<1>7. PivotBackward'
  <2>1. is_undecided' \cap input'.trimmed = {}
    BY <1>4
  <2>2. in_active' \subseteq is_undecided' \cap Reach(edges, pivot)
    BY <1>4
  <2>3. pivot \in OfPivot \cup D /\ OfPivot \cup D \subseteq SCC(edges, pivot)
    BY <1>4
  <2>4. SCC(edges, pivot) \subseteq in_active' \cup (OfPivot \cup D)
    BY <1>4
  <2>5. \A u \in OfPivot \cup D : \A v \in Pred(edges, u) \cap in_active' :
          Visiting(u, v)' \/ <<u, v>> \in network'
    BY <1>6
  <2> QED BY <1>1, <1>5, <2>1, <2>2, <2>3, <2>4, <2>5 DEF PivotBackward
<1> QED BY <1>2, <1>3, <1>7 DEF PivotRound

\* The handler on v, a predecessor of u which is of the pivot's component: v is
\* decided afterwards, if it was reached.
LEMMA PivotBwHandle ==
  ASSUME SearchesInv, stage = "pivot", Backward, NEW v \in Vertices, PivotSearch!Handle(v),
         NEW u \in OfPivot, <<v, u>> \in edges, at[Rank(v)] = "backward", input' = input
  PROVE  /\ PivotIds' /\ DecidedOnce'
         /\ in_active' \in SUBSET Vertices /\ is_undecided' \in SUBSET Vertices
         /\ scc_id' \in [Vertices -> Vertices \cup {Undecided}]
         /\ local_decided' \in [Ranks -> Nat]
         /\ active' \in [Vertices -> {0, 1}]
         /\ \E D \in SUBSET (in_active \cap SCC(edges, pivot)) :
              /\ in_active' = in_active \ D /\ is_undecided' = is_undecided \ D
              /\ D \subseteq {v} /\ v \notin in_active \ D
              /\ \A w \in Vertices : active'[w] = IF w \in D THEN 1 ELSE active[w]
<1> DEFINE D == {v} \cap in_active
<1>1. PivotSearch!on_bw_message(v)
  BY PivotNames DEF PivotSearch!Handle
<1>2. PivotSearch!DecideAll(D)
      /\ active' = [w \in Vertices |-> active[w] + IF w \in D THEN 1 ELSE 0]
  BY <1>1 DEF PivotSearch!on_bw_message, PivotSearch!Push
<1>3. /\ SearchesTypeOK /\ WorkInv /\ pivot \in Vertices
  BY PivotStage, StateTypes
<1>4. /\ in_active \subseteq is_undecided \cap Reach(edges, pivot)
      /\ OfPivot \subseteq SCC(edges, pivot)
      /\ \A w \in Vertices : active[w] = 1 => w \in OfPivot
      /\ OfPivot \in SUBSET Vertices
  BY PivotBackwardFacts
<1>5. D \subseteq {v} /\ v \notin in_active \ D /\ D \in SUBSET is_undecided
      /\ \A w \in D : w = v /\ v \in in_active
  BY <1>4
<1>6. D \subseteq SCC(edges, pivot)
  <2>1. pivot \in Reach(edges, u) /\ u \in Vertices
    BY <1>4 DEF SCC
  <2>2. u \in Reach(edges, v)
    BY <2>1, ReachSelf, ReachStep
  <2>3. pivot \in Reach(edges, v)
    BY <2>1, <2>2, ReachTransitive
  <2> QED BY <1>4, <1>5, <2>3 DEF SCC
<1>d. \A w : w \in D => w \in in_active
  OBVIOUS
<1> HIDE DEF D
<1>7. /\ PivotIds' /\ DecidedOnce'
      /\ in_active' = in_active \ D /\ is_undecided' = is_undecided \ D
      /\ in_active' \in SUBSET Vertices /\ is_undecided' \in SUBSET Vertices
      /\ scc_id' \in [Vertices -> Vertices \cup {Undecided}]
      /\ local_decided' \in [Ranks -> Nat]
  BY <1>2, <1>5, PivotDecides
<1>8. \A w \in Vertices : active[w] \in {0, 1}
  BY <1>3 DEF WorkInv
<1>9. \A w \in Vertices : w \in D => active[w] = 0
  BY <1>4, <1>5, <1>8 DEF OfPivot
<1>10. \A w \in Vertices : active'[w] = IF w \in D THEN 1 ELSE active[w]
  BY <1>2, <1>8, <1>9
<1>11. active' \in [Vertices -> {0, 1}]
  BY <1>2, <1>8, <1>10
<1>12. D \in SUBSET (in_active \cap SCC(edges, pivot))
  BY <1>6, <1>d
<1> QED BY <1>5, <1>7, <1>10, <1>11, <1>12

\* Where a rank is in the backward search and not all is over, all are.
LEMMA AllBackward ==
  ASSUME SearchesTypeOK, WorkInv, NEW r \in Ranks, at[r] = "backward"
  PROVE  /\ Backward /\ ~ Forward
         /\ ~ NothingLeft => \A s \in Ranks : at[s] = "backward"
<1>1. Backward /\ ~ Forward
  BY DEF WorkInv, Forward, Backward
<1> QED BY <1>1 DEF WorkInv, Backward

\* The backward search takes a vertex from a stack.
LEMMA PivotPopBw ==
  ASSUME SearchesInv, stage = "pivot", PivotRest, NEW u \in Vertices, PivotSearch!Pop(u),
         at[Rank(u)] = "backward"
  PROVE  SearchesInv'
<1> DEFINE r == Rank(u)
<1>0. /\ SearchesTypeOK /\ WorkInv /\ DecidedOnce /\ PivotRound /\ r \in Ranks
      /\ u \in Local(r) /\ at[r] = "backward"
  BY PivotStage, StateTypes
<1>1. /\ Searching(r) /\ popped[r] = {} /\ active[u] > 0
      /\ active' = [active EXCEPT ![u] = @ - 1]
      /\ popped' = [popped EXCEPT ![r] = {u}]
      /\ left' = [left EXCEPT ![r] = Pred(edges, u)]
      /\ UNCHANGED <<input, at, in_active, is_undecided, scc_id, local_decided, network>>
  BY PivotNames DEF PivotSearch!Pop, PivotSearch!decisions, PivotSearch!Neighbours
<1>2. active[u] = 1 /\ \A w \in Vertices : active'[w] = IF w = u THEN 0 ELSE active[w]
  BY <1>0, <1>1 DEF WorkInv
<1>3. /\ popped'[r] = {u} /\ left'[r] = Pred(edges, u)
      /\ \A s \in Ranks \ {r} : popped'[s] = popped[s] /\ left'[s] = left[s]
      /\ popped' \in [Ranks -> SUBSET Vertices] /\ left' \in [Ranks -> SUBSET Vertices]
  BY <1>0, <1>1, StateTypes DEF Pred
<1>4. active' \in [Vertices -> {0, 1}]
  BY <1>0, <1>1, <1>2 DEF WorkInv
<1>5. Works(r)
  <2>1. ~ NothingLeft
    BY <1>0, <1>1, HasWork
  <2>2. Neighbours(u) = Pred(edges, u)
    BY DEF Neighbours
  <2>3. \A v \in Vertices : at[Rank(v)] = "call" => active'[v] = 0
    BY <1>0, <1>2 DEF WorkInv
  <2> HIDE DEF r
  <2> QED BY <1>0, <1>1, <1>3, <1>4, <2>1, <2>2, <2>3 DEF Works
<1> HIDE DEF r
<1>6. WorkInv' /\ Backward
  BY <1>0, <1>5, WorksKeepsWork, AllBackward
<1>7. /\ u \in OfPivot
      /\ \A v \in Vertices : active[v] = 1 => v \in OfPivot
      /\ \A s \in Ranks : popped[s] \subseteq OfPivot
      /\ \A m \in network : <<m[2], m[1]>> \in edges /\ m[1] \in OfPivot
      /\ \A w \in OfPivot : \A v \in Pred(edges, w) \cap in_active :
              Visiting(w, v) \/ <<w, v>> \in network
      /\ OfPivot \in SUBSET Vertices
  BY <1>2, <1>6, PivotBackwardFacts
<1>8. \A w \in OfPivot : \A v \in Pred(edges, w) \cap in_active :
           \/ Searching(Rank(w)) /\ active'[w] = 1
           \/ w \in popped'[Rank(w)] /\ v \in left'[Rank(w)]
           \/ <<w, v>> \in network
  <2>1. \A w \in Vertices : Rank(w) \in Ranks
    BY <1>0, StateTypes
  <2>2. \A w \in Vertices : w \in popped[Rank(w)] => Rank(w) # r
    BY <1>1
  <2>3. u \in popped'[Rank(u)] /\ left'[Rank(u)] = Pred(edges, u)
    BY <1>3 DEF r
  <2> QED BY <1>2, <1>3, <1>7, <2>1, <2>2, <2>3 DEF Visiting
<1>9. PivotAnswers({})
  <2>1. \A v \in Vertices : active'[v] = 1 => v \in OfPivot \cup {}
    BY <1>2, <1>7
  <2>2. \A s \in Ranks : popped'[s] \subseteq OfPivot \cup {}
    BY <1>3, <1>7
  <2>3. network' \subseteq Vertices \X Vertices
    BY <1>0, <1>1 DEF PivotRound
  <2> QED BY <1>1, <1>7, <1>8, <2>1, <2>2, <2>3 DEF PivotAnswers
<1>10. PivotRound'
  <2>1. pivot' = pivot
    BY <1>1, InputUnchanged
  <2>2. PivotIds'
    BY <1>0, <1>1, <2>1 DEF PivotRound, PivotIds
  <2> QED BY <1>6, <1>9, <2>2, PivotBackwardKept
<1>11. DecidedOnce'
  BY <1>0, <1>1, RecordsStay
<1> QED BY <1>0, <1>1, <1>3, <1>6, <1>10, <1>11, PivotKept, StateTypes DEF PivotRest

\* It visits a neighbour of the same rank.
LEMMA PivotVisitLocalBw ==
  ASSUME SearchesInv, stage = "pivot", PivotRest, NEW r \in Ranks, NEW v \in left[r],
         PivotSearch!VisitLocal(r, v), at[r] = "backward"
  PROVE  SearchesInv'
<1>0. /\ SearchesTypeOK /\ WorkInv /\ DecidedOnce /\ PivotRound
      /\ \A w \in Vertices : Rank(w) \in Ranks
  BY PivotStage, StateTypes
<1>1. /\ Rank(v) = r /\ PivotSearch!Handle(v)
      /\ left' = [left EXCEPT ![r] = @ \ {v}]
      /\ UNCHANGED <<input, at, popped, network>>
  BY PivotNames DEF PivotSearch!VisitLocal
<1>2. /\ Searching(r) /\ ~ NothingLeft /\ v \in Vertices
      /\ \E u \in popped[r] : /\ popped[r] = {u} /\ u \in Vertices /\ Rank(u) = r
                              /\ v \in Neighbours(u)
  BY <1>0, VisitsEdges
<1>3. PICK u \in popped[r] : popped[r] = {u} /\ u \in Vertices /\ Rank(u) = r
                             /\ v \in Pred(edges, u)
  BY <1>2 DEF Neighbours
<1>4. /\ left'[r] = left[r] \ {v} /\ \A s \in Ranks \ {r} : left'[s] = left[s]
      /\ left' \in [Ranks -> SUBSET Vertices]
  BY <1>0, <1>1, StateTypes
<1>5. Backward /\ \A s \in Ranks : at[s] = "backward"
  BY <1>0, <1>2, AllBackward
<1>6. /\ u \in OfPivot
      /\ \A w \in Vertices : active[w] = 1 => w \in OfPivot
      /\ \A s \in Ranks : popped[s] \subseteq OfPivot
      /\ \A m \in network : <<m[2], m[1]>> \in edges /\ m[1] \in OfPivot
      /\ \A w \in OfPivot : \A x \in Pred(edges, w) \cap in_active :
              Visiting(w, x) \/ <<w, x>> \in network
      /\ OfPivot \in SUBSET Vertices
  BY <1>3, <1>5, PivotBackwardFacts
<1>7. <<v, u>> \in edges
  BY <1>3 DEF Pred
<1>8. /\ PivotIds' /\ DecidedOnce'
      /\ in_active' \in SUBSET Vertices /\ is_undecided' \in SUBSET Vertices
      /\ scc_id' \in [Vertices -> Vertices \cup {Undecided}]
      /\ local_decided' \in [Ranks -> Nat]
      /\ active' \in [Vertices -> {0, 1}]
      /\ \E D \in SUBSET (in_active \cap SCC(edges, pivot)) :
           /\ in_active' = in_active \ D /\ is_undecided' = is_undecided \ D
           /\ D \subseteq {v} /\ v \notin in_active \ D
           /\ \A w \in Vertices : active'[w] = IF w \in D THEN 1 ELSE active[w]
  BY <1>1, <1>2, <1>5, <1>6, <1>7, PivotBwHandle
<1>9. PICK D \in SUBSET (in_active \cap SCC(edges, pivot)) :
           /\ in_active' = in_active \ D /\ is_undecided' = is_undecided \ D
           /\ D \subseteq {v} /\ v \notin in_active \ D
           /\ \A w \in Vertices : active'[w] = IF w \in D THEN 1 ELSE active[w]
  BY <1>8
<1>10. Works(r)
  <2>1. \A w \in Vertices : at[Rank(w)] # "call"
    BY <1>0, <1>5
  <2> QED BY <1>0, <1>1, <1>2, <1>4, <1>8, <2>1 DEF Works, WorkInv
<1>11. WorkInv'
  BY <1>0, <1>10, WorksKeepsWork
<1>12. PivotAnswers(D)
  <2>1. UNCHANGED <<input, at>>
    BY <1>1
  <2>2. \A w \in Vertices : active'[w] = 1 => w \in OfPivot \cup D
    BY <1>6, <1>9
  <2>3. \A s \in Ranks : popped'[s] \subseteq OfPivot \cup D
    BY <1>1, <1>6
  <2>4. network' \subseteq Vertices \X Vertices
    BY <1>0, <1>1 DEF PivotRound
  <2>5. \A m \in network' : <<m[2], m[1]>> \in edges /\ m[1] \in OfPivot \cup D
    BY <1>1, <1>6
  <2>6. ASSUME NEW w \in OfPivot \cup D, NEW x \in Pred(edges, w) \cap (in_active \ D)
        PROVE  \/ Searching(Rank(w)) /\ active'[w] = 1
               \/ w \in popped'[Rank(w)] /\ x \in left'[Rank(w)]
               \/ <<w, x>> \in network'
    <3>1. CASE w \in D
      BY <1>1, <1>2, <1>9, <3>1
    <3>2. CASE w \in OfPivot \ D
      <4>1. Visiting(w, x) \/ <<w, x>> \in network
        BY <1>6, <3>2
      <4>2. w \in Vertices /\ Rank(w) \in Ranks /\ active'[w] = active[w] /\ x # v
        BY <1>0, <1>6, <1>9, <3>2
      <4>3. x \in left[Rank(w)] => x \in left'[Rank(w)]
        BY <1>4, <4>2
      <4> QED BY <1>1, <4>1, <4>2, <4>3 DEF Visiting
    <3> QED BY <3>1, <3>2
  <2> QED BY <1>9, <2>1, <2>2, <2>3, <2>4, <2>5, <2>6 DEF PivotAnswers
<1>13. PivotRound'
  BY <1>5, <1>8, <1>12, PivotBackwardKept
<1> QED BY <1>0, <1>1, <1>4, <1>8, <1>11, <1>13, PivotKept, StateTypes DEF PivotRest

\* It posts a message for a neighbour on another rank.
LEMMA PivotPostBw ==
  ASSUME SearchesInv, stage = "pivot", PivotRest, NEW r \in Ranks, NEW v \in left[r],
         PivotSearch!Post(r, v), at[r] = "backward"
  PROVE  SearchesInv'
<1>0. /\ SearchesTypeOK /\ WorkInv /\ DecidedOnce /\ PivotRound
      /\ \A w \in Vertices : Rank(w) \in Ranks
  BY PivotStage, StateTypes
<1>1. /\ \E u \in popped[r] : network' = network \cup {<<u, v>>}
      /\ left' = [left EXCEPT ![r] = @ \ {v}]
      /\ UNCHANGED <<input, at, in_active, is_undecided, scc_id, local_decided, active, popped>>
  BY PivotNames DEF PivotSearch!Post, PivotSearch!decisions
<1>2. /\ Searching(r) /\ ~ NothingLeft /\ v \in Vertices
      /\ \E u \in popped[r] : /\ popped[r] = {u} /\ u \in Vertices /\ Rank(u) = r
                              /\ v \in Neighbours(u)
  BY <1>0, VisitsEdges
<1>3. PICK u \in popped[r] : popped[r] = {u} /\ u \in Vertices /\ Rank(u) = r
                             /\ v \in Pred(edges, u) /\ network' = network \cup {<<u, v>>}
  BY <1>1, <1>2 DEF Neighbours
<1>4. /\ left'[r] = left[r] \ {v} /\ \A s \in Ranks \ {r} : left'[s] = left[s]
      /\ left' \in [Ranks -> SUBSET Vertices]
  BY <1>0, <1>1, StateTypes
<1>5. Backward
  BY <1>0, AllBackward
<1>6. /\ u \in OfPivot
      /\ \A w \in Vertices : active[w] = 1 => w \in OfPivot
      /\ \A s \in Ranks : popped[s] \subseteq OfPivot
      /\ \A m \in network : <<m[2], m[1]>> \in edges /\ m[1] \in OfPivot
      /\ \A w \in OfPivot : \A x \in Pred(edges, w) \cap in_active :
              Visiting(w, x) \/ <<w, x>> \in network
      /\ OfPivot \in SUBSET Vertices
  BY <1>3, <1>5, PivotBackwardFacts
<1>7. Works(r)
  BY <1>0, <1>1, <1>2, <1>4 DEF Works, WorkInv
<1>8. WorkInv'
  BY <1>0, <1>7, WorksKeepsWork
<1>9. PivotAnswers({})
  <2>1. network' \subseteq Vertices \X Vertices
    BY <1>0, <1>2, <1>3 DEF PivotRound
  <2>2. ASSUME NEW m \in network'
        PROVE  <<m[2], m[1]>> \in edges /\ m[1] \in OfPivot \cup {}
    <3>1. <<v, u>> \in edges
      BY <1>3 DEF Pred
    <3>2. m \in network \/ m = <<u, v>>
      BY <1>3
    <3> QED BY <1>6, <3>1, <3>2
  <2>3. ASSUME NEW w \in OfPivot \cup {}, NEW x \in Pred(edges, w) \cap (in_active \ {})
        PROVE  \/ Searching(Rank(w)) /\ active'[w] = 1
               \/ w \in popped'[Rank(w)] /\ x \in left'[Rank(w)]
               \/ <<w, x>> \in network'
    <3>1. Visiting(w, x) \/ <<w, x>> \in network
      BY <1>6
    <3>2. w \in Vertices /\ Rank(w) \in Ranks
      BY <1>0, <1>6
    <3>3. w \in popped[Rank(w)] /\ x \in left[Rank(w)] => x \in left'[Rank(w)] \/ (w = u /\ x = v)
      BY <1>3, <1>4, <3>2
    <3> QED BY <1>1, <1>3, <3>1, <3>3 DEF Visiting
  <2> QED BY <1>1, <1>6, <2>1, <2>2, <2>3 DEF PivotAnswers
<1>10. PivotRound'
  <2>1. pivot' = pivot
    BY <1>1, InputUnchanged
  <2>2. PivotIds'
    BY <1>0, <1>1, <2>1 DEF PivotRound, PivotIds
  <2> QED BY <1>5, <1>9, <2>2, PivotBackwardKept
<1>11. DecidedOnce'
  BY <1>0, <1>1, RecordsStay
<1> QED BY <1>0, <1>1, <1>4, <1>8, <1>10, <1>11, PivotKept, StateTypes DEF PivotRest

\* It is through with the edges of a vertex.
LEMMA PivotVisitedBw ==
  ASSUME SearchesInv, stage = "pivot", PivotRest, NEW r \in Ranks,
         PivotSearch!Visited(r), at[r] = "backward"
  PROVE  SearchesInv'
<1>0. /\ SearchesTypeOK /\ WorkInv /\ DecidedOnce /\ PivotRound
      /\ \A w \in Vertices : Rank(w) \in Ranks
  BY PivotStage, StateTypes
<1>1. /\ popped[r] # {} /\ left[r] = {}
      /\ popped' = [popped EXCEPT ![r] = {}]
      /\ UNCHANGED <<input, at, in_active, is_undecided, scc_id, local_decided, active, left,
                     network>>
  BY PivotNames DEF PivotSearch!Visited, PivotSearch!decisions
<1>2. Searching(r) /\ ~ NothingLeft
  BY <1>0, <1>1, HasWork
<1>3. /\ popped'[r] = {} /\ \A s \in Ranks \ {r} : popped'[s] = popped[s]
      /\ popped' \in [Ranks -> SUBSET Vertices]
  BY <1>0, <1>1, StateTypes
<1>4. Backward
  BY <1>0, AllBackward
<1>5. /\ \A w \in Vertices : active[w] = 1 => w \in OfPivot
      /\ \A s \in Ranks : popped[s] \subseteq OfPivot
      /\ \A m \in network : <<m[2], m[1]>> \in edges /\ m[1] \in OfPivot
      /\ \A w \in OfPivot : \A x \in Pred(edges, w) \cap in_active :
              Visiting(w, x) \/ <<w, x>> \in network
      /\ OfPivot \in SUBSET Vertices
  BY <1>4, PivotBackwardFacts
<1>6. Works(r)
  BY <1>0, <1>1, <1>2, <1>3 DEF Works, WorkInv
<1>7. WorkInv'
  BY <1>0, <1>6, WorksKeepsWork
<1>8. PivotAnswers({})
  <2>1. network' \subseteq Vertices \X Vertices
    BY <1>0, <1>1 DEF PivotRound
  <2>2. \A s \in Ranks : popped'[s] \subseteq OfPivot \cup {}
    BY <1>3, <1>5
  <2>3. ASSUME NEW w \in OfPivot \cup {}, NEW x \in Pred(edges, w) \cap (in_active \ {})
        PROVE  \/ Searching(Rank(w)) /\ active'[w] = 1
               \/ w \in popped'[Rank(w)] /\ x \in left'[Rank(w)]
               \/ <<w, x>> \in network'
    <3>1. Visiting(w, x) \/ <<w, x>> \in network
      BY <1>5
    <3>2. w \in Vertices /\ Rank(w) \in Ranks
      BY <1>0, <1>5
    <3>3. x \in left[Rank(w)] => Rank(w) # r
      BY <1>1
    <3> QED BY <1>1, <1>3, <3>1, <3>2, <3>3 DEF Visiting
  <2> QED BY <1>1, <1>5, <2>1, <2>2, <2>3 DEF PivotAnswers
<1>9. PivotRound'
  <2>1. pivot' = pivot
    BY <1>1, InputUnchanged
  <2>2. PivotIds'
    BY <1>0, <1>1, <2>1 DEF PivotRound, PivotIds
  <2> QED BY <1>4, <1>8, <2>2, PivotBackwardKept
<1>10. DecidedOnce'
  BY <1>0, <1>1, RecordsStay
<1> QED BY <1>0, <1>1, <1>3, <1>7, <1>9, <1>10, PivotKept, StateTypes DEF PivotRest

\* The queue hands over a message.
LEMMA PivotReceiveBw ==
  ASSUME SearchesInv, stage = "pivot", PivotRest, NEW m \in network,
         PivotSearch!Receive(m), at[Rank(m[2])] = "backward"
  PROVE  SearchesInv'
<1> DEFINE r == Rank(m[2])
           v == m[2]
<1>0. /\ SearchesTypeOK /\ WorkInv /\ DecidedOnce /\ PivotRound
      /\ \A w \in Vertices : Rank(w) \in Ranks
  BY PivotStage, StateTypes
<1>1. /\ PivotSearch!Handle(v) /\ Searching(r)
      /\ network' = network \ {m}
      /\ UNCHANGED <<input, at, popped, left>>
  BY PivotNames DEF PivotSearch!Receive
<1>2. m[1] \in Vertices /\ v \in Vertices /\ m = <<m[1], m[2]>> /\ r \in Ranks
  BY <1>0 DEF PivotRound
<1>3. ~ NothingLeft
  BY <1>0, HasWork
<1>r. Rank(v) = r /\ at[r] = "backward" /\ m = <<m[1], v>>
  BY <1>2 DEF r, v
<1> HIDE DEF r, v
<1>5. Backward /\ \A s \in Ranks : at[s] = "backward"
  BY <1>0, <1>2, <1>3, <1>r, AllBackward
<1>6. /\ \A w \in Vertices : active[w] = 1 => w \in OfPivot
      /\ \A s \in Ranks : popped[s] \subseteq OfPivot
      /\ \A n \in network : <<n[2], n[1]>> \in edges /\ n[1] \in OfPivot
      /\ \A w \in OfPivot : \A x \in Pred(edges, w) \cap in_active :
              Visiting(w, x) \/ <<w, x>> \in network
      /\ OfPivot \in SUBSET Vertices
  BY <1>5, PivotBackwardFacts
<1>7. <<v, m[1]>> \in edges /\ m[1] \in OfPivot
  BY <1>6 DEF v
<1>8. /\ PivotIds' /\ DecidedOnce'
      /\ in_active' \in SUBSET Vertices /\ is_undecided' \in SUBSET Vertices
      /\ scc_id' \in [Vertices -> Vertices \cup {Undecided}]
      /\ local_decided' \in [Ranks -> Nat]
      /\ active' \in [Vertices -> {0, 1}]
      /\ \E D \in SUBSET (in_active \cap SCC(edges, pivot)) :
           /\ in_active' = in_active \ D /\ is_undecided' = is_undecided \ D
           /\ D \subseteq {v} /\ v \notin in_active \ D
           /\ \A w \in Vertices : active'[w] = IF w \in D THEN 1 ELSE active[w]
  BY <1>1, <1>2, <1>5, <1>7, <1>r, PivotBwHandle
<1>9. PICK D \in SUBSET (in_active \cap SCC(edges, pivot)) :
           /\ in_active' = in_active \ D /\ is_undecided' = is_undecided \ D
           /\ D \subseteq {v} /\ v \notin in_active \ D
           /\ \A w \in Vertices : active'[w] = IF w \in D THEN 1 ELSE active[w]
  BY <1>8
<1>10. Works(r)
  <2>1. \A w \in Vertices : at[Rank(w)] # "call"
    BY <1>0, <1>5
  <2> QED BY <1>0, <1>1, <1>2, <1>3, <1>8, <2>1 DEF Works, WorkInv
<1>11. WorkInv'
  BY <1>0, <1>10, WorksKeepsWork
<1>12. PivotAnswers(D)
  <2>1. UNCHANGED <<input, at>>
    BY <1>1
  <2>2. \A w \in Vertices : active'[w] = 1 => w \in OfPivot \cup D
    BY <1>6, <1>9
  <2>3. \A s \in Ranks : popped'[s] \subseteq OfPivot \cup D
    BY <1>1, <1>6
  <2>4. network' \subseteq Vertices \X Vertices
    BY <1>0, <1>1 DEF PivotRound
  <2>5. \A n \in network' : <<n[2], n[1]>> \in edges /\ n[1] \in OfPivot \cup D
    BY <1>1, <1>6
  <2>6. ASSUME NEW w \in OfPivot \cup D, NEW x \in Pred(edges, w) \cap (in_active \ D)
        PROVE  \/ Searching(Rank(w)) /\ active'[w] = 1
               \/ w \in popped'[Rank(w)] /\ x \in left'[Rank(w)]
               \/ <<w, x>> \in network'
    <3>1. CASE w \in D
      BY <1>1, <1>2, <1>9, <1>r, <3>1
    <3>2. CASE w \in OfPivot \ D
      <4>1. Visiting(w, x) \/ <<w, x>> \in network
        BY <1>6, <3>2
      <4>2. w \in Vertices /\ active'[w] = active[w] /\ x # v
        BY <1>6, <1>9, <3>2
      <4>3. <<w, x>> # m
        BY <1>r, <4>2
      <4> QED BY <1>1, <4>1, <4>2, <4>3 DEF Visiting
    <3> QED BY <3>1, <3>2
  <2> QED BY <1>9, <2>1, <2>2, <2>3, <2>4, <2>5, <2>6 DEF PivotAnswers
<1>13. PivotRound'
  BY <1>5, <1>8, <1>12, PivotBackwardKept
<1> QED BY <1>0, <1>1, <1>8, <1>11, <1>13, PivotKept, StateTypes DEF PivotRest

\* A rank leaves the backward search.
LEMMA PivotBwTerminate ==
  ASSUME SearchesInv, stage = "pivot", PivotRest, NEW r \in Ranks, PivotSearch!BwTerminate(r)
  PROVE  SearchesInv'
<1>0. /\ SearchesTypeOK /\ WorkInv /\ DecidedOnce /\ PivotRound
      /\ \A w \in Vertices : Rank(w) \in Ranks
  BY PivotStage, StateTypes
<1>1. /\ Terminate(r, "barrier", "backward", "done")
      /\ UNCHANGED <<input, in_active, is_undecided, scc_id, local_decided, active, popped,
                     left, network>>
  BY PivotNames DEF PivotSearch!BwTerminate, PivotSearch!decisions
<1>2. /\ WorkInv' /\ Backward /\ Backward' /\ ~ Forward'
      /\ network = {} /\ \A s \in Ranks : popped[s] = {} /\ left[s] = {}
      /\ \A v \in Vertices : active[v] = 0
      /\ at'[r] = "done" /\ \A s \in Ranks \ {r} : at'[s] = at[s]
  <2>1. UNCHANGED <<input, active, popped, left, network>>
    BY <1>1
  <2> QED BY <1>0, <1>1, <2>1, BwTerminateWork
<1>3. /\ edges' = edges /\ pivot' = pivot
      /\ \A v : Rank(v)' = Rank(v)
  BY <1>1, InputUnchanged
<1>4. /\ is_undecided \cap input.trimmed = {}
      /\ in_active \subseteq is_undecided \cap Reach(edges, pivot)
      /\ pivot \in OfPivot /\ OfPivot \subseteq SCC(edges, pivot)
      /\ SCC(edges, pivot) \subseteq in_active \cup OfPivot
      /\ \A w \in OfPivot : \A x \in Pred(edges, w) \cap in_active :
              Visiting(w, x) \/ <<w, x>> \in network
      /\ OfPivot \in SUBSET Vertices
  BY <1>2, PivotBackwardFacts
<1>5. \A w \in OfPivot : \A x \in Pred(edges, w) : x \notin in_active
  BY <1>0, <1>2, <1>4 DEF Visiting
<1>6. PivotBackward'
  <2>1. (Vertices \ is_undecided') \ input'.trimmed = OfPivot
    BY <1>1 DEF OfPivot
  <2>2. \A w \in OfPivot : \A x \in Pred(edges, w) \cap in_active : FALSE
    BY <1>5
  <2> QED BY <1>1, <1>2, <1>3, <1>4, <2>1, <2>2 DEF PivotBackward
<1>7. PivotRound'
  <2>1. PivotIds'
    BY <1>0, <1>1, <1>3 DEF PivotRound, PivotIds
  <2>2. \A s \in Ranks : at'[s] # "sum"
    BY <1>0, <1>2 DEF PivotRound
  <2> QED BY <1>0, <1>1, <1>2, <1>6, <2>1, <2>2 DEF PivotRound
<1>8. DecidedOnce'
  BY <1>0, <1>1, RecordsStay
<1>9. at' \in [Ranks -> {"call", "forward", "barrier", "backward", "sum", "done"}]
  BY <1>0, <1>1, StateTypes DEF Terminate
<1> QED BY <1>0, <1>1, <1>2, <1>7, <1>8, <1>9, PivotKept, StateTypes DEF PivotRest

\* Nothing happens.
LEMMA SearchesStutter ==
  ASSUME SearchesInv, UNCHANGED searchesVars
  PROVE  SearchesInv'
<1>1. UNCHANGED <<input, map, at, label, active, in_active, popped, label_k, left,
                  network, is_undecided, scc_id, local_decided, stage, todo>>
  BY DEF searchesVars, vars
<1>2. /\ edges' = edges /\ pivot' = pivot
      /\ \A v : Rank(v)' = Rank(v)
      /\ \A r : Local(r)' = Local(r)
      /\ \A S : Within(S)' = Within(S)
      /\ \A S, l, v : Genuine(S, l, v)' = Genuine(S, l, v)
  BY <1>1, InputUnchanged
<1>3. SearchesTypeOK' /\ DecidedOnce'
  BY <1>1, <1>2 DEF SearchesInv, SearchesTypeOK, DecidedOnce
<1>4. /\ WorkInv'
      /\ Forward' <=> Forward
      /\ Backward' <=> Backward
  <2>1. WorkInv'
    BY <1>1, SameWork DEF SearchesInv
  <2> QED BY <1>1, <2>1 DEF Forward, Backward
<1>5. /\ \A u, v : Visiting(u, v)' = Visiting(u, v)
      /\ \A v : LabelOf(v)' = LabelOf(v)
      /\ \A S : EarlierRounds(S)' = EarlierRounds(S)
  BY <1>1, <1>2 DEF Visiting, Searching, LabelOf, EarlierRounds
<1>6. PivotRound => PivotRound'
  <2>1. PivotIds => PivotIds'
    BY <1>1, <1>2 DEF PivotIds
  <2>2. PivotForward => PivotForward'
    BY <1>1, <1>2, <1>5 DEF PivotForward
  <2>3. PivotBackward => PivotBackward'
    BY <1>1, <1>2, <1>5 DEF PivotBackward
  <2> QED BY <1>1, <1>4, <2>1, <2>2, <2>3 DEF PivotRound
<1>7. TrimRound => TrimRound'
  <2>1. EarlierRounds(is_undecided) => EarlierRounds(is_undecided)'
    BY <1>1, <1>2 DEF EarlierRounds
  <2> QED BY <1>1, <2>1 DEF TrimRound
<1>8. LabelRound => LabelRound'
  <2>1. \A S : ForwardInv(S) => ForwardInv(S)'
    BY <1>1, <1>2, <1>5 DEF ForwardInv
  <2>2. \A S : BackwardInv(S) => BackwardInv(S)'
    BY <1>1, <1>2, <1>5 DEF BackwardInv
  <2> QED BY <1>1, <1>4, <2>1, <2>2 DEF LabelRound
<1> QED BY <1>1, <1>3, <1>4, <1>6, <1>7, <1>8 DEF SearchesInv

\* Every step of the pivot search keeps SearchesInv.
LEMMA PivotStep ==
  ASSUME SearchesInv, PivotNext
  PROVE  SearchesInv'
<1>0. /\ stage = "pivot" /\ PivotSearch!Next /\ PivotRest
      /\ SearchesTypeOK /\ WorkInv
      /\ \A w \in Vertices : Rank(w) \in Ranks
  BY PivotStage, StateTypes DEF PivotNext, PivotRest
<1>s. \A r \in Ranks : Searching(r) => at[r] = "forward" \/ at[r] = "backward"
  BY DEF Searching
<1>1. ASSUME NEW u \in Vertices, PivotSearch!Pop(u) PROVE SearchesInv'
  <2>1. Searching(Rank(u))
    BY <1>1, PivotNames DEF PivotSearch!Pop
  <2> QED BY <1>0, <1>1, <1>s, <2>1, PivotPopFw, PivotPopBw
<1>2. ASSUME NEW r \in Ranks, NEW v \in left[r], PivotSearch!VisitLocal(r, v) PROVE SearchesInv'
  BY <1>0, <1>2, <1>s, VisitsEdges, PivotVisitLocalFw, PivotVisitLocalBw
<1>3. ASSUME NEW r \in Ranks, NEW v \in left[r], PivotSearch!Post(r, v) PROVE SearchesInv'
  BY <1>0, <1>3, <1>s, VisitsEdges, PivotPostFw, PivotPostBw
<1>4. ASSUME NEW r \in Ranks, PivotSearch!Visited(r) PROVE SearchesInv'
  <2>1. Searching(r)
    BY <1>0, <1>4, HasWork DEF PivotSearch!Visited
  <2> QED BY <1>0, <1>4, <1>s, <2>1, PivotVisitedFw, PivotVisitedBw
<1>5. ASSUME NEW m \in network, PivotSearch!Receive(m) PROVE SearchesInv'
  <2>1. Searching(Rank(m[2]))
    BY <1>5, PivotNames DEF PivotSearch!Receive
  <2>2. Rank(m[2]) \in Ranks
    BY <1>0, PivotStage DEF PivotRound
  <2> QED BY <1>0, <1>5, <1>s, <2>1, <2>2, PivotReceiveFw, PivotReceiveBw
<1>6. ASSUME NEW r \in Ranks,
             PivotSearch!Begin(r) \/ PivotSearch!FwTerminate(r) \/ PivotSearch!BwTerminate(r)
      PROVE  SearchesInv'
  BY <1>0, <1>6, PivotBegin, PivotFwTerminate, PivotBwTerminate
<1>7. CASE PivotSearch!Barrier
  BY <1>0, <1>7, PivotBarrier
<1>8. CASE PivotSearch!Returned
  <2>1. UNCHANGED searchesVars
    BY <1>0, <1>8 DEF PivotSearch!Returned, PivotSearch!vars, PivotRest, searchesVars, vars
  <2> QED BY <2>1, SearchesStutter
<1> QED BY <1>0, <1>1, <1>2, <1>3, <1>4, <1>5, <1>6, <1>7, <1>8 DEF PivotSearch!Next

\* A rank that has returned leaves the pivot's whole component decided, on every
\* rank: one that is missing would reach the pivot over vertices that are asked.
LEMMA PivotComplete ==
  ASSUME SearchesInv, stage = "pivot", NEW r \in Ranks, at[r] = "done"
  PROVE  /\ Backward /\ OfPivot = SCC(edges, pivot)
         /\ is_undecided \cap input.trimmed = {}
<1>0. /\ SearchesTypeOK /\ WorkInv /\ pivot \in Vertices
      /\ \A w \in Vertices : Rank(w) \in Ranks
      /\ in_active \in SUBSET Vertices
  BY PivotStage, StateTypes
<1>1. Backward
  BY <1>0 DEF WorkInv, Forward, Backward
<1>2. /\ network = {} /\ \A s \in Ranks : popped[s] = {} /\ left[s] = {}
      /\ \A v \in Vertices : active[v] = 0
  <2>1. \A s \in Ranks : at[s] # "barrier"
    BY <1>1 DEF Backward
  <2> QED BY <1>0, <2>1, OverWork
<1>4. /\ is_undecided \cap input.trimmed = {}
      /\ in_active \subseteq is_undecided \cap Reach(edges, pivot)
      /\ pivot \in OfPivot /\ OfPivot \subseteq SCC(edges, pivot)
      /\ SCC(edges, pivot) \subseteq in_active \cup OfPivot
      /\ \A w \in OfPivot : \A x \in Pred(edges, w) \cap in_active :
              Visiting(w, x) \/ <<w, x>> \in network
      /\ OfPivot \in SUBSET Vertices
  BY <1>1, PivotBackwardFacts
<1>5. \A w \in OfPivot : \A x \in Pred(edges, w) : x \notin in_active
  BY <1>0, <1>2, <1>4 DEF Visiting
<1> DEFINE Missing == {x \in Vertices : pivot \notin Reach(edges, x)}
           C == in_active \cup Missing
<1>6. IsClosed(edges, Missing)
  BY <1>0, NotReachingClosed
<1>7. ASSUME NEW u \in Vertices, NEW v \in Vertices, u \in C, <<u, v>> \in edges
      PROVE  v \in C
  <2>1. CASE u \in Missing
    BY <1>6, <1>7, <2>1 DEF IsClosed
  <2>2. CASE u \in in_active /\ v \notin Missing
    <3>1. v \in SCC(edges, pivot)
      BY <1>0, <1>4, <1>7, <2>2, ReachStep DEF SCC
    <3>2. u \in Pred(edges, v)
      BY <1>7 DEF Pred
    <3> QED BY <1>4, <1>5, <2>2, <3>1, <3>2
  <2> QED BY <1>7, <2>1, <2>2
<1>8. IsClosed(edges, C) /\ C \in SUBSET Vertices
  BY <1>0, <1>7 DEF IsClosed
<1>9. ASSUME NEW x \in SCC(edges, pivot), x \in in_active PROVE FALSE
  <2>1. Reach(edges, x) \subseteq C
    BY <1>0, <1>8, <1>9, ReachInClosed
  <2>2. pivot \in Reach(edges, x) /\ pivot \in Reach(edges, pivot)
    BY <1>0, ReachSelf DEF SCC
  <2>3. pivot \notin in_active
    BY <1>4 DEF OfPivot
  <2> QED BY <2>1, <2>2, <2>3
<1> QED BY <1>1, <1>4, <1>9

\* So when all have, whole components are decided.
LEMMA PivotRounds ==
  ASSUME SearchesInv, stage = "pivot", \A r \in Ranks : at[r] = "done"
  PROVE  EarlierRounds(is_undecided)
<1>0. /\ SearchesTypeOK /\ PivotRound /\ pivot \in Vertices
      /\ \A v \in input.trimmed : SCC(edges, v) = {v}
      /\ Ranks # {} /\ input.trimmed \in SUBSET Vertices
  BY PivotStage, StateTypes
<1>1. OfPivot = SCC(edges, pivot) /\ is_undecided \cap input.trimmed = {}
  BY <1>0, PivotComplete
<1>2. ASSUME NEW u \in Vertices \ is_undecided
      PROVE  /\ SCC(edges, u) \cap is_undecided = {}
             /\ scc_id[u] \in SCC(edges, u)
             /\ \A v \in SCC(edges, u) : scc_id[v] = scc_id[u]
  <2>1. CASE u \in input.trimmed
    BY <1>0, <2>1 DEF PivotRound, PivotIds
  <2>2. CASE u \in OfPivot
    <3>1. SCC(edges, u) = OfPivot /\ pivot \in SCC(edges, u)
      BY <1>0, <1>1, <2>2, SccClass, SccSelf
    <3>2. \A v \in OfPivot : scc_id[v] = pivot
      BY <1>0 DEF OfPivot, PivotRound, PivotIds
    <3> QED BY <2>2, <3>1, <3>2 DEF OfPivot
  <2> QED BY <2>1, <2>2 DEF OfPivot
<1> QED BY <1>2 DEF EarlierRounds

\* While the pivot search runs, the stacks fit, what is reached is undecided,
\* every decision is recorded once, and it is of the pivot's component.
LEMMA PivotIsRight == SearchesInv => PivotInv
<1> SUFFICES ASSUME SearchesInv, stage = "pivot" PROVE PivotSearch!AsyncInv
  BY DEF PivotInv
<1>0. /\ SearchesTypeOK /\ WorkInv /\ DecidedOnce /\ PivotRound
      /\ input.trimmed \in SUBSET Vertices
  BY PivotStage
<1>1. /\ \A w \in Vertices : Rank(w) \in Ranks /\ w \in Local(Rank(w))
      /\ \A s : Local(s) \in SUBSET Vertices
      /\ \A s : \A w \in Local(s) : Rank(w) = s
      /\ is_undecided \in SUBSET Vertices /\ pivot \in Vertices
      /\ input.trimmed \in SUBSET Vertices
  BY <1>0, StateTypes
<1>2. PivotSearch!TypeOK
  <2>1. at \in [Ranks -> {"call", "forward", "barrier", "backward", "done"}]
    BY <1>0, StateTypes DEF PivotRound
  <2>2. active \in [Vertices -> Nat]
    BY <1>0 DEF WorkInv
  <2> QED BY <1>0, <2>1, <2>2, StateTypes DEF PivotSearch!TypeOK, PivotRound
<1>3. PivotSearch!StacksFit
  BY <1>0 DEF WorkInv, PivotSearch!StacksFit
<1>4. PivotSearch!ReachedProtectsUndecided
  <2>1. in_active \subseteq is_undecided
    BY <1>0 DEF WorkInv, PivotRound, PivotForward, PivotBackward
  <2>2. ASSUME NEW r \in Ranks, at[r] = "backward", NEW u \in Local(r), active[u] > 0
        PROVE  u \notin is_undecided
    <3>1. Backward /\ active[u] = 1 /\ u \in Vertices
      BY <1>0, <1>1, <2>2, AllBackward DEF WorkInv
    <3> QED BY <3>1, PivotBackwardFacts DEF OfPivot
  <2>3. is_undecided = {v \in Vertices : scc_id[v] = Undecided}
    BY <1>0 DEF DecidedOnce
  <2>4. ASSUME NEW r \in Ranks
        PROVE  local_decided[r] = Cardinality({v \in Local(r) : scc_id[v] # Undecided})
    <3>1. Local(r) \ is_undecided = {v \in Local(r) : scc_id[v] # Undecided}
      BY <1>1, <2>3
    <3> QED BY <1>0, <3>1 DEF DecidedOnce
  <2>5. \A r \in Ranks : local_decided[r]
            = PivotSearch!Cardinality({v \in PivotSearch!Local(r) : scc_id[v] # Undecided})
    BY <2>4, PivotNames, PivotCounts
  <2>6. \A r : PivotSearch!Local(r) = Local(r)
    BY PivotNames
  <2> QED BY <2>1, <2>2, <2>3, <2>5, <2>6 DEF PivotSearch!ReachedProtectsUndecided
<1>5. PivotSearch!WholePivotComponent
  <2>1. PivotSearch!Found = OfPivot
    BY <1>0, <1>1 DEF PivotSearch!Found, OfPivot, DecidedOnce
  <2>2. OfPivot \subseteq SCC(edges, pivot)
    <3>1. CASE Backward
      BY <3>1, PivotBackwardFacts
    <3>2. CASE Forward
      <4>1. OfPivot \subseteq {pivot}
        BY <1>0, <3>2 DEF PivotRound, PivotForward, OfPivot
      <4> QED BY <1>1, <4>1, SccSelf
    <3> QED BY <1>0, <3>1, <3>2 DEF WorkInv
  <2>3. (\E r \in Ranks : at[r] = "done") => OfPivot = SCC(edges, pivot)
    BY PivotComplete
  <2> QED BY <2>1, <2>2, <2>3, PivotNames DEF PivotSearch!WholePivotComponent
<1> QED BY <1>2, <1>3, <1>4, <1>5 DEF PivotSearch!AsyncInv
-----------------------------------------------------------------------------
(* Between the searches                                                    *)

\* The label of v is one that w, behind it, can have too.
LEMMA GenuineStep ==
  ASSUME input \in Inputs, NEW S \in SUBSET Vertices, NEW l, NEW v \in S, NEW w \in S,
         Genuine(S, l, v), <<v, w>> \in edges
  PROVE  Genuine(S, l, w)
<1>1. <<v, w>> \in Within(S)
  BY DEF Within
<1>2. PICK u \in S : l = map[u] /\ v \in Reach(Within(S), u)
  BY DEF Genuine
<1>3. w \in Reach(Within(S), u)
  BY <1>1, <1>2, ReachStep
<1> QED BY <1>2, <1>3 DEF Genuine

\* A vertex has a label of its own.
LEMMA GenuineOwn ==
  ASSUME NEW S \in SUBSET Vertices, NEW v \in S
  PROVE  Genuine(S, map[v], v)
BY ReachSelf DEF Genuine

\* Nothing is left to do, and the records agree on whole components.
Between ==
  /\ SearchesTypeOK /\ EarlierRounds(is_undecided)
  /\ UNCHANGED <<input, is_undecided, scc_id>>
  /\ map' \in Maps
  /\ network' = {} /\ \A r \in Ranks : popped'[r] = {}
  /\ \A v \in Vertices : active'[v] = 0

\* A round can begin, on what is undecided.
LEMMA CallRound ==
  ASSUME Between, \A r \in Ranks : at'[r] = "call"
  PROVE  LabelRound'
<1>0. /\ SearchesTypeOK /\ EarlierRounds(is_undecided)
      /\ UNCHANGED <<input, is_undecided, scc_id>>
      /\ map' \in Maps
      /\ network' = {} /\ \A r \in Ranks : popped'[r] = {}
      /\ \A v \in Vertices : active'[v] = 0
  BY DEF Between
<1>1. /\ edges' = edges
      /\ \A v : Rank(v)' = Rank(v)
      /\ \A S : Within(S)' = Within(S)
  BY <1>0, InputUnchanged
<1>2. /\ is_undecided \in SUBSET Vertices /\ Ranks # {}
      /\ \A v \in Vertices : Rank(v) \in Ranks
      /\ edges \in SUBSET (Vertices \X Vertices)
  BY <1>0, StateTypes
<1>3. PICK S : S = is_undecided
  OBVIOUS
<1>4. \A v \in Vertices : at'[Rank(v)] = "call"
  BY <1>2
<1>5. \A v \in Vertices : LabelOf(v)' = map'[v]
  BY <1>1, <1>4 DEF LabelOf
<1>6. map' \in [Vertices -> Nat]
  BY <1>0, MapsAssumption
<1>7. ForwardInv(S)'
  <2>1. EarlierRounds(S)'
    BY <1>0, <1>1, <1>3 DEF EarlierRounds
  <2>2. is_undecided' = S \ {v \in S : at'[Rank(v)] = "barrier" /\ label'[v] = map'[v]}
    BY <1>0, <1>2, <1>3, <1>4
  <2>3. \A v \in S : Genuine(S, LabelOf(v), v)'
    <3>1. \A v \in S : v \in Reach(Within(S), v)
      BY <1>2, <1>3, ReachSelf
    <3> QED BY <1>1, <1>2, <1>3, <1>5, <3>1 DEF Genuine
  <2>4. \A v \in S : LabelOf(v)' <= map'[v]
    BY <1>2, <1>3, <1>5, <1>6
  <2>5. \A e \in Within(S) : at'[Rank(e[1])] = "call"
    <3>1. \A e \in Within(S) : e[1] \in Vertices
      BY <1>2, <1>3 DEF Within
    <3> QED BY <1>4, <3>1
  <2> QED BY <1>0, <1>1, <1>2, <1>3, <1>4, <2>1, <2>2, <2>3, <2>4, <2>5 DEF ForwardInv
<1>8. ~ Backward'
  BY <1>2 DEF Backward
<1>9. ~ \E r \in Ranks : at'[r] = "done"
  OBVIOUS
<1> QED BY <1>0, <1>2, <1>3, <1>7, <1>8, <1>9 DEF LabelRound

\* The driver returns, with every vertex decided.
LEMMA DoneRound ==
  ASSUME Between, is_undecided = {}, \A r \in Ranks : at'[r] = "done"
  PROVE  LabelRound'
<1>0. /\ SearchesTypeOK /\ EarlierRounds(is_undecided)
      /\ UNCHANGED <<input, is_undecided, scc_id>>
      /\ map' \in Maps
      /\ network' = {} /\ \A r \in Ranks : popped'[r] = {}
      /\ \A v \in Vertices : active'[v] = 0
  BY DEF Between
<1>1. /\ edges' = edges
      /\ \A v : Rank(v)' = Rank(v)
      /\ \A S : Within(S)' = Within(S)
  BY <1>0, InputUnchanged
<1>2. Ranks # {}
  BY <1>0, StateTypes
<1>3. BackwardInv({})'
  <2>1. EarlierRounds({})'
    BY <1>0, <1>1 DEF EarlierRounds
  <2>2. Within({})' = {}
    BY DEF Within
  <2> QED BY <1>0, <1>1, <2>1, <2>2 DEF BackwardInv
<1>4. ~ Forward'
  BY <1>2 DEF Forward
<1> QED BY <1>0, <1>2, <1>3, <1>4 DEF LabelRound

\* From the pivot search to the trim, or to the end.
LEMMA PivotReturnStep ==
  ASSUME SearchesInv, PivotReturn
  PROVE  SearchesInv'
<1>0. /\ SearchesTypeOK /\ WorkInv /\ DecidedOnce /\ Ranks # {} /\ stage = "pivot"
  BY PivotStage, StateTypes DEF PivotReturn
<1>1. /\ \A r \in Ranks : at[r] = "done"
      /\ UNCHANGED <<input, at, label, active, in_active, popped, label_k, left, network,
                     is_undecided, scc_id, local_decided>>
      /\ map' \in Maps
  BY DEF PivotReturn, decisions
<1>2. EarlierRounds(is_undecided)
  BY <1>0, <1>1, PivotRounds
<1>3. WorkInv' /\ DecidedOnce'
  BY <1>0, <1>1, SameWork, RecordsStay
<1>4. /\ network = {} /\ \A s \in Ranks : popped[s] = {} /\ left[s] = {}
      /\ \A v \in Vertices : active[v] = 0
  <2>1. PICK r \in Ranks : TRUE
    BY <1>0
  <2>2. at[r] = "done" /\ \A s \in Ranks : at[s] # "barrier"
    BY <1>1
  <2> QED BY <1>0, <2>2, OverWork
<1>5. CASE global_decided = Cardinality(Vertices)
  <2>1. stage' = "label"
    BY <1>5 DEF PivotReturn
  <2>2. is_undecided = {}
    BY <1>0, <1>5, AllDecided
  <2>3. Between
    BY <1>0, <1>1, <1>2, <1>4 DEF Between
  <2>4. LabelRound'
    BY <1>1, <2>2, <2>3, DoneRound
  <2>5. SearchesTypeOK'
    BY <1>0, <1>1, <2>1 DEF SearchesTypeOK
  <2> QED BY <1>3, <2>1, <2>4, <2>5 DEF SearchesInv
<1>6. CASE global_decided # Cardinality(Vertices)
  <2>1. stage' = "trim" /\ todo' = is_undecided
    BY <1>6 DEF PivotReturn
  <2>2. edges' = edges
    BY <1>1, InputUnchanged
  <2>3. EarlierRounds(is_undecided)'
    BY <1>1, <1>2, <2>2 DEF EarlierRounds
  <2>4. TrimRound'
    BY <1>1, <2>1, <2>3 DEF TrimRound
  <2>5. SearchesTypeOK'
    BY <1>0, <1>1, <2>1 DEF SearchesTypeOK
  <2> QED BY <1>3, <2>1, <2>4, <2>5 DEF SearchesInv
<1> QED BY <1>5, <1>6

\* What trim_1_normal decides is alone in its component.
LEMMA TrimVisitStep ==
  ASSUME SearchesInv, NEW k \in Vertices, TrimVisit(k)
  PROVE  SearchesInv'
<1>0. /\ SearchesTypeOK /\ WorkInv /\ DecidedOnce /\ TrimRound
      /\ stage = "trim" /\ stage' = "trim"
      /\ is_undecided \in SUBSET Vertices
      /\ \A w \in Vertices : Rank(w) \in Ranks
  BY StateTypes DEF SearchesInv, TrimVisit
<1>1. PICK gone : gone = IF HasDegree(k) THEN {} ELSE {k}
  OBVIOUS
<1>2. /\ k \in todo /\ todo' = todo \ {k}
      /\ is_undecided' = is_undecided \ gone
      /\ scc_id' = [v \in Vertices |-> IF v \in gone THEN v ELSE scc_id[v]]
      /\ local_decided' =
           [r \in Ranks |-> local_decided[r] + Cardinality(Local(r) \cap gone)]
      /\ UNCHANGED <<input, map, at, label, active, in_active, popped, label_k,
                     left, network>>
  BY <1>1 DEF TrimVisit
<1>3. /\ gone \in SUBSET is_undecided /\ todo \subseteq is_undecided
      /\ EarlierRounds(is_undecided)
  BY <1>0, <1>1, <1>2 DEF TrimRound
<1>4. ASSUME NEW u \in gone PROVE SCC(edges, u) = {u}
  <2>1. u = k /\ u \in is_undecided /\ ~ HasDegree(u)
    BY <1>1, <1>3
  <2>2. SCC(edges, u) \subseteq is_undecided
    <3> SUFFICES ASSUME NEW w \in SCC(edges, u), w \notin is_undecided PROVE FALSE
      OBVIOUS
    <3>1. w \in Vertices /\ u \in SCC(edges, w)
      BY <1>0, <2>1, SccClass
    <3> QED BY <1>3, <2>1, <3>1 DEF EarlierRounds
  <2>3. Pred(edges, u) \cap is_undecided = {}
    BY <2>1 DEF HasDegree
  <2> QED BY <1>0, <2>1, <2>2, <2>3, TrimmedAlone
<1>5. Decides(gone)
  BY <1>0, <1>2, <1>3, StateTypes DEF Decides
<1>6. /\ DecidedOnce'
      /\ is_undecided' \in SUBSET Vertices
      /\ scc_id' \in [Vertices -> Vertices \cup {Undecided}]
      /\ local_decided' \in [Ranks -> Nat]
  BY <1>0, <1>2, <1>3, <1>5, DecidesKeepsRecords
<1>7. WorkInv'
  BY <1>0, <1>2, SameWork
<1>8. EarlierRounds(is_undecided)'
  <2>1. edges' = edges
    BY <1>2, InputUnchanged
  <2>2. ASSUME NEW u \in Vertices \ is_undecided'
        PROVE  /\ SCC(edges, u) \cap is_undecided' = {}
               /\ scc_id'[u] \in SCC(edges, u)
               /\ \A v \in SCC(edges, u) : scc_id'[v] = scc_id'[u]
    <3>1. CASE u \in gone
      BY <1>2, <1>4, <3>1
    <3>2. CASE u \notin is_undecided
      <4>1. /\ SCC(edges, u) \cap is_undecided = {}
            /\ scc_id[u] \in SCC(edges, u)
            /\ \A v \in SCC(edges, u) : scc_id[v] = scc_id[u]
        BY <1>3, <3>2 DEF EarlierRounds
      <4>2. \A v \in SCC(edges, u) : v \in Vertices /\ v \notin gone
        BY <1>3, <4>1 DEF SCC, Reach
      <4>3. \A v \in SCC(edges, u) : scc_id'[v] = scc_id[v]
        BY <1>2, <4>2
      <4>4. scc_id'[u] = scc_id[u]
        BY <1>2, <1>3, <3>2
      <4> QED BY <1>2, <4>1, <4>3, <4>4
    <3> QED BY <1>2, <3>1, <3>2
  <2> QED BY <2>1, <2>2 DEF EarlierRounds
<1>9. TrimRound'
  BY <1>0, <1>1, <1>2, <1>3, <1>8 DEF TrimRound
<1>10. SearchesTypeOK'
  BY <1>0, <1>2, <1>6 DEF SearchesTypeOK
<1> QED BY <1>0, <1>6, <1>7, <1>9, <1>10 DEF SearchesInv

\* From the trim to the label searches.
LEMMA TrimReturnStep ==
  ASSUME SearchesInv, TrimReturn
  PROVE  SearchesInv'
<1>0. /\ SearchesTypeOK /\ WorkInv /\ DecidedOnce /\ TrimRound /\ Ranks # {}
      /\ stage = "trim" /\ stage' = "label"
      /\ \A r \in Ranks : at[r] = "done"
      /\ EarlierRounds(is_undecided)
  <2>1. stage = "trim" /\ stage' = "label"
    BY DEF TrimReturn
  <2> QED BY <2>1, StateTypes DEF SearchesInv, TrimRound
<1>1. PICK to \in {"call", "done"} :
        /\ at' = [r \in Ranks |-> to]
        /\ to = "done" => global_decided = Cardinality(Vertices)
  BY DEF TrimReturn
<1>2. /\ map' \in Maps
      /\ UNCHANGED <<input, label, active, in_active, popped, label_k, left, network,
                     is_undecided, scc_id, local_decided>>
  BY DEF TrimReturn, decisions
<1>3. /\ WorkInv'
      /\ network = {} /\ \A s \in Ranks : popped[s] = {} /\ left[s] = {}
      /\ \A v \in Vertices : active[v] = 0
      /\ \A s \in Ranks : at'[s] = to
  <2>1. \A r \in Ranks : at[r] \in {"sum", "done"}
    BY <1>0
  <2>2. UNCHANGED <<input, active, popped, left, network>>
    BY <1>2
  <2> QED BY <1>0, <1>1, <2>1, <2>2, CollectiveWork
<1>4. Between
  BY <1>0, <1>2, <1>3 DEF Between
<1>5. LabelRound'
  <2>1. CASE to = "call"
    BY <1>3, <1>4, <2>1, CallRound
  <2>2. CASE to = "done"
    <3>1. is_undecided = {}
      BY <1>0, <1>1, <2>2, AllDecided
    <3> QED BY <1>3, <1>4, <2>2, <3>1, DoneRound
  <2> QED BY <2>1, <2>2
<1>6. DecidedOnce'
  BY <1>0, <1>2, RecordsStay
<1>7. SearchesTypeOK'
  BY <1>0, <1>1, <1>2 DEF SearchesTypeOK
<1> QED BY <1>0, <1>3, <1>5, <1>6, <1>7 DEF SearchesInv
-----------------------------------------------------------------------------
(* The label searches, forward                                             *)

\* What SearchesInv says while the label searches run.
LEMMA LabelStage ==
  ASSUME SearchesInv, stage = "label"
  PROVE  /\ SearchesTypeOK /\ WorkInv /\ DecidedOnce /\ LabelRound
         /\ input \in Inputs /\ map \in Maps
         /\ map \in [Vertices -> Nat]
         /\ \A u, v \in Vertices : map[u] = map[v] => u = v
         /\ \A v \in Vertices : unmap(map[v]) = v
         /\ network \subseteq Vertices \X Vertices \X Nat
         /\ active \in [Vertices -> {0, 1}]
<1>1. SearchesTypeOK /\ WorkInv /\ DecidedOnce /\ LabelRound
  BY DEF SearchesInv
<1>2. input \in Inputs /\ map \in Maps
  BY <1>1, StateTypes DEF LabelRound
<1>3. network \subseteq Vertices \X Vertices \X Nat /\ active \in [Vertices -> {0, 1}]
  BY <1>1 DEF LabelRound, WorkInv
<1> QED BY <1>1, <1>2, <1>3, MapFacts

\* A step of the label searches keeps SearchesInv when it keeps these.
LEMMA LabelKept ==
  ASSUME SearchesTypeOK, stage = "label", UNCHANGED <<input, stage>>,
         at' \in [Ranks -> {"call", "forward", "barrier", "backward", "sum", "done"}],
         label' \in [Vertices -> Nat], label_k' \in [Ranks -> Nat],
         in_active' \in SUBSET Vertices, is_undecided' \in SUBSET Vertices,
         popped' \in [Ranks -> SUBSET Vertices], left' \in [Ranks -> SUBSET Vertices],
         scc_id' \in [Vertices -> Vertices \cup {Undecided}],
         local_decided' \in [Ranks -> Nat],
         WorkInv', DecidedOnce', LabelRound'
  PROVE  SearchesInv'
<1>1. SearchesTypeOK'
  BY DEF SearchesTypeOK
<1> QED BY <1>1 DEF SearchesInv

\* The label of v in this round, when the step is one of a rank that has begun.
NewLabel(v) == IF at[Rank(v)] = "call" THEN map[v] ELSE label'[v]

\* What a step of the forward search has to show, without primed definitions.
LabelsSpread(S) ==
  /\ UNCHANGED <<input, map, at, is_undecided, scc_id>>
  /\ \A r \in Ranks : at[r] \in {"call", "forward"}
  /\ network' \subseteq Vertices \X Vertices \X Nat
  /\ label' \in [Vertices -> Nat]
  /\ \A v \in S : NewLabel(v) <= LabelOf(v) /\ Genuine(S, NewLabel(v), v)
  /\ \A v \in Vertices : at[Rank(v)] = "forward" =>
       /\ active'[v] = 1 <=> v \in in_active'
       /\ active'[v] = 1 => v \in S
  /\ \A r \in Ranks : \A u \in popped'[r] :
       /\ u \in S /\ Genuine(S, label_k'[r], u)
       /\ label_k'[r] = label'[u] \/ (label'[u] < label_k'[r] /\ active'[u] = 1)
  /\ \A m \in network' : m[1] \in S /\ <<m[1], m[2]>> \in edges /\ Genuine(S, m[3], m[1])
  /\ \A e \in Within(S) :
       \/ NewLabel(e[2]) <= NewLabel(e[1])
       \/ at[Rank(e[1])] = "call"
       \/ Searching(Rank(e[1])) /\ active'[e[1]] = 1
       \/ e[1] \in popped'[Rank(e[1])] /\ e[2] \in left'[Rank(e[1])]
       \/ \E m \in network' : m[2] = e[2] /\ m[3] <= NewLabel(e[1])

\* A step that passes labels on keeps the invariant of the forward phase of a
\* label search.
LEMMA LabelForwardKept ==
  ASSUME SearchesInv, stage = "label", NEW S \in SUBSET Vertices, ForwardInv(S), LabelsSpread(S)
  PROVE  LabelRound'
<1>0. /\ UNCHANGED <<input, map, at, is_undecided, scc_id>>
      /\ \A r \in Ranks : at[r] \in {"call", "forward"}
      /\ network' \subseteq Vertices \X Vertices \X Nat
      /\ label' \in [Vertices -> Nat]
      /\ \A v \in S : NewLabel(v) <= LabelOf(v) /\ Genuine(S, NewLabel(v), v)
      /\ \A v \in Vertices : at[Rank(v)] = "forward" =>
           /\ active'[v] = 1 <=> v \in in_active'
           /\ active'[v] = 1 => v \in S
      /\ \A r \in Ranks : \A u \in popped'[r] :
           /\ u \in S /\ Genuine(S, label_k'[r], u)
           /\ label_k'[r] = label'[u] \/ (label'[u] < label_k'[r] /\ active'[u] = 1)
      /\ \A m \in network' : m[1] \in S /\ <<m[1], m[2]>> \in edges /\ Genuine(S, m[3], m[1])
      /\ \A e \in Within(S) :
           \/ NewLabel(e[2]) <= NewLabel(e[1])
           \/ at[Rank(e[1])] = "call"
           \/ Searching(Rank(e[1])) /\ active'[e[1]] = 1
           \/ e[1] \in popped'[Rank(e[1])] /\ e[2] \in left'[Rank(e[1])]
           \/ \E m \in network' : m[2] = e[2] /\ m[3] <= NewLabel(e[1])
  BY DEF LabelsSpread
<1>1. /\ edges' = edges
      /\ \A v : Rank(v)' = Rank(v)
      /\ \A T : Within(T)' = Within(T)
      /\ \A T, l, v : Genuine(T, l, v)' = Genuine(T, l, v)
  BY <1>0, InputUnchanged
<1>2. /\ SearchesTypeOK /\ LabelRound /\ Ranks # {} /\ map \in [Vertices -> Nat]
      /\ \A v \in Vertices : Rank(v) \in Ranks
      /\ label \in [Vertices -> Nat]
  BY LabelStage, StateTypes
<1>3. ~ Backward' /\ \A r \in Ranks : at'[r] # "done"
  BY <1>0, <1>2 DEF Backward
<1>4. /\ \A v : Searching(Rank(v))' = Searching(Rank(v))
      /\ \A v : LabelOf(v)' = NewLabel(v)
  BY <1>0, <1>1 DEF Searching, LabelOf, NewLabel
<1>5. /\ EarlierRounds(S)
      /\ \A v \in S : LabelOf(v) <= map[v]
      /\ is_undecided = S
      /\ \A v \in Vertices : at[Rank(v)] # "barrier"
  BY <1>0, <1>2 DEF ForwardInv
<1>6. EarlierRounds(S)'
  BY <1>0, <1>1, <1>5 DEF EarlierRounds
<1>7. \A v \in S : NewLabel(v) <= map[v]
  <2>1. \A v \in S : NewLabel(v) \in Nat /\ LabelOf(v) \in Nat /\ map[v] \in Nat
    BY <1>0, <1>2 DEF NewLabel, LabelOf
  <2> QED BY <1>0, <1>5, <2>1
<1>8. \A u, v : Visiting(u, v)' <=> \/ Searching(Rank(u)) /\ active'[u] = 1
                                    \/ u \in popped'[Rank(u)] /\ v \in left'[Rank(u)]
  BY <1>1, <1>4 DEF Visiting
<1>9. \A e \in Within(S) :
        \/ LabelOf(e[2])' <= LabelOf(e[1])'
        \/ at'[Rank(e[1])] = "call" \/ Visiting(e[1], e[2])'
        \/ \E m \in network' : m[2] = e[2] /\ m[3] <= LabelOf(e[1])'
  BY <1>0, <1>4, <1>8
<1>10. \A v \in S : Genuine(S, LabelOf(v), v)' /\ LabelOf(v)' <= map'[v]
  <2>1. \A v \in S : (Genuine(S, LabelOf(v), v))' <=> Genuine(S, LabelOf(v)', v)
    BY <1>0, <1>1 DEF Genuine
  <2> QED BY <1>0, <1>4, <1>7, <2>1
<1>11. \A v \in Vertices : at[Rank(v)] \in {"call", "forward"}
  BY <1>0, <1>2
<1>12. \A r \in Ranks : \A u \in popped'[r] : Genuine(S, label_k[r], u)'
  BY <1>0, <1>1 DEF Genuine
<1>13. \A m \in network' : Genuine(S, m[3], m[1])'
  BY <1>0, <1>1
<1>14. ForwardInv(S)'
  BY <1>0, <1>1, <1>5, <1>6, <1>9, <1>10, <1>11, <1>12, <1>13 DEF ForwardInv
<1>15. Forward'
  BY <1>0 DEF Forward
<1> QED BY <1>0, <1>2, <1>3, <1>14, <1>15 DEF LabelRound
\* In the midst of the forward search, what ForwardInv says.
ForwardRuns(S) ==
  /\ EarlierRounds(S) /\ is_undecided = S
  /\ \A r \in Ranks : at[r] \in {"call", "forward"}
  /\ \A v \in Vertices : at[Rank(v)] \in {"call", "forward"}
  /\ \A v \in S : Genuine(S, LabelOf(v), v) /\ LabelOf(v) <= map[v]
  /\ \A v \in Vertices : at[Rank(v)] = "forward" =>
       /\ active[v] = 1 <=> v \in in_active
       /\ active[v] = 1 => v \in S
  /\ \A r \in Ranks : \A u \in popped[r] :
       /\ u \in S /\ Genuine(S, label_k[r], u)
       /\ label_k[r] = label[u] \/ (label[u] < label_k[r] /\ active[u] = 1)
  /\ \A m \in network : m[1] \in S /\ <<m[1], m[2]>> \in edges /\ Genuine(S, m[3], m[1])
  /\ \A e \in Within(S) :
       \/ LabelOf(e[2]) <= LabelOf(e[1])
       \/ at[Rank(e[1])] = "call"
       \/ Searching(Rank(e[1])) /\ active[e[1]] = 1
       \/ e[1] \in popped[Rank(e[1])] /\ e[2] \in left[Rank(e[1])]
       \/ \E m \in network : m[2] = e[2] /\ m[3] <= LabelOf(e[1])

\* While something is under way in the forward phase of a label search, no rank
\* has left it.
LEMMA ForwardFacts ==
  ASSUME SearchesInv, stage = "label", ~ NothingLeft, NEW r \in Ranks, at[r] \in {"call", "forward"}
  PROVE  \E S \in SUBSET Vertices : ForwardInv(S) /\ ForwardRuns(S)
<1>1. /\ SearchesTypeOK /\ WorkInv /\ LabelRound
      /\ \A v \in Vertices : Rank(v) \in Ranks
  BY LabelStage, StateTypes
<1>2. Forward /\ \A s \in Ranks : at[s] # "barrier"
  BY <1>1 DEF WorkInv, Forward, Backward
<1>3. PICK S \in SUBSET Vertices : ForwardInv(S)
  BY <1>1, <1>2 DEF LabelRound
<1>4. \A s \in Ranks : at[s] \in {"call", "forward"}
  BY <1>2 DEF Forward
<1>5. \A v \in Vertices : at[Rank(v)] \in {"call", "forward"}
  BY <1>1, <1>4
<1>6. ForwardRuns(S)
  BY <1>3, <1>4, <1>5 DEF ForwardInv, ForwardRuns, Visiting
<1> QED BY <1>3, <1>6

\* The handler on v, with a label that one of S gave: v is active if it takes it.
LEMMA LabelFwHandle ==
  ASSUME SearchesInv, stage = "label", NEW S \in SUBSET Vertices, ForwardRuns(S),
         NEW v \in Vertices, at[Rank(v)] = "forward", NEW l \in Nat, Handle(v, l)
  PROVE  /\ UNCHANGED decisions
         /\ \E T \in SUBSET S :
              /\ T \subseteq {v} /\ (v \in T => l < label[v])
              /\ label' = [w \in Vertices |-> IF w \in T THEN l ELSE label[w]]
              /\ v \in S => label'[v] <= l
              /\ in_active' = in_active \cup T
              /\ \A w \in Vertices : active'[w] = IF w \in T THEN 1 ELSE active[w]
         /\ active' \in [Vertices -> {0, 1}]
         /\ label' \in [Vertices -> Nat]
         /\ in_active' \in SUBSET Vertices
         /\ \A w \in Vertices : at[Rank(w)] = "call" => active'[w] = 0
<1> DEFINE T == IF v \in is_undecided /\ l < label[v] THEN {v} ELSE {}
<1>1. on_fw_message(v, l)
  BY DEF Handle
<1>2. /\ label' = [w \in Vertices |-> IF w \in T THEN l ELSE label[w]]
      /\ in_active' = in_active \cup T
      /\ active' = [w \in Vertices |-> active[w] + IF w \in T \ in_active THEN 1 ELSE 0]
      /\ UNCHANGED decisions
  BY <1>1 DEF on_fw_message, Activate
<1>3. /\ active \in [Vertices -> {0, 1}] /\ label \in [Vertices -> Nat]
      /\ in_active \in SUBSET Vertices /\ is_undecided = S /\ WorkInv
      /\ active[v] = 1 <=> v \in in_active
  BY LabelStage, StateTypes DEF ForwardRuns
<1>4. /\ T \in SUBSET S /\ T \subseteq {v}
      /\ v \in T => l < label[v]
      /\ v \in S /\ v \notin T => label[v] <= l
  BY <1>3
<1> HIDE DEF T
<1>5. label' \in [Vertices -> Nat] /\ in_active' \in SUBSET Vertices
  BY <1>2, <1>3, <1>4
<1>6. v \in S => label'[v] <= l
  BY <1>2, <1>3, <1>4
<1>7. \A w \in Vertices : active'[w] = IF w \in T THEN 1 ELSE active[w]
  BY <1>2, <1>3, <1>4
<1>8. active' \in [Vertices -> {0, 1}]
  BY <1>2, <1>3, <1>7
<1>9. \A w \in Vertices : at[Rank(w)] = "call" => active'[w] = 0
  BY <1>3, <1>4, <1>7 DEF WorkInv
<1> QED BY <1>2, <1>4, <1>5, <1>6, <1>7, <1>8, <1>9

\* What else a step of the label searches leaves as it is.
LabelRest == UNCHANGED <<stage, todo>>

\* The forward search takes a vertex from a stack.
LEMMA LabelPopFw ==
  ASSUME SearchesInv, stage = "label", LabelRest, NEW u \in Vertices, Pop(u),
         at[Rank(u)] = "forward"
  PROVE  SearchesInv'
<1> DEFINE r == Rank(u)
<1>0. /\ SearchesTypeOK /\ WorkInv /\ DecidedOnce /\ LabelRound /\ r \in Ranks
      /\ u \in Local(r) /\ map \in [Vertices -> Nat] /\ label \in [Vertices -> Nat]
      /\ active \in [Vertices -> {0, 1}] /\ edges \in SUBSET (Vertices \X Vertices)
      /\ network \subseteq Vertices \X Vertices \X Nat
      /\ \A w \in Vertices : Rank(w) \in Ranks
  BY LabelStage, StateTypes
<1>1. /\ Searching(r) /\ popped[r] = {} /\ active[u] > 0
      /\ active' = [active EXCEPT ![u] = @ - 1]
      /\ popped' = [popped EXCEPT ![r] = {u}]
      /\ label_k' = [label_k EXCEPT ![r] = label[u]]
      /\ left' = [left EXCEPT ![r] = Concerned(Succ(edges, u), u)]
      /\ in_active' = in_active \ {u}
      /\ UNCHANGED <<input, map, at, label, network, is_undecided, scc_id, local_decided>>
  BY DEF Pop, Unset, Neighbours, decisions
<1>2. active[u] = 1 /\ \A w \in Vertices : active'[w] = IF w = u THEN 0 ELSE active[w]
  BY <1>0, <1>1
<1>3. /\ popped'[r] = {u} /\ left'[r] = {v \in Succ(edges, u) : label[u] < map[v]}
      /\ label_k'[r] = label[u]
      /\ \A s \in Ranks \ {r} : popped'[s] = popped[s] /\ left'[s] = left[s]
                                /\ label_k'[s] = label_k[s]
      /\ popped' \in [Ranks -> SUBSET Vertices] /\ left' \in [Ranks -> SUBSET Vertices]
      /\ label_k' \in [Ranks -> Nat]
  BY <1>0, <1>1, StateTypes DEF Succ, Concerned
<1>4. active' \in [Vertices -> {0, 1}]
  BY <1>0, <1>1, <1>2
<1>5. Works(r)
  <2>1. ~ NothingLeft
    BY <1>0, <1>1, HasWork
  <2>2. left'[r] \subseteq Neighbours(u)
    BY <1>3 DEF Neighbours
  <2>3. \A v \in Vertices : at[Rank(v)] = "call" => active'[v] = 0
    BY <1>0, <1>2 DEF WorkInv
  <2> HIDE DEF r
  <2> QED BY <1>0, <1>1, <1>3, <1>4, <2>1, <2>2, <2>3 DEF Works
<1>6. WorkInv'
  BY <1>0, <1>5, WorksKeepsWork
<1>7. PICK S \in SUBSET Vertices : ForwardInv(S) /\ ForwardRuns(S)
  BY <1>0, <1>5, ForwardFacts DEF Works
<1>8. u \in S /\ u \in in_active
  BY <1>2, <1>7 DEF ForwardRuns
<1>9. \A v : NewLabel(v) = LabelOf(v)
  BY <1>1 DEF NewLabel, LabelOf
<1> HIDE DEF r
<1>r. r = Rank(u)
  BY DEF r
<1>10. LabelsSpread(S)
  <2>1. \A v \in S : NewLabel(v) <= LabelOf(v) /\ Genuine(S, NewLabel(v), v)
    <3>1. \A v \in S : LabelOf(v) \in Nat
      BY <1>0 DEF LabelOf
    <3> QED BY <1>7, <1>9, <3>1 DEF ForwardRuns
  <2>2. \A v \in Vertices : at[Rank(v)] = "forward" =>
          /\ active'[v] = 1 <=> v \in in_active'
          /\ active'[v] = 1 => v \in S
    BY <1>1, <1>2, <1>7 DEF ForwardRuns
  <2>3. ASSUME NEW s \in Ranks, NEW w \in popped'[s]
        PROVE  /\ w \in S /\ Genuine(S, label_k'[s], w)
               /\ label_k'[s] = label'[w] \/ (label'[w] < label_k'[s] /\ active'[w] = 1)
    <3>1. CASE s = r
      <4>1. w = u
        BY <1>3, <3>1
      <4>2. Genuine(S, label[u], u)
        BY <1>7, <1>8, <1>r DEF ForwardRuns, LabelOf
      <4> QED BY <1>1, <1>3, <1>8, <3>1, <4>1, <4>2
    <3>2. CASE s # r
      <4>1. w \in popped[s] /\ Rank(w) = s /\ w \in Vertices
        BY <1>0, <1>3, <3>2, StateTypes DEF WorkInv
      <4>2. w # u
        BY <1>r, <3>2, <4>1
      <4> QED BY <1>1, <1>2, <1>3, <1>7, <3>2, <4>1, <4>2 DEF ForwardRuns
    <3> QED BY <3>1, <3>2
  <2>4. ASSUME NEW e \in Within(S)
        PROVE  \/ NewLabel(e[2]) <= NewLabel(e[1])
               \/ at[Rank(e[1])] = "call"
               \/ Searching(Rank(e[1])) /\ active'[e[1]] = 1
               \/ e[1] \in popped'[Rank(e[1])] /\ e[2] \in left'[Rank(e[1])]
               \/ \E m \in network' : m[2] = e[2] /\ m[3] <= NewLabel(e[1])
    <3>1. e[1] \in Vertices /\ e[2] \in S /\ e[2] \in Vertices /\ <<e[1], e[2]>> \in edges
          /\ Rank(e[1]) \in Ranks
      BY <1>0 DEF Within
    <3>2. CASE e[1] = u
      <4>1. LabelOf(u) = label[u]
        BY <1>r DEF LabelOf
      <4>2. LabelOf(e[2]) <= map[e[2]]
        BY <1>7, <3>1 DEF ForwardRuns
      <4>3. map[e[2]] \in Nat /\ label[u] \in Nat /\ LabelOf(e[2]) \in Nat
        BY <1>0, <3>1 DEF LabelOf
      <4>4. label[u] < map[e[2]] => e[2] \in left'[r]
        BY <1>3, <3>1, <3>2 DEF Succ
      <4>5. ~ label[u] < map[e[2]] => LabelOf(e[2]) <= label[u]
        BY <4>2, <4>3
      <4> QED BY <1>3, <1>9, <1>r, <3>2, <4>1, <4>4, <4>5
    <3>3. CASE e[1] # u
      <4>1. \/ LabelOf(e[2]) <= LabelOf(e[1])
            \/ at[Rank(e[1])] = "call"
            \/ Searching(Rank(e[1])) /\ active[e[1]] = 1
            \/ e[1] \in popped[Rank(e[1])] /\ e[2] \in left[Rank(e[1])]
            \/ \E m \in network : m[2] = e[2] /\ m[3] <= LabelOf(e[1])
        BY <1>7 DEF ForwardRuns
      <4>2. active'[e[1]] = active[e[1]]
        BY <1>2, <3>1, <3>3
      <4>3. e[1] \in popped[Rank(e[1])] => Rank(e[1]) # r
        BY <1>1
      <4> QED BY <1>1, <1>3, <1>9, <3>1, <4>1, <4>2, <4>3
    <3> QED BY <3>2, <3>3
  <2> QED BY <1>0, <1>1, <1>7, <2>1, <2>2, <2>3, <2>4 DEF LabelsSpread, ForwardRuns
<1>11. LabelRound'
  BY <1>7, <1>10, LabelForwardKept
<1>12. DecidedOnce'
  BY <1>0, <1>1, RecordsStay
<1>13. in_active' \in SUBSET Vertices
  BY <1>0, <1>1, StateTypes
<1> QED BY <1>0, <1>1, <1>3, <1>6, <1>11, <1>12, <1>13, LabelKept, StateTypes DEF LabelRest
\* What the handler does to the labels and stacks, for the vertices of T.
Takes(S, T, v, l) ==
  /\ UNCHANGED <<input, map, at, is_undecided, scc_id, popped, label_k>>
  /\ v \in Vertices /\ at[Rank(v)] = "forward" /\ l \in Nat
  /\ T \in SUBSET S /\ T \subseteq {v} /\ (v \in T => l < label[v])
  /\ v \in S => Genuine(S, l, v)
  /\ label' = [w \in Vertices |-> IF w \in T THEN l ELSE label[w]]
  /\ v \in S => label'[v] <= l
  /\ in_active' = in_active \cup T
  /\ \A w \in Vertices : active'[w] = IF w \in T THEN 1 ELSE active[w]

\* A smaller label that is taken breaks nothing, since the vertex is active.
LEMMA TakenSpreads ==
  ASSUME SearchesInv, stage = "label", NEW S \in SUBSET Vertices, ForwardRuns(S),
         NEW T, NEW v, NEW l, Takes(S, T, v, l)
  PROVE  /\ \A w \in S : NewLabel(w) <= LabelOf(w) /\ Genuine(S, NewLabel(w), w)
         /\ \A w \in Vertices : at[Rank(w)] = "forward" =>
              /\ active'[w] = 1 <=> w \in in_active'
              /\ active'[w] = 1 => w \in S
         /\ \A s \in Ranks : \A w \in popped'[s] :
              /\ w \in S /\ Genuine(S, label_k'[s], w)
              /\ label_k'[s] = label'[w] \/ (label'[w] < label_k'[s] /\ active'[w] = 1)
         /\ \A e \in Within(S) :
              \/ NewLabel(e[2]) <= NewLabel(e[1])
              \/ at[Rank(e[1])] = "call"
              \/ Searching(Rank(e[1])) /\ active'[e[1]] = 1
              \/ e[1] \in popped'[Rank(e[1])] /\ e[2] \in left[Rank(e[1])]
              \/ \E m \in network : m[2] = e[2] /\ m[3] <= NewLabel(e[1])
<1>0. /\ UNCHANGED <<input, map, at, is_undecided, scc_id, popped, label_k>>
      /\ v \in Vertices /\ at[Rank(v)] = "forward" /\ l \in Nat
      /\ T \in SUBSET S /\ T \subseteq {v} /\ (v \in T => l < label[v])
      /\ v \in S => Genuine(S, l, v)
      /\ label' = [w \in Vertices |-> IF w \in T THEN l ELSE label[w]]
      /\ v \in S => label'[v] <= l
      /\ in_active' = in_active \cup T
      /\ \A w \in Vertices : active'[w] = IF w \in T THEN 1 ELSE active[w]
  BY DEF Takes
<1>1. /\ map \in [Vertices -> Nat] /\ label \in [Vertices -> Nat]
      /\ label_k \in [Ranks -> Nat]
      /\ \A w \in Vertices : Rank(w) \in Ranks
  BY LabelStage, StateTypes
<1>2. /\ \A w \in Vertices : at[Rank(w)] \in {"call", "forward"}
      /\ \A w \in S : Genuine(S, LabelOf(w), w) /\ LabelOf(w) <= map[w]
      /\ \A w \in Vertices : at[Rank(w)] = "forward" =>
           /\ active[w] = 1 <=> w \in in_active
           /\ active[w] = 1 => w \in S
      /\ \A s \in Ranks : \A w \in popped[s] :
           /\ w \in S /\ Genuine(S, label_k[s], w)
           /\ label_k[s] = label[w] \/ (label[w] < label_k[s] /\ active[w] = 1)
      /\ \A e \in Within(S) :
           \/ LabelOf(e[2]) <= LabelOf(e[1])
           \/ at[Rank(e[1])] = "call"
           \/ Searching(Rank(e[1])) /\ active[e[1]] = 1
           \/ e[1] \in popped[Rank(e[1])] /\ e[2] \in left[Rank(e[1])]
           \/ \E m \in network : m[2] = e[2] /\ m[3] <= LabelOf(e[1])
  BY DEF ForwardRuns
<1>3. \A w \in Vertices : NewLabel(w) = IF w \in T THEN l ELSE LabelOf(w)
  BY <1>0 DEF NewLabel, LabelOf
<1>4. \A w \in T : w = v /\ LabelOf(w) = label[w] /\ l < label[w]
  BY <1>0 DEF LabelOf
<1>5. \A w \in Vertices : LabelOf(w) \in Nat
  BY <1>1 DEF LabelOf
<1>6. \A w \in S : NewLabel(w) <= LabelOf(w) /\ Genuine(S, NewLabel(w), w)
  BY <1>0, <1>2, <1>3, <1>4, <1>5
<1>7. \A w \in Vertices : at[Rank(w)] = "forward" =>
        /\ active'[w] = 1 <=> w \in in_active'
        /\ active'[w] = 1 => w \in S
  BY <1>0, <1>2
<1>8. ASSUME NEW s \in Ranks, NEW w \in popped'[s]
      PROVE  /\ w \in S /\ Genuine(S, label_k'[s], w)
             /\ label_k'[s] = label'[w] \/ (label'[w] < label_k'[s] /\ active'[w] = 1)
  <2>1. /\ w \in S /\ w \in Vertices /\ Genuine(S, label_k[s], w)
        /\ label_k[s] = label[w] \/ (label[w] < label_k[s] /\ active[w] = 1)
    BY <1>0, <1>2
  <2>2. label[w] \in Nat /\ label_k[s] \in Nat
    BY <1>1, <2>1
  <2>3. CASE w \in T
    BY <1>0, <1>4, <2>1, <2>2, <2>3
  <2>4. CASE w \notin T
    BY <1>0, <2>1, <2>4
  <2> QED BY <2>3, <2>4
<1>9. ASSUME NEW e \in Within(S)
      PROVE  \/ NewLabel(e[2]) <= NewLabel(e[1])
             \/ at[Rank(e[1])] = "call"
             \/ Searching(Rank(e[1])) /\ active'[e[1]] = 1
             \/ e[1] \in popped'[Rank(e[1])] /\ e[2] \in left[Rank(e[1])]
             \/ \E m \in network : m[2] = e[2] /\ m[3] <= NewLabel(e[1])
  <2>1. e[1] \in S /\ e[2] \in S /\ e[1] \in Vertices /\ e[2] \in Vertices
    BY DEF Within
  <2>2. CASE e[1] \in T
    BY <1>0, <2>1, <2>2 DEF Searching
  <2>3. CASE e[1] \notin T
    <3>1. NewLabel(e[1]) = LabelOf(e[1]) /\ active'[e[1]] = active[e[1]]
      BY <1>0, <1>3, <2>1, <2>3
    <3>2. NewLabel(e[2]) <= LabelOf(e[2]) /\ NewLabel(e[2]) \in Nat /\ LabelOf(e[2]) \in Nat
          /\ LabelOf(e[1]) \in Nat
      BY <1>0, <1>3, <1>5, <1>6, <2>1
    <3>3. LabelOf(e[2]) <= LabelOf(e[1]) => NewLabel(e[2]) <= NewLabel(e[1])
      BY <3>1, <3>2
    <3> QED BY <1>0, <1>2, <3>1, <3>3
  <2> QED BY <2>2, <2>3
<1> QED BY <1>6, <1>7, <1>8, <1>9

\* It visits a neighbour of the same rank.
LEMMA LabelVisitLocalFw ==
  ASSUME SearchesInv, stage = "label", LabelRest, NEW r \in Ranks, NEW v \in left[r],
         VisitLocal(r, v), at[r] = "forward"
  PROVE  SearchesInv'
<1>0. /\ SearchesTypeOK /\ WorkInv /\ DecidedOnce /\ LabelRound /\ input \in Inputs
      /\ label \in [Vertices -> Nat] /\ label_k \in [Ranks -> Nat]
      /\ edges \in SUBSET (Vertices \X Vertices)
      /\ network \subseteq Vertices \X Vertices \X Nat
      /\ \A w \in Vertices : Rank(w) \in Ranks
  BY LabelStage, StateTypes
<1>1. /\ Rank(v) = r /\ Handle(v, label_k[r])
      /\ left' = [left EXCEPT ![r] = @ \ {v}]
      /\ UNCHANGED <<input, map, at, popped, label_k, network>>
  BY DEF VisitLocal
<1>2. /\ Searching(r) /\ ~ NothingLeft /\ v \in Vertices
      /\ \E u \in popped[r] : /\ popped[r] = {u} /\ u \in Vertices /\ Rank(u) = r
                              /\ v \in Neighbours(u)
  BY <1>0, VisitsEdges
<1>3. PICK u \in popped[r] : popped[r] = {u} /\ u \in Vertices /\ Rank(u) = r
                             /\ <<u, v>> \in edges
  BY <1>2 DEF Neighbours, Succ
<1>4. /\ left'[r] = left[r] \ {v} /\ \A s \in Ranks \ {r} : left'[s] = left[s]
      /\ left' \in [Ranks -> SUBSET Vertices]
  BY <1>0, <1>1, StateTypes
<1>5. PICK S \in SUBSET Vertices : ForwardInv(S) /\ ForwardRuns(S)
  BY <1>2, ForwardFacts
<1>6. /\ u \in S /\ Genuine(S, label_k[r], u) /\ label_k[r] \in Nat
      /\ label_k[r] = label[u] \/ (label[u] < label_k[r] /\ active[u] = 1)
  BY <1>0, <1>5 DEF ForwardRuns
<1>m. \A m \in network : m[1] \in S /\ <<m[1], m[2]>> \in edges /\ Genuine(S, m[3], m[1])
  BY <1>5, Zenon DEF ForwardRuns
<1>7. v \in S => Genuine(S, label_k[r], v)
  BY <1>0, <1>3, <1>5, <1>6, GenuineStep
<1>8. /\ UNCHANGED decisions
      /\ \E T \in SUBSET S :
           /\ T \subseteq {v} /\ (v \in T => label_k[r] < label[v])
           /\ label' = [w \in Vertices |-> IF w \in T THEN label_k[r] ELSE label[w]]
           /\ v \in S => label'[v] <= label_k[r]
           /\ in_active' = in_active \cup T
           /\ \A w \in Vertices : active'[w] = IF w \in T THEN 1 ELSE active[w]
      /\ active' \in [Vertices -> {0, 1}]
      /\ label' \in [Vertices -> Nat]
      /\ in_active' \in SUBSET Vertices
      /\ \A w \in Vertices : at[Rank(w)] = "call" => active'[w] = 0
  BY <1>1, <1>2, <1>5, <1>6, LabelFwHandle
<1>9. PICK T \in SUBSET S : Takes(S, T, v, label_k[r])
  BY <1>1, <1>2, <1>6, <1>7, <1>8 DEF Takes, decisions
<1>10. Works(r)
  BY <1>0, <1>1, <1>2, <1>4, <1>8 DEF Works, WorkInv
<1>11. WorkInv'
  BY <1>0, <1>10, WorksKeepsWork
<1>12. LabelsSpread(S)
  <2>1. /\ \A w \in S : NewLabel(w) <= LabelOf(w) /\ Genuine(S, NewLabel(w), w)
        /\ \A w \in Vertices : at[Rank(w)] = "forward" =>
             /\ active'[w] = 1 <=> w \in in_active'
             /\ active'[w] = 1 => w \in S
        /\ \A s \in Ranks : \A w \in popped'[s] :
             /\ w \in S /\ Genuine(S, label_k'[s], w)
             /\ label_k'[s] = label'[w] \/ (label'[w] < label_k'[s] /\ active'[w] = 1)
        /\ \A e \in Within(S) :
             \/ NewLabel(e[2]) <= NewLabel(e[1])
             \/ at[Rank(e[1])] = "call"
             \/ Searching(Rank(e[1])) /\ active'[e[1]] = 1
             \/ e[1] \in popped'[Rank(e[1])] /\ e[2] \in left[Rank(e[1])]
             \/ \E m \in network : m[2] = e[2] /\ m[3] <= NewLabel(e[1])
    BY <1>5, <1>9, TakenSpreads
  <2>2. \A m \in network' : m[1] \in S /\ <<m[1], m[2]>> \in edges /\ Genuine(S, m[3], m[1])
    BY <1>1, <1>m, Zenon
  <2>3. ASSUME NEW e \in Within(S)
        PROVE  \/ NewLabel(e[2]) <= NewLabel(e[1])
               \/ at[Rank(e[1])] = "call"
               \/ Searching(Rank(e[1])) /\ active'[e[1]] = 1
               \/ e[1] \in popped'[Rank(e[1])] /\ e[2] \in left'[Rank(e[1])]
               \/ \E m \in network' : m[2] = e[2] /\ m[3] <= NewLabel(e[1])
    <3>1. e[1] \in S /\ e[2] \in S /\ e[1] \in Vertices /\ e[2] \in Vertices
          /\ Rank(e[1]) \in Ranks
      BY <1>0 DEF Within
    <3>2. CASE e[1] = u /\ e[2] = v
      <4>1. CASE u \in T
        BY <1>2, <1>3, <1>9, <3>2, <4>1 DEF Takes
      <4>2. CASE u \notin T /\ label_k[r] = label[u]
        BY <1>1, <1>3, <1>9, <3>1, <3>2, <4>2 DEF Takes, NewLabel
      <4>3. CASE u \notin T /\ active[u] = 1
        BY <1>2, <1>3, <1>9, <3>2, <4>3 DEF Takes
      <4> QED BY <1>6, <4>1, <4>2, <4>3
    <3>3. CASE ~ (e[1] = u /\ e[2] = v)
      <4>1. e[1] \in popped'[Rank(e[1])] /\ e[2] \in left[Rank(e[1])] => e[2] \in left'[Rank(e[1])]
        BY <1>1, <1>3, <1>4, <3>1, <3>3
      <4> QED BY <1>1, <2>1, <4>1
    <3> QED BY <3>2, <3>3
  <2> QED BY <1>0, <1>1, <1>5, <1>8, <2>1, <2>2, <2>3 DEF LabelsSpread, ForwardRuns, decisions
<1>13. LabelRound'
  BY <1>5, <1>12, LabelForwardKept
<1>14. DecidedOnce'
  BY <1>0, <1>1, <1>8, RecordsStay DEF decisions
<1> QED BY <1>0, <1>1, <1>4, <1>8, <1>11, <1>13, <1>14, LabelKept, StateTypes
        DEF LabelRest, decisions
\* What a step that takes no label says of the labels, when every edge and
\* message is accounted for.
LEMMA NothingTaken ==
  ASSUME SearchesInv, stage = "label", NEW S \in SUBSET Vertices, ForwardRuns(S),
         UNCHANGED <<map, at, label, in_active, active>>
  PROVE  /\ \A w \in S : NewLabel(w) <= LabelOf(w) /\ Genuine(S, NewLabel(w), w)
         /\ \A w \in Vertices : at[Rank(w)] = "forward" =>
              /\ active'[w] = 1 <=> w \in in_active'
              /\ active'[w] = 1 => w \in S
         /\ \A w : NewLabel(w) = LabelOf(w)
<1>1. \A w : NewLabel(w) = LabelOf(w)
  BY DEF NewLabel, LabelOf
<1>2. \A w \in S : LabelOf(w) \in Nat
  BY LabelStage, StateTypes DEF LabelOf
<1> QED BY <1>1, <1>2 DEF ForwardRuns

\* It posts a message for a neighbour on another rank.
LEMMA LabelPostFw ==
  ASSUME SearchesInv, stage = "label", LabelRest, NEW r \in Ranks, NEW v \in left[r],
         Post(r, v), at[r] = "forward"
  PROVE  SearchesInv'
<1>0. /\ SearchesTypeOK /\ WorkInv /\ DecidedOnce /\ LabelRound
      /\ label \in [Vertices -> Nat] /\ label_k \in [Ranks -> Nat]
      /\ edges \in SUBSET (Vertices \X Vertices)
      /\ network \subseteq Vertices \X Vertices \X Nat
      /\ \A w \in Vertices : Rank(w) \in Ranks
  BY LabelStage, StateTypes
<1>1. /\ \E u \in popped[r] : network' = network \cup {<<u, v, label_k[r]>>}
      /\ left' = [left EXCEPT ![r] = @ \ {v}]
      /\ UNCHANGED <<input, map, at, label, active, in_active, popped, label_k,
                     is_undecided, scc_id, local_decided>>
  BY DEF Post, decisions
<1>2. /\ Searching(r) /\ ~ NothingLeft /\ v \in Vertices
      /\ \E u \in popped[r] : /\ popped[r] = {u} /\ u \in Vertices /\ Rank(u) = r
                              /\ v \in Neighbours(u)
  BY <1>0, VisitsEdges
<1>3. PICK u \in popped[r] : /\ popped[r] = {u} /\ u \in Vertices /\ Rank(u) = r
                             /\ <<u, v>> \in edges
                             /\ network' = network \cup {<<u, v, label_k[r]>>}
  BY <1>1, <1>2 DEF Neighbours, Succ
<1>4. /\ left'[r] = left[r] \ {v} /\ \A s \in Ranks \ {r} : left'[s] = left[s]
      /\ left' \in [Ranks -> SUBSET Vertices]
  BY <1>0, <1>1, StateTypes
<1>5. PICK S \in SUBSET Vertices : ForwardInv(S) /\ ForwardRuns(S)
  BY <1>2, ForwardFacts
<1>6. /\ u \in S /\ Genuine(S, label_k[r], u) /\ label_k[r] \in Nat
      /\ label_k[r] = label[u] \/ (label[u] < label_k[r] /\ active[u] = 1)
  BY <1>0, <1>5 DEF ForwardRuns
<1>7. Works(r)
  BY <1>0, <1>1, <1>2, <1>4 DEF Works, WorkInv
<1>8. WorkInv'
  BY <1>0, <1>7, WorksKeepsWork
<1>9. LabelsSpread(S)
  <2>1. /\ \A w \in S : NewLabel(w) <= LabelOf(w) /\ Genuine(S, NewLabel(w), w)
        /\ \A w \in Vertices : at[Rank(w)] = "forward" =>
             /\ active'[w] = 1 <=> w \in in_active'
             /\ active'[w] = 1 => w \in S
        /\ \A w : NewLabel(w) = LabelOf(w)
    BY <1>1, <1>5, NothingTaken
  <2>2. \A m \in network : m[1] \in S /\ <<m[1], m[2]>> \in edges /\ Genuine(S, m[3], m[1])
    BY <1>5, Zenon DEF ForwardRuns
  <2>3. PICK n : n = <<u, v, label_k[r]>>
    OBVIOUS
  <2>4. n[1] \in S /\ <<n[1], n[2]>> \in edges /\ Genuine(S, n[3], n[1])
        /\ n[2] = v /\ n[3] = label_k[r] /\ n \in Vertices \X Vertices \X Nat
    BY <1>2, <1>3, <1>6, <2>3
  <2>5. network' = network \cup {n}
    BY <1>3, <2>3
  <2>6. \A m \in network' : m[1] \in S /\ <<m[1], m[2]>> \in edges /\ Genuine(S, m[3], m[1])
    BY <2>2, <2>4, <2>5, Zenon
  <2>7. ASSUME NEW e \in Within(S)
        PROVE  \/ NewLabel(e[2]) <= NewLabel(e[1])
               \/ at[Rank(e[1])] = "call"
               \/ Searching(Rank(e[1])) /\ active'[e[1]] = 1
               \/ e[1] \in popped'[Rank(e[1])] /\ e[2] \in left'[Rank(e[1])]
               \/ \E m \in network' : m[2] = e[2] /\ m[3] <= NewLabel(e[1])
    <3>1. e[1] \in S /\ e[2] \in S /\ e[1] \in Vertices /\ e[2] \in Vertices
          /\ Rank(e[1]) \in Ranks
      BY <1>0 DEF Within
    <3>2. CASE e[1] = u /\ e[2] = v
      <4>1. CASE label_k[r] = label[u]
        <5>1. at[Rank(u)] = "forward" /\ NewLabel(u) = label[u]
          BY <1>3, <2>1 DEF LabelOf
        <5>2. n[2] = e[2] /\ n[3] <= NewLabel(e[1])
          BY <1>6, <2>4, <3>2, <4>1, <5>1
        <5> QED BY <2>5, <5>2
      <4>2. CASE active[u] = 1
        BY <1>1, <1>2, <1>3, <3>2, <4>2
      <4> QED BY <1>6, <4>1, <4>2
    <3>3. CASE ~ (e[1] = u /\ e[2] = v)
      <4>1. e[1] \in popped[Rank(e[1])] /\ e[2] \in left[Rank(e[1])] => e[2] \in left'[Rank(e[1])]
        BY <1>1, <1>3, <1>4, <3>1, <3>3
      <4>2. \/ LabelOf(e[2]) <= LabelOf(e[1])
            \/ at[Rank(e[1])] = "call"
            \/ Searching(Rank(e[1])) /\ active[e[1]] = 1
            \/ e[1] \in popped[Rank(e[1])] /\ e[2] \in left[Rank(e[1])]
            \/ \E m \in network : m[2] = e[2] /\ m[3] <= LabelOf(e[1])
        BY <1>5 DEF ForwardRuns
      <4> QED BY <1>1, <2>1, <2>5, <4>1, <4>2
    <3> QED BY <3>2, <3>3
  <2>8. network' \subseteq Vertices \X Vertices \X Nat
    BY <1>0, <2>4, <2>5
  <2> QED BY <1>0, <1>1, <1>5, <2>1, <2>6, <2>7, <2>8 DEF LabelsSpread, ForwardRuns
<1>10. LabelRound'
  BY <1>5, <1>9, LabelForwardKept
<1>11. DecidedOnce'
  BY <1>0, <1>1, RecordsStay
<1> QED BY <1>0, <1>1, <1>4, <1>8, <1>10, <1>11, LabelKept, StateTypes DEF LabelRest

\* It is through with the edges of a vertex.
LEMMA LabelVisitedFw ==
  ASSUME SearchesInv, stage = "label", LabelRest, NEW r \in Ranks, Visited(r), at[r] = "forward"
  PROVE  SearchesInv'
<1>0. /\ SearchesTypeOK /\ WorkInv /\ DecidedOnce /\ LabelRound
      /\ label \in [Vertices -> Nat] /\ in_active \in SUBSET Vertices
      /\ edges \in SUBSET (Vertices \X Vertices)
      /\ network \subseteq Vertices \X Vertices \X Nat
      /\ \A w \in Vertices : Rank(w) \in Ranks
      /\ \A w \in Local(r) : Rank(w) = r
  BY LabelStage, StateTypes
<1>1. /\ popped[r] # {} /\ left[r] = {} /\ in_active' = in_active
      /\ popped' = [popped EXCEPT ![r] = {}]
      /\ UNCHANGED <<input, map, at, label, active, label_k, left, network,
                     is_undecided, scc_id, local_decided>>
  <2>1. PICK u \in popped[r] : in_active' = Unset(u, TRUE)
    BY DEF Visited
  <2>2. Rank(u) = r
    BY <1>0 DEF WorkInv
  <2> QED BY <2>1, <2>2 DEF Visited, Unset, decisions
<1>2. Searching(r) /\ ~ NothingLeft
  BY <1>0, <1>1, HasWork
<1>3. /\ popped'[r] = {} /\ \A s \in Ranks \ {r} : popped'[s] = popped[s]
      /\ popped' \in [Ranks -> SUBSET Vertices]
  BY <1>0, <1>1, StateTypes
<1>4. PICK S \in SUBSET Vertices : ForwardInv(S) /\ ForwardRuns(S)
  BY <1>2, ForwardFacts
<1>5. Works(r)
  BY <1>0, <1>1, <1>2, <1>3 DEF Works, WorkInv
<1>6. WorkInv'
  BY <1>0, <1>5, WorksKeepsWork
<1>7. LabelsSpread(S)
  <2>1. /\ \A w \in S : NewLabel(w) <= LabelOf(w) /\ Genuine(S, NewLabel(w), w)
        /\ \A w \in Vertices : at[Rank(w)] = "forward" =>
             /\ active'[w] = 1 <=> w \in in_active'
             /\ active'[w] = 1 => w \in S
        /\ \A w : NewLabel(w) = LabelOf(w)
    BY <1>1, <1>4, NothingTaken
  <2>2. \A m \in network' : m[1] \in S /\ <<m[1], m[2]>> \in edges /\ Genuine(S, m[3], m[1])
    <3>1. \A m \in network : m[1] \in S /\ <<m[1], m[2]>> \in edges /\ Genuine(S, m[3], m[1])
      BY <1>4, Zenon DEF ForwardRuns
    <3>2. network' = network
      BY <1>1
    <3> QED BY <3>1, <3>2, Zenon
  <2>3. ASSUME NEW e \in Within(S)
        PROVE  \/ NewLabel(e[2]) <= NewLabel(e[1])
               \/ at[Rank(e[1])] = "call"
               \/ Searching(Rank(e[1])) /\ active'[e[1]] = 1
               \/ e[1] \in popped'[Rank(e[1])] /\ e[2] \in left'[Rank(e[1])]
               \/ \E m \in network' : m[2] = e[2] /\ m[3] <= NewLabel(e[1])
    <3>1. e[1] \in Vertices /\ Rank(e[1]) \in Ranks
      BY <1>0 DEF Within
    <3>2. e[2] \in left[Rank(e[1])] => Rank(e[1]) # r
      BY <1>1
    <3>3. \/ LabelOf(e[2]) <= LabelOf(e[1])
          \/ at[Rank(e[1])] = "call"
          \/ Searching(Rank(e[1])) /\ active[e[1]] = 1
          \/ e[1] \in popped[Rank(e[1])] /\ e[2] \in left[Rank(e[1])]
          \/ \E m \in network : m[2] = e[2] /\ m[3] <= LabelOf(e[1])
      BY <1>4 DEF ForwardRuns
    <3> QED BY <1>1, <1>3, <2>1, <3>1, <3>2, <3>3
  <2>4. \A s \in Ranks : \A w \in popped'[s] :
          /\ w \in S /\ Genuine(S, label_k'[s], w)
          /\ label_k'[s] = label'[w] \/ (label'[w] < label_k'[s] /\ active'[w] = 1)
    <3>1. \A s \in Ranks : popped'[s] \subseteq popped[s]
      BY <1>3
    <3> QED BY <1>1, <1>4, <3>1 DEF ForwardRuns
  <2> QED BY <1>0, <1>1, <1>4, <2>1, <2>2, <2>3, <2>4 DEF LabelsSpread, ForwardRuns
<1>8. LabelRound'
  BY <1>4, <1>7, LabelForwardKept
<1>9. DecidedOnce'
  BY <1>0, <1>1, RecordsStay
<1> QED BY <1>0, <1>1, <1>3, <1>6, <1>8, <1>9, LabelKept, StateTypes DEF LabelRest

\* The queue hands over a message.
LEMMA LabelReceiveFw ==
  ASSUME SearchesInv, stage = "label", LabelRest, NEW m \in network,
         Receive(m), at[Rank(m[2])] = "forward"
  PROVE  SearchesInv'
<1> DEFINE r == Rank(m[2])
           v == m[2]
<1>0. /\ SearchesTypeOK /\ WorkInv /\ DecidedOnce /\ LabelRound /\ input \in Inputs
      /\ label \in [Vertices -> Nat]
      /\ edges \in SUBSET (Vertices \X Vertices)
      /\ network \subseteq Vertices \X Vertices \X Nat
      /\ \A w \in Vertices : Rank(w) \in Ranks
  BY LabelStage, StateTypes
<1>1. /\ Searching(r) /\ Handle(v, m[3])
      /\ network' = network \ {m}
      /\ UNCHANGED <<input, map, at, popped, label_k, left>>
  BY DEF Receive
<1>2. /\ m[1] \in Vertices /\ v \in Vertices /\ m[3] \in Nat /\ r \in Ranks
  BY <1>0
<1>3. ~ NothingLeft
  BY <1>0, HasWork
<1>4. PICK S \in SUBSET Vertices : ForwardInv(S) /\ ForwardRuns(S)
  BY <1>2, <1>3, ForwardFacts
<1>5. \A n \in network : n[1] \in S /\ <<n[1], n[2]>> \in edges /\ Genuine(S, n[3], n[1])
  BY <1>4, Zenon DEF ForwardRuns
<1>6. m[1] \in S /\ <<m[1], v>> \in edges /\ Genuine(S, m[3], m[1])
  BY <1>5
<1>7. v \in S => Genuine(S, m[3], v)
  BY <1>0, <1>4, <1>6, GenuineStep
<1> HIDE DEF r, v
<1>r. Rank(v) = r /\ at[r] = "forward" /\ m[2] = v
  BY DEF r, v
<1>l. PICK l \in Nat : l = m[3]
  BY <1>2
<1>8. /\ UNCHANGED decisions
      /\ \E T \in SUBSET S :
           /\ T \subseteq {v} /\ (v \in T => l < label[v])
           /\ label' = [w \in Vertices |-> IF w \in T THEN l ELSE label[w]]
           /\ v \in S => label'[v] <= l
           /\ in_active' = in_active \cup T
           /\ \A w \in Vertices : active'[w] = IF w \in T THEN 1 ELSE active[w]
      /\ active' \in [Vertices -> {0, 1}]
      /\ label' \in [Vertices -> Nat]
      /\ in_active' \in SUBSET Vertices
      /\ \A w \in Vertices : at[Rank(w)] = "call" => active'[w] = 0
  BY <1>1, <1>2, <1>4, <1>r, <1>l, LabelFwHandle
<1>9. PICK T \in SUBSET S : Takes(S, T, v, l)
  BY <1>1, <1>2, <1>7, <1>8, <1>r, <1>l DEF Takes, decisions
<1>10. Works(r)
  BY <1>0, <1>1, <1>2, <1>3, <1>8 DEF Works, WorkInv
<1>11. WorkInv'
  BY <1>0, <1>10, WorksKeepsWork
<1>12. LabelsSpread(S)
  <2>1. /\ \A w \in S : NewLabel(w) <= LabelOf(w) /\ Genuine(S, NewLabel(w), w)
        /\ \A w \in Vertices : at[Rank(w)] = "forward" =>
             /\ active'[w] = 1 <=> w \in in_active'
             /\ active'[w] = 1 => w \in S
        /\ \A s \in Ranks : \A w \in popped'[s] :
             /\ w \in S /\ Genuine(S, label_k'[s], w)
             /\ label_k'[s] = label'[w] \/ (label'[w] < label_k'[s] /\ active'[w] = 1)
        /\ \A e \in Within(S) :
             \/ NewLabel(e[2]) <= NewLabel(e[1])
             \/ at[Rank(e[1])] = "call"
             \/ Searching(Rank(e[1])) /\ active'[e[1]] = 1
             \/ e[1] \in popped'[Rank(e[1])] /\ e[2] \in left[Rank(e[1])]
             \/ \E n \in network : n[2] = e[2] /\ n[3] <= NewLabel(e[1])
    BY <1>4, <1>9, TakenSpreads
  <2>2. \A n \in network' : n[1] \in S /\ <<n[1], n[2]>> \in edges /\ Genuine(S, n[3], n[1])
    <3>1. network' \subseteq network
      BY <1>1
    <3> QED BY <1>5, <3>1, Zenon
  <2>3. ASSUME NEW e \in Within(S)
        PROVE  \/ NewLabel(e[2]) <= NewLabel(e[1])
               \/ at[Rank(e[1])] = "call"
               \/ Searching(Rank(e[1])) /\ active'[e[1]] = 1
               \/ e[1] \in popped'[Rank(e[1])] /\ e[2] \in left'[Rank(e[1])]
               \/ \E n \in network' : n[2] = e[2] /\ n[3] <= NewLabel(e[1])
    <3>1. e[1] \in S /\ e[2] \in S /\ e[1] \in Vertices /\ e[2] \in Vertices
          /\ Rank(e[1]) \in Ranks
      BY <1>0 DEF Within
    <3>2. ASSUME e[2] = v, l <= NewLabel(e[1]), at[Rank(e[1])] # "call"
          PROVE  NewLabel(e[2]) <= NewLabel(e[1])
      <4>1. NewLabel(e[2]) = label'[v] /\ label'[v] <= l
        BY <1>9, <1>r, <3>1, <3>2 DEF NewLabel, Takes
      <4>2. NewLabel(e[1]) \in Nat /\ label'[v] \in Nat
        BY <1>2, <1>8, <3>1, <3>2 DEF NewLabel
      <4> QED BY <3>2, <4>1, <4>2
    <3>3. ASSUME NEW n \in network, n[2] = e[2], n[3] <= NewLabel(e[1]), at[Rank(e[1])] # "call"
          PROVE  \/ NewLabel(e[2]) <= NewLabel(e[1])
                 \/ n \in network'
      BY <1>1, <1>l, <1>r, <3>2, <3>3
    <3> QED BY <1>1, <2>1, <3>3
  <2>4. network' \subseteq Vertices \X Vertices \X Nat
    BY <1>0, <1>1
  <2> QED BY <1>0, <1>1, <1>4, <1>8, <2>1, <2>2, <2>3, <2>4
          DEF LabelsSpread, ForwardRuns, decisions
<1>13. LabelRound'
  BY <1>4, <1>12, LabelForwardKept
<1>14. DecidedOnce'
  BY <1>0, <1>1, <1>8, RecordsStay DEF decisions
<1> QED BY <1>0, <1>1, <1>8, <1>11, <1>13, <1>14, LabelKept, StateTypes DEF LabelRest, decisions

\* A rank begins, with its undecided vertices active and each one's own label.
LEMMA LabelBegin ==
  ASSUME SearchesInv, stage = "label", LabelRest, NEW r \in Ranks, Begin(r)
  PROVE  SearchesInv'
<1> DEFINE mine == is_undecided \cap Local(r)
<1>0. /\ SearchesTypeOK /\ WorkInv /\ DecidedOnce /\ LabelRound
      /\ map \in [Vertices -> Nat] /\ label \in [Vertices -> Nat]
      /\ active \in [Vertices -> {0, 1}] /\ in_active \in SUBSET Vertices
      /\ edges \in SUBSET (Vertices \X Vertices) /\ is_undecided \in SUBSET Vertices
      /\ network \subseteq Vertices \X Vertices \X Nat
      /\ \A w \in Vertices : Rank(w) \in Ranks
      /\ \A v \in Local(r) : v \in Vertices /\ Rank(v) = r
      /\ \A v \in Vertices : Rank(v) = r => v \in Local(r)
      /\ Ranks # {}
  BY LabelStage, StateTypes
<1>1. /\ at[r] = "call" /\ at' = [at EXCEPT ![r] = "forward"]
      /\ label' = [v \in Vertices |-> IF v \in mine THEN map[v] ELSE label[v]]
      /\ in_active' = (in_active \ Local(r)) \cup mine
      /\ active' = [v \in Vertices |-> IF v \in mine THEN 1 ELSE active[v]]
      /\ UNCHANGED <<input, map, is_undecided, scc_id, local_decided, popped, label_k, left,
                     network>>
  BY DEF Begin, decisions
<1>2. /\ \A v \in mine : v \in Vertices /\ v \in is_undecided /\ Rank(v) = r
      /\ \A v \in is_undecided : Rank(v) = r => v \in mine
  BY <1>0
<1> HIDE DEF mine
<1>3. /\ WorkInv' /\ Forward /\ Forward'
      /\ popped[r] = {} /\ left[r] = {} /\ \A v \in Vertices : Rank(v) = r => active[v] = 0
      /\ \A s \in Ranks : at[s] \in {"call", "forward"} /\ at'[s] \in {"call", "forward"}
  <2>1. \A v \in Vertices : Rank(v) # r => active'[v] = active[v]
    BY <1>1, <1>2
  <2>2. UNCHANGED <<input, popped, left, network>>
    BY <1>1
  <2>3. active' \in [Vertices -> {0, 1}]
    BY <1>0, <1>1
  <2> QED BY <1>0, <1>1, <2>1, <2>2, <2>3, BeginWork
<1>4. PICK S \in SUBSET Vertices : ForwardInv(S) /\ ForwardRuns(S)
  <2>1. ~ NothingLeft
    BY <1>1 DEF NothingLeft
  <2> QED BY <1>1, <2>1, ForwardFacts
<1>5. at'[r] = "forward" /\ \A s \in Ranks \ {r} : at'[s] = at[s]
  BY <1>0, <1>1, StateTypes
<1>6. /\ edges' = edges
      /\ \A v : Rank(v)' = Rank(v)
      /\ \A T : Within(T)' = Within(T)
      /\ \A T, l, v : Genuine(T, l, v)' = Genuine(T, l, v)
  BY <1>1, InputUnchanged
<1>7. /\ EarlierRounds(S) /\ is_undecided = S
      /\ \A v \in S : Genuine(S, LabelOf(v), v) /\ LabelOf(v) <= map[v]
  BY <1>4 DEF ForwardRuns
<1>8. \A v \in S : LabelOf(v)' = LabelOf(v)
  <2> SUFFICES ASSUME NEW v \in S PROVE LabelOf(v)' = LabelOf(v)
    OBVIOUS
  <2>1. CASE Rank(v) = r
    <3>1. label'[v] = map[v] /\ at'[Rank(v)] = "forward" /\ at[Rank(v)] = "call"
      BY <1>1, <1>2, <1>5, <1>7, <2>1
    <3> QED BY <1>6, <3>1 DEF LabelOf
  <2>2. CASE Rank(v) # r
    <3>1. label'[v] = label[v] /\ at'[Rank(v)] = at[Rank(v)] /\ map' = map
      BY <1>0, <1>1, <1>2, <1>5, <2>2
    <3> QED BY <1>6, <3>1 DEF LabelOf
  <2> QED BY <2>1, <2>2
<1>9. ForwardInv(S)'
  <2>1. EarlierRounds(S)'
    BY <1>1, <1>6, <1>7 DEF EarlierRounds
  <2>2. is_undecided' = S \ {v \in S : at'[Rank(v)'] = "barrier" /\ label'[v] = map'[v]}
    BY <1>0, <1>1, <1>3, <1>6, <1>7
  <2>3. \A v \in S : Genuine(S, LabelOf(v), v)' /\ LabelOf(v)' <= map'[v]
    <3>1. \A v \in S : (Genuine(S, LabelOf(v), v))' <=> Genuine(S, LabelOf(v)', v)
      BY <1>1, <1>6 DEF Genuine
    <3> QED BY <1>1, <1>7, <1>8, <3>1
  <2>4. ASSUME NEW v \in Vertices
        PROVE  /\ at'[Rank(v)] # "call" => (active'[v] = 1 <=> v \in in_active')
               /\ at'[Rank(v)] = "forward" /\ active'[v] = 1 => v \in S
               /\ at'[Rank(v)] # "barrier"
    <3>1. CASE Rank(v) = r
      <4>1. active'[v] = (IF v \in mine THEN 1 ELSE 0) /\ (v \in in_active' <=> v \in mine)
        BY <1>0, <1>1, <1>3, <3>1
      <4> QED BY <1>2, <1>5, <1>7, <3>1, <4>1
    <3>2. CASE Rank(v) # r
      <4>1. /\ active'[v] = active[v] /\ (v \in in_active' <=> v \in in_active)
            /\ at'[Rank(v)] = at[Rank(v)] /\ at[Rank(v)] \in {"call", "forward"}
        BY <1>0, <1>1, <1>2, <1>3, <1>5, <3>2
      <4> QED BY <1>4, <4>1 DEF ForwardRuns
    <3> QED BY <3>1, <3>2
  <2>5. ASSUME NEW s \in Ranks, NEW u \in popped'[s]
        PROVE  /\ u \in S /\ Genuine(S, label_k'[s], u)
               /\ label_k'[s] = label'[u] \/ (label'[u] < label_k'[s] /\ active'[u] = 1)
    <3>1. u \in popped[s] /\ s # r /\ Rank(u) = s /\ u \in Vertices
      BY <1>0, <1>1, <1>3, StateTypes DEF WorkInv
    <3>2. label'[u] = label[u] /\ active'[u] = active[u] /\ label_k'[s] = label_k[s]
      BY <1>1, <1>2, <3>1
    <3> QED BY <1>4, <3>1, <3>2 DEF ForwardRuns
  <2>6. \A m \in network' : m[1] \in S /\ <<m[1], m[2]>> \in edges /\ Genuine(S, m[3], m[1])
    <3>1. \A m \in network : m[1] \in S /\ <<m[1], m[2]>> \in edges /\ Genuine(S, m[3], m[1])
      BY <1>4, Zenon DEF ForwardRuns
    <3>2. network' = network
      BY <1>1
    <3> QED BY <3>1, <3>2, Zenon
  <2>7. ASSUME NEW e \in Within(S)
        PROVE  \/ LabelOf(e[2])' <= LabelOf(e[1])'
               \/ at'[Rank(e[1])] = "call" \/ Visiting(e[1], e[2])'
               \/ \E m \in network' : m[2] = e[2] /\ m[3] <= LabelOf(e[1])'
    <3>1. e[1] \in S /\ e[2] \in S /\ e[1] \in Vertices /\ Rank(e[1]) \in Ranks
      BY <1>0 DEF Within
    <3>2. CASE Rank(e[1]) = r
      <4>1. active'[e[1]] = 1
        BY <1>1, <1>2, <1>7, <3>1, <3>2
      <4>2. Visiting(e[1], e[2])'
        BY <1>5, <1>6, <3>2, <4>1 DEF Visiting, Searching
      <4> QED BY <4>2
    <3>3. CASE Rank(e[1]) # r
      <4>1. \/ LabelOf(e[2]) <= LabelOf(e[1])
            \/ at[Rank(e[1])] = "call"
            \/ Searching(Rank(e[1])) /\ active[e[1]] = 1
            \/ e[1] \in popped[Rank(e[1])] /\ e[2] \in left[Rank(e[1])]
            \/ \E m \in network : m[2] = e[2] /\ m[3] <= LabelOf(e[1])
        BY <1>4 DEF ForwardRuns
      <4>2. active'[e[1]] = active[e[1]] /\ at'[Rank(e[1])] = at[Rank(e[1])]
        BY <1>1, <1>2, <1>5, <3>1, <3>3
      <4>3. Visiting(e[1], e[2])' <=> \/ Searching(Rank(e[1])) /\ active[e[1]] = 1
                                      \/ e[1] \in popped[Rank(e[1])] /\ e[2] \in left[Rank(e[1])]
        BY <1>1, <1>6, <4>2 DEF Visiting, Searching
      <4>4. LabelOf(e[1])' = LabelOf(e[1]) /\ LabelOf(e[2])' = LabelOf(e[2])
        BY <1>8, <3>1
      <4> QED BY <1>1, <4>1, <4>2, <4>3, <4>4
    <3> QED BY <3>2, <3>3
  <2>8. \A v \in S \ is_undecided' : scc_id'[v] = v
    BY <1>1, <1>7
  <2>9. /\ \A s \in Ranks : \A u \in popped'[s] : Genuine(S, label_k[s], u)'
        /\ \A m \in network' : Genuine(S, m[3], m[1])'
    <3>1. \A s \in Ranks : label_k'[s] = label_k[s]
      BY <1>1
    <3> QED BY <1>1, <1>6, <2>5, <2>6 DEF Genuine
  <2> QED BY <1>6, <2>1, <2>2, <2>3, <2>4, <2>5, <2>6, <2>7, <2>8, <2>9 DEF ForwardInv
<1>10. LabelRound'
  <2>1. ~ Backward' /\ \A s \in Ranks : at'[s] # "done"
    BY <1>0, <1>3 DEF Backward
  <2> QED BY <1>0, <1>1, <1>9, <2>1 DEF LabelRound
<1>11. DecidedOnce'
  BY <1>0, <1>1, RecordsStay
<1>12. /\ in_active' \in SUBSET Vertices /\ label' \in [Vertices -> Nat]
       /\ at' \in [Ranks -> {"call", "forward", "barrier", "backward", "sum", "done"}]
  BY <1>0, <1>1, <1>2, StateTypes
<1> QED BY <1>0, <1>1, <1>3, <1>10, <1>11, <1>12, LabelKept, StateTypes DEF LabelRest

\* Where the ranks wait for each other behind the forward search, nothing is left.
ForwardOver(S) ==
  /\ EarlierRounds(S)
  /\ is_undecided = S \ {v \in S : at[Rank(v)] = "barrier" /\ label[v] = map[v]}
  /\ \A v \in S \ is_undecided : scc_id[v] = v
  /\ \A v \in S : Genuine(S, label[v], v) /\ label[v] <= map[v] /\ LabelOf(v) = label[v]
  /\ \A v \in Vertices :
       /\ active[v] = 1 <=> v \in in_active
       /\ at[Rank(v)] = "barrier" => (active[v] = 1 <=> v \in S \ is_undecided)
  /\ \A e \in Within(S) : label[e[2]] <= label[e[1]]

\* Where nothing is under way in the forward phase, no label can go down any
\* further.
LEMMA ForwardEnds ==
  ASSUME SearchesInv, stage = "label",
         \A r \in Ranks : at[r] \in {"forward", "barrier"} /\ popped[r] = {},
         \A v \in Vertices : at[Rank(v)] = "forward" => active[v] = 0,
         network = {}
  PROVE  \E S \in SUBSET Vertices : ForwardInv(S) /\ ForwardOver(S)
<1>1. /\ SearchesTypeOK /\ WorkInv /\ LabelRound
      /\ \A v \in Vertices : Rank(v) \in Ranks
      /\ edges \in SUBSET (Vertices \X Vertices)
  BY LabelStage, StateTypes
<1>2. Forward
  BY DEF Forward
<1>3. PICK S \in SUBSET Vertices : ForwardInv(S)
  BY <1>1, <1>2 DEF LabelRound
<1>4. \A v \in Vertices : at[Rank(v)] \in {"forward", "barrier"} /\ LabelOf(v) = label[v]
  BY <1>1 DEF LabelOf
<1>5. ASSUME NEW e \in Within(S) PROVE label[e[2]] <= label[e[1]]
  <2>1. e[1] \in Vertices /\ e[2] \in Vertices /\ Rank(e[1]) \in Ranks
    BY <1>1 DEF Within
  <2>2. ~ Visiting(e[1], e[2])
    BY <2>1 DEF Visiting, Searching
  <2>3. \/ LabelOf(e[2]) <= LabelOf(e[1])
        \/ at[Rank(e[1])] = "call" \/ Visiting(e[1], e[2])
        \/ \E m \in network : m[2] = e[2] /\ m[3] <= LabelOf(e[1])
    BY <1>3 DEF ForwardInv
  <2> QED BY <1>4, <2>1, <2>2, <2>3
<1>6. ForwardOver(S)
  BY <1>3, <1>4, <1>5 DEF ForwardInv, ForwardOver
<1> QED BY <1>3, <1>6

\* What a label search decides gets the vertex its label is of, and is counted.
LEMMA LabelDecides ==
  ASSUME SearchesInv, stage = "label", NEW D \in SUBSET is_undecided, DecideAll(D),
         input' = input, \A v \in D : unmap(label[v]) \in Vertices
  PROVE  /\ DecidedOnce' /\ is_undecided' = is_undecided \ D
         /\ \A v \in D : scc_id'[v] = unmap(label[v])
         /\ \A v \in Vertices \ D : scc_id'[v] = scc_id[v]
         /\ is_undecided' \in SUBSET Vertices
         /\ scc_id' \in [Vertices -> Vertices \cup {Undecided}]
         /\ local_decided' \in [Ranks -> Nat]
<1>0. /\ SearchesTypeOK /\ DecidedOnce
      /\ is_undecided \in SUBSET Vertices
      /\ scc_id \in [Vertices -> Vertices \cup {Undecided}]
  BY LabelStage, StateTypes
<1>1. /\ is_undecided' = is_undecided \ D
      /\ scc_id' = [v \in Vertices |-> IF v \in D THEN unmap(label[v]) ELSE scc_id[v]]
      /\ local_decided' = [r \in Ranks |-> local_decided[r] + Cardinality(Local(r) \cap D)]
  BY DEF DecideAll
<1>2. /\ \A v \in D : scc_id'[v] = unmap(label[v])
      /\ \A v \in Vertices \ D : scc_id'[v] = scc_id[v]
  BY <1>0, <1>1
<1>3. Decides(D)
  BY <1>0, <1>1 DEF Decides
<1>4. /\ DecidedOnce'
      /\ is_undecided' \in SUBSET Vertices
      /\ scc_id' \in [Vertices -> Vertices \cup {Undecided}]
      /\ local_decided' \in [Ranks -> Nat]
  BY <1>0, <1>3, DecidesKeepsRecords
<1> QED BY <1>1, <1>2, <1>4

\* A rank leaves the forward search, and decides its vertices that kept their
\* own label.
LEMMA LabelFwTerminate ==
  ASSUME SearchesInv, stage = "label", LabelRest, NEW r \in Ranks, FwTerminate(r)
  PROVE  SearchesInv'
<1> DEFINE roots == {v \in is_undecided \cap Local(r) : label[v] = map[v]}
<1>0. /\ SearchesTypeOK /\ WorkInv /\ DecidedOnce /\ LabelRound
      /\ map \in [Vertices -> Nat] /\ label \in [Vertices -> Nat]
      /\ active \in [Vertices -> {0, 1}] /\ in_active \in SUBSET Vertices
      /\ edges \in SUBSET (Vertices \X Vertices) /\ is_undecided \in SUBSET Vertices
      /\ scc_id \in [Vertices -> Vertices \cup {Undecided}]
      /\ \A w \in Vertices : Rank(w) \in Ranks
      /\ \A v \in Local(r) : v \in Vertices /\ Rank(v) = r
      /\ \A v \in Vertices : Rank(v) = r => v \in Local(r)
      /\ \A v \in Vertices : unmap(map[v]) = v
      /\ Ranks # {}
  BY LabelStage, StateTypes
<1>1. /\ Terminate(r, "call", "forward", "barrier")
      /\ DecideAll(roots)
      /\ in_active' = (in_active \ Local(r)) \cup roots
      /\ active' = [v \in Vertices |-> active[v] + IF v \in roots THEN 1 ELSE 0]
      /\ UNCHANGED <<input, map, label, popped, label_k, left, network>>
  BY DEF FwTerminate
<1>2. /\ roots \in SUBSET is_undecided
      /\ \A v \in roots : v \in Vertices /\ Rank(v) = r /\ label[v] = map[v]
      /\ \A v \in is_undecided : Rank(v) = r /\ label[v] = map[v] => v \in roots
  BY <1>0
<1> HIDE DEF roots
<1>3. \A v \in Vertices : at[Rank(v)] = "forward" => active[v] = 0
  BY <1>1, <1>0 DEF Terminate, Idle, Local
<1>4. at[r] = "forward"
  BY <1>1 DEF Terminate
<1>5. /\ \A v \in Vertices : active'[v] = IF v \in roots THEN 1 ELSE active[v]
      /\ active' \in [Vertices -> {0, 1}]
  <2>1. \A v \in roots : active[v] = 0
    BY <1>2, <1>3, <1>4
  <2>2. \A v \in Vertices : active[v] \in {0, 1}
    BY <1>0
  <2>3. \A v \in Vertices : active'[v] = IF v \in roots THEN 1 ELSE active[v]
    BY <1>1, <2>1, <2>2
  <2> QED BY <1>1, <2>2, <2>3
<1>6. /\ WorkInv' /\ Forward /\ Forward' /\ NothingLeft'
      /\ network = {} /\ \A s \in Ranks : popped[s] = {} /\ left[s] = {}
      /\ at'[r] = "barrier"
      /\ \A s \in Ranks \ {r} : at'[s] = at[s]
      /\ \A s \in Ranks : at[s] \in {"forward", "barrier"}
  <2>1. \A v \in Vertices : Rank(v) # r => active'[v] = active[v]
    BY <1>2, <1>5
  <2>2. UNCHANGED <<input, popped, left, network>>
    BY <1>1
  <2> QED BY <1>0, <1>1, <1>5, <2>1, <2>2, FwTerminateWork
<1>7. PICK S \in SUBSET Vertices : ForwardInv(S) /\ ForwardOver(S)
  BY <1>3, <1>6, ForwardEnds
<1>8. /\ DecidedOnce' /\ is_undecided' = is_undecided \ roots
      /\ \A v \in roots : scc_id'[v] = v
      /\ \A v \in Vertices \ roots : scc_id'[v] = scc_id[v]
      /\ is_undecided' \in SUBSET Vertices
      /\ scc_id' \in [Vertices -> Vertices \cup {Undecided}]
      /\ local_decided' \in [Ranks -> Nat]
  <2>1. \A v \in roots : unmap(label[v]) = v
    BY <1>0, <1>2
  <2>2. \A v \in roots : unmap(label[v]) \in Vertices
    BY <1>2, <2>1
  <2> QED BY <1>1, <1>2, <2>1, <2>2, LabelDecides
<1>9. /\ edges' = edges
      /\ \A v : Rank(v)' = Rank(v)
      /\ \A T : Within(T)' = Within(T)
      /\ \A T, l, v : Genuine(T, l, v)' = Genuine(T, l, v)
  BY <1>1, InputUnchanged
<1>10. \A s \in Ranks : at'[s] \in {"forward", "barrier"}
  BY <1>6
<1>11. \A v \in Vertices : LabelOf(v)' = label[v]
  BY <1>0, <1>1, <1>9, <1>10 DEF LabelOf
<1>12. is_undecided \subseteq S
  BY <1>7 DEF ForwardOver
<1>13. ForwardInv(S)'
  <2>1. EarlierRounds(S)'
    <3>1. ASSUME NEW u \in Vertices \ S
          PROVE  /\ SCC(edges, u) \cap S = {}
                 /\ scc_id'[u] \in SCC(edges, u)
                 /\ \A v \in SCC(edges, u) : scc_id'[v] = scc_id'[u]
      <4>1. /\ SCC(edges, u) \cap S = {}
            /\ scc_id[u] \in SCC(edges, u)
            /\ \A v \in SCC(edges, u) : scc_id[v] = scc_id[u]
        BY <1>7 DEF ForwardOver, EarlierRounds
      <4>2. \A v \in SCC(edges, u) : v \in Vertices \ roots
        BY <1>2, <1>12, <4>1 DEF SCC, Reach
      <4>3. u \in Vertices \ roots
        BY <1>2, <1>12
      <4> QED BY <1>8, <4>1, <4>2, <4>3
    <3> QED BY <1>9, <3>1 DEF EarlierRounds
  <2>2. is_undecided' = S \ {v \in S : at'[Rank(v)] = "barrier" /\ label'[v] = map'[v]}
    <3>1. is_undecided = S \ {v \in S : at[Rank(v)] = "barrier" /\ label[v] = map[v]}
      BY <1>7 DEF ForwardOver
    <3>2. ASSUME NEW v \in S
          PROVE  v \in is_undecided' <=> ~ (at'[Rank(v)] = "barrier" /\ label[v] = map[v])
      <4>1. CASE Rank(v) = r
        BY <1>2, <1>4, <1>6, <1>8, <3>1, <4>1
      <4>2. CASE Rank(v) # r
        BY <1>0, <1>2, <1>6, <1>8, <3>1, <4>2
      <4> QED BY <4>1, <4>2
    <3> QED BY <1>1, <1>8, <1>12, <3>2
  <2>3. \A v \in S : Genuine(S, LabelOf(v), v)' /\ LabelOf(v)' <= map'[v]
    <3>1. \A v \in S : (Genuine(S, LabelOf(v), v))' <=> Genuine(S, LabelOf(v)', v)
      BY <1>1, <1>9 DEF Genuine
    <3> QED BY <1>1, <1>7, <1>11, <3>1 DEF ForwardOver
  <2>4. ASSUME NEW v \in Vertices
        PROVE  /\ active'[v] = 1 <=> v \in in_active'
               /\ at'[Rank(v)] = "forward" => active'[v] = 0
               /\ at'[Rank(v)] = "barrier" => (active'[v] = 1 <=> v \in S \ is_undecided')
               /\ at'[Rank(v)] # "call"
    <3>1. at'[Rank(v)] \in {"forward", "barrier"}
      BY <1>0, <1>10
    <3>2. CASE Rank(v) = r
      <4>1. active[v] = 0 /\ at'[Rank(v)] = "barrier" /\ v \in Local(r)
        BY <1>0, <1>3, <1>4, <1>6, <3>2
      <4>2. (active'[v] = 1 <=> v \in roots) /\ (v \in in_active' <=> v \in roots)
        BY <1>1, <1>5, <4>1
      <4>3. v \in S => v \in is_undecided
        BY <1>4, <1>7, <3>2 DEF ForwardOver
      <4> QED BY <1>2, <1>8, <1>12, <3>1, <4>1, <4>2, <4>3
    <3>3. CASE Rank(v) # r
      <4>1. /\ active'[v] = active[v] /\ (v \in in_active' <=> v \in in_active)
            /\ at'[Rank(v)] = at[Rank(v)] /\ v \notin roots
        BY <1>0, <1>1, <1>2, <1>5, <1>6, <3>3
      <4> QED BY <1>3, <1>7, <1>8, <3>1, <4>1 DEF ForwardOver
    <3> QED BY <3>2, <3>3
  <2>5. \A v \in S \ is_undecided' : scc_id'[v] = v
    <3>1. \A v \in S \ is_undecided : scc_id[v] = v
      BY <1>7 DEF ForwardOver
    <3> QED BY <1>8, <3>1
  <2>6. \A e \in Within(S) : LabelOf(e[2])' <= LabelOf(e[1])'
    <3>1. \A e \in Within(S) : e[1] \in Vertices /\ e[2] \in Vertices
      BY <1>0 DEF Within
    <3> QED BY <1>7, <1>11, <3>1 DEF ForwardOver
  <2>7. network' = {} /\ \A s \in Ranks : popped'[s] = {}
    BY <1>1, <1>6
  <2> QED BY <1>9, <2>1, <2>2, <2>3, <2>4, <2>5, <2>6, <2>7 DEF ForwardInv
<1>14. LabelRound'
  <2>1. ~ Backward' /\ \A s \in Ranks : at'[s] # "done"
    BY <1>0, <1>10 DEF Backward
  <2>2. network' \subseteq Vertices \X Vertices \X Nat
    BY <1>1, <1>6
  <2> QED BY <1>0, <1>1, <1>13, <2>1, <2>2 DEF LabelRound
<1>15. /\ in_active' \in SUBSET Vertices
       /\ at' \in [Ranks -> {"call", "forward", "barrier", "backward", "sum", "done"}]
  BY <1>0, <1>1, <1>2, StateTypes DEF Terminate
<1> QED BY <1>0, <1>1, <1>6, <1>8, <1>14, <1>15, LabelKept, StateTypes DEF LabelRest

\* All ranks go on to the backward search.
LEMMA LabelBarrier ==
  ASSUME SearchesInv, stage = "label", LabelRest, Barrier
  PROVE  SearchesInv'
<1>0. /\ SearchesTypeOK /\ WorkInv /\ DecidedOnce /\ LabelRound
      /\ map \in [Vertices -> Nat] /\ label \in [Vertices -> Nat]
      /\ edges \in SUBSET (Vertices \X Vertices) /\ Ranks # {}
      /\ \A w \in Vertices : Rank(w) \in Ranks
  BY LabelStage, StateTypes
<1>1. /\ \A r \in Ranks : at[r] = "barrier"
      /\ at' = [r \in Ranks |-> "backward"]
      /\ UNCHANGED <<input, map, label, active, in_active, popped, label_k, left, network,
                     is_undecided, scc_id, local_decided>>
  BY DEF Barrier, Together, decisions
<1>2. /\ WorkInv' /\ Forward /\ ~ Forward' /\ Backward'
      /\ network = {} /\ \A s \in Ranks : popped[s] = {} /\ left[s] = {}
      /\ \A s \in Ranks : at'[s] = "backward"
  <2>1. UNCHANGED <<input, active, popped, left, network>>
    BY <1>1
  <2> QED BY <1>0, <1>1, <2>1, BarrierWork
<1>3. PICK S \in SUBSET Vertices : ForwardInv(S) /\ ForwardOver(S)
  <2>1. \A v \in Vertices : at[Rank(v)] # "forward"
    BY <1>0, <1>1
  <2> QED BY <1>1, <1>2, <2>1, ForwardEnds
<1>4. /\ edges' = edges
      /\ \A v : Rank(v)' = Rank(v)
      /\ \A T : Within(T)' = Within(T)
      /\ \A T, l, v : Genuine(T, l, v)' = Genuine(T, l, v)
  BY <1>1, InputUnchanged
<1>5. \A v \in Vertices : at[Rank(v)] = "barrier" /\ at'[Rank(v)] = "backward"
  BY <1>0, <1>1, <1>2
<1>6. BackwardInv(S)'
  <2>1. EarlierRounds(S)'
    BY <1>1, <1>3, <1>4 DEF ForwardOver, EarlierRounds
  <2>2. \A v \in S : Genuine(S, label[v], v)' /\ label'[v] <= map'[v]
    BY <1>1, <1>3, <1>4 DEF ForwardOver, Genuine
  <2>3. is_undecided = {v \in S : label[v] # map[v]}
    BY <1>3, <1>5 DEF ForwardOver
  <2>4. \A v \in Vertices : /\ active[v] = 1 <=> v \in in_active
                            /\ active[v] = 1 <=> v \in S \ is_undecided
    BY <1>3, <1>5 DEF ForwardOver
  <2>5. \A v \in S \ is_undecided : scc_id[v] = v /\ v \in SCC(edges, v) /\ label[v] = map[v]
    BY <1>3, <2>3, SccSelf DEF ForwardOver
  <2>6. \A v \in is_undecided : label'[v] # map'[v] /\ v \notin in_active'
    BY <1>1, <1>3, <2>3, <2>4
  <2>7. \A u \in S \ is_undecided : \A v : Visiting(u, v)'
    BY <1>1, <1>4, <1>5, <2>4 DEF Visiting, Searching
  <2>8. \A e \in Within(S) : label[e[2]] <= label[e[1]]
    BY <1>3 DEF ForwardOver
  <2>9. network' = {} /\ \A s \in Ranks : popped'[s] = {}
    BY <1>1, <1>2
  <2> QED BY <1>1, <1>4, <2>1, <2>2, <2>3, <2>4, <2>5, <2>6, <2>7, <2>8, <2>9 DEF BackwardInv
<1>7. LabelRound'
  <2>1. \A s \in Ranks : at'[s] # "done"
    BY <1>2
  <2> QED BY <1>0, <1>1, <1>2, <1>6, <2>1 DEF LabelRound
<1>8. DecidedOnce'
  BY <1>0, <1>1, RecordsStay
<1>9. at' \in [Ranks -> {"call", "forward", "barrier", "backward", "sum", "done"}]
  BY <1>1
<1> QED BY <1>0, <1>1, <1>2, <1>7, <1>8, <1>9, LabelKept, StateTypes DEF LabelRest
-----------------------------------------------------------------------------
(* The label searches, backward                                            *)

\* Whose label v has, that reaches v.
LEMMA GenuineReach ==
  ASSUME map \in Maps, NEW S \in SUBSET Vertices, NEW r \in Vertices, NEW v \in Vertices,
         Genuine(S, map[r], v)
  PROVE  v \in Reach(edges, r)
<1>1. PICK u \in S : map[r] = map[u] /\ v \in Reach(Within(S), u)
  BY DEF Genuine
<1>2. u = r
  BY <1>1, MapFacts
<1>3. ASSUME NEW C \in SUBSET Vertices, r \in C, IsClosed(edges, C) PROVE v \in C
  <2>1. IsClosed(Within(S), C)
    BY <1>3 DEF IsClosed, Within
  <2> QED BY <1>1, <1>2, <1>3, <2>1 DEF Reach
<1> QED BY <1>3 DEF Reach

\* In the midst of the backward search, what BackwardInv says.
BackwardRuns(S) ==
  /\ EarlierRounds(S) /\ is_undecided \subseteq S
  /\ \A r \in Ranks : at[r] = "backward"
  /\ \A v \in S : Genuine(S, label[v], v) /\ label[v] <= map[v]
  /\ \A v \in is_undecided : label[v] # map[v] /\ v \notin in_active
  /\ \A v \in S \ is_undecided : label[v] = map[scc_id[v]] /\ scc_id[v] \in SCC(edges, v)
  /\ \A v \in Vertices : active[v] = 1 => v \in S \ is_undecided /\ v \in in_active
  /\ \A r \in Ranks : \A u \in popped[r] :
       u \in S \ is_undecided /\ label_k[r] = label[u] /\ active[u] = 0
  /\ \A m \in network :
       m[1] \in S \ is_undecided /\ <<m[2], m[1]>> \in edges /\ m[3] = label[m[1]]
  /\ \A v \in is_undecided : \A u \in S \ is_undecided :
       <<v, u>> \in edges /\ label[v] = label[u] =>
         \/ active[u] = 1
         \/ u \in popped[Rank(u)] /\ v \in left[Rank(u)]
         \/ <<u, v, label[u]>> \in network

\* While something is under way in the backward phase, no rank has left it.
LEMMA BackwardFacts ==
  ASSUME SearchesInv, stage = "label", ~ NothingLeft, NEW r \in Ranks, at[r] = "backward"
  PROVE  \E S \in SUBSET Vertices : BackwardInv(S) /\ BackwardRuns(S)
<1>1. /\ SearchesTypeOK /\ WorkInv /\ LabelRound
      /\ \A v \in Vertices : Rank(v) \in Ranks
      /\ is_undecided \in SUBSET Vertices
  BY LabelStage, StateTypes
<1>2. Backward /\ \A s \in Ranks : at[s] = "backward"
  BY <1>1, AllBackward
<1>3. PICK S \in SUBSET Vertices : BackwardInv(S)
  BY <1>1, <1>2 DEF LabelRound
<1>4. \A v \in Vertices : active[v] = 1 => v \in S \ is_undecided /\ v \in in_active
  BY <1>3 DEF BackwardInv
<1>5. BackwardRuns(S)
  BY <1>1, <1>2, <1>3, <1>4 DEF BackwardInv, BackwardRuns, Visiting
<1> QED BY <1>3, <1>5

\* What a step of the backward search has to show, without primed definitions.
LabelsAnswer(S, D) ==
  LET U == is_undecided \ D
  IN  /\ UNCHANGED <<input, map, at, label>>
      /\ D \in SUBSET is_undecided /\ is_undecided' = U
      /\ \A v \in D : label[v] = map[scc_id'[v]] /\ scc_id'[v] \in SCC(edges, v)
      /\ \A v \in Vertices \ D : scc_id'[v] = scc_id[v]
      /\ \A v \in U : v \notin in_active'
      /\ \A v \in Vertices : active'[v] = 1 => v \in S \ U /\ v \in in_active'
      /\ \A r \in Ranks : \A u \in popped'[r] :
           u \in S \ U /\ label_k'[r] = label[u] /\ active'[u] = 0
      /\ network' \subseteq Vertices \X Vertices \X Nat
      /\ \A m \in network' :
           m[1] \in S \ U /\ <<m[2], m[1]>> \in edges /\ m[3] = label[m[1]]
      /\ \A v \in U : \A u \in S \ U :
           <<v, u>> \in edges /\ label[v] = label[u] =>
             \/ active'[u] = 1
             \/ u \in popped'[Rank(u)] /\ v \in left'[Rank(u)]
             \/ <<u, v, label[u]>> \in network'

\* A step that decides vertices D by the labels they are sent keeps the invariant
\* of the backward phase of a label search.
LEMMA LabelBackwardKept ==
  ASSUME SearchesInv, stage = "label", NEW S \in SUBSET Vertices, BackwardInv(S), BackwardRuns(S),
         NEW D, LabelsAnswer(S, D)
  PROVE  LabelRound'
<1>u. PICK U : U = is_undecided \ D
  OBVIOUS
<1>0. /\ UNCHANGED <<input, map, at, label>>
      /\ D \in SUBSET is_undecided /\ is_undecided' = U
      /\ \A v \in D : label[v] = map[scc_id'[v]] /\ scc_id'[v] \in SCC(edges, v)
      /\ \A v \in Vertices \ D : scc_id'[v] = scc_id[v]
      /\ \A v \in U : v \notin in_active'
      /\ \A v \in Vertices : active'[v] = 1 => v \in S \ U /\ v \in in_active'
      /\ \A r \in Ranks : \A u \in popped'[r] :
           u \in S \ U /\ label_k'[r] = label[u] /\ active'[u] = 0
      /\ network' \subseteq Vertices \X Vertices \X Nat
      /\ \A m \in network' :
           m[1] \in S \ U /\ <<m[2], m[1]>> \in edges /\ m[3] = label[m[1]]
      /\ \A v \in U : \A u \in S \ U :
           <<v, u>> \in edges /\ label[v] = label[u] =>
             \/ active'[u] = 1
             \/ u \in popped'[Rank(u)] /\ v \in left'[Rank(u)]
             \/ <<u, v, label[u]>> \in network'
  BY <1>u DEF LabelsAnswer
<1>1. /\ edges' = edges
      /\ \A v : Rank(v)' = Rank(v)
      /\ \A T : Within(T)' = Within(T)
      /\ \A T, l, v : Genuine(T, l, v)' = Genuine(T, l, v)
  BY <1>0, InputUnchanged
<1>2. /\ LabelRound /\ Ranks # {} /\ is_undecided \in SUBSET Vertices
      /\ \A v \in Vertices : Rank(v) \in Ranks
  BY LabelStage, StateTypes
<1>3. /\ EarlierRounds(S) /\ is_undecided \subseteq S
      /\ \A r \in Ranks : at[r] = "backward"
      /\ \A v \in S : Genuine(S, label[v], v) /\ label[v] <= map[v]
      /\ \A v \in is_undecided : label[v] # map[v] /\ v \notin in_active
      /\ \A v \in S \ is_undecided : label[v] = map[scc_id[v]] /\ scc_id[v] \in SCC(edges, v)
  BY DEF BackwardRuns
<1>4. \A e \in Within(S) : label[e[2]] <= label[e[1]]
  BY DEF BackwardInv
<1>5. ~ Forward' /\ \A r \in Ranks : at'[r] = "backward"
  BY <1>0, <1>2, <1>3 DEF Forward
<1>6. EarlierRounds(S)'
  <2>1. ASSUME NEW u \in Vertices \ S
        PROVE  /\ SCC(edges, u) \cap S = {}
               /\ scc_id'[u] \in SCC(edges, u)
               /\ \A v \in SCC(edges, u) : scc_id'[v] = scc_id'[u]
    <3>1. /\ SCC(edges, u) \cap S = {}
          /\ scc_id[u] \in SCC(edges, u)
          /\ \A v \in SCC(edges, u) : scc_id[v] = scc_id[u]
      BY <1>3 DEF EarlierRounds
    <3>2. \A v \in SCC(edges, u) : v \in Vertices \ D
      BY <1>0, <1>3, <3>1 DEF SCC, Reach
    <3>3. u \in Vertices \ D
      BY <1>0, <1>3
    <3> QED BY <1>0, <3>1, <3>2, <3>3
  <2> QED BY <1>1, <2>1 DEF EarlierRounds
<1>7. \A v \in S \ U : label'[v] = map'[scc_id'[v]] /\ scc_id'[v] \in SCC(edges', v)
  <2>1. \A v \in S \ U : v \in D \/ (v \in S \ is_undecided /\ v \in Vertices \ D)
    BY <1>u, <1>0
  <2> QED BY <1>0, <1>1, <1>3, <2>1
<1>8. \A u, v : u \in Vertices =>
        (Visiting(u, v)' <=> \/ active'[u] = 1
                             \/ u \in popped'[Rank(u)] /\ v \in left'[Rank(u)])
  BY <1>1, <1>2, <1>5 DEF Visiting, Searching
<1>9. \A v \in S : Genuine(S, label[v], v)'
  BY <1>0, <1>1, <1>3 DEF Genuine
<1>10. U \subseteq S /\ \A v \in U : v \in is_undecided
  BY <1>u, <1>3
<1>11. BackwardInv(S)'
  BY <1>0, <1>1, <1>3, <1>4, <1>6, <1>7, <1>8, <1>9, <1>10 DEF BackwardInv
<1> QED BY <1>0, <1>2, <1>5, <1>11 DEF LabelRound

\* The handler runs on v, asked by a decided vertex u behind it with label l.
Asked(S, u, v, l) ==
  /\ BackwardRuns(S)
  /\ v \in Vertices /\ u \in S \ is_undecided /\ <<v, u>> \in edges
  /\ l = label[u] /\ at[Rank(v)] = "backward" /\ Handle(v, l) /\ input' = input

\* Then D is decided: v or nothing.
Answered(D, v, l) ==
  /\ D \subseteq {v} /\ (v \in is_undecided /\ label[v] = l => v \in D)
  /\ UNCHANGED label /\ is_undecided' = is_undecided \ D
  /\ \A w \in D : label[w] = map[scc_id'[w]] /\ scc_id'[w] \in SCC(edges, w)
  /\ \A w \in Vertices \ D : scc_id'[w] = scc_id[w]
  /\ in_active' = in_active \cup D
  /\ \A w \in Vertices : active'[w] = IF w \in D THEN 1 ELSE active[w]
  /\ active' \in [Vertices -> {0, 1}] /\ in_active' \in SUBSET Vertices
  /\ DecidedOnce' /\ is_undecided' \in SUBSET Vertices
  /\ scc_id' \in [Vertices -> Vertices \cup {Undecided}]
  /\ local_decided' \in [Ranks -> Nat]

\* v is decided if it has that label, and is then of the component the label is of.
LEMMA LabelBwHandle ==
  ASSUME SearchesInv, stage = "label", NEW S \in SUBSET Vertices, NEW u, NEW v, NEW l,
         Asked(S, u, v, l)
  PROVE  \E D \in SUBSET is_undecided : Answered(D, v, l)
<1>0. /\ BackwardRuns(S)
      /\ v \in Vertices /\ u \in S \ is_undecided /\ <<v, u>> \in edges
      /\ l = label[u] /\ at[Rank(v)] = "backward" /\ Handle(v, l) /\ input' = input
  BY DEF Asked
<1>d. PICK D : D = IF v \in is_undecided /\ label[v] = l THEN {v} ELSE {}
  OBVIOUS
<1>1. on_bw_message(v, l)
  BY <1>0 DEF Handle
<1>2. /\ UNCHANGED label /\ DecideAll(D)
      /\ in_active' = in_active \cup D
      /\ active' = [w \in Vertices |-> active[w] + IF w \in D \ in_active THEN 1 ELSE 0]
  BY <1>1, <1>d DEF on_bw_message, Activate
<1>3. /\ active \in [Vertices -> {0, 1}] /\ in_active \in SUBSET Vertices
      /\ map \in Maps
      /\ \A w \in Vertices : unmap(map[w]) = w
  BY LabelStage, StateTypes
<1>4. /\ D \in SUBSET is_undecided /\ D \subseteq {v}
      /\ v \in is_undecided /\ label[v] = l => v \in D
      /\ \A w \in D : w = v /\ label[w] = label[u]
  BY <1>0, <1>d
<1>5. /\ is_undecided \subseteq S
      /\ \A w \in S : Genuine(S, label[w], w)
      /\ \A w \in is_undecided : w \notin in_active
      /\ label[u] = map[scc_id[u]] /\ scc_id[u] \in SCC(edges, u)
      /\ \A w \in Vertices : active[w] = 1 => w \in S \ is_undecided /\ w \in in_active
  BY <1>0 DEF BackwardRuns
<1>6. scc_id[u] \in Vertices /\ unmap(label[u]) = scc_id[u]
  BY <1>0, <1>3, <1>5 DEF SCC, Reach
<1>7. \A w \in D : unmap(label[w]) = scc_id[u]
  BY <1>4, <1>6
<1>8. /\ DecidedOnce' /\ is_undecided' = is_undecided \ D
      /\ \A w \in D : scc_id'[w] = unmap(label[w])
      /\ \A w \in Vertices \ D : scc_id'[w] = scc_id[w]
      /\ is_undecided' \in SUBSET Vertices
      /\ scc_id' \in [Vertices -> Vertices \cup {Undecided}]
      /\ local_decided' \in [Ranks -> Nat]
  <2>1. \A w \in D : unmap(label[w]) \in Vertices
    BY <1>6, <1>7
  <2>2. stage = "label" /\ input' = input /\ DecideAll(D) /\ D \in SUBSET is_undecided
    BY <1>0, <1>2, <1>4
  <2> QED BY <2>1, <2>2, LabelDecides
<1>9. ASSUME NEW w \in D PROVE label[w] = map[scc_id'[w]] /\ scc_id'[w] \in SCC(edges, w)
  <2>1. w = v /\ w \in S /\ scc_id'[w] = scc_id[u] /\ label[w] = map[scc_id[u]]
    BY <1>0, <1>4, <1>5, <1>7, <1>8
  <2>2. v \in Reach(edges, scc_id[u])
    BY <1>0, <1>3, <1>5, <1>6, <2>1, GenuineReach
  <2>3. u \in Vertices /\ scc_id[u] \in Reach(edges, u)
    BY <1>0, <1>5 DEF SCC
  <2>4. scc_id[u] \in Reach(edges, v)
    <3>1. u \in Reach(edges, v)
      BY <1>0, <2>3, ReachSelf, ReachStep
    <3> QED BY <1>0, <2>3, <3>1, ReachTransitive
  <2> QED BY <2>1, <2>2, <2>4 DEF SCC
<1>10. \A w \in Vertices : active'[w] = IF w \in D THEN 1 ELSE active[w]
  <2>1. \A w \in D : w \notin in_active /\ active[w] # 1
    BY <1>4, <1>5, <1>3
  <2>2. \A w \in Vertices : active[w] \in {0, 1}
    BY <1>3
  <2> QED BY <1>2, <2>1, <2>2
<1>11. active' \in [Vertices -> {0, 1}] /\ in_active' \in SUBSET Vertices
  <2>1. \A w \in Vertices : active'[w] \in {0, 1}
    BY <1>3, <1>10
  <2>2. active' = [w \in Vertices |-> active[w] + IF w \in D \ in_active THEN 1 ELSE 0]
    BY <1>2
  <2>3. D \in SUBSET Vertices /\ in_active \in SUBSET Vertices /\ in_active' = in_active \cup D
    BY <1>0, <1>2, <1>3, <1>4
  <2> QED BY <2>1, <2>2, <2>3
<1> QED BY <1>2, <1>4, <1>8, <1>9, <1>10, <1>11 DEF Answered

\* The backward search takes a vertex from a stack.
LEMMA LabelPopBw ==
  ASSUME SearchesInv, stage = "label", LabelRest, NEW u \in Vertices, Pop(u),
         at[Rank(u)] = "backward"
  PROVE  SearchesInv'
<1> DEFINE r == Rank(u)
<1>0. /\ SearchesTypeOK /\ WorkInv /\ DecidedOnce /\ LabelRound /\ r \in Ranks
      /\ u \in Local(r) /\ map \in [Vertices -> Nat] /\ label \in [Vertices -> Nat]
      /\ active \in [Vertices -> {0, 1}] /\ edges \in SUBSET (Vertices \X Vertices)
      /\ network \subseteq Vertices \X Vertices \X Nat
      /\ \A w \in Vertices : Rank(w) \in Ranks
      /\ is_undecided \in SUBSET Vertices
  BY LabelStage, StateTypes
<1>1. /\ Searching(r) /\ popped[r] = {} /\ active[u] > 0
      /\ active' = [active EXCEPT ![u] = @ - 1]
      /\ popped' = [popped EXCEPT ![r] = {u}]
      /\ label_k' = [label_k EXCEPT ![r] = label[u]]
      /\ left' = [left EXCEPT ![r] = Concerned(Pred(edges, u), u)]
      /\ UNCHANGED <<input, map, at, label, in_active, network, is_undecided, scc_id,
                     local_decided>>
  BY DEF Pop, Unset, Neighbours, decisions
<1>2. active[u] = 1 /\ \A w \in Vertices : active'[w] = IF w = u THEN 0 ELSE active[w]
  BY <1>0, <1>1
<1>3. /\ popped'[r] = {u} /\ left'[r] = {v \in Pred(edges, u) : label[u] < map[v]}
      /\ label_k'[r] = label[u]
      /\ \A s \in Ranks \ {r} : popped'[s] = popped[s] /\ left'[s] = left[s]
                                /\ label_k'[s] = label_k[s]
      /\ popped' \in [Ranks -> SUBSET Vertices] /\ left' \in [Ranks -> SUBSET Vertices]
      /\ label_k' \in [Ranks -> Nat]
  BY <1>0, <1>1, StateTypes DEF Pred, Concerned
<1>4. active' \in [Vertices -> {0, 1}]
  BY <1>0, <1>1, <1>2
<1>5. Works(r)
  <2>1. ~ NothingLeft
    BY <1>0, <1>1, HasWork
  <2>2. left'[r] \subseteq Neighbours(u)
    BY <1>3 DEF Neighbours
  <2>3. \A v \in Vertices : at[Rank(v)] = "call" => active'[v] = 0
    BY <1>0, <1>2 DEF WorkInv
  <2> HIDE DEF r
  <2> QED BY <1>0, <1>1, <1>3, <1>4, <2>1, <2>2, <2>3 DEF Works
<1>6. WorkInv'
  BY <1>0, <1>5, WorksKeepsWork
<1>7. PICK S \in SUBSET Vertices : BackwardInv(S) /\ BackwardRuns(S)
  BY <1>0, <1>5, BackwardFacts DEF Works
<1>8. u \in S \ is_undecided
  BY <1>2, <1>7 DEF BackwardRuns
<1> HIDE DEF r
<1>r. r = Rank(u)
  BY DEF r
<1>10. LabelsAnswer(S, {})
  <2>0. is_undecided \ {} = is_undecided
    OBVIOUS
  <2>1. \A v \in Vertices : active'[v] = 1 => v \in S \ is_undecided /\ v \in in_active'
    BY <1>1, <1>2, <1>7 DEF BackwardRuns
  <2>2. ASSUME NEW s \in Ranks, NEW w \in popped'[s]
        PROVE  w \in S \ is_undecided /\ label_k'[s] = label[w] /\ active'[w] = 0
    <3>1. CASE s = r
      BY <1>2, <1>3, <1>8, <3>1
    <3>2. CASE s # r
      <4>1. w \in popped[s] /\ Rank(w) = s /\ w \in Vertices
        BY <1>0, <1>3, <3>2, StateTypes DEF WorkInv
      <4>2. w # u
        BY <1>r, <3>2, <4>1
      <4> QED BY <1>2, <1>3, <1>7, <3>2, <4>1, <4>2 DEF BackwardRuns
    <3> QED BY <3>1, <3>2
  <2>3. ASSUME NEW v \in is_undecided, NEW w \in S \ is_undecided,
               <<v, w>> \in edges, label[v] = label[w]
        PROVE  \/ active'[w] = 1
               \/ w \in popped'[Rank(w)] /\ v \in left'[Rank(w)]
               \/ <<w, v, label[w]>> \in network'
    <3>1. v \in Vertices /\ w \in Vertices /\ Rank(w) \in Ranks
      BY <1>0
    <3>2. CASE w = u
      <4>1. v \in S /\ label[v] <= map[v] /\ label[v] # map[v]
        BY <1>7 DEF BackwardRuns
      <4>2. label[u] < map[v]
        BY <1>0, <2>3, <3>1, <3>2, <4>1
      <4> QED BY <1>3, <1>r, <2>3, <3>1, <3>2, <4>2 DEF Pred
    <3>3. CASE w # u
      <4>1. \/ active[w] = 1
            \/ w \in popped[Rank(w)] /\ v \in left[Rank(w)]
            \/ <<w, v, label[w]>> \in network
        BY <1>7, <2>3 DEF BackwardRuns
      <4> QED BY <1>1, <1>2, <1>3, <3>1, <3>3, <4>1
    <3> QED BY <3>2, <3>3
  <2>4. \A m \in network' :
           m[1] \in S \ is_undecided /\ <<m[2], m[1]>> \in edges /\ m[3] = label[m[1]]
    <3>1. \A m \in network :
           m[1] \in S \ is_undecided /\ <<m[2], m[1]>> \in edges /\ m[3] = label[m[1]]
      BY <1>7, Zenon DEF BackwardRuns
    <3>2. network' = network /\ label' = label
      BY <1>1
    <3> QED BY <3>1, <3>2, Zenon
  <2>5. \A v \in is_undecided : v \notin in_active'
    BY <1>1, <1>7 DEF BackwardRuns
  <2> QED BY <1>0, <1>1, <2>0, <2>1, <2>2, <2>3, <2>4, <2>5 DEF LabelsAnswer
<1>11. LabelRound'
  BY <1>7, <1>10, LabelBackwardKept
<1>12. DecidedOnce'
  BY <1>0, <1>1, RecordsStay
<1> QED BY <1>0, <1>1, <1>3, <1>6, <1>11, <1>12, LabelKept, StateTypes DEF LabelRest

\* What the handler does to the decisions and stacks.
Answers(S, D, v, l) ==
  /\ UNCHANGED <<input, map, at, label, popped, label_k>>
  /\ D \in SUBSET is_undecided /\ D \subseteq {v}
  /\ v \in is_undecided /\ label[v] = l => v \in D
  /\ is_undecided' = is_undecided \ D
  /\ \A w \in D : label[w] = map[scc_id'[w]] /\ scc_id'[w] \in SCC(edges, w)
  /\ \A w \in Vertices \ D : scc_id'[w] = scc_id[w]
  /\ in_active' = in_active \cup D
  /\ \A w \in Vertices : active'[w] = IF w \in D THEN 1 ELSE active[w]
  /\ network' \subseteq network
  /\ \A u \in S \ is_undecided : \A w \in is_undecided \ D :
       /\ u \in popped[Rank(u)] /\ w \in left[Rank(u)] /\ label[w] = label[u] =>
            w \in left'[Rank(u)]
       /\ <<u, w, label[u]>> \in network /\ label[w] = label[u] => <<u, w, label[u]>> \in network'

\* What is decided is asked further.
LEMMA AnswerKept ==
  ASSUME SearchesInv, stage = "label", NEW S \in SUBSET Vertices, BackwardInv(S), BackwardRuns(S),
         NEW D, NEW v, NEW l, Answers(S, D, v, l)
  PROVE  LabelRound'
<1>u. PICK U : U = is_undecided \ D
  OBVIOUS
<1>0. /\ UNCHANGED <<input, map, at, label, popped, label_k>>
      /\ D \in SUBSET is_undecided /\ is_undecided' = U
      /\ \A w \in D : label[w] = map[scc_id'[w]] /\ scc_id'[w] \in SCC(edges, w)
      /\ \A w \in Vertices \ D : scc_id'[w] = scc_id[w]
      /\ in_active' = in_active \cup D
      /\ \A w \in Vertices : active'[w] = IF w \in D THEN 1 ELSE active[w]
      /\ network' \subseteq network
      /\ \A u \in S \ is_undecided : \A w \in U :
           /\ u \in popped[Rank(u)] /\ w \in left[Rank(u)] /\ label[w] = label[u] =>
                w \in left'[Rank(u)]
           /\ <<u, w, label[u]>> \in network /\ label[w] = label[u] =>
                <<u, w, label[u]>> \in network'
  BY <1>u DEF Answers
<1>1. network \subseteq Vertices \X Vertices \X Nat /\ is_undecided \in SUBSET Vertices
  BY LabelStage, StateTypes
<1>2. /\ is_undecided \subseteq S
      /\ \A w \in is_undecided : w \notin in_active
      /\ \A w \in Vertices : active[w] = 1 => w \in S \ is_undecided /\ w \in in_active
      /\ \A r \in Ranks : \A u \in popped[r] :
           u \in S \ is_undecided /\ label_k[r] = label[u] /\ active[u] = 0
      /\ \A m \in network :
           m[1] \in S \ is_undecided /\ <<m[2], m[1]>> \in edges /\ m[3] = label[m[1]]
      /\ \A w \in is_undecided : \A u \in S \ is_undecided :
           <<w, u>> \in edges /\ label[w] = label[u] =>
             \/ active[u] = 1
             \/ u \in popped[Rank(u)] /\ w \in left[Rank(u)]
             \/ <<u, w, label[u]>> \in network
  BY DEF BackwardRuns
<1>a. /\ in_active' = in_active \cup D
      /\ \A w \in Vertices : active'[w] = IF w \in D THEN 1 ELSE active[w]
  BY <1>0
<1>b. /\ \A w \in is_undecided : w \notin in_active
      /\ \A w \in Vertices : active[w] = 1 => w \in S \ is_undecided /\ w \in in_active
  BY <1>2
<1>c. \A w \in U : w \in is_undecided /\ w \notin D
  BY <1>u
<1>d. /\ \A w \in D : w \in S \ U
      /\ \A w \in S \ is_undecided : w \in S \ U
      /\ \A w \in S \ U : w \in D \/ w \in S \ is_undecided
  <2>1. is_undecided \subseteq S /\ D \subseteq is_undecided
    BY <1>0, <1>2
  <2> QED BY <1>u, <2>1
<1>4. \A w \in U : w \notin in_active'
  BY <1>a, <1>b, <1>c
<1>5. \A w \in Vertices : active'[w] = 1 => w \in S \ U /\ w \in in_active'
  <2>1. ASSUME NEW w \in Vertices, active'[w] = 1 PROVE w \in S \ U /\ w \in in_active'
    <3>1. CASE w \in D
      BY <1>a, <1>d, <3>1
    <3>2. CASE w \notin D
      BY <1>a, <1>b, <1>d, <2>1, <3>2
    <3> QED BY <3>1, <3>2
  <2> QED BY <2>1
<1>6. \A r \in Ranks : \A u \in popped'[r] :
        u \in S \ U /\ label_k'[r] = label[u] /\ active'[u] = 0
  <2>1. \A r \in Ranks : \A u \in popped[r] :
          u \in S \ is_undecided /\ label_k[r] = label[u] /\ active[u] = 0
    BY <1>2
  <2>2. popped' = popped /\ label_k' = label_k
    BY <1>0
  <2>3. \A u \in S \ is_undecided : u \in Vertices /\ u \notin D
    BY <1>0
  <2> QED BY <1>d, <1>a, <2>1, <2>2, <2>3
<1>7. \A m \in network' : m[1] \in S \ U /\ <<m[2], m[1]>> \in edges /\ m[3] = label[m[1]]
  <2>1. \A m \in network :
          m[1] \in S \ is_undecided /\ <<m[2], m[1]>> \in edges /\ m[3] = label[m[1]]
    BY <1>2, Zenon
  <2>2. network' \subseteq network
    BY <1>0
  <2> QED BY <1>d, <2>1, <2>2, Zenon
<1>8. ASSUME NEW w \in U, NEW u \in S \ U, <<w, u>> \in edges, label[w] = label[u]
      PROVE  \/ active'[u] = 1
             \/ u \in popped'[Rank(u)] /\ w \in left'[Rank(u)]
             \/ <<u, w, label[u]>> \in network'
  <2>1. CASE u \in D
    BY <1>0, <2>1
  <2>2. CASE u \in S \ is_undecided
    <3>1. \/ active[u] = 1
          \/ u \in popped[Rank(u)] /\ w \in left[Rank(u)]
          \/ <<u, w, label[u]>> \in network
      BY <1>2, <1>c, <1>8, <2>2
    <3>2. active'[u] = active[u] \/ active'[u] = 1
      BY <1>0, <2>2
    <3> QED BY <1>0, <1>8, <2>2, <3>1, <3>2
  <2> QED BY <1>d, <2>1, <2>2
<1>9. LabelsAnswer(S, D)
  BY <1>u, <1>0, <1>1, <1>4, <1>5, <1>6, <1>7, <1>8 DEF LabelsAnswer
<1> QED BY <1>9, LabelBackwardKept

\* It visits a neighbour of the same rank.
LEMMA LabelVisitLocalBw ==
  ASSUME SearchesInv, stage = "label", LabelRest, NEW r \in Ranks, NEW v \in left[r],
         VisitLocal(r, v), at[r] = "backward"
  PROVE  SearchesInv'
<1>0. /\ SearchesTypeOK /\ WorkInv /\ DecidedOnce /\ LabelRound
      /\ label \in [Vertices -> Nat] /\ label_k \in [Ranks -> Nat]
      /\ edges \in SUBSET (Vertices \X Vertices)
      /\ \A w \in Vertices : Rank(w) \in Ranks
  BY LabelStage, StateTypes
<1>1. /\ Rank(v) = r /\ Handle(v, label_k[r])
      /\ left' = [left EXCEPT ![r] = @ \ {v}]
      /\ UNCHANGED <<input, map, at, popped, label_k, network>>
  BY DEF VisitLocal
<1>2. /\ Searching(r) /\ ~ NothingLeft /\ v \in Vertices
      /\ \E u \in popped[r] : /\ popped[r] = {u} /\ u \in Vertices /\ Rank(u) = r
                              /\ v \in Neighbours(u)
  BY <1>0, VisitsEdges
<1>3. PICK u \in popped[r] : popped[r] = {u} /\ u \in Vertices /\ Rank(u) = r
                             /\ <<v, u>> \in edges
  BY <1>2 DEF Neighbours, Pred
<1>4. /\ left'[r] = left[r] \ {v} /\ \A s \in Ranks \ {r} : left'[s] = left[s]
      /\ left' \in [Ranks -> SUBSET Vertices]
  BY <1>0, <1>1, StateTypes
<1>5. PICK S \in SUBSET Vertices : BackwardInv(S) /\ BackwardRuns(S)
  BY <1>2, BackwardFacts
<1>6. u \in S \ is_undecided /\ label_k[r] = label[u]
  BY <1>5 DEF BackwardRuns
<1>7. \A w \in Vertices : at[Rank(w)] = "backward"
  BY <1>0, <1>5 DEF BackwardRuns
<1>a. Asked(S, u, v, label_k[r])
  BY <1>1, <1>2, <1>3, <1>5, <1>6 DEF Asked
<1>b. PICK D \in SUBSET is_undecided : Answered(D, v, label_k[r])
  BY <1>a, LabelBwHandle
<1>8. /\ D \subseteq {v} /\ (v \in is_undecided /\ label[v] = label_k[r] => v \in D)
      /\ UNCHANGED label /\ is_undecided' = is_undecided \ D
      /\ \A w \in D : label[w] = map[scc_id'[w]] /\ scc_id'[w] \in SCC(edges, w)
      /\ \A w \in Vertices \ D : scc_id'[w] = scc_id[w]
      /\ in_active' = in_active \cup D
      /\ \A w \in Vertices : active'[w] = IF w \in D THEN 1 ELSE active[w]
      /\ active' \in [Vertices -> {0, 1}] /\ in_active' \in SUBSET Vertices
      /\ DecidedOnce' /\ is_undecided' \in SUBSET Vertices
      /\ scc_id' \in [Vertices -> Vertices \cup {Undecided}]
      /\ local_decided' \in [Ranks -> Nat]
  BY <1>b DEF Answered
<1>9. Works(r)
  BY <1>0, <1>1, <1>2, <1>4, <1>7, <1>8 DEF Works, WorkInv
<1>10. WorkInv'
  BY <1>0, <1>9, WorksKeepsWork
<1>11. Answers(S, D, v, label_k[r])
  <2>1. ASSUME NEW x \in S \ is_undecided, NEW w \in is_undecided \ D,
               x \in popped[Rank(x)], w \in left[Rank(x)], label[w] = label[x]
        PROVE  w \in left'[Rank(x)]
    <3>1. x \in Vertices /\ Rank(x) \in Ranks
      BY <1>0
    <3>2. Rank(x) = r => w # v
      BY <1>3, <1>6, <1>8, <2>1
    <3> QED BY <1>4, <2>1, <3>1, <3>2
  <2> QED BY <1>1, <1>8, <2>1 DEF Answers
<1>12. LabelRound'
  BY <1>5, <1>11, AnswerKept
<1> QED BY <1>0, <1>1, <1>4, <1>8, <1>10, <1>12, LabelKept, StateTypes DEF LabelRest

\* The queue hands over a message.
LEMMA LabelReceiveBw ==
  ASSUME SearchesInv, stage = "label", LabelRest, NEW m \in network,
         Receive(m), at[Rank(m[2])] = "backward"
  PROVE  SearchesInv'
<1> DEFINE r == Rank(m[2])
           v == m[2]
<1>0. /\ SearchesTypeOK /\ WorkInv /\ DecidedOnce /\ LabelRound
      /\ label \in [Vertices -> Nat]
      /\ edges \in SUBSET (Vertices \X Vertices)
      /\ network \subseteq Vertices \X Vertices \X Nat
      /\ \A w \in Vertices : Rank(w) \in Ranks
  BY LabelStage, StateTypes
<1>1. /\ Searching(r) /\ Handle(v, m[3])
      /\ network' = network \ {m}
      /\ UNCHANGED <<input, map, at, popped, label_k, left>>
  BY DEF Receive
<1>2. /\ m[1] \in Vertices /\ v \in Vertices /\ m[3] \in Nat /\ r \in Ranks
      /\ m = <<m[1], v, m[3]>>
  BY <1>0
<1>3. ~ NothingLeft
  BY <1>0, HasWork
<1>4. PICK S \in SUBSET Vertices : BackwardInv(S) /\ BackwardRuns(S)
  BY <1>2, <1>3, BackwardFacts
<1>5. m[1] \in S \ is_undecided /\ <<v, m[1]>> \in edges /\ m[3] = label[m[1]]
  BY <1>4 DEF BackwardRuns
<1> HIDE DEF r, v
<1>r. Rank(v) = r /\ at[r] = "backward" /\ m[2] = v
  BY DEF r, v
<1>l. PICK l : l = m[3]
  OBVIOUS
<1>n. PICK u \in S \ is_undecided : u = m[1]
  BY <1>5
<1>7. \A w \in Vertices : at[Rank(w)] = "backward"
  BY <1>0, <1>4 DEF BackwardRuns
<1>a. Asked(S, u, v, l)
  BY <1>1, <1>2, <1>4, <1>5, <1>r, <1>l, <1>n DEF Asked
<1>b. PICK D \in SUBSET is_undecided : Answered(D, v, l)
  BY <1>a, LabelBwHandle
<1>8. /\ D \subseteq {v} /\ (v \in is_undecided /\ label[v] = l => v \in D)
      /\ UNCHANGED label /\ is_undecided' = is_undecided \ D
      /\ \A w \in D : label[w] = map[scc_id'[w]] /\ scc_id'[w] \in SCC(edges, w)
      /\ \A w \in Vertices \ D : scc_id'[w] = scc_id[w]
      /\ in_active' = in_active \cup D
      /\ \A w \in Vertices : active'[w] = IF w \in D THEN 1 ELSE active[w]
      /\ active' \in [Vertices -> {0, 1}] /\ in_active' \in SUBSET Vertices
      /\ DecidedOnce' /\ is_undecided' \in SUBSET Vertices
      /\ scc_id' \in [Vertices -> Vertices \cup {Undecided}]
      /\ local_decided' \in [Ranks -> Nat]
  BY <1>b DEF Answered
<1>9. Works(r)
  BY <1>0, <1>1, <1>2, <1>3, <1>7, <1>8 DEF Works, WorkInv
<1>10. WorkInv'
  BY <1>0, <1>9, WorksKeepsWork
<1>11. Answers(S, D, v, l)
  <2>1. ASSUME NEW x \in S \ is_undecided, NEW w \in is_undecided \ D,
               <<x, w, label[x]>> \in network, label[w] = label[x]
        PROVE  <<x, w, label[x]>> \in network'
    <3>1. <<x, w, label[x]>> # m
      BY <1>2, <1>5, <1>8, <1>l, <2>1
    <3> QED BY <1>1, <2>1, <3>1
  <2> QED BY <1>1, <1>8, <2>1 DEF Answers
<1>12. LabelRound'
  BY <1>4, <1>11, AnswerKept
<1> QED BY <1>0, <1>1, <1>8, <1>10, <1>12, LabelKept, StateTypes DEF LabelRest
\* It posts a message for a neighbour on another rank.
LEMMA LabelPostBw ==
  ASSUME SearchesInv, stage = "label", LabelRest, NEW r \in Ranks, NEW v \in left[r],
         Post(r, v), at[r] = "backward"
  PROVE  SearchesInv'
<1>0. /\ SearchesTypeOK /\ WorkInv /\ DecidedOnce /\ LabelRound
      /\ label_k \in [Ranks -> Nat]
      /\ network \subseteq Vertices \X Vertices \X Nat
      /\ is_undecided \in SUBSET Vertices
      /\ \A w \in Vertices : Rank(w) \in Ranks
  BY LabelStage, StateTypes
<1>1. /\ \E u \in popped[r] : network' = network \cup {<<u, v, label_k[r]>>}
      /\ left' = [left EXCEPT ![r] = @ \ {v}]
      /\ UNCHANGED <<input, map, at, label, active, in_active, popped, label_k,
                     is_undecided, scc_id, local_decided>>
  BY DEF Post, decisions
<1>2. /\ Searching(r) /\ ~ NothingLeft /\ v \in Vertices
      /\ \E u \in popped[r] : /\ popped[r] = {u} /\ u \in Vertices /\ Rank(u) = r
                              /\ v \in Neighbours(u)
  BY <1>0, VisitsEdges
<1>3. PICK u \in popped[r] : /\ popped[r] = {u} /\ u \in Vertices /\ Rank(u) = r
                             /\ <<v, u>> \in edges
                             /\ network' = network \cup {<<u, v, label_k[r]>>}
  BY <1>1, <1>2 DEF Neighbours, Pred
<1>4. /\ left'[r] = left[r] \ {v} /\ \A s \in Ranks \ {r} : left'[s] = left[s]
      /\ left' \in [Ranks -> SUBSET Vertices]
  BY <1>0, <1>1, StateTypes
<1>5. PICK S \in SUBSET Vertices : BackwardInv(S) /\ BackwardRuns(S)
  BY <1>2, BackwardFacts
<1>6. u \in S \ is_undecided /\ label_k[r] = label[u] /\ label_k[r] \in Nat
  BY <1>0, <1>5 DEF BackwardRuns
<1>7. Works(r)
  BY <1>0, <1>1, <1>2, <1>4 DEF Works, WorkInv
<1>8. WorkInv'
  BY <1>0, <1>7, WorksKeepsWork
<1>9. LabelsAnswer(S, {})
  <2>0. is_undecided \ {} = is_undecided
    OBVIOUS
  <2>1. PICK n : n = <<u, v, label_k[r]>>
    OBVIOUS
  <2>2. /\ n[1] \in S \ is_undecided /\ <<n[2], n[1]>> \in edges /\ n[3] = label[n[1]]
        /\ n \in Vertices \X Vertices \X Nat /\ network' = network \cup {n}
    BY <1>2, <1>3, <1>6, <2>1
  <2>3. \A m \in network' :
           m[1] \in S \ is_undecided /\ <<m[2], m[1]>> \in edges /\ m[3] = label[m[1]]
    <3>1. \A m \in network :
           m[1] \in S \ is_undecided /\ <<m[2], m[1]>> \in edges /\ m[3] = label[m[1]]
      BY <1>5, Zenon DEF BackwardRuns
    <3> QED BY <2>2, <3>1, Zenon
  <2>4. ASSUME NEW x \in is_undecided, NEW w \in S \ is_undecided,
               <<x, w>> \in edges, label[x] = label[w]
        PROVE  \/ active'[w] = 1
               \/ w \in popped'[Rank(w)] /\ x \in left'[Rank(w)]
               \/ <<w, x, label[w]>> \in network'
    <3>1. \/ active[w] = 1
          \/ w \in popped[Rank(w)] /\ x \in left[Rank(w)]
          \/ <<w, x, label[w]>> \in network
      BY <1>5, <2>4 DEF BackwardRuns
    <3>2. w \in Vertices /\ Rank(w) \in Ranks
      BY <1>0
    <3>3. CASE w = u /\ x = v
      BY <1>6, <2>1, <2>2, <3>3
    <3>4. CASE ~ (w = u /\ x = v)
      <4>1. w \in popped[Rank(w)] /\ x \in left[Rank(w)] => x \in left'[Rank(w)]
        BY <1>3, <1>4, <3>2, <3>4
      <4> QED BY <1>1, <2>2, <3>1, <4>1
    <3> QED BY <3>3, <3>4
  <2>5. network' \subseteq Vertices \X Vertices \X Nat
    BY <1>0, <2>2
  <2>6. /\ \A x \in is_undecided : x \notin in_active'
        /\ \A w \in Vertices : active'[w] = 1 => w \in S \ is_undecided /\ w \in in_active'
        /\ \A s \in Ranks : \A w \in popped'[s] :
             w \in S \ is_undecided /\ label_k'[s] = label[w] /\ active'[w] = 0
    BY <1>1, <1>5 DEF BackwardRuns
  <2> QED BY <1>1, <2>0, <2>3, <2>4, <2>5, <2>6 DEF LabelsAnswer
<1>10. LabelRound'
  BY <1>5, <1>9, LabelBackwardKept
<1>11. DecidedOnce'
  BY <1>0, <1>1, RecordsStay
<1> QED BY <1>0, <1>1, <1>4, <1>8, <1>10, <1>11, LabelKept, StateTypes DEF LabelRest

\* It is through with the edges of a vertex, which is no longer active.
LEMMA LabelVisitedBw ==
  ASSUME SearchesInv, stage = "label", LabelRest, NEW r \in Ranks, Visited(r), at[r] = "backward"
  PROVE  SearchesInv'
<1>0. /\ SearchesTypeOK /\ WorkInv /\ DecidedOnce /\ LabelRound
      /\ in_active \in SUBSET Vertices
      /\ network \subseteq Vertices \X Vertices \X Nat
      /\ is_undecided \in SUBSET Vertices
      /\ \A w \in Vertices : Rank(w) \in Ranks
      /\ \A w \in Local(r) : Rank(w) = r
  BY LabelStage, StateTypes
<1>1. PICK u \in popped[r] : in_active' = in_active \ {u}
  <2>1. PICK u \in popped[r] : in_active' = Unset(u, TRUE)
    BY DEF Visited
  <2>2. Rank(u) = r
    BY <1>0 DEF WorkInv
  <2> QED BY <2>1, <2>2 DEF Unset
<1>2. /\ left[r] = {} /\ popped' = [popped EXCEPT ![r] = {}]
      /\ UNCHANGED <<input, map, at, label, active, label_k, left, network,
                     is_undecided, scc_id, local_decided>>
  BY DEF Visited, decisions
<1>3. Searching(r) /\ ~ NothingLeft
  BY <1>0, <1>1, HasWork
<1>4. /\ popped'[r] = {} /\ \A s \in Ranks \ {r} : popped'[s] = popped[s]
      /\ popped' \in [Ranks -> SUBSET Vertices]
  BY <1>0, <1>2, StateTypes
<1>5. PICK S \in SUBSET Vertices : BackwardInv(S) /\ BackwardRuns(S)
  BY <1>3, BackwardFacts
<1>6. active[u] = 0
  BY <1>1, <1>5 DEF BackwardRuns
<1>7. Works(r)
  BY <1>0, <1>2, <1>3, <1>4 DEF Works, WorkInv
<1>8. WorkInv'
  BY <1>0, <1>7, WorksKeepsWork
<1>9. LabelsAnswer(S, {})
  <2>0. is_undecided \ {} = is_undecided
    OBVIOUS
  <2>1. \A m \in network' :
           m[1] \in S \ is_undecided /\ <<m[2], m[1]>> \in edges /\ m[3] = label[m[1]]
    <3>1. \A m \in network :
           m[1] \in S \ is_undecided /\ <<m[2], m[1]>> \in edges /\ m[3] = label[m[1]]
      BY <1>5, Zenon DEF BackwardRuns
    <3>2. network' = network
      BY <1>2
    <3> QED BY <3>1, <3>2, Zenon
  <2>2. ASSUME NEW x \in is_undecided, NEW w \in S \ is_undecided,
               <<x, w>> \in edges, label[x] = label[w]
        PROVE  \/ active'[w] = 1
               \/ w \in popped'[Rank(w)] /\ x \in left'[Rank(w)]
               \/ <<w, x, label[w]>> \in network'
    <3>1. \/ active[w] = 1
          \/ w \in popped[Rank(w)] /\ x \in left[Rank(w)]
          \/ <<w, x, label[w]>> \in network
      BY <1>5, <2>2 DEF BackwardRuns
    <3>2. w \in Vertices /\ Rank(w) \in Ranks
      BY <1>0
    <3>3. x \in left[Rank(w)] => Rank(w) # r
      BY <1>2
    <3> QED BY <1>2, <1>4, <3>1, <3>2, <3>3
  <2>3. \A x \in is_undecided : x \notin in_active'
    BY <1>1, <1>5 DEF BackwardRuns
  <2>4. \A w \in Vertices : active'[w] = 1 => w \in S \ is_undecided /\ w \in in_active'
    BY <1>1, <1>2, <1>5, <1>6 DEF BackwardRuns
  <2>5. \A s \in Ranks : \A w \in popped'[s] :
          w \in S \ is_undecided /\ label_k'[s] = label[w] /\ active'[w] = 0
    <3>1. \A s \in Ranks : popped'[s] \subseteq popped[s]
      BY <1>4
    <3> QED BY <1>2, <1>5, <3>1 DEF BackwardRuns
  <2> QED BY <1>0, <1>2, <2>0, <2>1, <2>2, <2>3, <2>4, <2>5 DEF LabelsAnswer
<1>10. LabelRound'
  BY <1>5, <1>9, LabelBackwardKept
<1>11. DecidedOnce'
  BY <1>0, <1>2, RecordsStay
<1>12. in_active' \in SUBSET Vertices
  BY <1>0, <1>1
<1> QED BY <1>0, <1>2, <1>4, <1>8, <1>10, <1>11, <1>12, LabelKept, StateTypes DEF LabelRest
\* A rank leaves the backward search.
LEMMA LabelBwTerminate ==
  ASSUME SearchesInv, stage = "label", LabelRest, NEW r \in Ranks, BwTerminate(r)
  PROVE  SearchesInv'
<1>0. /\ SearchesTypeOK /\ WorkInv /\ DecidedOnce /\ LabelRound
      /\ is_undecided \in SUBSET Vertices
      /\ \A w \in Vertices : Rank(w) \in Ranks
  BY LabelStage, StateTypes
<1>1. /\ Terminate(r, "barrier", "backward", "sum")
      /\ UNCHANGED <<input, map, label, active, in_active, popped, label_k, left, network,
                     is_undecided, scc_id, local_decided>>
  BY DEF BwTerminate, decisions
<1>2. /\ WorkInv' /\ Backward /\ Backward' /\ ~ Forward'
      /\ network = {} /\ \A s \in Ranks : popped[s] = {} /\ left[s] = {}
      /\ \A v \in Vertices : active[v] = 0
      /\ at'[r] = "sum" /\ \A s \in Ranks \ {r} : at'[s] = at[s]
  <2>1. UNCHANGED <<input, active, popped, left, network>>
    BY <1>1
  <2> QED BY <1>0, <1>1, <2>1, BwTerminateWork
<1>3. PICK S \in SUBSET Vertices : BackwardInv(S)
  BY <1>0, <1>2 DEF LabelRound
<1>4. /\ edges' = edges
      /\ \A v : Rank(v)' = Rank(v)
      /\ \A T : Within(T)' = Within(T)
      /\ \A T, l, v : Genuine(T, l, v)' = Genuine(T, l, v)
  BY <1>1, InputUnchanged
<1>5. BackwardInv(S)'
  <2>1. EarlierRounds(S)'
    BY <1>1, <1>3, <1>4 DEF BackwardInv, EarlierRounds
  <2>2. \A v \in S : Genuine(S, label[v], v)'
    BY <1>1, <1>3, <1>4 DEF BackwardInv, Genuine
  <2>3. ASSUME NEW v \in is_undecided, NEW u \in S \ is_undecided,
               <<v, u>> \in edges, label[v] = label[u]
        PROVE  FALSE
    <3>1. Visiting(u, v) \/ <<u, v, label[u]>> \in network
      BY <1>3, <2>3 DEF BackwardInv
    <3>2. u \in Vertices /\ Rank(u) \in Ranks
      BY <1>0
    <3> QED BY <1>2, <3>1, <3>2 DEF Visiting
  <2>4. network' = {} /\ \A s \in Ranks : popped'[s] = {}
    BY <1>1, <1>2
  <2> QED BY <1>1, <1>2, <1>3, <1>4, <2>1, <2>2, <2>3, <2>4 DEF BackwardInv
<1>6. LabelRound'
  <2>1. at[r] = "backward"
    BY <1>1 DEF Terminate
  <2>2. \A s \in Ranks : at'[s] # "done"
    BY <1>0, <1>2, <2>1 DEF LabelRound
  <2> QED BY <1>0, <1>1, <1>2, <1>5, <2>2 DEF LabelRound
<1>7. DecidedOnce'
  BY <1>0, <1>1, RecordsStay
<1>8. at' \in [Ranks -> {"call", "forward", "barrier", "backward", "sum", "done"}]
  BY <1>0, <1>1, StateTypes DEF Terminate
<1> QED BY <1>0, <1>1, <1>2, <1>6, <1>7, <1>8, LabelKept, StateTypes DEF LabelRest

\* Vertices of a component have the same label in the end.
LEMMA SettledPeers ==
  ASSUME SearchesTypeOK, NEW S \in SUBSET Vertices, EarlierRounds(S),
         \A e \in Within(S) : label[e[2]] <= label[e[1]]
  PROVE  \A u \in S : \A v \in SCC(edges, u) : v \in S /\ label[v] = label[u]
<1>1. label \in [Vertices -> Nat] /\ edges \in SUBSET (Vertices \X Vertices)
  BY StateTypes
<1>2. NeverRise(edges, S, label)
  BY <1>1 DEF NeverRise, Within
<1>3. ASSUME NEW u \in S PROVE SCC(edges, u) \subseteq S
  <2> SUFFICES ASSUME NEW v \in SCC(edges, u), v \notin S PROVE FALSE
    OBVIOUS
  <2>1. v \in Vertices /\ u \in SCC(edges, v)
    BY SccClass
  <2> QED BY <2>1 DEF EarlierRounds
<1> SUFFICES ASSUME NEW u \in S, NEW v \in SCC(edges, u)
             PROVE  v \in S /\ label[v] = label[u]
  OBVIOUS
<1>4. v \in S /\ v \in Vertices /\ u \in SCC(edges, v)
  BY <1>3, SccClass
<1>5. label[v] <= label[u]
  BY <1>2, <1>3, PeersShareNumbers
<1>6. label[u] <= label[v]
  BY <1>2, <1>3, <1>4, PeersShareNumbers
<1> QED BY <1>1, <1>4, <1>5, <1>6

\* Where a rank has left the backward search, no component is half decided: a
\* vertex left behind would reach a decided one over an edge that is answered.
LEMMA WholeComponents ==
  ASSUME SearchesInv, stage = "label", NEW r \in Ranks, at[r] \in {"sum", "done"}
  PROVE  EarlierRounds(is_undecided)
<1>0. /\ SearchesTypeOK /\ WorkInv /\ LabelRound
      /\ map \in [Vertices -> Nat] /\ \A u, v \in Vertices : map[u] = map[v] => u = v
      /\ is_undecided \in SUBSET Vertices
      /\ \A w \in Vertices : Rank(w) \in Ranks
  BY LabelStage, StateTypes
<1>1. /\ Backward
      /\ network = {} /\ \A s \in Ranks : popped[s] = {} /\ left[s] = {}
      /\ \A v \in Vertices : active[v] = 0
  <2>1. Backward
    BY <1>0 DEF WorkInv, Forward, Backward
  <2>2. \A s \in Ranks : at[s] # "barrier"
    BY <2>1 DEF Backward
  <2> QED BY <1>0, <2>2, OverWork
<1>2. PICK S \in SUBSET Vertices : BackwardInv(S)
  BY <1>0, <1>1 DEF LabelRound
<1>3. EarlierRounds(S) /\ is_undecided \subseteq S
  BY <1>2 DEF BackwardInv
<1>4. \A u \in Vertices \ S : SCC(edges, u) \cap S = {} /\ scc_id[u] \in SCC(edges, u)
                              /\ \A v \in SCC(edges, u) : scc_id[v] = scc_id[u]
  BY <1>3 DEF EarlierRounds
<1>5. \A u \in S : \A v \in SCC(edges, u) : v \in S /\ label[v] = label[u]
  <2>1. \A e \in Within(S) : label[e[2]] <= label[e[1]]
    BY <1>2 DEF BackwardInv
  <2> QED BY <1>0, <1>3, <2>1, SettledPeers
<1>6. ASSUME NEW v \in is_undecided, NEW u \in S \ is_undecided,
             <<v, u>> \in edges, label[v] = label[u]
      PROVE  FALSE
  <2>1. Visiting(u, v) \/ <<u, v, label[u]>> \in network
    BY <1>2, <1>6 DEF BackwardInv
  <2>2. u \in Vertices /\ Rank(u) \in Ranks
    BY <1>0
  <2> QED BY <1>1, <2>1, <2>2 DEF Visiting
<1>7. ASSUME NEW u \in S \ is_undecided
      PROVE  SCC(edges, u) \cap is_undecided = {}
  <2> SUFFICES ASSUME NEW x \in SCC(edges, u), x \in is_undecided PROVE FALSE
    OBVIOUS
  <2> DEFINE C == (SCC(edges, u) \cap is_undecided) \cup {z \in Vertices : u \notin Reach(edges, z)}
  <2>1. C \in SUBSET Vertices /\ x \in C /\ x \in Vertices
    BY <1>0
  <2>2. ASSUME NEW v \in Vertices, NEW w \in Vertices, v \in C, <<v, w>> \in edges
        PROVE  w \in C
    <3>1. CASE u \notin Reach(edges, v)
      BY <2>2, <3>1, NotReachingClosed DEF IsClosed
    <3>2. CASE v \in SCC(edges, u) \cap is_undecided /\ u \in Reach(edges, w)
      <4>1. w \in SCC(edges, u)
        BY <2>2, <3>2, ReachStep DEF SCC
      <4>2. label[v] = label[w] /\ w \in S
        BY <1>5, <3>2, <4>1
      <4>3. w \in is_undecided
        BY <1>6, <2>2, <3>2, <4>2
      <4> QED BY <4>1, <4>3
    <3> QED BY <2>2, <3>1, <3>2
  <2>3. IsClosed(edges, C)
    BY <2>2 DEF IsClosed
  <2>4. Reach(edges, x) \subseteq C
    BY <2>1, <2>3, ReachInClosed
  <2>5. u \in Reach(edges, x)
    BY DEF SCC
  <2>6. u \in Reach(edges, u)
    BY ReachSelf
  <2> QED BY <2>4, <2>5, <2>6
<1>8. ASSUME NEW u \in S \ is_undecided
      PROVE  /\ scc_id[u] \in SCC(edges, u)
             /\ \A v \in SCC(edges, u) : scc_id[v] = scc_id[u]
  <2>1. scc_id[u] \in SCC(edges, u) /\ label[u] = map[scc_id[u]]
    BY <1>2 DEF BackwardInv
  <2>2. ASSUME NEW v \in SCC(edges, u) PROVE scc_id[v] = scc_id[u]
    <3>1. v \in S \ is_undecided /\ label[v] = label[u]
      BY <1>5, <1>7
    <3>2. scc_id[v] \in SCC(edges, v) /\ label[v] = map[scc_id[v]]
      BY <1>2, <3>1 DEF BackwardInv
    <3>3. scc_id[v] \in Vertices /\ scc_id[u] \in Vertices
      BY <2>1, <3>2 DEF SCC, Reach
    <3> QED BY <1>0, <2>1, <3>1, <3>2, <3>3
  <2> QED BY <2>1, <2>2
<1>9. \A u \in Vertices \ is_undecided : u \in Vertices \ S \/ u \in S \ is_undecided
  OBVIOUS
<1>10. \A u \in Vertices \ S : SCC(edges, u) \cap is_undecided = {}
  BY <1>3, <1>4
<1> QED BY <1>4, <1>7, <1>8, <1>9, <1>10 DEF EarlierRounds

\* The ranks agree on the next round, or that there is none.
LEMMA LabelSum ==
  ASSUME SearchesInv, stage = "label", LabelRest, Sum
  PROVE  SearchesInv'
<1>0. /\ SearchesTypeOK /\ WorkInv /\ DecidedOnce /\ Ranks # {}
  BY LabelStage, StateTypes
<1>1. PICK to \in {"call", "done"} :
        /\ at' = [r \in Ranks |-> to]
        /\ to = "done" => ~ (global_decided < Cardinality(Vertices))
  BY DEF Sum, Together
<1>2. /\ \A r \in Ranks : at[r] = "sum"
      /\ map' \in Maps
      /\ UNCHANGED <<input, label, active, in_active, popped, label_k, left, network,
                     is_undecided, scc_id, local_decided>>
  BY DEF Sum, Together, decisions
<1>3. /\ WorkInv'
      /\ network = {} /\ \A s \in Ranks : popped[s] = {} /\ left[s] = {}
      /\ \A v \in Vertices : active[v] = 0
      /\ \A s \in Ranks : at'[s] = to
  <2>1. \A r \in Ranks : at[r] \in {"sum", "done"}
    BY <1>2
  <2>2. UNCHANGED <<input, active, popped, left, network>>
    BY <1>2
  <2> QED BY <1>0, <1>1, <2>1, <2>2, CollectiveWork
<1>4. EarlierRounds(is_undecided)
  BY <1>0, <1>2, WholeComponents
<1>5. Between
  BY <1>0, <1>2, <1>3, <1>4 DEF Between
<1>6. LabelRound'
  <2>1. CASE to = "call"
    BY <1>3, <1>5, <2>1, CallRound
  <2>2. CASE to = "done"
    <3>1. is_undecided = {}
      BY <1>0, <1>1, <2>2, AllDecided
    <3> QED BY <1>3, <1>5, <2>2, <3>1, DoneRound
  <2> QED BY <2>1, <2>2
<1>7. DecidedOnce'
  BY <1>0, <1>2, RecordsStay
<1>8. at' \in [Ranks -> {"call", "forward", "barrier", "backward", "sum", "done"}]
  BY <1>1
<1> QED BY <1>0, <1>2, <1>3, <1>6, <1>7, <1>8, LabelKept, StateTypes DEF LabelRest

\* Every step of the label searches keeps SearchesInv.
LEMMA LabelStep ==
  ASSUME SearchesInv, LabelNext
  PROVE  SearchesInv'
<1>0. /\ stage = "label" /\ Next /\ LabelRest
      /\ SearchesTypeOK /\ WorkInv
      /\ network \subseteq Vertices \X Vertices \X Nat
      /\ \A w \in Vertices : Rank(w) \in Ranks
  BY LabelStage, StateTypes DEF LabelNext, LabelRest
<1>s. \A r \in Ranks : Searching(r) => at[r] = "forward" \/ at[r] = "backward"
  BY DEF Searching
<1>1. ASSUME NEW u \in Vertices, Pop(u) PROVE SearchesInv'
  <2>1. Searching(Rank(u))
    BY <1>1 DEF Pop
  <2> QED BY <1>0, <1>1, <1>s, <2>1, LabelPopFw, LabelPopBw
<1>2. ASSUME NEW r \in Ranks, NEW v \in left[r], VisitLocal(r, v) PROVE SearchesInv'
  BY <1>0, <1>2, <1>s, VisitsEdges, LabelVisitLocalFw, LabelVisitLocalBw
<1>3. ASSUME NEW r \in Ranks, NEW v \in left[r], Post(r, v) PROVE SearchesInv'
  BY <1>0, <1>3, <1>s, VisitsEdges, LabelPostFw, LabelPostBw
<1>4. ASSUME NEW r \in Ranks, Visited(r) PROVE SearchesInv'
  <2>1. Searching(r)
    BY <1>0, <1>4, HasWork DEF Visited
  <2> QED BY <1>0, <1>4, <1>s, <2>1, LabelVisitedFw, LabelVisitedBw
<1>5. ASSUME NEW m \in network, Receive(m) PROVE SearchesInv'
  <2>1. Searching(Rank(m[2]))
    BY <1>5 DEF Receive
  <2>2. Rank(m[2]) \in Ranks
    BY <1>0
  <2> QED BY <1>0, <1>5, <1>s, <2>1, <2>2, LabelReceiveFw, LabelReceiveBw
<1>6. ASSUME NEW r \in Ranks, Begin(r) \/ FwTerminate(r) \/ BwTerminate(r)
      PROVE  SearchesInv'
  BY <1>0, <1>6, LabelBegin, LabelFwTerminate, LabelBwTerminate
<1>7. CASE Barrier \/ Sum
  BY <1>0, <1>7, LabelBarrier, LabelSum
<1>8. CASE Returned
  <2>1. UNCHANGED searchesVars
    BY <1>0, <1>8 DEF Returned, vars, LabelRest, searchesVars
  <2> QED BY <2>1, SearchesStutter
<1> QED BY <1>0, <1>1, <1>2, <1>3, <1>4, <1>5, <1>6, <1>7, <1>8 DEF Next
-----------------------------------------------------------------------------
(* The initial states                                                      *)

\* Before the first step no rank has begun.
LEMMA InitWork ==
  ASSUME SearchesTypeOK, \A r \in Ranks : at[r] = "call" /\ popped[r] = {} /\ left[r] = {},
         active = [v \in Vertices |-> 0], network = {}
  PROVE  WorkInv /\ Forward /\ ~ Backward
<1>1. Ranks # {} /\ \A v \in Vertices : Rank(v) \in Ranks
  BY StateTypes
<1>2. Forward /\ ~ Backward
  BY <1>1 DEF Forward, Backward
<1> QED BY <1>2 DEF WorkInv

\* The driver's pivot search begins behind trim_1_first.
LEMMA PivotInitial == InitPivot => SearchesInv
<1> SUFFICES ASSUME InitPivot PROVE SearchesInv
  OBVIOUS
<1>1. /\ input \in Inputs
      /\ at = [r \in Ranks |-> "call"]
      /\ in_active = {}
      /\ is_undecided = Vertices \ input.trimmed
      /\ active = [v \in Vertices |-> 0]
      /\ popped = [r \in Ranks |-> {}]
      /\ left = [r \in Ranks |-> {}]
      /\ network = {}
      /\ scc_id = [v \in Vertices |-> IF v \in input.trimmed THEN v ELSE Undecided]
      /\ local_decided = [r \in Ranks |-> Cardinality(Local(r) \cap input.trimmed)]
  BY PivotNames, PivotCounts DEF InitPivot, PivotSearch!Init
<1>2. /\ stage = "pivot" /\ label = [v \in Vertices |-> 0] /\ label_k = [r \in Ranks |-> 0]
  BY DEF InitPivot
<1>3. /\ \A v \in Vertices : Rank(v) \in Ranks
      /\ pivot \in Vertices /\ Ranks # {}
      /\ input.trimmed \in SUBSET Vertices /\ pivot \notin input.trimmed
  BY <1>1, InputFacts
<1>4. local_decided \in [Ranks -> Nat]
  <2>1. ASSUME NEW r \in Ranks PROVE Cardinality(Local(r) \cap input.trimmed) \in Nat
    <3>1. IsFiniteSet(Local(r) \cap input.trimmed)
      BY <1>3, VerticesAssumption, FS_Subset
    <3> QED BY <3>1, FS_CardinalityType
  <2> QED BY <1>1, <2>1
<1>5. SearchesTypeOK
  <2>1. scc_id \in [Vertices -> Vertices \cup {Undecided}]
    BY <1>1
  <2>2. /\ label \in [Vertices -> Nat] /\ label_k \in [Ranks -> Nat]
        /\ popped \in [Ranks -> SUBSET Vertices] /\ left \in [Ranks -> SUBSET Vertices]
        /\ at \in [Ranks -> {"call", "forward", "barrier", "backward", "sum", "done"}]
    BY <1>1, <1>2
  <2> QED BY <1>1, <1>2, <1>4, <2>1, <2>2 DEF SearchesTypeOK
<1>6. WorkInv /\ Forward /\ ~ Backward
  <2>1. \A r \in Ranks : at[r] = "call" /\ popped[r] = {} /\ left[r] = {}
    BY <1>1
  <2> QED BY <1>1, <1>5, <2>1, InitWork
<1>7. DecidedOnce
  <2>1. is_undecided = {v \in Vertices : scc_id[v] = Undecided}
    BY <1>1, UndecidedAssumption
  <2>2. ASSUME NEW r \in Ranks PROVE local_decided[r] = Cardinality(Local(r) \ is_undecided)
    <3>1. Local(r) \ is_undecided = Local(r) \cap input.trimmed
      BY <1>1 DEF Local
    <3> QED BY <1>1, <3>1
  <2> QED BY <2>1, <2>2 DEF DecidedOnce
<1>8. PivotRound
  <2>1. PivotIds
    BY <1>1 DEF PivotIds
  <2>2. PivotForward
    <3>1. \A v \in Vertices : at[Rank(v)] = "call"
      BY <1>1, <1>3
    <3>2. \A r \in Ranks : at[r] # "barrier" /\ popped[r] = {}
      BY <1>1
    <3> QED BY <1>1, <1>3, <3>1, <3>2 DEF PivotForward
  <2>3. \A r \in Ranks : at[r] # "sum"
    BY <1>1
  <2> QED BY <1>1, <1>6, <2>1, <2>2, <2>3 DEF PivotRound
<1> QED BY <1>2, <1>5, <1>6, <1>7, <1>8 DEF SearchesInv

\* Label searches on a graph of which nothing is decided.
LEMMA LabelInitial == InitLabel => SearchesInv
<1> SUFFICES ASSUME InitLabel PROVE SearchesInv
  OBVIOUS
<1>1. /\ input \in Inputs /\ map \in Maps
      /\ at = [r \in Ranks |-> "call"]
      /\ label = [v \in Vertices |-> 0]
      /\ active = [v \in Vertices |-> 0]
      /\ in_active = {}
      /\ popped = [r \in Ranks |-> {}]
      /\ label_k = [r \in Ranks |-> 0]
      /\ left = [r \in Ranks |-> {}]
      /\ network = {}
      /\ is_undecided = Vertices
      /\ scc_id = [v \in Vertices |-> Undecided]
      /\ local_decided = [r \in Ranks |-> 0]
      /\ stage = "label"
  BY DEF InitLabel, Init
<1>2. /\ \A v \in Vertices : Rank(v) \in Ranks
      /\ edges \in SUBSET (Vertices \X Vertices) /\ Ranks # {}
      /\ map \in [Vertices -> Nat]
  BY <1>1, InputFacts, MapFacts
<1>3. SearchesTypeOK
  <2>1. /\ label \in [Vertices -> Nat] /\ label_k \in [Ranks -> Nat]
        /\ popped \in [Ranks -> SUBSET Vertices] /\ left \in [Ranks -> SUBSET Vertices]
        /\ at \in [Ranks -> {"call", "forward", "barrier", "backward", "sum", "done"}]
        /\ scc_id \in [Vertices -> Vertices \cup {Undecided}]
        /\ local_decided \in [Ranks -> Nat]
    BY <1>1
  <2> QED BY <1>1, <2>1 DEF SearchesTypeOK
<1>4. WorkInv /\ Forward /\ ~ Backward
  <2>1. \A r \in Ranks : at[r] = "call" /\ popped[r] = {} /\ left[r] = {}
    BY <1>1
  <2> QED BY <1>1, <1>3, <2>1, InitWork
<1>5. DecidedOnce
  <2>1. is_undecided = {v \in Vertices : scc_id[v] = Undecided}
    BY <1>1
  <2>2. ASSUME NEW r \in Ranks PROVE local_decided[r] = Cardinality(Local(r) \ is_undecided)
    <3>1. Local(r) \ is_undecided = {}
      BY <1>1 DEF Local
    <3>2. Cardinality({}) = 0
      BY FS_EmptySet
    <3> QED BY <1>1, <3>1, <3>2
  <2> QED BY <2>1, <2>2 DEF DecidedOnce
<1>6. ForwardInv(Vertices)
  <2>1. EarlierRounds(Vertices)
    BY DEF EarlierRounds
  <2>2. \A v \in Vertices : at[Rank(v)] = "call" /\ LabelOf(v) = map[v] /\ map[v] <= map[v]
    BY <1>1, <1>2 DEF LabelOf
  <2>3. \A v \in Vertices : Genuine(Vertices, LabelOf(v), v)
    BY <2>2, GenuineOwn
  <2>4. \A e \in Within(Vertices) : at[Rank(e[1])] = "call"
    BY <1>2, <2>2 DEF Within
  <2>5. \A r \in Ranks : popped[r] = {}
    BY <1>1
  <2> QED BY <1>1, <2>1, <2>2, <2>3, <2>4, <2>5 DEF ForwardInv
<1>7. LabelRound
  <2>1. \A r \in Ranks : at[r] # "done"
    BY <1>1
  <2>2. \E S \in SUBSET Vertices : ForwardInv(S)
    BY <1>6
  <2> QED BY <1>1, <1>2, <1>4, <2>1, <2>2 DEF LabelRound
<1> QED BY <1>1, <1>3, <1>4, <1>5, <1>7 DEF SearchesInv

\* Every step of the driver keeps SearchesInv: the ranks are in one search
\* together, nothing is under way where one has left it, and what a search has
\* not yet done is on a stack, among the edges that are visited or in a message.
THEOREM SearchesInvariant == SearchesSpec => []SearchesInv
<1>1. SearchesInit => SearchesInv
  BY PivotInitial, LabelInitial DEF SearchesInit
<1>2. SearchesInv /\ [SearchesNext]_searchesVars => SearchesInv'
  BY PivotStep, PivotReturnStep, TrimVisitStep, TrimReturnStep, LabelStep, SearchesStutter
     DEF SearchesNext
<1> QED BY <1>1, <1>2, PTL DEF SearchesSpec
-----------------------------------------------------------------------------
(* What follows                                                            *)

\* While the pivot search runs, its stacks fit, no vertex is decided twice and
\* a rank leaves it with the whole component decided (async_forward_backward_search).
THEOREM PivotSearchRight == SearchesSpec => []PivotInv
BY SearchesInvariant, PivotIsRight, PTL

\* Behind it, nothing is left where a rank has left the search before.
LEMMA TrimStage ==
  ASSUME SearchesInv, stage = "trim"
  PROVE  /\ SearchesTypeOK /\ WorkInv /\ DecidedOnce /\ TrimRound /\ map \in Maps
         /\ EarlierRounds(is_undecided) /\ \A r \in Ranks : at[r] = "done"
         /\ network = {} /\ \A v \in Vertices : active[v] = 0
<1>1. SearchesTypeOK /\ WorkInv /\ DecidedOnce /\ TrimRound
  BY DEF SearchesInv
<1>2. map \in Maps /\ EarlierRounds(is_undecided) /\ \A r \in Ranks : at[r] = "done"
  BY <1>1 DEF TrimRound
<1>3. PICK r \in Ranks : TRUE
  BY <1>1, StateTypes
<1>4. \A s \in Ranks : at[s] # "barrier"
  BY <1>2
<1>5. network = {} /\ \A v \in Vertices : active[v] = 0
  BY <1>1, <1>2, <1>3, <1>4, OverWork
<1> QED BY <1>1, <1>2, <1>5

\* The counters never exceed n.
LEMMA CountersFit ==
  ASSUME SearchesTypeOK, DecidedOnce
  PROVE  local_decided \in [Ranks -> 0 .. Cardinality(Vertices)]
<1> SUFFICES ASSUME NEW r \in Ranks PROVE local_decided[r] \in 0 .. Cardinality(Vertices)
  BY StateTypes
<1>1. Local(r) \ is_undecided \in SUBSET Vertices
  BY StateTypes
<1>2. /\ Cardinality(Vertices) \in Nat /\ Cardinality(Local(r) \ is_undecided) \in Nat
      /\ Cardinality(Local(r) \ is_undecided) <= Cardinality(Vertices)
  BY <1>1, VerticesAssumption, FS_Subset, FS_CardinalityType
<1> QED BY <1>2 DEF DecidedOnce

\* A vertex that is on a stack is marked.
LEMMA StackedIsMarked ==
  ASSUME SearchesInv, stage = "label", NEW v \in Vertices, active[v] = 1
  PROVE  v \in in_active
<1>1. /\ SearchesTypeOK /\ WorkInv /\ LabelRound
      /\ at[Rank(v)] = "call" => active[v] = 0
      /\ Forward \/ Backward
  BY LabelStage DEF WorkInv
<1>2. CASE Forward
  <2>1. PICK S \in SUBSET Vertices : ForwardInv(S)
    BY <1>1, <1>2 DEF LabelRound
  <2> QED BY <1>1, <2>1 DEF ForwardInv
<1>3. CASE Backward
  <2>1. PICK S \in SUBSET Vertices : BackwardInv(S)
    BY <1>1, <1>3 DEF LabelRound
  <2> QED BY <2>1 DEF BackwardInv
<1> QED BY <1>1, <1>2, <1>3

\* The label that settles on v is the smallest of those that can reach it.
LEMMA SettledIsMinimal ==
  ASSUME SearchesInv, stage = "label", Quiescent("forward"), NEW v \in is_undecided
  PROVE  label[v] = Min({map[u] : u \in {x \in is_undecided : v \in Reach(UndecidedEdges, x)}})
<1>1. /\ is_undecided \in SUBSET Vertices /\ label \in [Vertices -> Nat]
      /\ map \in [Vertices -> Nat]
      /\ \A w \in Vertices : Rank(w) \in Ranks /\ w \in Local(Rank(w))
  BY LabelStage, StateTypes
<1>2. /\ network = {} /\ \A r \in Ranks : at[r] = "forward" /\ popped[r] = {}
      /\ \A w \in Vertices : active[w] = 0
  BY <1>1 DEF Quiescent, Idle
<1>3. PICK S \in SUBSET Vertices : ForwardInv(S) /\ ForwardOver(S)
  BY <1>2, ForwardEnds
<1>4. S = is_undecided
  BY <1>1, <1>2, <1>3 DEF ForwardOver
<1>5. /\ \A e \in Within(is_undecided) : label[e[2]] <= label[e[1]]
      /\ \A w \in is_undecided : Genuine(is_undecided, label[w], w) /\ label[w] <= map[w]
  BY <1>3, <1>4 DEF ForwardOver
<1>6. UndecidedEdges = Within(is_undecided)
  BY DEF UndecidedEdges, Within
<1>7. PICK M : M = {map[u] : u \in {x \in is_undecided : v \in Reach(UndecidedEdges, x)}}
  OBVIOUS
<1>8. M \in SUBSET Nat
  BY <1>1, <1>7
<1>9. label[v] \in M
  BY <1>5, <1>6, <1>7 DEF Genuine
<1>10. ASSUME NEW u \in is_undecided, v \in Reach(UndecidedEdges, u)
       PROVE  label[v] <= map[u]
  <2> DEFINE C == {z \in is_undecided : label[z] <= map[u]} \cup (Vertices \ is_undecided)
  <2>1. C \in SUBSET Vertices /\ u \in C /\ u \in Vertices
    BY <1>1, <1>5
  <2>2. IsClosed(UndecidedEdges, C)
    <3> SUFFICES ASSUME NEW x \in C, NEW y \in Vertices, <<x, y>> \in UndecidedEdges PROVE y \in C
      BY DEF IsClosed
    <3>1. x \in is_undecided /\ y \in is_undecided /\ label[x] <= map[u]
      BY DEF UndecidedEdges
    <3>2. label[y] <= label[x]
      BY <1>5, <1>6
    <3>3. label[x] \in Nat /\ label[y] \in Nat /\ map[u] \in Nat
      BY <1>1, <2>1, <3>1
    <3> QED BY <3>1, <3>2, <3>3
  <2>3. v \in C
    BY <1>10, <2>1, <2>2, ReachInClosed
  <2> QED BY <2>3
<1>11. \A y \in M : label[v] <= y
  BY <1>7, <1>10
<1> QED BY <1>7, <1>8, <1>9, <1>11, MinIs

\* Between two rounds whole components are decided.
LEMMA RoundsAreWhole ==
  ASSUME SearchesInv, stage = "label", \A r \in Ranks : at[r] \in {"call", "sum", "done"}
  PROVE  EarlierRounds(is_undecided)
<1>1. /\ SearchesTypeOK /\ WorkInv /\ LabelRound /\ Ranks # {}
      /\ Forward \/ Backward
      /\ \A v \in Vertices : Rank(v) \in Ranks
  BY LabelStage, StateTypes DEF WorkInv
<1>2. CASE Forward
  <2>1. PICK S \in SUBSET Vertices : ForwardInv(S)
    BY <1>1, <1>2 DEF LabelRound
  <2>2. \A v \in Vertices : at[Rank(v)] # "barrier"
    BY <1>1
  <2>3. S = is_undecided
    BY <2>1, <2>2 DEF ForwardInv
  <2> QED BY <2>1, <2>3 DEF ForwardInv
<1>3. CASE Backward
  <2>1. PICK r \in Ranks : TRUE
    BY <1>1
  <2>2. at[r] \in {"sum", "done"}
    BY <1>3 DEF Backward
  <2> QED BY <2>2, WholeComponents
<1> QED BY <1>1, <1>2, <1>3

\* Behind the pivot search, SearchesInv says that the rounds go right.
LEMMA RoundsAreRight == SearchesInv => RoundsInv
<1> SUFFICES ASSUME SearchesInv, stage # "pivot" PROVE AsyncInv
  BY DEF RoundsInv
<1>1. /\ SearchesTypeOK /\ WorkInv /\ DecidedOnce
      /\ stage \in {"trim", "label"}
      /\ Ranks # {}
  BY StateTypes DEF SearchesInv
<1>2. map \in Maps /\ network \subseteq Vertices \X Vertices \X Nat
  BY <1>1, TrimStage, LabelStage
<1>3. TypeOK
  <2>1. active \in [Vertices -> Nat]
    BY <1>1 DEF WorkInv
  <2>2. \A r \in Ranks : popped[r] \subseteq Local(r) /\ left[r] \subseteq Vertices
    BY <1>1, StateTypes DEF WorkInv
  <2>3. \A m \in network : m \in Vertices \X Vertices \X Nat
    BY <1>2
  <2> QED BY <1>1, <1>2, <2>1, <2>2, <2>3, CountersFit, StateTypes DEF TypeOK
<1>4. StacksFit
  <2>1. \A v \in Vertices : active[v] \in {0, 1}
    BY <1>1 DEF WorkInv
  <2>2. \A v \in Vertices : active[v] = 1 => v \in in_active
    BY <1>1, TrimStage, StackedIsMarked
  <2> QED BY <2>1, <2>2 DEF StacksFit
<1>5. LabelsAreMinimal
  <2>1. Quiescent("forward") => stage = "label"
    BY <1>1, TrimStage DEF Quiescent
  <2> QED BY <2>1, SettledIsMinimal DEF LabelsAreMinimal
<1>6. RoundsDecideComponents
  <2>1. (\A r \in Ranks : at[r] \in {"call", "sum", "done"}) => EarlierRounds(is_undecided)
    BY <1>1, TrimStage, RoundsAreWhole
  <2> QED BY <2>1 DEF RoundsDecideComponents, EarlierRounds
<1> QED BY <1>1, <1>3, <1>4, <1>5, <1>6 DEF AsyncInv

\* Trimming decides components of one vertex, labels are minimal when the ranks
\* agree to stop, rounds decide whole components, and each decision is counted
\* once - also behind a pivot search that left its bits in in_active.
THEOREM RoundsRight == SearchesSpec => []RoundsInv
BY SearchesInvariant, RoundsAreRight, PTL
-----------------------------------------------------------------------------
(* The refinement                                                          *)

\* The pivot search gives its id to vertices of the pivot's component alone.
LEMMA PivotLabelling ==
  ASSUME SearchesInv, stage = "pivot"
  PROVE  IsLabelling(edges, scc_id, Undecided)
<1>0. /\ SearchesTypeOK /\ WorkInv /\ DecidedOnce /\ PivotRound
      /\ pivot \in Vertices
      /\ \A v \in input.trimmed : SCC(edges, v) = {v}
      /\ input.trimmed \in SUBSET Vertices /\ is_undecided \in SUBSET Vertices
  BY PivotStage, StateTypes
<1>1. OfPivot \subseteq SCC(edges, pivot)
  <2>1. CASE Backward
    BY <2>1, PivotBackwardFacts
  <2>2. CASE Forward
    <3>1. OfPivot \subseteq {pivot}
      BY <1>0, <2>2 DEF PivotRound, PivotForward, OfPivot
    <3> QED BY <1>0, <3>1, SccSelf
  <2> QED BY <1>0, <2>1, <2>2 DEF WorkInv
<1>2. \A v \in Vertices : scc_id[v] # Undecided => v \notin is_undecided
  BY <1>0 DEF DecidedOnce
<1>3. /\ \A v \in input.trimmed : scc_id[v] = v
      /\ \A v \in OfPivot : scc_id[v] = pivot
      /\ \A v \in Vertices : v \in input.trimmed \/ v \in is_undecided \/ v \in OfPivot
  BY <1>0 DEF PivotRound, PivotIds, OfPivot
<1> SUFFICES ASSUME NEW u \in Vertices, scc_id[u] # Undecided
             PROVE  /\ scc_id[u] \in SCC(edges, u)
                    /\ \A v \in SCC(edges, u) : scc_id[v] # Undecided => scc_id[v] = scc_id[u]
  BY DEF IsLabelling
<1>4. CASE u \in input.trimmed
  BY <1>0, <1>3, <1>4
<1>5. CASE u \in OfPivot /\ u \notin input.trimmed
  <2>1. scc_id[u] = pivot /\ pivot \in SCC(edges, u)
    BY <1>0, <1>1, <1>3, <1>5, SccClass
  <2>2. ASSUME NEW v \in SCC(edges, u), scc_id[v] # Undecided PROVE v \in OfPivot
    <3>1. v \in Vertices /\ u \in SCC(edges, v)
      BY SccClass
    <3>2. v \notin input.trimmed
      BY <1>0, <1>5, <3>1
    <3> QED BY <1>2, <1>3, <2>2, <3>1, <3>2
  <2> QED BY <1>3, <2>1, <2>2
<1> QED BY <1>2, <1>3, <1>4, <1>5

\* So do the label searches, also while a part of a round is decided: vertices
\* of a component have the same label where one of them is decided.
LEMMA LabelLabelling ==
  ASSUME SearchesInv, stage = "label"
  PROVE  IsLabelling(edges, scc_id, Undecided)
<1>0. /\ SearchesTypeOK /\ WorkInv /\ DecidedOnce /\ LabelRound
      /\ map \in [Vertices -> Nat] /\ \A u, v \in Vertices : map[u] = map[v] => u = v
      /\ \A w \in Vertices : Rank(w) \in Ranks
      /\ is_undecided \in SUBSET Vertices /\ (Forward \/ Backward)
  BY LabelStage, StateTypes DEF WorkInv
<1>1. \A v \in Vertices : scc_id[v] # Undecided => v \notin is_undecided
  BY <1>0 DEF DecidedOnce
<1> SUFFICES ASSUME NEW u \in Vertices, scc_id[u] # Undecided
             PROVE  /\ scc_id[u] \in SCC(edges, u)
                    /\ \A v \in SCC(edges, u) : scc_id[v] # Undecided => scc_id[v] = scc_id[u]
  BY DEF IsLabelling
<1>2. u \notin is_undecided
  BY <1>1
<1>3. ASSUME NEW S, EarlierRounds(S), u \notin S
      PROVE  /\ scc_id[u] \in SCC(edges, u)
             /\ \A v \in SCC(edges, u) : scc_id[v] = scc_id[u]
  BY <1>3 DEF EarlierRounds
<1>4. CASE Forward
  <2>1. PICK S \in SUBSET Vertices : ForwardInv(S)
    BY <1>0, <1>4 DEF LabelRound
  <2>2. CASE u \notin S
    BY <1>3, <2>1, <2>2 DEF ForwardInv
  <2>3. CASE u \in S
    <3>1. at[Rank(u)] = "barrier" /\ NothingLeft
      <4>1. at[Rank(u)] = "barrier"
        BY <1>2, <2>1, <2>3 DEF ForwardInv
      <4> QED BY <1>0, <4>1 DEF WorkInv
    <3>2. PICK T \in SUBSET Vertices : ForwardOver(T)
      <4>1. /\ \A r \in Ranks : at[r] \in {"forward", "barrier"} /\ popped[r] = {}
            /\ \A v \in Vertices : at[Rank(v)] = "forward" => active[v] = 0
            /\ network = {}
        BY <1>4, <3>1 DEF NothingLeft, Forward
      <4> QED BY <4>1, ForwardEnds
    <3>3. /\ EarlierRounds(T)
          /\ \A v \in T \ is_undecided : scc_id[v] = v /\ label[v] = map[v]
          /\ \A e \in Within(T) : label[e[2]] <= label[e[1]]
      BY <3>2 DEF ForwardOver
    <3>4. CASE u \notin T
      BY <1>3, <3>3, <3>4
    <3>5. CASE u \in T
      <4>1. \A v \in SCC(edges, u) : v \in T /\ label[v] = label[u]
        BY <1>0, <3>3, <3>5, SettledPeers
      <4>2. scc_id[u] = u /\ label[u] = map[u] /\ u \in SCC(edges, u)
        BY <1>2, <3>3, <3>5, SccSelf
      <4>3. ASSUME NEW v \in SCC(edges, u), scc_id[v] # Undecided PROVE scc_id[v] = scc_id[u]
        <5>1. v \in T \ is_undecided /\ v \in Vertices
          BY <1>1, <4>1, <4>3
        <5>2. map[v] = map[u] /\ scc_id[v] = v
          BY <3>3, <4>1, <4>2, <5>1
        <5> QED BY <1>0, <4>2, <5>1, <5>2
      <4> QED BY <4>2, <4>3
    <3> QED BY <3>4, <3>5
  <2> QED BY <2>2, <2>3
<1>5. CASE Backward
  <2>1. PICK S \in SUBSET Vertices : BackwardInv(S)
    BY <1>0, <1>5 DEF LabelRound
  <2>2. /\ EarlierRounds(S)
        /\ \A e \in Within(S) : label[e[2]] <= label[e[1]]
        /\ \A v \in S \ is_undecided : label[v] = map[scc_id[v]] /\ scc_id[v] \in SCC(edges, v)
    BY <2>1 DEF BackwardInv
  <2>3. CASE u \notin S
    BY <1>3, <2>2, <2>3
  <2>4. CASE u \in S
    <3>1. \A v \in SCC(edges, u) : v \in S /\ label[v] = label[u]
      BY <1>0, <2>2, <2>4, SettledPeers
    <3>2. scc_id[u] \in SCC(edges, u) /\ label[u] = map[scc_id[u]]
      BY <1>2, <2>2, <2>4
    <3>3. ASSUME NEW v \in SCC(edges, u), scc_id[v] # Undecided PROVE scc_id[v] = scc_id[u]
      <4>1. v \in S \ is_undecided
        BY <1>1, <3>1, <3>3
      <4>2. scc_id[v] \in SCC(edges, v) /\ label[v] = map[scc_id[v]] /\ label[v] = label[u]
        BY <2>2, <3>1, <4>1
      <4>3. scc_id[v] \in Vertices /\ scc_id[u] \in Vertices
        BY <3>2, <4>2 DEF SCC, Reach
      <4> QED BY <1>0, <3>2, <4>2, <4>3
    <3> QED BY <3>2, <3>3
  <2> QED BY <2>3, <2>4
<1> QED BY <1>0, <1>4, <1>5

\* At any time, two decided vertices share an id if and only if they share a
\* component, which the id is of.
LEMMA SearchesLabelling == SearchesInv => IsLabelling(edges, scc_id, Undecided)
<1> SUFFICES ASSUME SearchesInv PROVE IsLabelling(edges, scc_id, Undecided)
  OBVIOUS
<1>1. stage \in {"pivot", "trim", "label"}
  BY StateTypes DEF SearchesInv
<1>2. stage = "trim" => IsLabelling(edges, scc_id, Undecided)
  <2> SUFFICES ASSUME stage = "trim" PROVE IsLabelling(edges, scc_id, Undecided)
    OBVIOUS
  <2>1. EarlierRounds(is_undecided) /\ DecidedOnce
    BY TrimStage
  <2>2. \A v \in Vertices : scc_id[v] # Undecided => v \in Vertices \ is_undecided
    BY <2>1 DEF DecidedOnce
  <2> QED BY <2>1, <2>2 DEF EarlierRounds, IsLabelling
<1> QED BY <1>1, <1>2, PivotLabelling, LabelLabelling

\* The pivot search only ever takes vertices from the undecided ones.
LEMMA PivotTakes ==
  ASSUME PivotSearch!Next
  PROVE  input' = input /\ is_undecided' \subseteq is_undecided
<1>1. ASSUME NEW v, PivotSearch!Handle(v) PROVE is_undecided' \subseteq is_undecided
  BY <1>1 DEF PivotSearch!Handle, PivotSearch!on_fw_message, PivotSearch!on_bw_message,
              PivotSearch!DecideAll, PivotSearch!decisions
<1>2. ASSUME NEW u, PivotSearch!Pop(u) PROVE UNCHANGED <<input, is_undecided>>
  BY <1>2 DEF PivotSearch!Pop, PivotSearch!decisions
<1>3. ASSUME NEW r, NEW v, PivotSearch!VisitLocal(r, v) \/ PivotSearch!Post(r, v)
      PROVE  input' = input /\ is_undecided' \subseteq is_undecided
  BY <1>1, <1>3 DEF PivotSearch!VisitLocal, PivotSearch!Post, PivotSearch!decisions
<1>4. ASSUME NEW r, \/ PivotSearch!Begin(r) \/ PivotSearch!Visited(r)
                    \/ PivotSearch!FwTerminate(r) \/ PivotSearch!BwTerminate(r)
      PROVE  input' = input /\ is_undecided' \subseteq is_undecided
  BY <1>4 DEF PivotSearch!Begin, PivotSearch!Visited, PivotSearch!FwTerminate,
              PivotSearch!BwTerminate, PivotSearch!DecideAll, PivotSearch!decisions
<1>5. ASSUME NEW m, PivotSearch!Receive(m)
      PROVE  input' = input /\ is_undecided' \subseteq is_undecided
  BY <1>1, <1>5 DEF PivotSearch!Receive
<1>6. PivotSearch!Barrier \/ PivotSearch!Returned => UNCHANGED <<input, is_undecided>>
  BY DEF PivotSearch!Barrier, PivotSearch!Returned, PivotSearch!decisions, PivotSearch!vars
<1> QED BY <1>2, <1>3, <1>4, <1>5, <1>6 DEF PivotSearch!Next

\* So do the label searches.
LEMMA LabelTakes ==
  ASSUME Next
  PROVE  /\ input' = input
         /\ UNCHANGED scc_id \/ \E D \in SUBSET is_undecided : DecideAll(D)
<1>1. ASSUME NEW v, NEW l, Handle(v, l)
      PROVE  UNCHANGED scc_id \/ \E D \in SUBSET is_undecided : DecideAll(D)
  <2>1. CASE on_fw_message(v, l)
    BY <2>1 DEF on_fw_message, decisions
  <2>2. CASE on_bw_message(v, l)
    <3>1. PICK S : S = IF v \in is_undecided /\ label[v] = l THEN {v} ELSE {}
      OBVIOUS
    <3>2. S \in SUBSET is_undecided /\ DecideAll(S)
      BY <2>2, <3>1 DEF on_bw_message
    <3> QED BY <3>2
  <2> QED BY <1>1, <2>1, <2>2 DEF Handle
<1>2. ASSUME NEW u, Pop(u) PROVE UNCHANGED <<input, scc_id>>
  BY <1>2 DEF Pop, decisions
<1>3. ASSUME NEW r, NEW v, VisitLocal(r, v) \/ Post(r, v)
      PROVE  /\ input' = input
             /\ UNCHANGED scc_id \/ \E D \in SUBSET is_undecided : DecideAll(D)
  BY <1>1, <1>3 DEF VisitLocal, Post, decisions
<1>4. ASSUME NEW r, Visited(r) \/ Begin(r) \/ BwTerminate(r) PROVE UNCHANGED <<input, scc_id>>
  BY <1>4 DEF Visited, Begin, BwTerminate, decisions
<1>5. ASSUME NEW r, FwTerminate(r)
      PROVE  input' = input /\ \E D \in SUBSET is_undecided : DecideAll(D)
  <2>1. {v \in is_undecided \cap Local(r) : label[v] = map[v]} \in SUBSET is_undecided
    OBVIOUS
  <2> QED BY <1>5, <2>1 DEF FwTerminate
<1>6. ASSUME NEW m, Receive(m)
      PROVE  /\ input' = input
             /\ UNCHANGED scc_id \/ \E D \in SUBSET is_undecided : DecideAll(D)
  BY <1>1, <1>6 DEF Receive
<1>7. Barrier \/ Sum \/ Returned => UNCHANGED <<input, scc_id>>
  BY DEF Barrier, Sum, Returned, decisions, vars
<1> QED BY <1>2, <1>3, <1>4, <1>5, <1>6, <1>7 DEF Next

\* What is decided is not decided again, and the graph stays.
LEMMA IdsStay ==
  ASSUME SearchesInv, SearchesInv', [SearchesNext]_searchesVars
  PROVE  /\ edges' = edges
         /\ \A v \in Vertices : scc_id[v] # Undecided => scc_id'[v] = scc_id[v]
<1>0. /\ DecidedOnce /\ is_undecided \in SUBSET Vertices
      /\ \A v \in Vertices : scc_id[v] # Undecided => v \notin is_undecided
  BY StateTypes DEF SearchesInv, DecidedOnce
<1>1. CASE PivotNext
  <2>1. stage = "pivot" /\ stage' = "pivot"
    BY <1>1 DEF PivotNext
  <2>2. input' = input /\ is_undecided' \subseteq is_undecided
    BY <1>1, PivotTakes DEF PivotNext
  <2>3. PivotIds /\ PivotIds'
    BY <2>1 DEF SearchesInv, PivotRound
  <2>4. edges' = edges /\ pivot' = pivot
    BY <2>2, InputUnchanged
  <2> QED BY <1>0, <2>2, <2>3, <2>4 DEF PivotIds
<1>2. CASE PivotReturn \/ TrimReturn \/ UNCHANGED searchesVars
  <2>1. UNCHANGED <<input, scc_id>>
    BY <1>2 DEF PivotReturn, TrimReturn, decisions, searchesVars, vars
  <2> QED BY <2>1, InputUnchanged
<1>3. ASSUME NEW k \in Vertices, TrimVisit(k)
      PROVE  /\ edges' = edges
             /\ \A v \in Vertices : scc_id[v] # Undecided => scc_id'[v] = scc_id[v]
  <2>1. k \in is_undecided
    BY <1>3, TrimStage DEF TrimVisit, TrimRound
  <2>2. PICK gone : gone = IF HasDegree(k) THEN {} ELSE {k}
    OBVIOUS
  <2>3. /\ scc_id' = [v \in Vertices |-> IF v \in gone THEN v ELSE scc_id[v]]
        /\ input' = input
    BY <1>3, <2>2 DEF TrimVisit
  <2> QED BY <1>0, <2>1, <2>2, <2>3, InputUnchanged
<1>4. CASE LabelNext
  <2>1. /\ input' = input
        /\ UNCHANGED scc_id \/ \E D \in SUBSET is_undecided : DecideAll(D)
    BY <1>4, LabelTakes DEF LabelNext
  <2> QED BY <1>0, <2>1, InputUnchanged DEF DecideAll
<1> QED BY <1>1, <1>2, <1>3, <1>4 DEF SearchesNext

\* The labelling of the abstract specification is the one of the proofs.
LEMMA CanonicalIsLabelling ==
  /\ \A E : Labelling!Canonical(E, scc_id) <=> IsLabelling(E, scc_id, Undecided)
  /\ \A E : \A u \in Vertices : Labelling!SCC(E, u) = SCC(E, u) /\ SCC(E, u) \in SUBSET Vertices
<1>1. \A E : \A u \in Vertices : Labelling!SCC(E, u) = SCC(E, u)
  BY DEF Labelling!SCC, Labelling!Reach, Labelling!IsClosed, SCC, Reach, IsClosed
<1>2. \A E : \A u \in Vertices : SCC(E, u) \in SUBSET Vertices
  BY DEF SCC, Reach
<1> QED BY <1>1, <1>2 DEF Labelling!Canonical, Labelling!Decided, IsLabelling

\* A step that decides vertices, of one component or of several, is a step of
\* the abstract specification.
LEMMA SearchesLabellingStep ==
  ASSUME SearchesInv, SearchesInv', [SearchesNext]_searchesVars
  PROVE  [Labelling!Next]_(Labelling!labellingVars)
<1>1. edges' = edges /\ \A v \in Vertices : scc_id[v] # Undecided => scc_id'[v] = scc_id[v]
  BY IdsStay
<1>2. scc_id' \in [Vertices -> Vertices \cup {Undecided}]
  BY DEF SearchesInv, SearchesTypeOK
<1>3. (SearchesInv => IsLabelling(edges, scc_id, Undecided))'
  BY SearchesLabelling, PTL
<1>4. (\A E : Labelling!Canonical(E, scc_id) <=> IsLabelling(E, scc_id, Undecided))'
  BY CanonicalIsLabelling, PTL
<1>5. Labelling!Canonical(edges, scc_id')
  BY <1>1, <1>3, <1>4 DEF IsLabelling, Labelling!Canonical, Labelling!Decided
<1> QED BY <1>1, <1>2, <1>5 DEF Labelling!Next, Labelling!Decided

\* What is decided at first is whole: the trimmed vertices, or nothing.
LEMMA SearchesLabellingInit ==
  ASSUME SearchesInit
  PROVE  Labelling!Init
<1>1. SearchesInv
  BY PivotInitial, LabelInitial DEF SearchesInit
<1>2. /\ edges \in SUBSET (Vertices \X Vertices) /\ DecidedOnce
      /\ scc_id \in [Vertices -> Vertices \cup {Undecided}] /\ input \in Inputs
  BY <1>1, StateTypes DEF SearchesInv
<1>3. \A v \in Vertices : scc_id[v] # Undecided => SCC(edges, v) = {v}
  <2>1. CASE InitLabel
    BY <2>1 DEF InitLabel, Init
  <2>2. CASE InitPivot
    <3>1. scc_id = [v \in Vertices |-> IF v \in input.trimmed THEN v ELSE Undecided]
      BY <2>2 DEF InitPivot, PivotSearch!Init
    <3> QED BY <1>2, <3>1, InputFacts
  <2> QED BY <2>1, <2>2 DEF SearchesInit
<1>4. Labelling!Canonical(edges, scc_id)
  BY <1>1, SearchesLabelling, CanonicalIsLabelling
<1>5. Labelling!Whole(edges, scc_id)
  BY <1>3, CanonicalIsLabelling DEF Labelling!Whole, Labelling!Decided
<1> QED BY <1>2, <1>4, <1>5 DEF Labelling!Init, Labelling!Graphs

\* The asynchronous driver labels the vertices as one search per component
\* would: the pivot search, the trim behind it and the label searches that follow
\* assign each id once, and never one that a later decision contradicts.
THEOREM SearchesRefinement == SearchesSpec => ImplementsLabelling
BY SearchesInvariant, SearchesLabellingInit, SearchesLabellingStep, PTL
   DEF SearchesSpec, ImplementsLabelling, Labelling!Spec
=============================================================================
