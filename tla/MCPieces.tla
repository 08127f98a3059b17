---------------------------- MODULE MCPieces ------------------------------
(* Pieces on small inputs, enumerated as far as they differ.           *)
EXTENDS Pieces, TLC

Ends(ws, n) == {p \in [0 .. ws - 1 -> 0 .. n] :
                  /\ p[ws - 1] = n
                  /\ \A q \in 1 .. ws - 1 : p[q - 1] <= p[q]}

Starts(p) == [q \in DOMAIN p |-> IF q = 0 THEN 0 ELSE p[q - 1]]

\* Slices of up to four ranks, empty ones and a product that wraps included.
CallSet ==
  UNION {{[ws |-> ws, n |-> n, part |-> p, j |-> v] : p \in Ends(ws, n), v \in 0 .. n - 1} :
         ws \in 1 .. 4, n \in 1 .. 6}

\* All keys belong to the last line, or two to the line before: searches go on
\* over the end of the table.
MCKeys == 1 .. 4
MCHashes == {[k \in MCKeys |-> IF k <= last THEN 3 ELSE 2] : last \in {2, 4}}

\* At most k neighbours, but not u itself, in ascending order.
Neighbors(V, u, k) ==
  {<<>>} \cup {<<v>> : v \in V \ {u}}
         \cup {l \in {<<v, w>> : v \in V \ {u}, w \in V \ {u}} : k > 1 /\ l[1] < l[2]}

\* Two vertices with loops, parallel edges and neighbours elsewhere; three with
\* every filter; four, two of them with one neighbour at most.
Loose == {<<>>} \cup {<<v>> : v \in 0 .. 2} \cup {<<v, w>> : v \in 0 .. 2, w \in 0 .. 2}
InputSet ==
  {[n |-> 2, csr_range |-> c, filter |-> f] : c \in [0 .. 1 -> Loose], f \in SUBSET (0 .. 1)}
  \cup {[n |-> 3, csr_range |-> (0 :> a) @@ (1 :> b) @@ (2 :> c), filter |-> f] :
          a \in Neighbors(0 .. 2, 0, 2), b \in Neighbors(0 .. 2, 1, 2),
          c \in Neighbors(0 .. 2, 2, 2), f \in SUBSET (0 .. 2)}
  \cup {[n |-> 4, csr_range |-> (0 :> a) @@ (1 :> b) @@ (2 :> c) @@ (3 :> d),
         filter |-> 0 .. 3] :
          a \in Neighbors(0 .. 3, 0, 2), b \in Neighbors(0 .. 3, 1, 2),
          c \in Neighbors(0 .. 3, 2, 1), d \in Neighbors(0 .. 3, 3, 1)}

\* Vertices enough for some ranks to have more, fewer or none of them.
MaxN == 7
NoEnds == [q \in {} |-> 0]
LayoutSet ==
  {[kind |-> k, n |-> n, ws |-> ws, b |-> 1, begins |-> NoEnds, ends |-> NoEnds] :
     k \in {"balanced", "trivial", "cyclic"}, n \in 0 .. MaxN, ws \in 1 .. 4}
  \cup {[kind |-> "single", n |-> n, ws |-> 1, b |-> 1, begins |-> NoEnds, ends |-> NoEnds] :
          n \in 0 .. MaxN}
  \cup {l \in {[kind |-> "block", n |-> n, ws |-> ws, b |-> b, begins |-> NoEnds, ends |-> NoEnds] :
                n \in 0 .. MaxN, ws \in 1 .. 4, b \in 1 .. 4} : l.b * l.ws < Size}
  \cup UNION {{[kind |-> k, n |-> n, ws |-> ws, b |-> 1, begins |-> Starts(p), ends |-> p] :
                 k \in {"sorted", "continuous"}, p \in Ends(ws, n)} :
              n \in 0 .. MaxN, ws \in 1 .. 3}
  \* continuous, but not in the order of the ranks
  \cup UNION {{[kind |-> "continuous", n |-> n, ws |-> 2, b |-> 1,
                begins |-> [q \in 0 .. 1 |-> IF q = 0 THEN cut ELSE 0],
                ends |-> [q \in 0 .. 1 |-> IF q = 0 THEN n ELSE cut]] : cut \in 0 .. n} :
              n \in 0 .. MaxN}

\* Degrees up to two on three ranks, as an exhaustive trim leaves them: an
\* undecided vertex has both.  The ranks are alike: vertex 0 is on the first.
MCVertices == 0 .. 2
MCOwners == {"a", "b", "c"}
Degrees(U) == {d \in [MCVertices -> 0 .. 2] : \A v \in MCVertices : d[v] > 0 <=> v \in U}
Placements == {o \in [MCVertices -> MCOwners] : o[0] = "a" /\ o[1] # "c"}
PlacementsOf(U) == {o \in Placements : \A v \in MCVertices \ U : o[v] = "a"}
CandidateSet ==
  UNION {[owner : PlacementsOf(U), is_undecided : {U},
          outdegree : Degrees(U), indegree : {d \in Degrees(U) : d[1] < 2}] :
         U \in (SUBSET MCVertices) \ {{}}}

\* TLC evaluates a set like the above once, but what stands for a constant at
\* every use.
MCCalls == CallSet
MCInputs == InputSet
MCLayouts == LayoutSet
MCCandidates == CandidateSet
=============================================================================
