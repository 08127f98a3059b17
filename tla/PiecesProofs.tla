---------------------------- MODULE PiecesProofs ----------------------------
(* Proofs about the pieces, for all inputs: the choice of the pivot and    *)
(* grouping by destination keep to what they promise, arrays of bits are   *)
(* sets of indices, the hash containers are maps from keys to values,      *)
(* partitions give each vertex to one rank, and Tarjan's algorithm finds   *)
(* the components.                                                         *)
EXTENDS Pieces, FiniteSetTheorems, WellFoundedInduction, TLAPS

-----------------------------------------------------------------------------
(* Numbers                                                                 *)

\* A number is some quotient and a rest below the divisor, in one way.
LEMMA QuotientAndRest ==
  ASSUME NEW n \in Nat, NEW d \in Nat \ {0}
  PROVE  /\ n = (n \div d) * d + (n % d)
         /\ n \div d \in Nat /\ n % d \in 0 .. d - 1
<1>1. n % d \in 0 .. d - 1
  OBVIOUS
<1>2. n = (n \div d) * d + (n % d)
  OBVIOUS
<1>3. n \div d \in Int /\ n \div d >= 0
  OBVIOUS
<1> QED BY <1>1, <1>2, <1>3

\* A quotient and a rest below the divisor are found again.
LEMMA RestOf ==
  ASSUME NEW q \in Nat, NEW d \in Nat \ {0}, NEW a \in 0 .. d - 1
  PROVE  (q * d + a) % d = a /\ (q * d + a) \div d = q
<1>1. (q * d + a) % d = a
  OBVIOUS
<1>2. (q * d + a) \div d = q
  OBVIOUS
<1> QED BY <1>1, <1>2

\* Of some numbers one is the least.
LEMMA LeastOfSome ==
  ASSUME NEW S \in SUBSET Nat, S # {}
  PROVE  Min(S) \in S /\ \A y \in S : Min(S) <= y
<1>1. PICK x \in S : \A y \in S : ~ (<<y, x>> \in OpToRel(<, Nat))
  BY NatLessThanWellFounded, WFMin
<1>2. \A y \in S : ~ (y < x)
  BY <1>1 DEF OpToRel
<1>3. \A y \in S : x <= y
  BY <1>2
<1> QED BY <1>3 DEF Min

\* A member that is at most every other is the least.
LEMMA LeastIs ==
  ASSUME NEW S \in SUBSET Nat, NEW x \in S, \A y \in S : x <= y
  PROVE  Min(S) = x
<1>1. Min(S) \in S /\ Min(S) \in Nat /\ Min(S) <= x
  BY LeastOfSome
<1>2. x <= Min(S) /\ x \in Nat
  BY <1>1
<1> QED BY <1>1, <1>2
-----------------------------------------------------------------------------
(* The choice of the pivot                                                 *)

\* The operation takes the second of two candidates.
Beats(b, a) ==
  \/ b.degree_product > a.degree_product
  \/ b.degree_product = a.degree_product /\ b.u > a.u

Scanned(q) == (candidates.is_undecided \ todo) \cap Choice!Local(q)

\* A rank's candidate is the best of the vertices it has scanned, if any.
ScanInv ==
  \A q \in Owners :
    /\ \A v \in Scanned(q) : Choice!degree_product(v) <= local_max[q].degree_product
    /\ local_max[q].degree_product # 0 =>
         /\ local_max[q].u \in Scanned(q)
         /\ local_max[q].degree_product = Choice!degree_product(local_max[q].u)

\* A partial result is one of the candidates, and none it stands for is better.
\* Together they stand for all, also when one is left and its vertex returned.
CombineInv ==
  \A q \in Owners :
    /\ partial[q] # {} => /\ todo = {}
                          /\ \A s \in Owners : \E a \in partial[q] : s \in a.of
    /\ \A a \in partial[q] : /\ \E s \in Owners : a.max = local_max[s]
                             /\ \A s \in a.of : s \in Owners /\ ~ Beats(local_max[s], a.max)
    /\ pivot[q] # {} =>
         /\ todo = {}
         /\ \E s \in Owners : /\ pivot[q] = {local_max[s].u}
                              /\ \A t \in Owners : ~ Beats(local_max[t], local_max[s])

ChoiceTypes ==
  /\ candidates \in Candidates
  /\ todo \subseteq candidates.is_undecided
  /\ local_max \in [Owners -> Choice!degree_t]
  /\ partial \in [Owners -> SUBSET [of : SUBSET Owners, max : Choice!degree_t]]
  /\ pivot \in [Owners -> SUBSET Vertices]
  /\ \A q \in Owners : \A a, b \in partial[q] : a # b => a.of \cap b.of = {}

ChoiceInv == ChoiceTypes /\ ScanInv /\ CombineInv

\* What is assumed of the degrees of a set of candidates.
LEMMA CandidateFacts ==
  ASSUME candidates \in Candidates
  PROVE  /\ Vertices \subseteq Nat /\ 0 \in Vertices /\ Limit \in Nat \ {0}
         /\ candidates.owner \in [Vertices -> Owners]
         /\ candidates.is_undecided \in SUBSET Vertices /\ candidates.is_undecided # {}
         /\ \A v \in Vertices : Choice!degree_product(v) \in 0 .. Limit - 1
         /\ \A v \in candidates.is_undecided :
              /\ Choice!degree_product(v) = candidates.outdegree[v] * candidates.indegree[v]
              /\ Choice!degree_product(v) # 0
<1>1. /\ Vertices \subseteq Nat /\ 0 \in Vertices /\ Limit \in Nat \ {0}
      /\ candidates \in [owner : [Vertices -> Owners], is_undecided : SUBSET Vertices,
                         outdegree : [Vertices -> Nat], indegree : [Vertices -> Nat]]
      /\ candidates.is_undecided # {}
  BY PiecesAssumption
<1>2. ASSUME NEW v \in Vertices
      PROVE  Choice!degree_product(v) \in 0 .. Limit - 1
  <2>1. candidates.outdegree[v] \in Nat /\ candidates.indegree[v] \in Nat
    BY <1>1
  <2>2. PICK x \in Nat : x = candidates.outdegree[v] * candidates.indegree[v]
    BY <2>1
  <2>3. x % Limit \in 0 .. Limit - 1
    BY <1>1
  <2> QED BY <2>2, <2>3 DEF Choice!degree_product
<1>3. ASSUME NEW v \in candidates.is_undecided
      PROVE  /\ Choice!degree_product(v) = candidates.outdegree[v] * candidates.indegree[v]
             /\ Choice!degree_product(v) # 0
  <2>1. PICK x \in 1 .. Limit - 1 : x = candidates.outdegree[v] * candidates.indegree[v]
    BY CandidatesAssumption
  <2>2. x % Limit = x
    BY <1>1, <2>1
  <2> QED BY <2>1, <2>2 DEF Choice!degree_product
<1> QED BY <1>1, <1>2, <1>3

\* Of two candidates the operation keeps one that neither beats, and beating is
\* a strict order.
LEMMA BeatsOrder ==
  ASSUME Vertices \subseteq Nat, Limit \in Nat,
         NEW a \in Choice!degree_t, NEW b \in Choice!degree_t, NEW c \in Choice!degree_t
  PROVE  /\ Choice!degree_max_reduce(a, b) = (IF Beats(b, a) THEN b ELSE a)
         /\ Beats(b, a) => ~ Beats(a, b)
         /\ ~ Beats(a, a)
         /\ ~ Beats(c, a) /\ Beats(b, a) => ~ Beats(c, b)
         /\ ~ Beats(c, b) /\ ~ Beats(b, a) => ~ Beats(c, a)
<1>0. ASSUME NEW x \in Choice!degree_t PROVE x.degree_product \in Int /\ x.u \in Int
  <2>1. x.degree_product \in 0 .. Limit - 1 /\ x.u \in Vertices
    BY DEF Choice!degree_t
  <2>2. x.degree_product \in Int
    BY <2>1
  <2>3. x.u \in Nat
    BY <2>1
  <2> QED BY <2>2, <2>3
<1>1. /\ a.degree_product \in Int /\ b.degree_product \in Int /\ c.degree_product \in Int
      /\ a.u \in Int /\ b.u \in Int /\ c.u \in Int
  BY <1>0
<1>2. Choice!degree_max_reduce(a, b) = (IF Beats(b, a) THEN b ELSE a)
  BY DEF Beats, Choice!degree_max_reduce
<1>3. Beats(b, a) => ~ Beats(a, b)
  BY <1>1 DEF Beats
<1>4. ~ Beats(a, a)
  BY <1>1 DEF Beats
<1>5. ~ Beats(c, a) /\ Beats(b, a) => ~ Beats(c, b)
  BY <1>1 DEF Beats
<1>6. ~ Beats(c, b) /\ ~ Beats(b, a) => ~ Beats(c, a)
  BY <1>1 DEF Beats
<1> QED BY <1>2, <1>3, <1>4, <1>5, <1>6

\* OfLess the scan, a rank has no candidate.
LEMMA ChoiceInitial == Choice!Init => ChoiceInv
<1> SUFFICES ASSUME Choice!Init PROVE ChoiceInv
  OBVIOUS
<1>1. /\ candidates \in Candidates /\ todo = candidates.is_undecided
      /\ local_max = [q \in Owners |-> [degree_product |-> 0, u |-> 0]]
      /\ partial = [q \in Owners |-> {}] /\ pivot = [q \in Owners |-> {}]
  BY DEF Choice!Init
<1>2. [degree_product |-> 0, u |-> 0] \in Choice!degree_t
  BY <1>1, CandidateFacts DEF Choice!degree_t
<1>3. ChoiceTypes
  BY <1>1, <1>2 DEF ChoiceTypes
<1>4. ScanInv
  BY <1>1 DEF ScanInv, Scanned
<1>5. CombineInv
  BY <1>1 DEF CombineInv
<1> QED BY <1>3, <1>4, <1>5 DEF ChoiceInv

\* Visiting a vertex makes the candidate the best of one more.
LEMMA ScanKept ==
  ASSUME ChoiceInv, NEW k \in Vertices, Choice!Scan(k)
  PROVE  ChoiceInv'
<1>q. PICK q : q = candidates.owner[k]
  OBVIOUS
<1>b. PICK best : best = [degree_product |-> Choice!degree_product(k), u |-> k]
  OBVIOUS
<1>1. /\ k \in todo /\ todo' = todo \ {k}
      /\ UNCHANGED <<candidates, partial, pivot>>
      /\ local_max' = IF Choice!degree_product(k) > local_max[q].degree_product
                      THEN [local_max EXCEPT ![q] = best] ELSE local_max
  BY <1>q, <1>b DEF Choice!Scan
<1>2. /\ ChoiceTypes /\ ScanInv /\ CombineInv
      /\ local_max \in [Owners -> Choice!degree_t]
      /\ candidates.owner \in [Vertices -> Owners] /\ q \in Owners
      /\ candidates.is_undecided \in SUBSET Vertices /\ k \in candidates.is_undecided
      /\ \A v \in Vertices : Choice!degree_product(v) \in 0 .. Limit - 1
      /\ Limit \in Nat
  BY <1>1, <1>q, CandidateFacts DEF ChoiceInv, ChoiceTypes
<1>3. \A v : Choice!degree_product(v)' = Choice!degree_product(v)
  BY <1>1 DEF Choice!degree_product
<1>4. \A s \in Owners : /\ s # q => Scanned(s)' = Scanned(s)
                        /\ Scanned(q)' = Scanned(q) \cup {k}
  <2>1. \A s : Choice!Local(s)' = Choice!Local(s)
    BY <1>1 DEF Choice!Local
  <2>2. \A s \in Owners : k \in Choice!Local(s) <=> s = q
    BY <1>2, <1>q DEF Choice!Local
  <2> QED BY <1>1, <1>2, <2>1, <2>2 DEF Scanned
<1>5. \A s \in Owners : partial[s] = {} /\ pivot[s] = {}
  BY <1>1, <1>2 DEF CombineInv
<1>6. /\ best \in Choice!degree_t
      /\ best.degree_product = Choice!degree_product(k) /\ best.u = k
  BY <1>2, <1>b DEF Choice!degree_t
<1>7. ChoiceTypes'
  <2>1. local_max' \in [Owners -> Choice!degree_t]
    BY <1>1, <1>2, <1>6
  <2>2. todo' \subseteq candidates'.is_undecided
    BY <1>1, <1>2 DEF ChoiceTypes
  <2> QED BY <1>1, <1>2, <2>1, <2>2 DEF ChoiceTypes, Choice!degree_t
<1>8. ScanInv'
  <2> SUFFICES ASSUME NEW s \in Owners
               PROVE  /\ \A v \in Scanned(s)' : Choice!degree_product(v) <= local_max'[s].degree_product
                      /\ local_max'[s].degree_product # 0 =>
                           /\ local_max'[s].u \in Scanned(s)'
                           /\ local_max'[s].degree_product = Choice!degree_product(local_max'[s].u)
    BY <1>3 DEF ScanInv
  <2>1. /\ \A v \in Scanned(s) : Choice!degree_product(v) <= local_max[s].degree_product
        /\ local_max[s].degree_product # 0 =>
             /\ local_max[s].u \in Scanned(s)
             /\ local_max[s].degree_product = Choice!degree_product(local_max[s].u)
    BY <1>2 DEF ScanInv
  <2>2. CASE s # q
    BY <1>1, <1>2, <1>4, <2>1, <2>2
  <2>3. CASE s = q
    <3>1. local_max[q].degree_product \in 0 .. Limit - 1
      BY <1>2 DEF Choice!degree_t
    <3>2. \A v \in Scanned(q) : Choice!degree_product(v) \in 0 .. Limit - 1
      BY <1>2 DEF Scanned
    <3>3. CASE Choice!degree_product(k) > local_max[q].degree_product
      <4>1. local_max'[q] = best
        BY <1>1, <1>2, <3>3
      <4>2. ASSUME NEW v \in Scanned(q) \cup {k}
            PROVE  Choice!degree_product(v) <= Choice!degree_product(k)
        <5>1. CASE v = k
          BY <1>2, <5>1
        <5>2. CASE v \in Scanned(q)
          BY <1>2, <2>1, <2>3, <3>1, <3>2, <3>3, <5>2
        <5> QED BY <5>1, <5>2
      <4> QED BY <1>4, <1>6, <2>3, <4>1, <4>2
    <3>4. CASE ~ (Choice!degree_product(k) > local_max[q].degree_product)
      <4>1. local_max'[q] = local_max[q]
        BY <1>1, <3>4
      <4>2. Choice!degree_product(k) <= local_max[q].degree_product
        BY <1>2, <3>1, <3>4
      <4>3. Scanned(q)' = Scanned(q) \cup {k}
        BY <1>4, <2>3
      <4> QED BY <2>1, <2>3, <4>1, <4>2, <4>3
    <3> QED BY <3>3, <3>4
  <2> QED BY <2>2, <2>3
<1>9. CombineInv'
  BY <1>1, <1>5 DEF CombineInv
<1> QED BY <1>7, <1>8, <1>9 DEF ChoiceInv

\* The scan is over when the ranks combine what they have found.
LEMMA AllreduceKept ==
  ASSUME ChoiceInv, Choice!Allreduce
  PROVE  ChoiceInv'
<1>1. /\ todo = {} /\ UNCHANGED <<candidates, todo, local_max, pivot>>
      /\ \A q \in Owners : partial[q] = {} /\ pivot[q] = {}
      /\ partial' = [q \in Owners |-> {[of |-> {s}, max |-> local_max[s]] : s \in Owners}]
  BY DEF Choice!Allreduce
<1>2. /\ ChoiceTypes /\ ScanInv
      /\ local_max \in [Owners -> Choice!degree_t]
  BY DEF ChoiceInv, ChoiceTypes
<1>3. ChoiceTypes'
  <2>1. partial' \in [Owners -> SUBSET [of : SUBSET Owners, max : Choice!degree_t]]
    <3>1. \A s \in Owners : [of |-> {s}, max |-> local_max[s]]
                              \in [of : SUBSET Owners, max : Choice!degree_t]
      BY <1>2
    <3> QED BY <1>1, <3>1
  <2>2. ASSUME NEW q \in Owners, NEW a \in partial'[q], NEW b \in partial'[q], a # b
        PROVE  a.of \cap b.of = {}
    <3>1. partial'[q] = {[of |-> {s}, max |-> local_max[s]] : s \in Owners}
      BY <1>1
    <3> QED BY <2>2, <3>1
  <2> QED BY <1>1, <1>2, <2>1, <2>2 DEF ChoiceTypes, Choice!degree_t
<1>4. ScanInv'
  <2>1. \A v : Choice!degree_product(v)' = Choice!degree_product(v)
    BY <1>1 DEF Choice!degree_product
  <2>2. \A q : Scanned(q)' = Scanned(q)
    BY <1>1 DEF Scanned, Choice!Local
  <2> QED BY <1>1, <1>2, <2>1, <2>2 DEF ScanInv
<1>5. ASSUME NEW s \in Owners PROVE ~ Beats(local_max[s], local_max[s])
  BY <1>2, CandidateFacts, BeatsOrder DEF ChoiceTypes
<1>6. CombineInv'
  <2> SUFFICES ASSUME NEW q \in Owners
               PROVE  /\ \A s \in Owners : \E a \in partial'[q] : s \in a.of
                      /\ \A a \in partial'[q] :
                           /\ \E s \in Owners : a.max = local_max[s]
                           /\ \A s \in a.of : s \in Owners /\ ~ Beats(local_max[s], a.max)
    <3>1. todo' = {} /\ local_max' = local_max /\ \A s \in Owners : pivot'[s] = {}
      BY <1>1
    <3> QED BY <3>1, Zenon DEF CombineInv
  <2>1. partial'[q] = {[of |-> {s}, max |-> local_max[s]] : s \in Owners}
    BY <1>1
  <2>2. ASSUME NEW s \in Owners PROVE \E a \in partial'[q] : s \in a.of
    <3>1. [of |-> {s}, max |-> local_max[s]] \in partial'[q]
      BY <2>1
    <3> QED BY <3>1
  <2>3. ASSUME NEW a \in partial'[q]
        PROVE  /\ \E s \in Owners : a.max = local_max[s]
               /\ \A s \in a.of : s \in Owners /\ ~ Beats(local_max[s], a.max)
    <3>1. PICK s \in Owners : a = [of |-> {s}, max |-> local_max[s]]
      BY <2>1
    <3>2. a.of = {s} /\ a.max = local_max[s]
      BY <3>1
    <3> QED BY <1>5, <3>2
  <2> QED BY <2>2, <2>3
<1> QED BY <1>3, <1>4, <1>6 DEF ChoiceInv


\* Combining two results leaves the better one, which stands for both.
LEMMA CombineKept ==
  ASSUME ChoiceInv, NEW q \in Owners, Choice!Combine(q)
  PROVE  ChoiceInv'
<1>1. PICK a \in partial[q], b \in partial[q] :
        /\ a # b
        /\ partial' = [partial EXCEPT ![q] = (@ \ {a, b}) \cup
             {[of |-> a.of \cup b.of, max |-> Choice!degree_max_reduce(a.max, b.max)]}]
  BY DEF Choice!Combine
<1>2. /\ candidates' = candidates /\ todo' = todo /\ local_max' = local_max /\ pivot' = pivot
  BY DEF Choice!Combine
<1>3. /\ ChoiceTypes /\ ScanInv /\ CombineInv
      /\ local_max \in [Owners -> Choice!degree_t]
      /\ partial \in [Owners -> SUBSET [of : SUBSET Owners, max : Choice!degree_t]]
      /\ \A p \in Owners : \A x, y \in partial[p] : x # y => x.of \cap y.of = {}
      /\ Vertices \subseteq Nat /\ Limit \in Nat
  BY CandidateFacts DEF ChoiceInv, ChoiceTypes
<1>4. /\ a.max \in Choice!degree_t /\ b.max \in Choice!degree_t
      /\ a.of \in SUBSET Owners /\ b.of \in SUBSET Owners
  BY <1>3
<1>5. PICK c : c = [of |-> a.of \cup b.of, max |-> IF Beats(b.max, a.max) THEN b.max ELSE a.max]
  OBVIOUS
<1>6. /\ c.of = a.of \cup b.of /\ c.max = (IF Beats(b.max, a.max) THEN b.max ELSE a.max)
      /\ c \in [of : SUBSET Owners, max : Choice!degree_t]
  BY <1>4, <1>5
<1>7. /\ partial'[q] = (partial[q] \ {a, b}) \cup {c}
      /\ \A p \in Owners : p # q => partial'[p] = partial[p]
      /\ DOMAIN partial' = Owners /\ partial' = [partial EXCEPT ![q] = partial'[q]]
  <2>1. Choice!degree_max_reduce(a.max, b.max) = IF Beats(b.max, a.max) THEN b.max ELSE a.max
    BY <1>3, <1>4, BeatsOrder
  <2>2. partial' = [partial EXCEPT ![q] = (partial[q] \ {a, b}) \cup {c}]
    BY <1>1, <1>5, <2>1
  <2> QED BY <1>3, <2>2
<1>8. ChoiceTypes'
  <2>1. partial'[q] \in SUBSET [of : SUBSET Owners, max : Choice!degree_t]
    BY <1>3, <1>6, <1>7
  <2>2. partial' \in [Owners -> SUBSET [of : SUBSET Owners, max : Choice!degree_t]]
    BY <1>3, <1>7, <2>1
  <2>3. ASSUME NEW p \in Owners, NEW x \in partial'[p], NEW y \in partial'[p], x # y
        PROVE  x.of \cap y.of = {}
    <3>1. CASE p # q
      BY <1>3, <1>7, <2>3, <3>1
    <3>2. CASE p = q
      <4>1. \A z \in partial[q] \ {a, b} : z.of \cap c.of = {}
        BY <1>3, <1>6
      <4> QED BY <1>3, <1>7, <2>3, <3>2, <4>1
    <3> QED BY <3>1, <3>2
  <2> QED BY <1>2, <1>3, <2>2, <2>3 DEF ChoiceTypes, Choice!degree_t
<1>9. ScanInv'
  <2>1. \A v : Choice!degree_product(v)' = Choice!degree_product(v)
    BY <1>2 DEF Choice!degree_product
  <2>2. \A p : Scanned(p)' = Scanned(p)
    BY <1>2 DEF Scanned, Choice!Local
  <2> QED BY <1>2, <1>3, <2>1, <2>2 DEF ScanInv
<1>10. /\ todo = {} /\ \A s \in Owners : \E x \in partial[q] : s \in x.of
       /\ \A x \in partial[q] : /\ \E s \in Owners : x.max = local_max[s]
                                /\ \A s \in x.of : s \in Owners /\ ~ Beats(local_max[s], x.max)
  BY <1>1, <1>3 DEF CombineInv
<1>11. \A s \in Owners : \E x \in partial'[q] : s \in x.of
  BY <1>6, <1>7, <1>10
<1>12. \A x \in partial'[q] : /\ \E s \in Owners : x.max = local_max[s]
                              /\ \A s \in x.of : s \in Owners /\ ~ Beats(local_max[s], x.max)
  <2>1. \E s \in Owners : c.max = local_max[s]
    BY <1>1, <1>6, <1>10
  <2>2. ASSUME NEW s \in c.of PROVE s \in Owners /\ ~ Beats(local_max[s], c.max)
    <3>1. s \in Owners /\ local_max[s] \in Choice!degree_t
      BY <1>3, <1>4, <1>6
    <3>2. CASE s \in a.of
      <4>1. ~ Beats(local_max[s], a.max)
        BY <1>1, <1>10, <3>2
      <4>2. Beats(b.max, a.max) => ~ Beats(local_max[s], b.max)
        BY <1>3, <1>4, <3>1, <4>1, BeatsOrder
      <4> QED BY <1>6, <3>1, <4>1, <4>2
    <3>3. CASE s \in b.of
      <4>1. ~ Beats(local_max[s], b.max)
        BY <1>1, <1>10, <3>3
      <4>2. ~ Beats(b.max, a.max) => ~ Beats(local_max[s], a.max)
        BY <1>3, <1>4, <3>1, <4>1, BeatsOrder
      <4> QED BY <1>6, <3>1, <4>1, <4>2
    <3> QED BY <1>6, <3>2, <3>3
  <2> QED BY <1>7, <1>10, <2>1, <2>2
<1>13. CombineInv'
  <2> SUFFICES ASSUME NEW p \in Owners
               PROVE  /\ partial'[p] # {} =>
                           /\ todo = {}
                           /\ \A s \in Owners : \E x \in partial'[p] : s \in x.of
                      /\ \A x \in partial'[p] :
                           /\ \E s \in Owners : x.max = local_max[s]
                           /\ \A s \in x.of : s \in Owners /\ ~ Beats(local_max[s], x.max)
                      /\ pivot[p] # {} =>
                           /\ todo = {}
                           /\ \E s \in Owners : /\ pivot[p] = {local_max[s].u}
                                                /\ \A t \in Owners : ~ Beats(local_max[t], local_max[s])
    BY <1>2, Zenon DEF CombineInv
  <2>1. CASE p = q
    BY <1>3, <1>10, <1>11, <1>12, <2>1 DEF CombineInv
  <2>2. CASE p # q
    <3>1. partial'[p] = partial[p]
      BY <1>7, <2>2
    <3> QED BY <1>3, <3>1, Zenon DEF CombineInv
  <2> QED BY <2>1, <2>2
<1> QED BY <1>8, <1>9, <1>13 DEF ChoiceInv

\* What is left in the end is the best candidate of all.
LEMMA ReturnKept ==
  ASSUME ChoiceInv, NEW q \in Owners, Choice!Return(q)
  PROVE  ChoiceInv'
<1>1. PICK a \in partial[q] : partial[q] = {a} /\ pivot' = [pivot EXCEPT ![q] = {a.max.u}]
  BY DEF Choice!Return
<1>2. /\ candidates' = candidates /\ todo' = todo /\ local_max' = local_max
      /\ partial' = [partial EXCEPT ![q] = {}]
  BY DEF Choice!Return
<1>3. /\ ChoiceTypes /\ ScanInv /\ CombineInv
      /\ local_max \in [Owners -> Choice!degree_t]
      /\ partial \in [Owners -> SUBSET [of : SUBSET Owners, max : Choice!degree_t]]
      /\ pivot \in [Owners -> SUBSET Vertices]
  BY DEF ChoiceInv, ChoiceTypes
<1>4. a.max \in Choice!degree_t /\ a.max.u \in Vertices
  BY <1>3 DEF Choice!degree_t
<1>5. ChoiceTypes'
  <2>1. pivot' \in [Owners -> SUBSET Vertices]
    BY <1>1, <1>3, <1>4
  <2>2. partial' \in [Owners -> SUBSET [of : SUBSET Owners, max : Choice!degree_t]]
    BY <1>2, <1>3
  <2>3. \A p \in Owners : partial'[p] \subseteq partial[p]
    BY <1>2, <1>3
  <2> QED BY <1>2, <1>3, <2>1, <2>2, <2>3 DEF ChoiceTypes, Choice!degree_t
<1>6. ScanInv'
  <2>1. \A v : Choice!degree_product(v)' = Choice!degree_product(v)
    BY <1>2 DEF Choice!degree_product
  <2>2. \A p : Scanned(p)' = Scanned(p)
    BY <1>2 DEF Scanned, Choice!Local
  <2> QED BY <1>2, <1>3, <2>1, <2>2 DEF ScanInv
<1>7. /\ todo = {} /\ \A s \in Owners : s \in a.of
      /\ \E s \in Owners : a.max = local_max[s]
      /\ \A s \in Owners : ~ Beats(local_max[s], a.max)
  BY <1>1, <1>3 DEF CombineInv
<1>8. CombineInv'
  <2> SUFFICES ASSUME NEW p \in Owners
               PROVE  /\ partial'[p] # {} =>
                           /\ todo = {}
                           /\ \A s \in Owners : \E x \in partial'[p] : s \in x.of
                      /\ \A x \in partial'[p] :
                           /\ \E s \in Owners : x.max = local_max[s]
                           /\ \A s \in x.of : s \in Owners /\ ~ Beats(local_max[s], x.max)
                      /\ pivot'[p] # {} =>
                           /\ todo = {}
                           /\ \E s \in Owners : /\ pivot'[p] = {local_max[s].u}
                                                /\ \A t \in Owners : ~ Beats(local_max[t], local_max[s])
    BY <1>2, ZenonT(40) DEF CombineInv
  <2>1. CASE p = q
    <3>1. partial'[p] = {} /\ pivot'[p] = {a.max.u}
      BY <1>1, <1>2, <1>3, <2>1
    <3> QED BY <1>7, <3>1
  <2>2. CASE p # q
    <3>1. partial'[p] = partial[p] /\ pivot'[p] = pivot[p]
      BY <1>1, <1>2, <1>3, <2>2
    <3>2. partial'[p] # {} =>
            todo = {} /\ \A s \in Owners : \E x \in partial'[p] : s \in x.of
      BY <1>3, <3>1 DEF CombineInv
    <3>3. \A x \in partial'[p] :
            /\ \E s \in Owners : x.max = local_max[s]
            /\ \A s \in x.of : s \in Owners /\ ~ Beats(local_max[s], x.max)
      BY <1>3, <3>1 DEF CombineInv
    <3>4. pivot'[p] # {} =>
            /\ todo = {}
            /\ \E s \in Owners : /\ pivot'[p] = {local_max[s].u}
                                 /\ \A t \in Owners : ~ Beats(local_max[t], local_max[s])
      <4>1. pivot'[p] = pivot[p]
        BY <3>1
      <4>2. pivot[p] # {} =>
              /\ todo = {}
              /\ \E s \in Owners : /\ pivot[p] = {local_max[s].u}
                                   /\ \A t \in Owners : ~ Beats(local_max[t], local_max[s])
        BY <1>3, Zenon DEF CombineInv
      <4> QED BY <4>1, <4>2, Zenon
    <3> QED BY <3>2, <3>3, <3>4
  <2> QED BY <2>1, <2>2
<1> QED BY <1>5, <1>6, <1>8 DEF ChoiceInv

\* Where the pieces share no variable, the others leave the choice alone.
LEMMA ChoiceUnchanged ==
  ASSUME ChoiceInv, UNCHANGED pivotVars
  PROVE  ChoiceInv'
<1>1. /\ candidates' = candidates /\ todo' = todo /\ local_max' = local_max
      /\ partial' = partial /\ pivot' = pivot
  BY DEF pivotVars
<1>2. ChoiceTypes'
  BY <1>1 DEF ChoiceInv, ChoiceTypes, Choice!degree_t
<1>3. ScanInv'
  <2>1. \A v : Choice!degree_product(v)' = Choice!degree_product(v)
    BY <1>1 DEF Choice!degree_product
  <2>2. \A p : Scanned(p)' = Scanned(p)
    BY <1>1 DEF Scanned, Choice!Local
  <2> QED BY <1>1, <2>1, <2>2 DEF ChoiceInv, ScanInv
<1>4. CombineInv'
  BY <1>1 DEF ChoiceInv, CombineInv
<1> QED BY <1>2, <1>3, <1>4 DEF ChoiceInv

\* The best candidate of all ranks is an undecided vertex with the largest
\* product of degrees, and two that nobody beats are one vertex.
LEMMA ChoiceRight == ChoiceInv => Choice!PivotInv
<1> SUFFICES ASSUME ChoiceInv PROVE Choice!PivotInv
  OBVIOUS
<1>1. /\ ChoiceTypes /\ ScanInv /\ CombineInv
      /\ todo \subseteq candidates.is_undecided
      /\ local_max \in [Owners -> Choice!degree_t]
      /\ partial \in [Owners -> SUBSET [of : SUBSET Owners, max : Choice!degree_t]]
      /\ \A q \in Owners : \A x, y \in partial[q] : x # y => x.of \cap y.of = {}
      /\ Vertices \subseteq Nat /\ Limit \in Nat
      /\ candidates.owner \in [Vertices -> Owners]
      /\ candidates.is_undecided \in SUBSET Vertices /\ candidates.is_undecided # {}
      /\ \A v \in candidates.is_undecided :
           /\ Choice!degree_product(v) = candidates.outdegree[v] * candidates.indegree[v]
           /\ Choice!degree_product(v) # 0 /\ Choice!degree_product(v) \in 0 .. Limit - 1
  BY CandidateFacts DEF ChoiceInv, ChoiceTypes
<1>2. ASSUME NEW q \in Owners, pivot[q] # {}
      PROVE  \E s \in Owners : /\ pivot[q] = {local_max[s].u} /\ todo = {}
                               /\ \A t \in Owners : ~ Beats(local_max[t], local_max[s])
  BY <1>1, <1>2 DEF CombineInv
<1>3. ASSUME NEW s \in Owners, \A t \in Owners : ~ Beats(local_max[t], local_max[s]), todo = {}
      PROVE  /\ local_max[s].u \in candidates.is_undecided
             /\ local_max[s].degree_product = Choice!degree_product(local_max[s].u)
             /\ \A v \in candidates.is_undecided :
                  Choice!degree_product(v) <= local_max[s].degree_product
  <2>1. ASSUME NEW t \in Owners
        PROVE  /\ local_max[t].degree_product \in 0 .. Limit - 1
               /\ local_max[t].degree_product <= local_max[s].degree_product
    <3>1. local_max[t].degree_product \in 0 .. Limit - 1
      BY <1>1 DEF Choice!degree_t
    <3>2. local_max[s].degree_product \in 0 .. Limit - 1
      BY <1>1 DEF Choice!degree_t
    <3>3. ~ (local_max[t].degree_product > local_max[s].degree_product)
      BY <1>3 DEF Beats
    <3> QED BY <1>1, <3>1, <3>2, <3>3
  <2>2. ASSUME NEW v \in candidates.is_undecided
        PROVE  Choice!degree_product(v) <= local_max[s].degree_product
    <3>1. PICK t \in Owners : t = candidates.owner[v]
      BY <1>1
    <3>2. v \in Scanned(t)
      BY <1>1, <1>3, <3>1 DEF Scanned, Choice!Local
    <3>3. Choice!degree_product(v) <= local_max[t].degree_product
      BY <1>1, <3>2 DEF ScanInv
    <3> QED BY <1>1, <2>1, <3>3
  <2>3. local_max[s].degree_product # 0
    <3>1. PICK v \in candidates.is_undecided : TRUE
      BY <1>1
    <3> QED BY <1>1, <2>1, <2>2, <3>1
  <2>4. /\ local_max[s].u \in Scanned(s)
        /\ local_max[s].degree_product = Choice!degree_product(local_max[s].u)
    BY <1>1, <2>3 DEF ScanInv
  <2> QED BY <2>2, <2>4 DEF Scanned
<1>4. Choice!TypeOK
  <2>1. ASSUME NEW q \in Owners PROVE Cardinality(pivot[q]) <= 1
    <3>1. CASE pivot[q] = {}
      BY <3>1, FS_EmptySet
    <3>2. CASE pivot[q] # {}
      <4>1. PICK x : pivot[q] = {x}
        BY <1>2, <3>2
      <4>2. Cardinality({x}) = 1
        BY FS_Singleton
      <4> QED BY <4>1, <4>2
    <3> QED BY <3>1, <3>2
  <2>2. \A q \in Owners : \A a \in partial[q] : a.max \in Choice!degree_t
    BY <1>1
  <2>3. \A q \in Owners : Choice!Cardinality(pivot[q]) <= 1
    BY <2>1 DEF Choice!Cardinality, Cardinality
  <2> QED BY <1>1, <2>2, <2>3 DEF Choice!TypeOK
<1>5. Choice!PivotsAgree
  <2> SUFFICES ASSUME NEW p \in Owners, NEW q \in Owners, pivot[p] # {}, pivot[q] # {}
               PROVE  pivot[p] = pivot[q]
    BY DEF Choice!PivotsAgree
  <2>1. PICK s \in Owners : /\ pivot[p] = {local_max[s].u}
                            /\ \A t \in Owners : ~ Beats(local_max[t], local_max[s])
    BY <1>2
  <2>2. PICK t \in Owners : /\ pivot[q] = {local_max[t].u}
                            /\ \A o \in Owners : ~ Beats(local_max[o], local_max[t])
    BY <1>2
  <2>3. /\ local_max[s].degree_product \in 0 .. Limit - 1 /\ local_max[s].u \in Vertices
        /\ local_max[t].degree_product \in 0 .. Limit - 1 /\ local_max[t].u \in Vertices
    BY <1>1 DEF Choice!degree_t
  <2>4. local_max[s].degree_product \in Int /\ local_max[t].degree_product \in Int
    BY <1>1, <2>3
  <2>5. local_max[s].u \in Nat /\ local_max[t].u \in Nat
    BY <1>1, <2>3, Zenon
  <2>6. ~ Beats(local_max[s], local_max[t]) /\ ~ Beats(local_max[t], local_max[s])
    BY <2>1, <2>2
  <2>7. local_max[s].u = local_max[t].u
    BY <2>4, <2>5, <2>6 DEF Beats
  <2> QED BY <2>1, <2>2, <2>7
<1>6. Choice!PivotUndecided
  BY <1>2, <1>3 DEF Choice!PivotUndecided
<1>7. Choice!PivotLargest
  <2> SUFFICES ASSUME NEW q \in Owners, NEW u \in pivot[q], NEW v \in candidates.is_undecided
               PROVE  candidates.outdegree[v] * candidates.indegree[v]
                        <= candidates.outdegree[u] * candidates.indegree[u]
    BY DEF Choice!PivotLargest
  <2>1. PICK s \in Owners : /\ pivot[q] = {local_max[s].u} /\ todo = {}
                            /\ \A t \in Owners : ~ Beats(local_max[t], local_max[s])
    BY <1>2
  <2>2. u = local_max[s].u
    BY <2>1
  <2>3. /\ u \in candidates.is_undecided
        /\ Choice!degree_product(v) <= Choice!degree_product(u)
    BY <1>3, <2>1, <2>2
  <2> QED BY <1>1, <2>3
<1> QED BY <1>4, <1>5, <1>6, <1>7 DEF Choice!PivotInv

\* Whatever the order in which MPI combines the candidates of the ranks, all get
\* the same pivot, an undecided vertex with the largest product of its degrees
\* (select_pivot_from_degree, degree_max_reduce).
THEOREM PivotIsRight == PiecesSpec => []PivotInv
<1>1. PiecesInit => ChoiceInv
  BY ChoiceInitial DEF PiecesInit
<1>2. ChoiceInv /\ [PiecesNext]_piecesVars => ChoiceInv'
  <2> SUFFICES ASSUME ChoiceInv, [PiecesNext]_piecesVars PROVE ChoiceInv'
    OBVIOUS
  <2>1. CASE Choice!Next
    <3>1. CASE Choice!AllReturned
      <4>1. UNCHANGED pivotVars
        BY <3>1 DEF Choice!AllReturned, Choice!vars, pivotVars
      <4> QED BY <4>1, ChoiceUnchanged
    <3> QED BY <2>1, <3>1, ScanKept, AllreduceKept, CombineKept, ReturnKept DEF Choice!Next
  <2>2. CASE UNCHANGED pivotVars
    BY <2>2, ChoiceUnchanged
  <2> QED BY <2>1, <2>2 DEF PiecesNext, piecesVars, ChoiceStep
<1>3. ChoiceInv => PivotInv
  BY ChoiceRight DEF PivotInv
<1> QED BY <1>1, <1>2, <1>3, PTL DEF PiecesSpec
-----------------------------------------------------------------------------
(* Grouping by destination                                                 *)

\* The cardinalities of the instance are those of the library.
LEMMA GroupingCounts == \A S : Grouping!Cardinality(S) = Cardinality(S)
BY DEF Cardinality, Grouping!Cardinality

GroupingArrays ==
  /\ \E k \in 0 .. MaxItems : rank_of \in [0 .. k - 1 -> Grouping!Ranks]
  /\ send_buffer \in [Grouping!Items -> Grouping!Items]
  /\ Grouping!NothingLost

\* The slices follow on each other and fill the buffer.
LEMMA SliceFacts ==
  ASSUME NEW k \in 0 .. MaxItems, rank_of \in [0 .. k - 1 -> Grouping!Ranks]
  PROVE  /\ WorldSize \in Nat \ {0} /\ MaxItems \in Nat
         /\ Grouping!Items = 0 .. k - 1
         /\ Grouping!Begin(0) = 0
         /\ \A q \in 0 .. WorldSize : Grouping!Begin(q) \in 0 .. k
         /\ \A q \in Grouping!Ranks : /\ Grouping!send_counts[q] \in Nat
                                      /\ Grouping!End(q) = Grouping!Begin(q + 1)
                                      /\ Grouping!End(q) = Grouping!Begin(q) + Grouping!send_counts[q]
         /\ \A p, q \in 0 .. WorldSize : p <= q => Grouping!Begin(p) <= Grouping!Begin(q)
<1> DEFINE OfLess(q) == {i \in 0 .. k - 1 : rank_of[i] < q}
           Of(q) == {i \in 0 .. k - 1 : rank_of[i] = q}
<1>0. WorldSize \in Nat \ {0} /\ MaxItems \in Nat /\ k \in Nat
  BY PiecesAssumption
<1>1. /\ Grouping!Items = 0 .. k - 1
      /\ \A i \in 0 .. k - 1 : rank_of[i] \in 0 .. WorldSize - 1
  BY DEF Grouping!Items, Grouping!Ranks
<1>2. IsFiniteSet(0 .. k - 1) /\ Cardinality(0 .. k - 1) = k
  BY <1>0, FS_Interval
<1>3. /\ \A q : Grouping!Begin(q) = Cardinality(OfLess(q))
      /\ \A q \in Grouping!Ranks : Grouping!send_counts[q] = Cardinality(Of(q))
  BY <1>1, GroupingCounts DEF Grouping!Begin, Grouping!send_counts
<1>4. \A q : /\ IsFiniteSet(OfLess(q)) /\ Cardinality(OfLess(q)) \in Nat /\ Cardinality(OfLess(q)) <= k
             /\ IsFiniteSet(Of(q)) /\ Cardinality(Of(q)) \in Nat
  <2> SUFFICES ASSUME NEW q
               PROVE  /\ IsFiniteSet(OfLess(q)) /\ Cardinality(OfLess(q)) \in Nat /\ Cardinality(OfLess(q)) <= k
                      /\ IsFiniteSet(Of(q)) /\ Cardinality(Of(q)) \in Nat
    OBVIOUS
  <2>1. OfLess(q) \in SUBSET (0 .. k - 1) /\ Of(q) \in SUBSET (0 .. k - 1)
    OBVIOUS
  <2> HIDE DEF OfLess, Of
  <2>2. /\ IsFiniteSet(OfLess(q)) /\ Cardinality(OfLess(q)) <= k
        /\ IsFiniteSet(Of(q))
    BY <1>2, <2>1, FS_Subset
  <2> QED BY <2>2, FS_CardinalityType
<1>5. Grouping!Begin(0) = 0
  <2>1. OfLess(0) = {}
    BY <1>1
  <2> HIDE DEF OfLess
  <2> QED BY <1>3, <2>1, FS_EmptySet
<1>6. \A q \in Grouping!Ranks : /\ Grouping!send_counts[q] \in Nat
                                /\ Grouping!End(q) = Grouping!Begin(q + 1)
                                /\ Grouping!End(q) = Grouping!Begin(q) + Grouping!send_counts[q]
  <2> SUFFICES ASSUME NEW q \in Grouping!Ranks
               PROVE  /\ Grouping!send_counts[q] \in Nat
                      /\ Grouping!End(q) = Grouping!Begin(q + 1)
                      /\ Grouping!End(q) = Grouping!Begin(q) + Grouping!send_counts[q]
    OBVIOUS
  <2>1. q \in Nat
    BY <1>0 DEF Grouping!Ranks
  <2>2. OfLess(q + 1) = OfLess(q) \cup Of(q) /\ OfLess(q) \cap Of(q) = {}
    BY <1>0, <1>1, <2>1
  <2> HIDE DEF OfLess, Of
  <2>3. Cardinality(OfLess(q + 1))
          = Cardinality(OfLess(q)) + Cardinality(Of(q)) - Cardinality({})
    BY <1>4, <2>2, FS_Union
  <2>4. Cardinality({}) = 0
    BY FS_EmptySet
  <2> QED BY <1>3, <1>4, <2>3, <2>4 DEF Grouping!End
<1>7. ASSUME NEW q \in 0 .. WorldSize PROVE Grouping!Begin(q) \in 0 .. k
  <2> HIDE DEF OfLess, Of
  <2>1. Grouping!Begin(q) \in Nat /\ Grouping!Begin(q) <= k
    BY <1>3, <1>4
  <2> QED BY <1>0, <2>1
<1>8. ASSUME NEW p \in 0 .. WorldSize, NEW q \in 0 .. WorldSize, p <= q
      PROVE  Grouping!Begin(p) <= Grouping!Begin(q)
  <2>1. OfLess(p) \in SUBSET OfLess(q)
    BY <1>0, <1>1, <1>8
  <2> HIDE DEF OfLess
  <2> QED BY <1>3, <1>4, <2>1, FS_Subset
<1> QED BY <1>0, <1>1, <1>5, <1>6, <1>7, <1>8

\* Slices do not overlap.
LEMMA SlicesApart ==
  ASSUME NEW k \in 0 .. MaxItems, rank_of \in [0 .. k - 1 -> Grouping!Ranks],
         NEW p \in Grouping!Ranks, NEW q \in Grouping!Ranks, p # q,
         NEW x \in Grouping!Begin(p) .. Grouping!End(p) - 1
  PROVE  x \notin Grouping!Begin(q) .. Grouping!End(q) - 1
<1>1. /\ WorldSize \in Nat
      /\ p \in 0 .. WorldSize /\ p + 1 \in 0 .. WorldSize
      /\ q \in 0 .. WorldSize /\ q + 1 \in 0 .. WorldSize
  BY SliceFacts DEF Grouping!Ranks
<1>2. /\ Grouping!End(p) = Grouping!Begin(p + 1) /\ Grouping!End(q) = Grouping!Begin(q + 1)
      /\ Grouping!Begin(p) \in Int /\ Grouping!Begin(p + 1) \in Int
      /\ Grouping!Begin(q) \in Int /\ Grouping!Begin(q + 1) \in Int
  BY <1>1, SliceFacts
<1>3. p < q => Grouping!Begin(p + 1) <= Grouping!Begin(q)
  BY <1>1, SliceFacts
<1>4. q < p => Grouping!Begin(q + 1) <= Grouping!Begin(p)
  BY <1>1, SliceFacts
<1>5. p < q \/ q < p
  BY <1>1
<1> QED BY <1>2, <1>3, <1>4, <1>5

\* As no item is in two places, a rank's items are in no more places than it has.
LEMMA PlacesBound ==
  ASSUME GroupingArrays, NEW q \in Grouping!Ranks, NEW P \in SUBSET Grouping!Items,
         \A x \in P : rank_of[send_buffer[x]] = q
  PROVE  Cardinality(P) <= Grouping!send_counts[q]
<1>1. PICK k \in 0 .. MaxItems : rank_of \in [0 .. k - 1 -> Grouping!Ranks]
  BY DEF GroupingArrays
<1>2. Grouping!Items = 0 .. k - 1 /\ k \in Nat
  BY <1>1, SliceFacts
<1> DEFINE Of == {i \in Grouping!Items : rank_of[i] = q}
           f == [x \in P |-> send_buffer[x]]
<1>3. IsFiniteSet(Of)
  <2>1. IsFiniteSet(0 .. k - 1)
    BY <1>2, FS_Interval
  <2> QED BY <1>2, <2>1, FS_Subset
<1>4. f \in Injection(P, Of)
  <2>1. \A x \in P : send_buffer[x] \in Of
    BY DEF GroupingArrays
  <2>2. \A x, y \in P : send_buffer[x] = send_buffer[y] => x = y
    BY DEF GroupingArrays, Grouping!NothingLost
  <2> HIDE DEF Of
  <2> QED BY <2>1, <2>2 DEF Injection, IsInjective
<1>5. Cardinality(P) <= Cardinality(Of)
  <2> HIDE DEF Of, f
  <2> QED BY <1>3, <1>4, FS_Injection
<1> QED BY <1>5, GroupingCounts DEF Grouping!send_counts

\* Up to where a slice has been filled: whole behind the rank in hand, up to the
\* place in hand there, up to its cursor before.
Filled(q) ==
  IF q < rank THEN Grouping!End(q)
  ELSE IF q = rank /\ grouping = "items" THEN ordered_items ELSE send_displs[q]

SlicesInv ==
  \A q \in Grouping!Ranks :
    /\ Filled(q) \in Grouping!Begin(q) .. Grouping!End(q)
    /\ \A x \in Grouping!Begin(q) .. Filled(q) - 1 : rank_of[send_buffer[x]] = q
    /\ q < rank \/ (q = rank /\ grouping = "items") => send_displs[q] = Grouping!Begin(q)

GroupingInv ==
  /\ GroupingArrays
  /\ send_displs \in [Grouping!Ranks -> 0 .. MaxItems]
  /\ grouping \in {"rank", "items", "done"} /\ rank \in 0 .. WorldSize
  /\ rank_end \in 0 .. MaxItems /\ ordered_items \in 0 .. MaxItems
  /\ grouping = "rank" => rank < WorldSize /\ ordered_items = Grouping!Begin(rank)
  /\ grouping = "items" => rank < WorldSize /\ rank_end = Grouping!End(rank)
  /\ grouping = "done" => rank = WorldSize
  /\ SlicesInv

\* The sizes and bounds that the steps below compute with.
LEMMA GroupingFacts ==
  ASSUME GroupingInv
  PROVE  \E k \in 0 .. MaxItems :
           /\ rank_of \in [0 .. k - 1 -> Grouping!Ranks] /\ Grouping!Items = 0 .. k - 1
           /\ WorldSize \in Nat \ {0} /\ MaxItems \in Nat /\ k \in Nat
           /\ send_buffer \in [0 .. k - 1 -> 0 .. k - 1]
           /\ \A q \in Grouping!Ranks :
                /\ q \in Nat /\ q < WorldSize
                /\ Grouping!Begin(q) \in 0 .. k /\ Grouping!End(q) \in 0 .. k
                /\ Filled(q) \in Int
                /\ Grouping!Begin(q) <= Filled(q) /\ Filled(q) <= Grouping!End(q)
           /\ rank \in Nat /\ ordered_items \in Nat /\ rank_end \in Nat
           /\ grouping # "done" => rank \in Grouping!Ranks
<1>1. PICK k \in 0 .. MaxItems : rank_of \in [0 .. k - 1 -> Grouping!Ranks]
  BY DEF GroupingInv, GroupingArrays
<1>2. WorldSize \in Nat \ {0} /\ MaxItems \in Nat /\ k \in Nat
  BY <1>1, PiecesAssumption
<1>3. Grouping!Items = 0 .. k - 1
  BY <1>1, SliceFacts
<1>4. send_buffer \in [0 .. k - 1 -> 0 .. k - 1]
  BY <1>3 DEF GroupingInv, GroupingArrays
<1>5. ASSUME NEW q \in Grouping!Ranks
      PROVE  /\ q \in Nat /\ q < WorldSize
             /\ Grouping!Begin(q) \in 0 .. k /\ Grouping!End(q) \in 0 .. k
             /\ Filled(q) \in Int
             /\ Grouping!Begin(q) <= Filled(q) /\ Filled(q) <= Grouping!End(q)
  <2>1. q \in Nat /\ q < WorldSize /\ q \in 0 .. WorldSize /\ q + 1 \in 0 .. WorldSize
    BY <1>2 DEF Grouping!Ranks
  <2>2. Grouping!Begin(q) \in 0 .. k /\ Grouping!End(q) \in 0 .. k
    BY <1>1, <2>1, SliceFacts
  <2>3. Filled(q) \in Grouping!Begin(q) .. Grouping!End(q)
    BY DEF GroupingInv, SlicesInv
  <2> QED BY <2>1, <2>2, <2>3
<1>6. rank \in Nat /\ ordered_items \in Nat /\ rank_end \in Nat
  BY <1>2 DEF GroupingInv
<1>7. grouping # "done" => rank \in Grouping!Ranks
  BY <1>2, <1>6 DEF GroupingInv, Grouping!Ranks
<1> QED BY <1>1, <1>2, <1>3, <1>4, <1>5, <1>6, <1>7

\* An item found in the slice of another rank is missing from its own, which is
\* therefore not finished, and its cursor is in front of a place in the slice.
LEMMA CursorInSlice ==
  ASSUME GroupingInv, grouping = "items", ordered_items < rank_end,
         NEW q, q = Grouping!Target, q # rank
  PROVE  /\ ordered_items \in Grouping!Items
         /\ q \in Grouping!Ranks /\ q > rank
         /\ send_displs[q] \in Grouping!Begin(q) .. Grouping!End(q) - 1
<1>1. PICK k \in 0 .. MaxItems :
        /\ rank_of \in [0 .. k - 1 -> Grouping!Ranks] /\ Grouping!Items = 0 .. k - 1
        /\ k \in Nat /\ send_buffer \in [0 .. k - 1 -> 0 .. k - 1]
        /\ \A o \in Grouping!Ranks :
             /\ o \in Nat
             /\ Grouping!Begin(o) \in 0 .. k /\ Grouping!End(o) \in 0 .. k
             /\ Filled(o) \in Int
             /\ Grouping!Begin(o) <= Filled(o) /\ Filled(o) <= Grouping!End(o)
        /\ rank \in Grouping!Ranks /\ ordered_items \in Nat
  BY GroupingFacts
<1>2. /\ Filled(rank) = ordered_items /\ rank_end = Grouping!End(rank)
      /\ ordered_items \in Grouping!Begin(rank) .. Grouping!End(rank) - 1
      /\ ordered_items \in 0 .. k - 1
  <2>1. Filled(rank) = ordered_items
    BY <1>1 DEF Filled
  <2>2. rank_end = Grouping!End(rank)
    BY DEF GroupingInv
  <2>3. /\ Grouping!Begin(rank) \in 0 .. k /\ Grouping!End(rank) \in 0 .. k
        /\ Grouping!Begin(rank) <= ordered_items
    BY <1>1, <2>1
  <2> QED BY <1>1, <2>1, <2>2, <2>3
<1>3. q \in Grouping!Ranks /\ rank_of[send_buffer[ordered_items]] = q
  BY <1>1, <1>2 DEF Grouping!Target, Grouping!Here
<1> DEFINE P == Grouping!Begin(q) .. Filled(q) - 1
<1>4. ordered_items \notin Grouping!Begin(q) .. Grouping!End(q) - 1
  BY <1>1, <1>2, <1>3, SlicesApart
<1>5. /\ Grouping!Begin(q) \in 0 .. k /\ Grouping!End(q) \in 0 .. k /\ Filled(q) \in Int
      /\ Grouping!Begin(q) <= Filled(q) /\ Filled(q) <= Grouping!End(q)
      /\ Grouping!End(q) = Grouping!Begin(q) + Grouping!send_counts[q]
      /\ Grouping!send_counts[q] \in Nat
  BY <1>1, <1>3, SliceFacts
<1>6. /\ P \subseteq 0 .. k - 1 /\ ordered_items \notin P
      /\ IsFiniteSet(P) /\ Cardinality(P) = Filled(q) - Grouping!Begin(q)
  <2>0. PICK b, e, f : b = Grouping!Begin(q) /\ e = Grouping!End(q) /\ f = Filled(q)
    OBVIOUS
  <2>a. /\ k \in Nat /\ b \in 0 .. k /\ e \in 0 .. k /\ f \in Int /\ b <= f /\ f <= e
        /\ ordered_items \notin b .. e - 1 /\ P = b .. f - 1
    BY <1>1, <1>4, <1>5, <2>0
  <2>1. P \subseteq 0 .. k - 1 /\ ordered_items \notin P
    <3> HIDE DEF P
    <3> QED BY <2>a
  <2>2. Grouping!Begin(q) \in Int /\ Filled(q) - 1 \in Int
    BY <1>5
  <2>3. /\ IsFiniteSet(P)
        /\ Cardinality(P) = IF Grouping!Begin(q) > Filled(q) - 1 THEN 0
                            ELSE (Filled(q) - 1) - Grouping!Begin(q) + 1
    BY <2>2, FS_Interval
  <2> QED BY <1>5, <2>1, <2>3
<1>7. \A x \in P \cup {ordered_items} : rank_of[send_buffer[x]] = q
  BY <1>3 DEF GroupingInv, SlicesInv
<1> HIDE DEF P
<1>8. Cardinality(P \cup {ordered_items}) = Cardinality(P) + 1
  BY <1>6, FS_AddElement
<1>9. Cardinality(P \cup {ordered_items}) <= Grouping!send_counts[q]
  <2>1. P \cup {ordered_items} \in SUBSET Grouping!Items
    BY <1>1, <1>2, <1>6
  <2> QED BY <1>3, <1>7, <2>1, PlacesBound DEF GroupingInv
<1>10. Filled(q) < Grouping!End(q)
  BY <1>5, <1>6, <1>8, <1>9
<1>11. q > rank
  <2>1. ~ (q < rank)
    BY <1>5, <1>10 DEF Filled
  <2> QED BY <1>1, <1>3, <2>1
<1>12. Filled(q) = send_displs[q]
  BY <1>1, <1>3, <1>11 DEF Filled
<1>13. send_displs[q] \in Grouping!Begin(q) .. Grouping!End(q) - 1
  BY <1>5, <1>10, <1>12
<1> QED BY <1>1, <1>2, <1>3, <1>11, <1>13

\* The slices depend on the items only.
LEMMA SlicesStay ==
  ASSUME rank_of' = rank_of
  PROVE  /\ Grouping!Items' = Grouping!Items
         /\ \A q : Grouping!Begin(q)' = Grouping!Begin(q) /\ Grouping!End(q)' = Grouping!End(q)
<1>1. Grouping!Items' = Grouping!Items
  BY DEF Grouping!Items
<1>2. \A q : Grouping!Begin(q)' = Grouping!Begin(q)
  BY <1>1 DEF Grouping!Begin
<1>3. Grouping!send_counts' = Grouping!send_counts
  BY <1>1 DEF Grouping!send_counts
<1> QED BY <1>1, <1>2, <1>3 DEF Grouping!End

\* At the call every slice is empty and the first one is next.
LEMMA GroupingInitial == Grouping!Init => GroupingInv
<1> SUFFICES ASSUME Grouping!Init PROVE GroupingInv
  OBVIOUS
<1>1. PICK k \in 0 .. MaxItems : rank_of \in [0 .. k - 1 -> Grouping!Ranks]
  BY DEF Grouping!Init
<1>2. /\ WorldSize \in Nat \ {0} /\ MaxItems \in Nat /\ k \in Nat
      /\ Grouping!Items = 0 .. k - 1 /\ Grouping!Begin(0) = 0
  BY <1>1, SliceFacts
<1>3. /\ send_buffer = [x \in Grouping!Items |-> x]
      /\ send_displs = [q \in Grouping!Ranks |-> Grouping!Begin(q)]
      /\ grouping = "rank" /\ rank = 0 /\ rank_end = 0 /\ ordered_items = 0
  BY DEF Grouping!Init
<1>4. GroupingArrays
  BY <1>1, <1>3 DEF GroupingArrays, Grouping!NothingLost
<1>5. ASSUME NEW q \in Grouping!Ranks
      PROVE  /\ q \in Nat /\ Grouping!Begin(q) \in 0 .. MaxItems
             /\ Filled(q) = Grouping!Begin(q) /\ send_displs[q] = Grouping!Begin(q)
             /\ Filled(q) \in Grouping!Begin(q) .. Grouping!End(q)
             /\ Grouping!Begin(q) .. Filled(q) - 1 = {}
  <2>1. q \in Nat /\ q \in 0 .. WorldSize
    BY <1>2 DEF Grouping!Ranks
  <2>2. /\ Grouping!Begin(q) \in 0 .. k /\ Grouping!send_counts[q] \in Nat
        /\ Grouping!End(q) = Grouping!Begin(q) + Grouping!send_counts[q]
    BY <1>1, <2>1, SliceFacts
  <2>3. Filled(q) = Grouping!Begin(q) /\ send_displs[q] = Grouping!Begin(q)
    BY <1>3, <2>1 DEF Filled
  <2>4. Filled(q) \in Grouping!Begin(q) .. Grouping!End(q)
    BY <2>2, <2>3
  <2>5. Grouping!Begin(q) .. Filled(q) - 1 = {}
    BY <2>2, <2>3
  <2> QED BY <1>2, <2>1, <2>2, <2>3, <2>4, <2>5
<1>6. SlicesInv
  BY <1>5 DEF SlicesInv
<1>7. send_displs \in [Grouping!Ranks -> 0 .. MaxItems]
  BY <1>3, <1>5
<1> QED BY <1>2, <1>3, <1>4, <1>6, <1>7 DEF GroupingInv

\* Entering a slice takes over its cursor and puts the beginning back.
LEMMA EnterRankKept ==
  ASSUME GroupingInv, Grouping!EnterRank
  PROVE  GroupingInv'
<1>1. PICK k \in 0 .. MaxItems :
        /\ rank_of \in [0 .. k - 1 -> Grouping!Ranks] /\ WorldSize \in Nat
        /\ k \in Nat /\ MaxItems \in Nat
        /\ \A q \in Grouping!Ranks :
             /\ q \in Nat
             /\ Grouping!Begin(q) \in 0 .. k /\ Grouping!End(q) \in 0 .. k
        /\ rank \in Nat /\ ordered_items \in Nat
        /\ grouping # "done" => rank \in Grouping!Ranks
  BY GroupingFacts
<1>2. /\ grouping = "rank" /\ rank < WorldSize /\ grouping' = "items"
      /\ rank_end' = ordered_items + Grouping!send_counts[rank]
      /\ ordered_items' = send_displs[rank]
      /\ send_displs' = [send_displs EXCEPT ![rank] = ordered_items]
      /\ rank_of' = rank_of /\ send_buffer' = send_buffer /\ rank' = rank
  BY DEF Grouping!EnterRank
<1>3. /\ GroupingArrays /\ SlicesInv
      /\ send_displs \in [Grouping!Ranks -> 0 .. MaxItems]
      /\ ordered_items = Grouping!Begin(rank) /\ rank \in Grouping!Ranks
      /\ rank \in 0 .. WorldSize
  BY <1>1, <1>2 DEF GroupingInv
<1>4. GroupingArrays'
  BY <1>2, <1>3, SlicesStay DEF GroupingArrays, Grouping!NothingLost
<1>5. /\ send_displs' \in [Grouping!Ranks -> 0 .. MaxItems]
      /\ send_displs'[rank] = Grouping!Begin(rank)
      /\ \A q \in Grouping!Ranks : q # rank => send_displs'[q] = send_displs[q]
  <2>1. ordered_items \in 0 .. MaxItems
    BY DEF GroupingInv
  <2> QED BY <1>2, <1>3, <2>1
<1>6. \A q \in Grouping!Ranks : Filled(q)' = Filled(q)
  <2> SUFFICES ASSUME NEW q \in Grouping!Ranks PROVE Filled(q)' = Filled(q)
    OBVIOUS
  <2>1. Grouping!End(q)' = Grouping!End(q)
    BY <1>2, SlicesStay
  <2>2. CASE q < rank
    BY <1>2, <2>1, <2>2 DEF Filled
  <2>3. CASE q = rank
    <3>1. ~ (q < rank)
      BY <1>1, <2>3
    <3> QED BY <1>2, <2>3, <3>1 DEF Filled
  <2>4. CASE ~ (q < rank) /\ q # rank
    BY <1>2, <1>5, <2>4 DEF Filled
  <2> QED BY <2>2, <2>3, <2>4
<1>7. SlicesInv'
  <2> SUFFICES ASSUME NEW q \in Grouping!Ranks
               PROVE  /\ Filled(q)' \in Grouping!Begin(q)' .. Grouping!End(q)'
                      /\ \A x \in Grouping!Begin(q)' .. Filled(q)' - 1 : rank_of[send_buffer[x]] = q
                      /\ q < rank \/ q = rank => send_displs'[q] = Grouping!Begin(q)'
    BY <1>2 DEF SlicesInv, Grouping!Ranks
  <2>1. Grouping!Begin(q)' = Grouping!Begin(q) /\ Grouping!End(q)' = Grouping!End(q)
    BY <1>2, SlicesStay
  <2>2. /\ Filled(q) \in Grouping!Begin(q) .. Grouping!End(q)
        /\ \A x \in Grouping!Begin(q) .. Filled(q) - 1 : rank_of[send_buffer[x]] = q
        /\ q < rank => send_displs[q] = Grouping!Begin(q)
    BY <1>3 DEF SlicesInv
  <2>3. q < rank => q # rank
    BY <1>1
  <2> QED BY <1>5, <1>6, <2>1, <2>2, <2>3
<1>8. rank_end' = Grouping!End(rank)' /\ rank_end' \in 0 .. MaxItems
  <2>1. Grouping!End(rank) = Grouping!Begin(rank) + Grouping!send_counts[rank]
    BY <1>1, <1>3, SliceFacts
  <2>2. Grouping!End(rank) \in 0 .. MaxItems
    BY <1>1, <1>3
  <2>3. Grouping!End(rank)' = Grouping!End(rank)
    BY <1>2, SlicesStay DEF Grouping!End
  <2> QED BY <1>2, <1>3, <2>1, <2>2, <2>3
<1>9. ordered_items' \in 0 .. MaxItems
  BY <1>2, <1>3
<1> QED BY <1>2, <1>3, <1>4, <1>5, <1>7, <1>8, <1>9 DEF GroupingInv, Grouping!Ranks

\* An item of the slice's own rank stays.
LEMMA KeepItemKept ==
  ASSUME GroupingInv, Grouping!KeepItem
  PROVE  GroupingInv'
<1>1. PICK k \in 0 .. MaxItems :
        /\ rank_of \in [0 .. k - 1 -> Grouping!Ranks]
        /\ k \in Nat /\ MaxItems \in Nat
        /\ \A q \in Grouping!Ranks :
             /\ q \in Nat
             /\ Grouping!Begin(q) \in 0 .. k /\ Grouping!End(q) \in 0 .. k
             /\ Filled(q) \in Int
             /\ Grouping!Begin(q) <= Filled(q) /\ Filled(q) <= Grouping!End(q)
        /\ rank \in Nat /\ ordered_items \in Nat
        /\ grouping # "done" => rank \in Grouping!Ranks
  BY GroupingFacts
<1>2. /\ grouping = "items" /\ ordered_items < rank_end
      /\ rank_of[send_buffer[ordered_items]] = rank
      /\ ordered_items' = ordered_items + 1
      /\ rank_of' = rank_of /\ send_buffer' = send_buffer /\ send_displs' = send_displs
      /\ grouping' = grouping /\ rank' = rank /\ rank_end' = rank_end
  BY DEF Grouping!KeepItem, Grouping!Target, Grouping!Here
<1>3. /\ GroupingArrays /\ SlicesInv /\ rank \in Grouping!Ranks
      /\ rank_end = Grouping!End(rank) /\ Filled(rank) = ordered_items
  BY <1>1, <1>2 DEF GroupingInv, Filled
<1>4. GroupingArrays'
  BY <1>2, <1>3, SlicesStay DEF GroupingArrays, Grouping!NothingLost
<1>5. ordered_items' \in 0 .. MaxItems
  <2>1. Grouping!End(rank) \in 0 .. k
    BY <1>1, <1>3
  <2> QED BY <1>1, <1>2, <1>3, <2>1
<1>6. SlicesInv'
  <2> SUFFICES ASSUME NEW q \in Grouping!Ranks
               PROVE  /\ Filled(q)' \in Grouping!Begin(q)' .. Grouping!End(q)'
                      /\ \A x \in Grouping!Begin(q)' .. Filled(q)' - 1 : rank_of[send_buffer[x]] = q
                      /\ q < rank \/ q = rank => send_displs[q] = Grouping!Begin(q)'
    BY <1>2 DEF SlicesInv, Grouping!Ranks
  <2>1. Grouping!Begin(q)' = Grouping!Begin(q) /\ Grouping!End(q)' = Grouping!End(q)
    BY <1>2, SlicesStay
  <2>2. /\ Filled(q) \in Grouping!Begin(q) .. Grouping!End(q)
        /\ \A x \in Grouping!Begin(q) .. Filled(q) - 1 : rank_of[send_buffer[x]] = q
        /\ q < rank \/ q = rank => send_displs[q] = Grouping!Begin(q)
    BY <1>2, <1>3 DEF SlicesInv
  <2>3. CASE q # rank
    <3>1. Filled(q)' = Filled(q)
      BY <1>2, <2>1, <2>3 DEF Filled
    <3> QED BY <2>1, <2>2, <3>1
  <2>4. CASE q = rank
    <3>1. Filled(q)' = ordered_items + 1
      BY <1>1, <1>2, <2>4 DEF Filled
    <3>2. PICK b, e : b = Grouping!Begin(q) /\ e = Grouping!End(q)
      OBVIOUS
    <3>3. /\ b \in Int /\ e \in Int /\ b <= ordered_items /\ ordered_items < e
          /\ ordered_items \in Int
      BY <1>1, <1>2, <1>3, <2>4, <3>2
    <3>4. ordered_items + 1 \in b .. e
      BY <3>3
    <3>5. \A x \in b .. (ordered_items + 1) - 1 : x = ordered_items \/ x \in b .. ordered_items - 1
      BY <3>3
    <3>6. \A x \in b .. (ordered_items + 1) - 1 : rank_of[send_buffer[x]] = q
      BY <1>2, <1>3, <2>2, <2>4, <3>2, <3>5
    <3> QED BY <2>1, <2>2, <3>1, <3>2, <3>4, <3>6
  <2> QED BY <2>3, <2>4
<1>7. Grouping!End(rank)' = Grouping!End(rank)
  BY <1>2, SlicesStay DEF Grouping!End
<1> QED BY <1>2, <1>3, <1>4, <1>5, <1>6, <1>7 DEF GroupingInv, Grouping!Ranks

\* A swap puts an item where its slice is filled up to.
LEMMA SwapItemKept ==
  ASSUME GroupingInv, Grouping!SwapItem
  PROVE  GroupingInv'
<1>1. PICK k \in 0 .. MaxItems :
        /\ rank_of \in [0 .. k - 1 -> Grouping!Ranks] /\ Grouping!Items = 0 .. k - 1
        /\ k \in Nat /\ MaxItems \in Nat
        /\ send_buffer \in [0 .. k - 1 -> 0 .. k - 1]
        /\ \A q \in Grouping!Ranks :
             /\ q \in Nat
             /\ Grouping!Begin(q) \in 0 .. k /\ Grouping!End(q) \in 0 .. k
             /\ Filled(q) \in Int
             /\ Grouping!Begin(q) <= Filled(q) /\ Filled(q) <= Grouping!End(q)
        /\ rank \in Nat /\ ordered_items \in Nat
        /\ grouping # "done" => rank \in Grouping!Ranks
  BY GroupingFacts
<1>2. PICK t, there, h :
        /\ t = Grouping!Target /\ there = send_displs[t] /\ h = send_buffer[ordered_items]
  OBVIOUS
<1>3. /\ grouping = "items" /\ ordered_items < rank_end /\ t # rank
      /\ send_displs' = [send_displs EXCEPT ![t] = @ + 1]
      /\ send_buffer' = [send_buffer EXCEPT ![there] = h, ![ordered_items] = send_buffer[there]]
      /\ rank_of' = rank_of /\ ordered_items' = ordered_items
      /\ grouping' = grouping /\ rank' = rank /\ rank_end' = rank_end
  BY <1>2 DEF Grouping!SwapItem, Grouping!Here
<1>4. rank_of[h] = t
  BY <1>2 DEF Grouping!Target, Grouping!Here
<1>5. /\ GroupingArrays /\ SlicesInv /\ rank \in Grouping!Ranks
      /\ rank_end = Grouping!End(rank) /\ Filled(rank) = ordered_items
      /\ send_displs \in [Grouping!Ranks -> 0 .. MaxItems]
      /\ ordered_items \in 0 .. MaxItems /\ rank < WorldSize
  BY <1>1, <1>3 DEF GroupingInv, Filled
<1>6. /\ ordered_items \in 0 .. k - 1
      /\ t \in Grouping!Ranks /\ t > rank
      /\ there \in Grouping!Begin(t) .. Grouping!End(t) - 1
      /\ Filled(t) = there
  <2>1. /\ ordered_items \in Grouping!Items
        /\ t \in Grouping!Ranks /\ t > rank
        /\ send_displs[t] \in Grouping!Begin(t) .. Grouping!End(t) - 1
    BY <1>2, <1>3, CursorInSlice
  <2>2. ~ (t < rank)
    BY <1>1, <2>1
  <2>3. Filled(t) = send_displs[t]
    BY <1>3, <2>2 DEF Filled
  <2> QED BY <1>1, <1>2, <2>1, <2>3
<1>7. PICK b, e : b = Grouping!Begin(t) /\ e = Grouping!End(t)
  OBVIOUS
<1>8. b \in 0 .. k /\ e \in 0 .. k /\ there \in b .. e - 1 /\ there \in 0 .. k - 1
  BY <1>1, <1>6, <1>7
<1>9. ordered_items \in Grouping!Begin(rank) .. Grouping!End(rank) - 1
  <2>1. PICK a, c : a = Grouping!Begin(rank) /\ c = Grouping!End(rank)
    OBVIOUS
  <2>2. a \in Int /\ c \in Int /\ a <= ordered_items /\ ordered_items < c
    BY <1>1, <1>3, <1>5, <2>1
  <2> QED BY <1>1, <2>1, <2>2
<1>10. /\ send_buffer'[there] = h \/ there = ordered_items
       /\ send_buffer'[ordered_items] = send_buffer[there]
       /\ \A x \in 0 .. k - 1 : x # there /\ x # ordered_items => send_buffer'[x] = send_buffer[x]
       /\ send_buffer' \in [0 .. k - 1 -> 0 .. k - 1]
  <2>1. h \in 0 .. k - 1 /\ send_buffer[there] \in 0 .. k - 1
    BY <1>1, <1>2, <1>6, <1>8
  <2> QED BY <1>1, <1>3, <1>6, <1>8, <2>1
<1>11. ordered_items \notin b .. e - 1
  BY <1>1, <1>3, <1>5, <1>6, <1>7, <1>9, SlicesApart
<1>12. there # ordered_items
  BY <1>8, <1>11
<1>13. \A x, y \in 0 .. k - 1 : send_buffer[x] = send_buffer[y] => x = y
  BY <1>1, <1>5 DEF GroupingArrays, Grouping!NothingLost
<1>14. \A x, y \in 0 .. k - 1 : send_buffer'[x] = send_buffer'[y] => x = y
  <2> SUFFICES ASSUME NEW x \in 0 .. k - 1, NEW y \in 0 .. k - 1,
                      send_buffer'[x] = send_buffer'[y]
               PROVE  x = y
    OBVIOUS
  <2> DEFINE from(z) == IF z = there THEN ordered_items
                        ELSE IF z = ordered_items THEN there ELSE z
  <2>1. ASSUME NEW z \in 0 .. k - 1
        PROVE  from(z) \in 0 .. k - 1 /\ send_buffer'[z] = send_buffer[from(z)]
    BY <1>2, <1>6, <1>8, <1>10, <1>12
  <2>2. from(x) = from(y)
    <3> HIDE DEF from
    <3> QED BY <1>13, <2>1
  <2> QED BY <1>12, <2>2
<1>15. GroupingArrays'
  <2>1. Grouping!Items' = 0 .. k - 1
    BY <1>1, <1>3, SlicesStay
  <2>2. (\E n \in 0 .. MaxItems : rank_of \in [0 .. n - 1 -> Grouping!Ranks])'
    BY <1>1, <1>3
  <2>3. (send_buffer \in [Grouping!Items -> Grouping!Items])'
    BY <1>10, <2>1
  <2>4. Grouping!NothingLost'
    BY <1>14, <2>1 DEF Grouping!NothingLost
  <2> QED BY <2>2, <2>3, <2>4 DEF GroupingArrays
<1>16. /\ send_displs' \in [Grouping!Ranks -> 0 .. MaxItems]
       /\ send_displs'[t] = there + 1
       /\ \A q \in Grouping!Ranks : q # t => send_displs'[q] = send_displs[q]
  <2>1. there + 1 \in 0 .. MaxItems
    BY <1>1, <1>8
  <2> QED BY <1>2, <1>3, <1>5, <1>6, <2>1
<1>17. SlicesInv'
  <2> SUFFICES ASSUME NEW q \in Grouping!Ranks
               PROVE  /\ Filled(q)' \in Grouping!Begin(q)' .. Grouping!End(q)'
                      /\ \A x \in Grouping!Begin(q)' .. Filled(q)' - 1 : rank_of[send_buffer'[x]] = q
                      /\ q < rank \/ q = rank => send_displs'[q] = Grouping!Begin(q)'
    BY <1>3 DEF SlicesInv, Grouping!Ranks
  <2>1. Grouping!Begin(q)' = Grouping!Begin(q) /\ Grouping!End(q)' = Grouping!End(q)
    BY <1>3, SlicesStay
  <2>2. /\ Filled(q) \in Grouping!Begin(q) .. Grouping!End(q)
        /\ \A x \in Grouping!Begin(q) .. Filled(q) - 1 : rank_of[send_buffer[x]] = q
        /\ q < rank \/ q = rank => send_displs[q] = Grouping!Begin(q)
    BY <1>3, <1>5 DEF SlicesInv
  <2>3. PICK c, d, f : c = Grouping!Begin(q) /\ d = Grouping!End(q) /\ f = Filled(q)
    OBVIOUS
  <2>4. c \in 0 .. k /\ d \in 0 .. k /\ f \in c .. d /\ q \in Nat
    BY <1>1, <2>2, <2>3
  <2>5. \A x \in c .. f - 1 : rank_of[send_buffer[x]] = q
    BY <2>2, <2>3
  <2>6. ordered_items \notin c .. f - 1
    <3>1. CASE q = rank
      BY <1>5, <2>3, <2>4, <3>1
    <3>2. CASE q # rank
      <4>1. ordered_items \notin Grouping!Begin(q) .. Grouping!End(q) - 1
        BY <1>1, <1>5, <1>9, <3>2, SlicesApart
      <4>2. ordered_items \notin c .. d - 1
        BY <2>3, <4>1
      <4> QED BY <2>4, <4>2
    <3> QED BY <3>1, <3>2
  <2>7. there \notin c .. f - 1
    <3>1. CASE q = t
      <4>1. f = there
        BY <1>6, <2>3, <3>1
      <4> QED BY <2>4, <4>1
    <3>2. CASE q # t
      <4>1. there \notin Grouping!Begin(q) .. Grouping!End(q) - 1
        BY <1>1, <1>6, <3>2, SlicesApart
      <4>2. there \notin c .. d - 1
        BY <2>3, <4>1
      <4> QED BY <2>4, <4>2
    <3> QED BY <3>1, <3>2
  <2>8. \A x \in c .. f - 1 : rank_of[send_buffer'[x]] = q
    <3> SUFFICES ASSUME NEW x \in c .. f - 1 PROVE rank_of[send_buffer'[x]] = q
      OBVIOUS
    <3>1. x \in 0 .. k - 1
      BY <1>1, <2>4
    <3>2. x # there /\ x # ordered_items
      BY <2>6, <2>7
    <3> QED BY <1>10, <2>5, <3>1, <3>2
  <2>9. CASE q = t
    <3>1. ~ (t < rank)
      BY <1>1, <1>6
    <3>2. Filled(q)' = there + 1
      BY <1>3, <1>16, <2>9, <3>1 DEF Filled
    <3>3. f = there /\ c = b /\ d = e
      BY <1>6, <1>7, <2>3, <2>9
    <3>4. there + 1 \in c .. d
      BY <1>8, <3>3
    <3>5. \A x \in c .. (there + 1) - 1 : x = there \/ x \in c .. f - 1
      BY <1>8, <3>3
    <3>6. rank_of[send_buffer'[there]] = q
      BY <1>4, <1>10, <1>12, <2>9
    <3>7. \A x \in c .. (there + 1) - 1 : rank_of[send_buffer'[x]] = q
      BY <2>8, <3>5, <3>6
    <3>8. ~ (q < rank) /\ q # rank
      BY <1>3, <2>9, <3>1
    <3> QED BY <2>1, <2>3, <3>2, <3>4, <3>7, <3>8
  <2>10. CASE q # t
    <3>1. Filled(q)' = Filled(q)
      BY <1>3, <1>16, <2>1, <2>10 DEF Filled
    <3> QED BY <1>16, <2>1, <2>2, <2>3, <2>8, <2>10, <3>1
  <2> QED BY <2>9, <2>10
<1>18. Grouping!End(rank)' = Grouping!End(rank)
  BY <1>3, SlicesStay DEF Grouping!End
<1>19. rank \in 0 .. WorldSize /\ rank_end \in 0 .. MaxItems
  BY DEF GroupingInv
<1> QED BY <1>3, <1>5, <1>15, <1>16, <1>17, <1>18, <1>19 DEF GroupingInv, Grouping!Ranks

\* Behind the last place of a slice the next one begins.
LEMMA LeaveRankKept ==
  ASSUME GroupingInv, Grouping!LeaveRank
  PROVE  GroupingInv'
<1>1. PICK k \in 0 .. MaxItems :
        /\ rank_of \in [0 .. k - 1 -> Grouping!Ranks] /\ WorldSize \in Nat
        /\ k \in Nat /\ MaxItems \in Nat
        /\ \A q \in Grouping!Ranks :
             /\ q \in Nat /\ q < WorldSize
             /\ Grouping!Begin(q) \in 0 .. k /\ Grouping!End(q) \in 0 .. k
             /\ Filled(q) \in Int
             /\ Grouping!Begin(q) <= Filled(q) /\ Filled(q) <= Grouping!End(q)
        /\ rank \in Nat /\ ordered_items \in Nat /\ rank_end \in Nat
        /\ grouping # "done" => rank \in Grouping!Ranks
  BY GroupingFacts
<1>2. /\ grouping = "items" /\ ordered_items >= rank_end
      /\ grouping' = (IF rank + 1 = WorldSize THEN "done" ELSE "rank")
      /\ rank' = rank + 1
      /\ rank_of' = rank_of /\ send_buffer' = send_buffer /\ send_displs' = send_displs
      /\ rank_end' = rank_end /\ ordered_items' = ordered_items
  BY DEF Grouping!LeaveRank
<1>3. /\ GroupingArrays /\ SlicesInv /\ rank \in Grouping!Ranks
      /\ rank_end = Grouping!End(rank) /\ Filled(rank) = ordered_items
      /\ rank < WorldSize
  BY <1>1, <1>2 DEF GroupingInv, Filled
<1>4. ordered_items = Grouping!End(rank) /\ Grouping!End(rank) = Grouping!Begin(rank + 1)
  <2>1. PICK e : e = Grouping!End(rank)
    OBVIOUS
  <2>2. e \in Int /\ ordered_items \in Int /\ ordered_items >= e /\ ordered_items <= e
    BY <1>1, <1>2, <1>3, <2>1
  <2>3. ordered_items = Grouping!End(rank)
    BY <2>1, <2>2
  <2>4. Grouping!End(rank) = Grouping!Begin(rank + 1)
    BY <1>1, <1>3, SliceFacts
  <2> QED BY <2>3, <2>4
<1>5. GroupingArrays'
  BY <1>2, <1>3, SlicesStay DEF GroupingArrays, Grouping!NothingLost
<1>6. SlicesInv'
  <2> SUFFICES ASSUME NEW q \in Grouping!Ranks
               PROVE  /\ Filled(q)' \in Grouping!Begin(q)' .. Grouping!End(q)'
                      /\ \A x \in Grouping!Begin(q)' .. Filled(q)' - 1 : rank_of[send_buffer[x]] = q
                      /\ q < rank + 1 => send_displs[q] = Grouping!Begin(q)'
    BY <1>2 DEF SlicesInv, Grouping!Ranks
  <2>1. Grouping!Begin(q)' = Grouping!Begin(q) /\ Grouping!End(q)' = Grouping!End(q)
    BY <1>2, SlicesStay
  <2>2. /\ Filled(q) \in Grouping!Begin(q) .. Grouping!End(q)
        /\ \A x \in Grouping!Begin(q) .. Filled(q) - 1 : rank_of[send_buffer[x]] = q
        /\ q < rank \/ q = rank => send_displs[q] = Grouping!Begin(q)
    BY <1>2, <1>3 DEF SlicesInv
  <2>3. q < rank + 1 => q < rank \/ q = rank
    BY <1>1
  <2>4. Filled(q)' = Filled(q)
    <3>1. CASE q < rank
      <4>1. q < rank + 1
        BY <1>1, <3>1
      <4> QED BY <1>2, <2>1, <3>1, <4>1 DEF Filled
    <3>2. CASE q = rank
      <4>1. q < rank + 1
        BY <1>1, <3>2
      <4>2. Filled(q)' = Grouping!End(q)
        BY <1>2, <2>1, <4>1 DEF Filled
      <4> QED BY <1>3, <1>4, <3>2, <4>2
    <3>3. CASE ~ (q < rank) /\ q # rank
      <4>1. ~ (q < rank + 1)
        BY <2>3, <3>3
      <4>2. Filled(q)' = send_displs[q]
        BY <1>2, <4>1 DEF Filled
      <4>3. Filled(q) = send_displs[q]
        BY <3>3 DEF Filled
      <4> QED BY <4>2, <4>3
    <3> QED BY <3>1, <3>2, <3>3
  <2> QED BY <2>1, <2>2, <2>3, <2>4
<1>7. /\ rank' \in 0 .. WorldSize
      /\ grouping' = "rank" => rank' < WorldSize
      /\ grouping' = "done" => rank' = WorldSize
      /\ grouping' \in {"rank", "done"}
  BY <1>1, <1>2, <1>3
<1>8. (Grouping!Begin(rank))' = Grouping!Begin(rank + 1)
  BY <1>2 DEF Grouping!Begin, Grouping!Items
<1>9. /\ send_displs \in [Grouping!Ranks -> 0 .. MaxItems]
       /\ rank_end \in 0 .. MaxItems /\ ordered_items \in 0 .. MaxItems
  BY DEF GroupingInv
<1> QED BY <1>2, <1>4, <1>5, <1>6, <1>7, <1>8, <1>9 DEF GroupingInv, Grouping!Ranks

\* The other pieces leave the buffer alone.
LEMMA GroupingUnchanged ==
  ASSUME GroupingInv, UNCHANGED groupingVars
  PROVE  GroupingInv'
<1>1. /\ rank_of' = rank_of /\ send_buffer' = send_buffer /\ send_displs' = send_displs
      /\ grouping' = grouping /\ rank' = rank /\ rank_end' = rank_end
      /\ ordered_items' = ordered_items
  BY DEF groupingVars
<1>2. Grouping!Begin(rank)' = Grouping!Begin(rank) /\ Grouping!End(rank)' = Grouping!End(rank)
  BY <1>1 DEF Grouping!Begin, Grouping!End, Grouping!Items, Grouping!send_counts
<1>3. GroupingArrays'
  BY <1>1, SlicesStay DEF GroupingInv, GroupingArrays, Grouping!NothingLost
<1>4. \A q : Filled(q)' = Filled(q)
  BY <1>1, SlicesStay DEF Filled
<1>5. SlicesInv'
  <2>1. \A q : Grouping!Begin(q)' = Grouping!Begin(q) /\ Grouping!End(q)' = Grouping!End(q)
    BY <1>1, SlicesStay
  <2>2. SlicesInv
    BY DEF GroupingInv
  <2> QED BY <1>1, <1>4, <2>1, <2>2 DEF SlicesInv, Grouping!Ranks
<1> QED BY <1>1, <1>2, <1>3, <1>5 DEF GroupingInv, Grouping!Ranks

\* What the iterations keep is what is asked of them.
LEMMA GroupingDone == GroupingInv => Grouping!PartitionInv
<1> SUFFICES ASSUME GroupingInv PROVE Grouping!PartitionInv
  OBVIOUS
<1>1. Grouping!TypeOK /\ Grouping!NothingLost
  BY DEF GroupingInv, GroupingArrays, Grouping!TypeOK
<1>2. Grouping!SwapsStayInSlice
  <2> SUFFICES ASSUME grouping = "items", ordered_items < rank_end
               PROVE  /\ ordered_items \in Grouping!Items
                      /\ Grouping!Target >= rank
                      /\ Grouping!Target > rank =>
                           send_displs[Grouping!Target]
                             \in Grouping!Begin(Grouping!Target) .. Grouping!End(Grouping!Target) - 1
    BY DEF Grouping!SwapsStayInSlice
  <2>0. PICK t : t = Grouping!Target
    OBVIOUS
  <2>1. PICK k \in 0 .. MaxItems :
          /\ rank_of \in [0 .. k - 1 -> Grouping!Ranks] /\ Grouping!Items = 0 .. k - 1
          /\ k \in Nat
          /\ \A q \in Grouping!Ranks :
               /\ q \in Nat
               /\ Grouping!Begin(q) \in 0 .. k /\ Grouping!End(q) \in 0 .. k
          /\ rank \in Nat /\ ordered_items \in Nat
          /\ rank \in Grouping!Ranks
    BY GroupingFacts
  <2>2. CASE t # rank
    <3>1. /\ ordered_items \in Grouping!Items
          /\ t \in Grouping!Ranks /\ t > rank
          /\ send_displs[t] \in Grouping!Begin(t) .. Grouping!End(t) - 1
      BY <2>0, <2>2, CursorInSlice
    <3>2. t >= rank
      BY <2>1, <3>1
    <3> QED BY <2>0, <3>1, <3>2
  <2>3. CASE t = rank
    <3>1. rank_end = Grouping!End(rank) /\ Grouping!End(rank) \in 0 .. k
      BY <2>1 DEF GroupingInv
    <3>2. ordered_items \in Grouping!Items
      BY <2>1, <3>1
    <3>3. t >= rank /\ ~ (t > rank)
      BY <2>1, <2>3
    <3> QED BY <2>0, <3>2, <3>3
  <2> QED BY <2>2, <2>3
<1>3. Grouping!PartitionedAtEnd
  <2> SUFFICES ASSUME grouping = "done", NEW q \in Grouping!Ranks
               PROVE  /\ send_displs[q] = Grouping!Begin(q)
                      /\ \A x \in Grouping!Begin(q) .. Grouping!End(q) - 1 :
                           rank_of[send_buffer[x]] = q
    BY DEF Grouping!PartitionedAtEnd
  <2>1. q < rank
    <3>1. \A o \in Grouping!Ranks : o < WorldSize
      BY GroupingFacts
    <3> QED BY <3>1 DEF GroupingInv
  <2>2. Filled(q) = Grouping!End(q)
    BY <2>1 DEF Filled
  <2> QED BY <2>1, <2>2 DEF GroupingInv, SlicesInv
<1> QED BY <1>1, <1>2, <1>3 DEF Grouping!PartitionInv

\* For every buffer and number of ranks, grouping loses and duplicates no item,
\* swaps only into slices that are not finished, and ends with every item in the
\* slice of its destination and send_displs as it was (inplace_partition_by_rank).
THEOREM GroupingIsRight == PiecesSpec => []PartitionInv
<1>1. PiecesInit => GroupingInv
  BY GroupingInitial DEF PiecesInit
<1>2. GroupingInv /\ [PiecesNext]_piecesVars => GroupingInv'
  <2> SUFFICES ASSUME GroupingInv, [PiecesNext]_piecesVars PROVE GroupingInv'
    OBVIOUS
  <2>1. CASE Grouping!Next
    <3>1. CASE Grouping!Returned
      <4>1. UNCHANGED groupingVars
        BY <3>1 DEF Grouping!Returned, Grouping!vars, groupingVars
      <4> QED BY <4>1, GroupingUnchanged
    <3> QED BY <2>1, <3>1, EnterRankKept, KeepItemKept, SwapItemKept, LeaveRankKept
            DEF Grouping!Next
  <2>2. CASE UNCHANGED groupingVars
    BY <2>2, GroupingUnchanged
  <2> QED BY <2>1, <2>2 DEF PiecesNext, piecesVars, GroupingStep
<1>3. GroupingInv => PartitionInv
  BY GroupingDone DEF PartitionInv
<1> QED BY <1>1, <1>2, <1>3, PTL DEF PiecesSpec
-----------------------------------------------------------------------------
(* Arrays of bits                                                          *)

\* The place of an index in the words, and the index at a place.
LEMMA PlaceOf ==
  ASSUME NEW i \in Nat
  PROVE  /\ i = (i \div WordBits) * WordBits + (i % WordBits)
         /\ i \div WordBits \in Nat /\ i % WordBits \in BitArrays!Bits
BY QuotientAndRest, PiecesAssumption DEF BitArrays!Bits

\* The index of a bit tells its word and its place in the word.
LEMMA IndexAt ==
  ASSUME NEW w \in Nat, NEW b \in BitArrays!Bits
  PROVE  /\ w * WordBits + b \in Nat
         /\ (w * WordBits + b) \div WordBits = w
         /\ (w * WordBits + b) % WordBits = b
<1>1. WordBits \in Nat \ {0} /\ b \in 0 .. WordBits - 1
  BY PiecesAssumption DEF BitArrays!Bits
<1>2. w * WordBits + b \in Nat
  BY <1>1
<1> QED BY <1>1, <1>2, RestOf

\* Indices are in the order of their places.
LEMMA PlacesInOrder ==
  ASSUME NEW v \in Nat, NEW w \in Nat, v < w,
         NEW b \in BitArrays!Bits, NEW c \in BitArrays!Bits
  PROVE  v * WordBits + b < w * WordBits + c
<1>1. WordBits \in Nat \ {0} /\ b \in 0 .. WordBits - 1 /\ c \in 0 .. WordBits - 1
  BY PiecesAssumption DEF BitArrays!Bits
<1>2. w * WordBits >= v * WordBits + WordBits
  BY <1>1
<1>3. v * WordBits \in Int /\ w * WordBits \in Int
  BY <1>1
<1> QED BY <1>1, <1>2, <1>3

\* The mask of the bits below an end is right in every word.
LEMMA BelowEnd ==
  ASSUME NEW i \in Nat, NEW end \in Nat
  PROVE  i % WordBits \in BitArrays!Below(i \div WordBits, end) <=> i < end
<1>1. PICK v, b, w, c : /\ v = i \div WordBits /\ b = i % WordBits
                        /\ w = end \div WordBits /\ c = end % WordBits
  OBVIOUS
<1>2. /\ v \in Nat /\ w \in Nat /\ b \in BitArrays!Bits /\ c \in BitArrays!Bits
      /\ i = v * WordBits + b /\ end = w * WordBits + c
  BY <1>1, PlaceOf
<1>3. WordBits \in Nat \ {0} /\ BitArrays!Bits = 0 .. WordBits - 1
  BY PiecesAssumption DEF BitArrays!Bits
<1>4. BitArrays!Below(v, end) =
        IF v < w THEN BitArrays!Bits ELSE IF v = w THEN 0 .. c - 1 ELSE {}
  BY <1>1 DEF BitArrays!Below, BitArrays!Mask
<1>5. CASE v < w
  <2>1. i < end
    BY <1>2, <1>5, PlacesInOrder
  <2> QED BY <1>1, <1>2, <1>4, <1>5, <2>1
<1>6. CASE v = w
  <2>1. PICK x : x = v * WordBits
    OBVIOUS
  <2>2. x \in Int /\ i = x + b /\ end = x + c
    BY <1>2, <1>3, <1>6, <2>1
  <2>3. i < end <=> b < c
    BY <1>2, <1>3, <2>2
  <2>4. ~ (v < w)
    BY <1>2, <1>6
  <2>5. b \in 0 .. c - 1 <=> b < c
    BY <1>2, <1>3
  <2> QED BY <1>1, <1>4, <1>6, <2>3, <2>4, <2>5
<1>7. CASE v > w
  <2>1. end < i
    BY <1>2, <1>7, PlacesInOrder
  <2>2. ~ (v < w) /\ v # w
    BY <1>2, <1>7
  <2>3. ~ (i < end)
    BY <2>1
  <2> QED BY <1>1, <1>4, <2>2, <2>3
<1> QED BY <1>2, <1>5, <1>6, <1>7

\* An index below an end is in the words counted for it.
LEMMA WordsCounted ==
  ASSUME NEW n \in Nat
  PROVE  /\ BitArrays!Count(n) \in Nat
         /\ \A i \in Nat : i < n => i \div WordBits < BitArrays!Count(n)
         /\ \A m \in Nat : m <= n => BitArrays!Count(m) <= BitArrays!Count(n)
<1>1. WordBits \in Nat \ {0}
  BY PiecesAssumption
<1>2. ASSUME NEW m \in Nat
      PROVE  /\ m + WordBits - 1 \in Nat /\ BitArrays!Count(m) = (m + WordBits - 1) \div WordBits
             /\ BitArrays!Count(m) \in Nat
  <2>1. m + WordBits - 1 \in Nat
    BY <1>1
  <2>2. (m + WordBits - 1) \div WordBits \in Nat
    BY <2>1, PlaceOf
  <2> QED BY <2>1, <2>2 DEF BitArrays!Count
<1>3. ASSUME NEW x \in Nat, NEW y \in Nat, x <= y
      PROVE  x \div WordBits <= y \div WordBits
  <2>1. PICK v, b, w, c : /\ v = x \div WordBits /\ b = x % WordBits
                          /\ w = y \div WordBits /\ c = y % WordBits
    OBVIOUS
  <2>2. /\ v \in Nat /\ w \in Nat /\ b \in BitArrays!Bits /\ c \in BitArrays!Bits
        /\ x = v * WordBits + b /\ y = w * WordBits + c
    BY <2>1, PlaceOf
  <2>3. w < v => y < x
    BY <2>2, PlacesInOrder
  <2>4. v <= w
    BY <1>3, <2>2, <2>3
  <2> QED BY <2>1, <2>4
<1>4. ASSUME NEW i \in Nat, i < n
      PROVE  i \div WordBits < BitArrays!Count(n)
  <2>1. PICK v, b : v = i \div WordBits /\ b = i % WordBits
    OBVIOUS
  <2>2. v \in Nat /\ b \in 0 .. WordBits - 1 /\ i = v * WordBits + b
    BY <2>1, PlaceOf DEF BitArrays!Bits
  <2>3. PICK x : x = v * WordBits
    OBVIOUS
  <2>4. x \in Nat
    BY <1>1, <2>2, <2>3
  <2>5. (v + 1) * WordBits + 0 = x + WordBits
    BY <1>1, <2>2, <2>3
  <2>6. (v + 1) * WordBits + 0 <= n + WordBits - 1 /\ (v + 1) * WordBits + 0 \in Nat
    BY <1>1, <1>4, <2>2, <2>3, <2>4, <2>5
  <2>7. ((v + 1) * WordBits + 0) \div WordBits = v + 1
    <3>1. 0 \in BitArrays!Bits /\ v + 1 \in Nat
      BY <1>1, <2>2 DEF BitArrays!Bits
    <3> QED BY <3>1, IndexAt
  <2>8. v + 1 <= BitArrays!Count(n)
    BY <1>2, <1>3, <2>6, <2>7
  <2> QED BY <1>2, <2>1, <2>2, <2>8
<1>5. ASSUME NEW m \in Nat, m <= n
      PROVE  BitArrays!Count(m) <= BitArrays!Count(n)
  <2>1. m + WordBits - 1 <= n + WordBits - 1
    BY <1>1, <1>5
  <2> QED BY <1>2, <1>3, <2>1
<1> QED BY <1>2, <1>4, <1>5

\* Of some bits one is the least.
LEMMA LeastBit ==
  ASSUME NEW S \in SUBSET Nat, S # {}
  PROVE  BitArrays!Min(S) \in S /\ \A y \in S : BitArrays!Min(S) <= y
BY LeastOfSome DEF Min, BitArrays!Min

\* What is least in a set of the abstract array is its minimum.
LEMMA LeastIndex ==
  ASSUME NEW S \in SUBSET Nat, NEW x \in S, \A y \in S : x <= y
  PROVE  BitArrays!Sets!Min(S) = x
BY LeastIs DEF Min, BitArrays!Sets!Min

\* The indices whose bits are 1, per array.
SetOf(data) == {i \in BitArrays!All : BitArrays!get(data, i)}
SetsOf == [a \in BitArrays!Arrays |-> SetOf(words[a])]

WordArrays == [0 .. BitArrays!Count(size) - 1 -> SUBSET BitArrays!Bits]

\* A traversal has still to visit bits of the word it has read.
BitsInv ==
  /\ size \in Nat
  /\ words \in [BitArrays!Arrays -> WordArrays]
  /\ visit # BitArrays!NoVisit =>
       /\ visit \in [of : BitArrays!Arrays, end : 0 .. size, w : Nat, word : SUBSET BitArrays!Bits]
       /\ visit.word \subseteq BitArrays!Below(visit.w, visit.end)

\* Where an index is in the words, there is a word.
LEMMA WordOf ==
  ASSUME size \in Nat, NEW data \in WordArrays, NEW i \in BitArrays!All
  PROVE  /\ i \in Nat /\ i < size
         /\ i \div WordBits \in DOMAIN data
         /\ data[i \div WordBits] \in SUBSET BitArrays!Bits
         /\ i % WordBits \in BitArrays!Bits
<1>1. i \in Nat /\ i < size
  BY DEF BitArrays!All
<1>2. /\ i \div WordBits \in Nat /\ i % WordBits \in BitArrays!Bits
      /\ i \div WordBits < BitArrays!Count(size) /\ BitArrays!Count(size) \in Nat
  BY <1>1, PlaceOf, WordsCounted
<1>3. i \div WordBits \in 0 .. BitArrays!Count(size) - 1
  BY <1>2
<1> QED BY <1>1, <1>2, <1>3 DEF WordArrays

\* Two indices have two places.
LEMMA PlacesApart ==
  ASSUME NEW i \in Nat, NEW k \in Nat, i \div WordBits = k \div WordBits,
         i % WordBits = k % WordBits
  PROVE  i = k
BY PlaceOf

\* clear, fill and set_each change the indices below the end and no other.
LEMMA EndCalls ==
  ASSUME size \in Nat, NEW data \in WordArrays, NEW end \in 0 .. size,
         NEW S \in SUBSET (0 .. end - 1)
  PROVE  /\ BitArrays!clear(data, end) \in WordArrays
         /\ SetOf(BitArrays!clear(data, end)) = SetOf(data) \ (0 .. end - 1)
         /\ BitArrays!fill(data, end) \in WordArrays
         /\ SetOf(BitArrays!fill(data, end)) = SetOf(data) \cup (0 .. end - 1)
         /\ BitArrays!set_each(data, end, S) \in WordArrays
         /\ SetOf(BitArrays!set_each(data, end, S)) = (SetOf(data) \ (0 .. end - 1)) \cup S
<1>1. ASSUME NEW w \in Nat PROVE BitArrays!Below(w, end) \in SUBSET BitArrays!Bits
  <2>1. WordBits \in Nat \ {0}
    BY PiecesAssumption
  <2>2. end % WordBits \in BitArrays!Bits
    BY PlaceOf
  <2>3. 0 .. (end % WordBits) - 1 \subseteq BitArrays!Bits
    BY <2>1, <2>2 DEF BitArrays!Bits
  <2> QED BY <2>3 DEF BitArrays!Below, BitArrays!Mask
<1>2. DOMAIN data \subseteq Nat /\ \A w \in DOMAIN data : data[w] \in SUBSET BitArrays!Bits
  BY DEF WordArrays
<1>3. /\ BitArrays!clear(data, end) \in WordArrays
      /\ BitArrays!fill(data, end) \in WordArrays
      /\ BitArrays!set_each(data, end, S) \in WordArrays
  BY <1>1, <1>2 DEF WordArrays, BitArrays!clear, BitArrays!fill, BitArrays!set_each
<1>4. ASSUME NEW i \in BitArrays!All
      PROVE  /\ i \in Nat /\ i < size
             /\ BitArrays!get(BitArrays!clear(data, end), i)
                  <=> BitArrays!get(data, i) /\ ~ (i < end)
             /\ BitArrays!get(BitArrays!fill(data, end), i)
                  <=> BitArrays!get(data, i) \/ i < end
             /\ BitArrays!get(BitArrays!set_each(data, end, S), i)
                  <=> (BitArrays!get(data, i) /\ ~ (i < end)) \/ (i < end /\ i \in S)
  <2>1. PICK w, b : w = i \div WordBits /\ b = i % WordBits
    OBVIOUS
  <2>2. i \in Nat /\ i < size /\ w \in DOMAIN data /\ b \in BitArrays!Bits
    BY <2>1, WordOf
  <2>3. b \in BitArrays!Below(w, end) <=> i < end
    BY <2>1, <2>2, BelowEnd
  <2>4. i = w * WordBits + b
    BY <2>1, <2>2, PlaceOf
  <2>5. \A d : BitArrays!get(d, i) <=> b \in d[w]
    BY <2>1 DEF BitArrays!get
  <2>6. /\ BitArrays!clear(data, end)[w] = data[w] \ BitArrays!Below(w, end)
        /\ BitArrays!fill(data, end)[w] = data[w] \cup BitArrays!Below(w, end)
        /\ BitArrays!set_each(data, end, S)[w] =
             (data[w] \ BitArrays!Below(w, end))
               \cup {x \in BitArrays!Below(w, end) : w * WordBits + x \in S}
    BY <2>2 DEF BitArrays!clear, BitArrays!fill, BitArrays!set_each
  <2>7. BitArrays!get(BitArrays!clear(data, end), i)
          <=> BitArrays!get(data, i) /\ ~ (i < end)
    BY <2>3, <2>5, <2>6
  <2>8. BitArrays!get(BitArrays!fill(data, end), i)
          <=> BitArrays!get(data, i) \/ i < end
    BY <2>3, <2>5, <2>6
  <2>9. BitArrays!get(BitArrays!set_each(data, end, S), i)
          <=> (BitArrays!get(data, i) /\ ~ (i < end)) \/ (i < end /\ i \in S)
    BY <2>3, <2>4, <2>5, <2>6
  <2> QED BY <2>2, <2>7, <2>8, <2>9
<1>5. \A x \in 0 .. end - 1 : x \in BitArrays!All /\ x < end
  BY DEF BitArrays!All
<1>6. \A x \in Nat : x < end <=> x \in 0 .. end - 1
  OBVIOUS
<1>7. SetOf(BitArrays!clear(data, end)) = SetOf(data) \ (0 .. end - 1)
  BY <1>4, <1>5, <1>6 DEF SetOf
<1>8. SetOf(BitArrays!fill(data, end)) = SetOf(data) \cup (0 .. end - 1)
  BY <1>4, <1>5, <1>6 DEF SetOf
<1>9. SetOf(BitArrays!set_each(data, end, S)) = (SetOf(data) \ (0 .. end - 1)) \cup S
  BY <1>4, <1>5, <1>6 DEF SetOf
<1> QED BY <1>3, <1>7, <1>8, <1>9

\* set, unset and set_to change one index.
LEMMA BitCalls ==
  ASSUME size \in Nat, NEW data \in WordArrays, NEW i \in BitArrays!All
  PROVE  /\ BitArrays!set(data, i) \in WordArrays
         /\ SetOf(BitArrays!set(data, i)) = SetOf(data) \cup {i}
         /\ BitArrays!unset(data, i) \in WordArrays
         /\ SetOf(BitArrays!unset(data, i)) = SetOf(data) \ {i}
         /\ \A k \in Nat : k # i =>
              BitArrays!get(BitArrays!unset(data, i), k) = BitArrays!get(data, k)
<1>1. PICK w, b : w = i \div WordBits /\ b = i % WordBits
  OBVIOUS
<1>2. i \in Nat /\ w \in DOMAIN data /\ b \in BitArrays!Bits
  BY <1>1, WordOf
<1>3. /\ BitArrays!set(data, i) = [data EXCEPT ![w] = @ \cup {b}]
      /\ BitArrays!unset(data, i) = [data EXCEPT ![w] = @ \ {b}]
  BY <1>1 DEF BitArrays!set, BitArrays!unset
<1>4. BitArrays!set(data, i) \in WordArrays /\ BitArrays!unset(data, i) \in WordArrays
  <2>1. data[w] \in SUBSET BitArrays!Bits
    BY <1>2 DEF WordArrays
  <2> QED BY <1>2, <1>3, <2>1 DEF WordArrays
<1>5. ASSUME NEW k \in Nat
      PROVE  /\ k = i => BitArrays!get(BitArrays!set(data, i), k) /\ ~ BitArrays!get(BitArrays!unset(data, i), k)
             /\ k # i => /\ BitArrays!get(BitArrays!set(data, i), k) = BitArrays!get(data, k)
                         /\ BitArrays!get(BitArrays!unset(data, i), k) = BitArrays!get(data, k)
  <2>1. PICK v, c : v = k \div WordBits /\ c = k % WordBits
    OBVIOUS
  <2>2. k # i => v # w \/ c # b
    BY <1>1, <1>2, <2>1, PlacesApart
  <2>3. \A d : BitArrays!get(d, k) = (c \in d[v])
    BY <2>1 DEF BitArrays!get
  <2>4. k = i => v = w /\ c = b
    BY <1>1, <2>1
  <2>5. v # w => /\ BitArrays!set(data, i)[v] = data[v]
                 /\ BitArrays!unset(data, i)[v] = data[v]
    BY <1>2, <1>3
  <2>6. /\ BitArrays!set(data, i)[w] = data[w] \cup {b}
        /\ BitArrays!unset(data, i)[w] = data[w] \ {b}
    BY <1>2, <1>3
  <2>7. k = i => BitArrays!get(BitArrays!set(data, i), k) /\ ~ BitArrays!get(BitArrays!unset(data, i), k)
    BY <2>3, <2>4, <2>6
  <2>8. ASSUME k # i
        PROVE  /\ BitArrays!get(BitArrays!set(data, i), k) = BitArrays!get(data, k)
               /\ BitArrays!get(BitArrays!unset(data, i), k) = BitArrays!get(data, k)
    <3>1. CASE v # w
      BY <2>3, <2>5, <3>1
    <3>2. CASE v = w
      <4>1. c # b
        BY <2>2, <2>8, <3>2
      <4>2. /\ (c \in data[w] \cup {b}) = (c \in data[w])
            /\ (c \in data[w] \ {b}) = (c \in data[w])
        BY <4>1
      <4> QED BY <2>3, <2>6, <3>2, <4>2
    <3> QED BY <3>1, <3>2
  <2> QED BY <2>7, <2>8
<1>6. i \in BitArrays!All /\ BitArrays!All \subseteq Nat
  BY DEF BitArrays!All
<1>7. SetOf(BitArrays!set(data, i)) = SetOf(data) \cup {i}
  BY <1>5, <1>6 DEF SetOf
<1>8. SetOf(BitArrays!unset(data, i)) = SetOf(data) \ {i}
  BY <1>5, <1>6 DEF SetOf
<1> QED BY <1>4, <1>5, <1>7, <1>8

\* A call gives an array other words, and the abstract array their indices.
LEMMA CallStep ==
  ASSUME BitsInv, NEW a \in BitArrays!Arrays, NEW data \in WordArrays, NEW x,
         BitArrays!Becomes(a, data, x)
  PROVE  BitsInv' /\ BitArrays!Sets!Idle /\ BitArrays!Sets!Becomes(a, SetOf(data), x)
<1>1. /\ visit = BitArrays!NoVisit /\ visit' = visit /\ size' = size
      /\ words' = [words EXCEPT ![a] = data] /\ answer' = x
  BY DEF BitArrays!Becomes
<1>2. size \in Nat /\ words \in [BitArrays!Arrays -> WordArrays]
  BY DEF BitsInv
<1>3. WordArrays' = WordArrays
  BY <1>1 DEF WordArrays, BitArrays!Count
<1>4. words' \in [BitArrays!Arrays -> WordArrays]
  BY <1>1, <1>2
<1>5. BitsInv'
  BY <1>1, <1>2, <1>3, <1>4 DEF BitsInv, BitArrays!NoVisit
<1>6. BitArrays!Sets!Idle
  <2>1. visit.of = None /\ visit'.of = None
    BY <1>1 DEF BitArrays!NoVisit
  <2>2. BitArrays!ToVisit = {} /\ BitArrays!ToVisit' = {}
    BY <1>1 DEF BitArrays!ToVisit, BitArrays!NoVisit
  <2> QED BY <1>1, <2>1, <2>2 DEF BitArrays!Sets!Idle
<1>7. SetsOf' = [SetsOf EXCEPT ![a] = SetOf(data)]
  <2>1. \A d : SetOf(d)' = SetOf(d)
    BY <1>1 DEF SetOf, BitArrays!All
  <2> QED BY <1>1, <1>2, <2>1 DEF SetsOf
<1>8. BitArrays!Sets!Becomes(a, SetOf(data), x)
  BY <1>1, <1>7 DEF BitArrays!Sets!Becomes, SetsOf, SetOf
<1> QED BY <1>5, <1>6, <1>8

\* What an array holds.
LEMMA ArrayFacts ==
  ASSUME BitsInv, NEW a \in BitArrays!Arrays
  PROVE  size \in Nat /\ words[a] \in WordArrays /\ SetsOf[a] = SetOf(words[a])
BY DEF BitsInv, SetsOf

\* Calls with an end.
LEMMA EndCallStep ==
  ASSUME BitsInv, NEW a \in BitArrays!Arrays, NEW end \in 0 .. size,
         \/ BitArrays!Clear(a, end) \/ BitArrays!Fill(a, end)
         \/ \E S \in SUBSET (0 .. end - 1) : BitArrays!SetEach(a, end, S)
  PROVE  BitsInv' /\ BitArrays!Sets!Change
<1>1. size \in Nat /\ words[a] \in WordArrays /\ SetsOf[a] = SetOf(words[a])
  BY ArrayFacts
<1>2. CASE BitArrays!Clear(a, end)
  <2>1. /\ BitArrays!clear(words[a], end) \in WordArrays
        /\ SetOf(BitArrays!clear(words[a], end)) = SetsOf[a] \ (0 .. end - 1)
    BY <1>1, EndCalls
  <2>2. /\ BitsInv' /\ BitArrays!Sets!Idle
        /\ BitArrays!Sets!Becomes(a, SetsOf[a] \ (0 .. end - 1), <<"clear", end>>)
    BY <1>2, <2>1, CallStep DEF BitArrays!Clear
  <2> QED BY <2>2 DEF BitArrays!Sets!Change, SetsOf, SetOf
<1>3. CASE BitArrays!Fill(a, end)
  <2>1. /\ BitArrays!fill(words[a], end) \in WordArrays
        /\ SetOf(BitArrays!fill(words[a], end)) = SetsOf[a] \cup (0 .. end - 1)
    BY <1>1, EndCalls
  <2>2. /\ BitsInv' /\ BitArrays!Sets!Idle
        /\ BitArrays!Sets!Becomes(a, SetsOf[a] \cup (0 .. end - 1), <<"fill", end>>)
    BY <1>3, <2>1, CallStep DEF BitArrays!Fill
  <2> QED BY <2>2 DEF BitArrays!Sets!Change, SetsOf, SetOf
<1>4. CASE \E S \in SUBSET (0 .. end - 1) : BitArrays!SetEach(a, end, S)
  <2>0. PICK S \in SUBSET (0 .. end - 1) : BitArrays!SetEach(a, end, S)
    BY <1>4
  <2>1. /\ BitArrays!set_each(words[a], end, S) \in WordArrays
        /\ SetOf(BitArrays!set_each(words[a], end, S)) = (SetsOf[a] \ (0 .. end - 1)) \cup S
    BY <1>1, EndCalls
  <2>2. /\ BitsInv' /\ BitArrays!Sets!Idle
        /\ BitArrays!Sets!Becomes(a, (SetsOf[a] \ (0 .. end - 1)) \cup S, <<"set_each", end, S>>)
    BY <2>0, <2>1, CallStep DEF BitArrays!SetEach
  <2> QED BY <2>2 DEF BitArrays!Sets!Change, SetsOf, SetOf
<1> QED BY <1>2, <1>3, <1>4

\* Calls for one index, and the calls for whole arrays.
LEMMA BitCallStep ==
  ASSUME BitsInv, NEW a \in BitArrays!Arrays, NEW i \in BitArrays!All,
         \/ BitArrays!Get(a, i) \/ BitArrays!Set(a, i) \/ BitArrays!Unset(a, i)
         \/ \E f \in BOOLEAN : BitArrays!SetTo(a, i, f) \/ BitArrays!GetSet(a, i, f)
  PROVE  BitsInv' /\ BitArrays!Sets!Change
<1>1. size \in Nat /\ words[a] \in WordArrays /\ SetsOf[a] = SetOf(words[a])
  BY ArrayFacts
<1>2. i \in 0 .. size - 1
  BY DEF BitArrays!All
<1>3. BitArrays!Got(a, i) = <<"get", i, i \in SetsOf[a]>>
  <2>1. BitArrays!get(words[a], i) = (i \in SetsOf[a])
    BY <1>1 DEF SetOf, BitArrays!get
  <2> QED BY <2>1 DEF BitArrays!Got
<1>4. CASE BitArrays!Get(a, i)
  <2>1. /\ BitsInv' /\ BitArrays!Sets!Idle
        /\ BitArrays!Sets!Becomes(a, SetsOf[a], <<"get", i, i \in SetsOf[a]>>)
    BY <1>1, <1>3, <1>4, CallStep DEF BitArrays!Get
  <2> QED BY <1>2, <2>1 DEF BitArrays!Sets!Change, SetsOf, SetOf
<1>5. ASSUME NEW f \in BOOLEAN,
             BitArrays!Becomes(a, BitArrays!set_to(words[a], i, f), <<"set", i, f>>)
      PROVE  BitsInv' /\ BitArrays!Sets!Change
  <2>1. /\ BitArrays!set_to(words[a], i, f) \in WordArrays
        /\ SetOf(BitArrays!set_to(words[a], i, f))
             = IF f THEN SetsOf[a] \cup {i} ELSE SetsOf[a] \ {i}
    BY <1>1, BitCalls DEF BitArrays!set_to
  <2>2. /\ BitsInv' /\ BitArrays!Sets!Idle
        /\ BitArrays!Sets!Becomes(a, IF f THEN SetsOf[a] \cup {i} ELSE SetsOf[a] \ {i}, <<"set", i, f>>)
    BY <1>5, <2>1, CallStep
  <2> QED BY <1>2, <2>2 DEF BitArrays!Sets!Change, SetsOf, SetOf
<1>6. ASSUME NEW f \in BOOLEAN, BitArrays!GetSet(a, i, f)
      PROVE  BitsInv' /\ BitArrays!Sets!Change
  <2>1. /\ BitArrays!set_to(words[a], i, f) \in WordArrays
        /\ SetOf(BitArrays!set_to(words[a], i, f))
             = IF f THEN SetsOf[a] \cup {i} ELSE SetsOf[a] \ {i}
    BY <1>1, BitCalls DEF BitArrays!set_to
  <2>2. /\ BitsInv' /\ BitArrays!Sets!Idle
        /\ BitArrays!Sets!Becomes(a, IF f THEN SetsOf[a] \cup {i} ELSE SetsOf[a] \ {i},
                                  <<"get", i, i \in SetsOf[a]>>)
    BY <1>3, <1>6, <2>1, CallStep DEF BitArrays!GetSet
  <2> QED BY <1>2, <2>2 DEF BitArrays!Sets!Change, SetsOf, SetOf
<1>7. BitArrays!Set(a, i) =>
        BitArrays!Becomes(a, BitArrays!set_to(words[a], i, TRUE), <<"set", i, TRUE>>)
  BY DEF BitArrays!Set, BitArrays!set_to
<1>8. BitArrays!Unset(a, i) =>
        BitArrays!Becomes(a, BitArrays!set_to(words[a], i, FALSE), <<"set", i, FALSE>>)
  BY DEF BitArrays!Unset, BitArrays!set_to
<1>9. \A f : BitArrays!SetTo(a, i, f) =>
        BitArrays!Becomes(a, BitArrays!set_to(words[a], i, f), <<"set", i, f>>)
  BY DEF BitArrays!SetTo
<1> QED BY <1>4, <1>5, <1>6, <1>7, <1>8, <1>9

\* Clearing and copying an array keep the invariant and change its set alone.
LEMMA WholeCallStep ==
  ASSUME BitsInv, NEW a \in BitArrays!Arrays, NEW b \in BitArrays!Arrays,
         BitArrays!Zero(a) \/ BitArrays!Copy(a, b)
  PROVE  BitsInv' /\ BitArrays!Sets!Change
<1>1. /\ size \in Nat /\ words[a] \in WordArrays /\ words[b] \in WordArrays
      /\ SetsOf[b] = SetOf(words[b])
  BY ArrayFacts
<1>2. CASE BitArrays!Zero(a)
  <2> DEFINE zeros == [w \in DOMAIN words[a] |-> {}]
  <2>1. zeros \in WordArrays
    BY <1>1 DEF WordArrays
  <2>2. SetOf(zeros) = {}
    <3>1. ASSUME NEW i \in BitArrays!All PROVE ~ BitArrays!get(zeros, i)
      <4>1. i \div WordBits \in DOMAIN words[a]
        BY <1>1, WordOf
      <4> QED BY <4>1 DEF BitArrays!get
    <3> HIDE DEF zeros
    <3> QED BY <3>1 DEF SetOf
  <2>3. BitArrays!Becomes(a, zeros, None)
    BY <1>2 DEF BitArrays!Zero
  <2> HIDE DEF zeros
  <2>4. BitsInv' /\ BitArrays!Sets!Idle /\ BitArrays!Sets!Becomes(a, {}, None)
    BY <2>1, <2>2, <2>3, CallStep
  <2> QED BY <2>4 DEF BitArrays!Sets!Change
<1>3. CASE BitArrays!Copy(a, b)
  <2>1. BitsInv' /\ BitArrays!Sets!Idle /\ BitArrays!Sets!Becomes(a, SetsOf[b], None)
    BY <1>1, <1>3, CallStep DEF BitArrays!Copy
  <2>2. SetsOf[b] \in BitArrays!Sets!Range(SetsOf)
    BY DEF BitArrays!Sets!Range, SetsOf
  <2>3. SetsOf[b] \in {{}} \cup BitArrays!Sets!Range(SetsOf)
    BY <2>2
  <2> QED BY <2>1, <2>3 DEF BitArrays!Sets!Change, SetsOf, SetOf
<1> QED BY <1>2, <1>3

\* With a word read, a traversal has still to visit what there is from it on.
LEMMA LoadStep ==
  ASSUME BitsInv, NEW a \in BitArrays!Arrays, NEW end \in 0 .. size, NEW w \in Nat,
         visit' = BitArrays!Load(a, end, w), words' = words, size' = size
  PROVE  /\ BitsInv' /\ visit'.of = a /\ visit' # BitArrays!NoVisit
         /\ BitArrays!ToVisit' = {i \in 0 .. end - 1 :
                                    i \div WordBits >= w /\ BitArrays!get(words[a], i)}
<1>1. size \in Nat /\ words \in [BitArrays!Arrays -> WordArrays] /\ words[a] \in WordArrays
      /\ end \in Nat /\ end <= size
  BY DEF BitsInv
<1>2. PICK word : word = IF w < BitArrays!Count(end)
                         THEN words[a][w] \cap BitArrays!Below(w, end) ELSE {}
  OBVIOUS
<1>3. visit' = [of |-> a, end |-> end, w |-> w, word |-> word]
  BY <1>2 DEF BitArrays!Load
<1>4. /\ BitArrays!Count(end) \in Nat /\ BitArrays!Count(size) \in Nat
      /\ BitArrays!Count(end) <= BitArrays!Count(size)
  BY <1>1, WordsCounted
<1>5. word \in SUBSET BitArrays!Bits /\ word \subseteq BitArrays!Below(w, end)
  <2>1. CASE w < BitArrays!Count(end)
    <3>1. w \in 0 .. BitArrays!Count(size) - 1
      BY <1>4, <2>1
    <3>2. words[a][w] \in SUBSET BitArrays!Bits
      BY <1>1, <3>1 DEF WordArrays
    <3> QED BY <1>2, <2>1, <3>2
  <2>2. CASE ~ (w < BitArrays!Count(end))
    BY <1>2, <2>2
  <2> QED BY <2>1, <2>2
<1>6. visit' # BitArrays!NoVisit
  <2>1. BitArrays!NoVisit.of = None /\ visit'.of = a
    BY <1>3 DEF BitArrays!NoVisit
  <2> QED BY <2>1, NoneAssumption
<1>7. BitsInv'
  <2>1. WordArrays' = WordArrays
    BY DEF WordArrays, BitArrays!Count
  <2>2. visit' \in [of : BitArrays!Arrays, end : 0 .. size, w : Nat, word : SUBSET BitArrays!Bits]
    BY <1>3, <1>5
  <2>3. visit'.word \subseteq BitArrays!Below(visit'.w, visit'.end)
    BY <1>3, <1>5
  <2> QED BY <1>1, <2>1, <2>2, <2>3 DEF BitsInv
<1>8. ASSUME NEW i \in 0 .. end - 1
      PROVE  (\/ i \div WordBits = w /\ i % WordBits \in word
              \/ i \div WordBits > w /\ BitArrays!get(words[a], i))
             <=> i \div WordBits >= w /\ BitArrays!get(words[a], i)
  <2>1. i \in Nat /\ i < end
    BY <1>1
  <2>2. i \div WordBits \in Nat /\ i \div WordBits < BitArrays!Count(end)
        /\ i % WordBits \in BitArrays!Below(i \div WordBits, end)
    BY <1>1, <2>1, PlaceOf, WordsCounted, BelowEnd
  <2>3. i \div WordBits = w => word = words[a][w] \cap BitArrays!Below(w, end)
    BY <1>2, <2>2
  <2>4. BitArrays!get(words[a], i) = (i % WordBits \in words[a][i \div WordBits])
    BY DEF BitArrays!get
  <2>5. i \div WordBits = w => (i % WordBits \in word <=> BitArrays!get(words[a], i))
    BY <2>2, <2>3, <2>4
  <2>6. i \div WordBits >= w <=> i \div WordBits = w \/ i \div WordBits > w
    BY <2>2
  <2> QED BY <2>5, <2>6
<1>9. BitArrays!ToVisit' = {i \in 0 .. end - 1 :
                              \/ i \div WordBits = w /\ i % WordBits \in word
                              \/ i \div WordBits > w /\ BitArrays!get(words[a], i)}
  BY <1>3, <1>6 DEF BitArrays!ToVisit, BitArrays!get
<1>10. visit'.of = a
  BY <1>3
<1> QED BY <1>6, <1>7, <1>8, <1>9, <1>10

\* A traversal begins with all indices below its end.
LEMMA EachStep ==
  ASSUME BitsInv, NEW a \in BitArrays!Arrays, NEW end \in 0 .. size, BitArrays!Each(a, end)
  PROVE  BitsInv' /\ BitArrays!Sets!Traverse
<1>1. /\ visit = BitArrays!NoVisit /\ visit' = BitArrays!Load(a, end, 0)
      /\ words' = words /\ size' = size /\ answer' = None
  BY DEF BitArrays!Each
<1>2. size \in Nat /\ words[a] \in WordArrays /\ SetsOf[a] = SetOf(words[a])
  BY ArrayFacts
<1>3. /\ BitsInv' /\ visit'.of = a
      /\ BitArrays!ToVisit' = {i \in 0 .. end - 1 :
                                 i \div WordBits >= 0 /\ BitArrays!get(words[a], i)}
  BY <1>1, LoadStep
<1>4. BitArrays!ToVisit' = SetsOf[a] \cap 0 .. end - 1
  <2>1. \A i \in 0 .. end - 1 : i \in BitArrays!All /\ i \div WordBits >= 0
    <3> SUFFICES ASSUME NEW i \in 0 .. end - 1
                 PROVE  i \in BitArrays!All /\ i \div WordBits >= 0
      OBVIOUS
    <3>1. i \in Nat /\ i \in 0 .. size - 1
      BY <1>2
    <3>2. i \div WordBits \in Nat
      BY <3>1, PlaceOf
    <3> QED BY <3>1, <3>2 DEF BitArrays!All
  <2> QED BY <1>2, <1>3, <2>1 DEF SetOf
<1>5. visit.of = None
  BY <1>1 DEF BitArrays!NoVisit
<1>6. SetsOf' = SetsOf
  BY <1>1 DEF SetsOf, SetOf, BitArrays!All, BitArrays!get
<1> QED BY <1>1, <1>3, <1>4, <1>5, <1>6 DEF BitArrays!Sets!Traverse, SetsOf, SetOf

\* What there is to visit in the word read, and behind it.
LEMMA VisitFacts ==
  ASSUME BitsInv, visit # BitArrays!NoVisit
  PROVE  /\ size \in Nat /\ visit.of \in BitArrays!Arrays /\ visit.of # None
         /\ visit.end \in 0 .. size /\ visit.end \in Nat /\ visit.w \in Nat
         /\ visit.word \in SUBSET BitArrays!Bits
         /\ visit.word \subseteq BitArrays!Below(visit.w, visit.end)
         /\ words[visit.of] \in WordArrays
         /\ BitArrays!ToVisit =
              {i \in 0 .. visit.end - 1 :
                 \/ i \div WordBits = visit.w /\ i % WordBits \in visit.word
                 \/ i \div WordBits > visit.w /\ BitArrays!get(words[visit.of], i)}
<1>1. /\ size \in Nat /\ words \in [BitArrays!Arrays -> WordArrays]
      /\ visit \in [of : BitArrays!Arrays, end : 0 .. size, w : Nat, word : SUBSET BitArrays!Bits]
      /\ visit.word \subseteq BitArrays!Below(visit.w, visit.end)
  BY DEF BitsInv
<1>2. BitArrays!ToVisit =
        {i \in 0 .. visit.end - 1 :
           \/ i \div WordBits = visit.w /\ i % WordBits \in visit.word
           \/ i \div WordBits > visit.w /\ BitArrays!get(words[visit.of], i)}
  BY DEF BitArrays!ToVisit
<1>3. visit.of \in BitArrays!Arrays /\ words[visit.of] \in WordArrays
  BY <1>1
<1>4. visit.end \in 0 .. size /\ visit.end \in Nat /\ visit.w \in Nat
      /\ visit.word \in SUBSET BitArrays!Bits
  BY <1>1
<1>5. visit.of # None
  BY <1>3, NoneAssumption
<1> QED BY <1>1, <1>2, <1>3, <1>4, <1>5

\* The next word holds the next indices: the abstract traversal does not move.
LEMMA NextWordStep ==
  ASSUME BitsInv, BitArrays!NextWord
  PROVE  /\ BitsInv'
         /\ UNCHANGED <<size, SetsOf, visit.of, BitArrays!ToVisit, answer>>
<1>1. /\ visit # BitArrays!NoVisit /\ visit.word = {}
      /\ visit' = BitArrays!Load(visit.of, visit.end, visit.w + 1)
      /\ words' = words /\ size' = size /\ answer' = answer
  BY DEF BitArrays!NextWord
<1>2. /\ visit.of \in BitArrays!Arrays /\ visit.end \in 0 .. size /\ visit.w \in Nat
      /\ visit.end \in Nat
      /\ BitArrays!ToVisit =
           {i \in 0 .. visit.end - 1 :
              \/ i \div WordBits = visit.w /\ i % WordBits \in visit.word
              \/ i \div WordBits > visit.w /\ BitArrays!get(words[visit.of], i)}
  BY <1>1, VisitFacts
<1>3. visit.w + 1 \in Nat
  BY <1>2
<1>4. /\ BitsInv' /\ visit'.of = visit.of
      /\ BitArrays!ToVisit' =
           {i \in 0 .. visit.end - 1 :
              i \div WordBits >= visit.w + 1 /\ BitArrays!get(words[visit.of], i)}
  BY <1>1, <1>2, <1>3, LoadStep
<1>5. \A i \in 0 .. visit.end - 1 : i \div WordBits >= visit.w + 1 <=> i \div WordBits > visit.w
  <2> SUFFICES ASSUME NEW i \in 0 .. visit.end - 1
               PROVE  i \div WordBits >= visit.w + 1 <=> i \div WordBits > visit.w
    OBVIOUS
  <2>1. i \div WordBits \in Nat
    BY <1>2, PlaceOf
  <2> QED BY <1>2, <2>1
<1>6. BitArrays!ToVisit' = BitArrays!ToVisit
  BY <1>1, <1>2, <1>4, <1>5
<1>7. SetsOf' = SetsOf
  BY <1>1 DEF SetsOf, SetOf, BitArrays!All, BitArrays!get
<1> QED BY <1>1, <1>4, <1>6, <1>7

\* With the last word the traversal ends, and nothing is left to visit.
LEMMA EachEndStep ==
  ASSUME BitsInv, BitArrays!EachEnd
  PROVE  BitsInv' /\ BitArrays!Sets!Leave
<1>1. /\ visit # BitArrays!NoVisit /\ visit.word = {}
      /\ visit.w + 1 >= BitArrays!Count(visit.end)
      /\ visit' = BitArrays!NoVisit
      /\ words' = words /\ size' = size /\ answer' = None
  BY DEF BitArrays!EachEnd
<1>2. /\ visit.of # None /\ visit.w \in Nat /\ visit.end \in Nat
      /\ BitArrays!ToVisit =
           {i \in 0 .. visit.end - 1 :
              \/ i \div WordBits = visit.w /\ i % WordBits \in visit.word
              \/ i \div WordBits > visit.w /\ BitArrays!get(words[visit.of], i)}
  BY <1>1, VisitFacts
<1>3. ASSUME NEW i \in 0 .. visit.end - 1 PROVE ~ (i \div WordBits > visit.w)
  <2>1. i \in Nat /\ i < visit.end
    BY <1>2
  <2>2. /\ i \div WordBits \in Nat /\ i \div WordBits < BitArrays!Count(visit.end)
        /\ BitArrays!Count(visit.end) \in Nat
    BY <1>2, <2>1, PlaceOf, WordsCounted
  <2> QED BY <1>1, <1>2, <2>2
<1>4. BitArrays!ToVisit = {}
  BY <1>1, <1>2, <1>3
<1>5. BitArrays!ToVisit' = {} /\ visit'.of = None
  BY <1>1 DEF BitArrays!ToVisit, BitArrays!NoVisit
<1>6. SetsOf' = SetsOf
  BY <1>1 DEF SetsOf, SetOf, BitArrays!All, BitArrays!get
<1>7. BitsInv'
  <2>1. WordArrays' = WordArrays
    BY <1>1 DEF WordArrays, BitArrays!Count
  <2> QED BY <1>1, <2>1 DEF BitsInv, BitArrays!NoVisit
<1> QED BY <1>1, <1>2, <1>4, <1>5, <1>6, <1>7 DEF BitArrays!Sets!Leave, SetsOf, SetOf

\* fn is called with the least index there is still to visit.
LEMMA CallFnStep ==
  ASSUME BitsInv, BitArrays!CallFn
  PROVE  BitsInv' /\ BitArrays!Sets!Visit
<1>1. PICK b, i : b = BitArrays!Min(visit.word) /\ i = visit.w * WordBits + b
  OBVIOUS
<1>2. /\ visit # BitArrays!NoVisit /\ visit.word # {}
      /\ answer' = <<"fn", i>>
      /\ visit' = [visit EXCEPT !.word = @ \ {b}]
      /\ \/ UNCHANGED words
         \/ words' = [words EXCEPT ![visit.of] = BitArrays!unset(@, i)]
      /\ size' = size
  BY <1>1 DEF BitArrays!CallFn
<1>3. PICK a, end, w, word : /\ a = visit.of /\ end = visit.end
                             /\ w = visit.w /\ word = visit.word
  OBVIOUS
<1>4. /\ size \in Nat /\ a \in BitArrays!Arrays /\ a # None
      /\ end \in 0 .. size /\ end \in Nat /\ w \in Nat
      /\ word \in SUBSET BitArrays!Bits /\ word \subseteq BitArrays!Below(w, end)
      /\ words[a] \in WordArrays
      /\ BitArrays!ToVisit =
           {k \in 0 .. end - 1 :
              \/ k \div WordBits = w /\ k % WordBits \in word
              \/ k \div WordBits > w /\ BitArrays!get(words[a], k)}
  BY <1>2, <1>3, VisitFacts
<1>5. b \in word /\ \A c \in word : b <= c
  <2>1. word \in SUBSET Nat
    <3>1. WordBits \in Nat
      BY PiecesAssumption
    <3> QED BY <1>4, <3>1 DEF BitArrays!Bits
  <2> QED BY <1>1, <1>2, <1>3, <2>1, LeastBit
<1>6. b \in BitArrays!Bits /\ i \in Nat /\ i \div WordBits = w /\ i % WordBits = b
  BY <1>1, <1>3, <1>4, <1>5, IndexAt
<1>7. i < end /\ i \in 0 .. end - 1 /\ i \in BitArrays!All
  <2>1. i < end
    BY <1>4, <1>5, <1>6, BelowEnd
  <2> QED BY <1>4, <1>6, <2>1 DEF BitArrays!All
<1>8. i \in BitArrays!ToVisit /\ BitArrays!ToVisit \in SUBSET Nat
  BY <1>4, <1>5, <1>6, <1>7
<1>9. ASSUME NEW k \in BitArrays!ToVisit PROVE i <= k
  <2>1. /\ k \in Nat
        /\ \/ k \div WordBits = w /\ k % WordBits \in word
           \/ k \div WordBits > w
    BY <1>4
  <2>2. PICK v, c : v = k \div WordBits /\ c = k % WordBits
    OBVIOUS
  <2>3. v \in Nat /\ c \in BitArrays!Bits /\ k = v * WordBits + c
    BY <2>1, <2>2, PlaceOf
  <2>4. CASE v > w
    <3>1. w * WordBits + b < v * WordBits + c
      BY <1>4, <1>6, <2>3, <2>4, PlacesInOrder
    <3>2. i < k
      BY <1>1, <1>3, <2>3, <3>1
    <3> QED BY <1>6, <2>1, <3>2
  <2>5. CASE v = w /\ c \in word
    <3>1. b <= c
      BY <1>5, <2>5
    <3>2. PICK x : x = w * WordBits
      OBVIOUS
    <3>3. x \in Int /\ b \in Int /\ c \in Int
      <4>1. WordBits \in Nat
        BY PiecesAssumption
      <4> QED BY <1>4, <1>6, <2>3, <3>2, <4>1 DEF BitArrays!Bits
    <3>4. i = x + b /\ k = x + c
      BY <1>1, <1>3, <2>3, <2>5, <3>2
    <3> QED BY <3>1, <3>3, <3>4
  <2> QED BY <2>1, <2>2, <2>4, <2>5
<1>10. BitArrays!Sets!Min(BitArrays!ToVisit) = i
  BY <1>8, <1>9, LeastIndex
<1>11. \/ words' = words /\ SetsOf' = SetsOf
       \/ /\ words' = [words EXCEPT ![a] = BitArrays!unset(words[a], i)]
          /\ SetsOf' = [SetsOf EXCEPT ![a] = @ \ {i}]
  <2>1. CASE words' = words
    BY <1>2, <2>1 DEF SetsOf, SetOf, BitArrays!All, BitArrays!get
  <2>2. CASE words' = [words EXCEPT ![a] = BitArrays!unset(words[a], i)]
    <3>1. SetOf(BitArrays!unset(words[a], i)) = SetOf(words[a]) \ {i}
      BY <1>4, <1>7, BitCalls
    <3>2. \A d : SetOf(d)' = SetOf(d)
      BY <1>2 DEF SetOf, BitArrays!All
    <3>3. words \in [BitArrays!Arrays -> WordArrays]
      BY DEF BitsInv
    <3>4. SetsOf' = [SetsOf EXCEPT ![a] = @ \ {i}]
      BY <1>4, <2>2, <3>1, <3>2, <3>3 DEF SetsOf
    <3> QED BY <2>2, <3>4
  <2> QED BY <1>2, <1>3, <2>1, <2>2
<1>12. /\ words' \in [BitArrays!Arrays -> WordArrays]
       /\ \A k \in Nat : k # i => BitArrays!get(words'[a], k) = BitArrays!get(words[a], k)
  <2>1. words \in [BitArrays!Arrays -> WordArrays]
    BY DEF BitsInv
  <2>2. /\ BitArrays!unset(words[a], i) \in WordArrays
        /\ \A k \in Nat : k # i =>
             BitArrays!get(BitArrays!unset(words[a], i), k) = BitArrays!get(words[a], k)
    BY <1>4, <1>7, BitCalls
  <2>3. CASE words' = words
    BY <2>1, <2>3
  <2>4. CASE words' = [words EXCEPT ![a] = BitArrays!unset(words[a], i)]
    <3>1. words'[a] = BitArrays!unset(words[a], i)
      BY <1>4, <2>1, <2>4
    <3> QED BY <1>4, <2>1, <2>2, <2>4, <3>1
  <2> QED BY <1>11, <2>3, <2>4
<1>13. /\ visit \in [of : BitArrays!Arrays, end : 0 .. size, w : Nat, word : SUBSET BitArrays!Bits]
       /\ visit' \in [of : BitArrays!Arrays, end : 0 .. size, w : Nat, word : SUBSET BitArrays!Bits]
       /\ visit'.of = a /\ visit'.end = end /\ visit'.w = w /\ visit'.word = word \ {b}
  <2>1. visit \in [of : BitArrays!Arrays, end : 0 .. size, w : Nat, word : SUBSET BitArrays!Bits]
    BY <1>2 DEF BitsInv
  <2> QED BY <1>2, <1>3, <1>4, <2>1
<1>14. visit' # BitArrays!NoVisit
  <2>1. BitArrays!NoVisit.of = None
    BY DEF BitArrays!NoVisit
  <2> QED BY <1>4, <1>13, <2>1
<1>15. BitsInv'
  <2>1. WordArrays' = WordArrays
    BY <1>2 DEF WordArrays, BitArrays!Count
  <2>2. visit'.word \subseteq BitArrays!Below(visit'.w, visit'.end)
    BY <1>4, <1>13
  <2> QED BY <1>2, <1>4, <1>12, <1>13, <2>1, <2>2 DEF BitsInv
<1>16. BitArrays!ToVisit' = BitArrays!ToVisit \ {i}
  <2>1. BitArrays!ToVisit' =
          {k \in 0 .. end - 1 :
             \/ k \div WordBits = w /\ k % WordBits \in word \ {b}
             \/ k \div WordBits > w /\ BitArrays!get(words'[a], k)}
    BY <1>13, <1>14 DEF BitArrays!ToVisit, BitArrays!get
  <2>2. ASSUME NEW k \in 0 .. end - 1
        PROVE  (\/ k \div WordBits = w /\ k % WordBits \in word \ {b}
                \/ k \div WordBits > w /\ BitArrays!get(words'[a], k))
               <=> /\ k # i
                   /\ \/ k \div WordBits = w /\ k % WordBits \in word
                      \/ k \div WordBits > w /\ BitArrays!get(words[a], k)
    <3>1. k \in Nat
      BY <1>4
    <3>2. k # i => BitArrays!get(words'[a], k) = BitArrays!get(words[a], k)
      BY <1>12, <3>1
    <3>3. k # i /\ k \div WordBits = w => k % WordBits # b
      BY <1>6, <3>1, PlacesApart
    <3>4. k = i => k \div WordBits = w /\ k % WordBits = b /\ ~ (k \div WordBits > w)
      BY <1>4, <1>6
    <3> QED BY <3>2, <3>3, <3>4
  <2> QED BY <1>4, <2>1, <2>2
<1>17. BitArrays!ToVisit # {}
  BY <1>8
<1>18. UNCHANGED SetsOf \/ SetsOf' = [SetsOf EXCEPT ![visit.of] = @ \ {i}]
  BY <1>3, <1>11
<1>19. visit'.of = visit.of
  BY <1>3, <1>13
<1> QED BY <1>2, <1>10, <1>15, <1>16, <1>17, <1>18, <1>19 DEF BitArrays!Sets!Visit, SetsOf, SetOf

\* All arrays begin as sets, whatever was in the memory.
LEMMA BitsInitial ==
  ASSUME BitArrays!Init
  PROVE  BitsInv /\ BitArrays!Sets!Init
<1>1. /\ size \in Nat /\ words \in [BitArrays!Arrays -> WordArrays]
      /\ visit = BitArrays!NoVisit /\ answer = None
  BY PiecesAssumption DEF BitArrays!Init, WordArrays
<1>2. visit.of = None /\ BitArrays!ToVisit = {}
  BY <1>1 DEF BitArrays!NoVisit, BitArrays!ToVisit
<1>3. SetsOf \in [BitArrays!Arrays -> SUBSET (0 .. size - 1)]
  BY DEF SetsOf, SetOf, BitArrays!All
<1>4. BitArrays!Sets!Init
  BY <1>1, <1>2, <1>3 DEF BitArrays!Sets!Init, SetsOf, SetOf
<1> QED BY <1>1, <1>4 DEF BitsInv

\* The steps of the other pieces.
LEMMA BitsUnchanged ==
  ASSUME BitsInv, UNCHANGED bitVars
  PROVE  /\ BitsInv'
         /\ UNCHANGED <<size, SetsOf, visit.of, BitArrays!ToVisit, answer>>
<1>1. size' = size /\ words' = words /\ visit' = visit /\ answer' = answer
  BY DEF bitVars
<1>2. BitsInv'
  BY <1>1 DEF BitsInv, WordArrays, BitArrays!Count, BitArrays!NoVisit
<1>3. SetsOf' = SetsOf /\ BitArrays!ToVisit' = BitArrays!ToVisit
  BY <1>1 DEF SetsOf, SetOf, BitArrays!All, BitArrays!get, BitArrays!ToVisit, BitArrays!NoVisit
<1> QED BY <1>1, <1>2, <1>3

\* The arrays of bits implement sets of indices, for every word width, size and
\* end: calls change what is below their end and nothing else, and a traversal
\* visits each index once (bits_ops, bits_accessor).
THEOREM BitsAreSets == PiecesSpec => ImplementsSets
<1>1. PiecesInit => BitsInv /\ BitArrays!Sets!Init
  BY BitsInitial DEF PiecesInit
<1>2. ASSUME BitsInv, [PiecesNext]_piecesVars
      PROVE  /\ BitsInv'
             /\ [BitArrays!Sets!Next]_<<size, SetsOf, visit.of, BitArrays!ToVisit, answer>>
  <2>1. CASE BitArrays!Next
    <3>1. CASE \E a \in BitArrays!Arrays, end \in 0 .. size :
                 \/ BitArrays!Clear(a, end) \/ BitArrays!Fill(a, end) \/ BitArrays!Each(a, end)
                 \/ \E S \in SUBSET (0 .. end - 1) : BitArrays!SetEach(a, end, S)
      BY <1>2, <3>1, EndCallStep, EachStep DEF BitArrays!Sets!Next
    <3>2. CASE \E a \in BitArrays!Arrays, i \in BitArrays!All :
                 \/ BitArrays!Get(a, i) \/ BitArrays!Set(a, i) \/ BitArrays!Unset(a, i)
                 \/ \E f \in BOOLEAN : BitArrays!SetTo(a, i, f) \/ BitArrays!GetSet(a, i, f)
      BY <1>2, <3>2, BitCallStep DEF BitArrays!Sets!Next
    <3>3. CASE \E a, b \in BitArrays!Arrays : BitArrays!Zero(a) \/ BitArrays!Copy(a, b)
      BY <1>2, <3>3, WholeCallStep DEF BitArrays!Sets!Next
    <3>4. CASE BitArrays!CallFn
      BY <1>2, <3>4, CallFnStep DEF BitArrays!Sets!Next
    <3>5. CASE BitArrays!NextWord
      BY <1>2, <3>5, NextWordStep
    <3>6. CASE BitArrays!EachEnd
      BY <1>2, <3>6, EachEndStep DEF BitArrays!Sets!Next
    <3> QED BY <2>1, <3>1, <3>2, <3>3, <3>4, <3>5, <3>6 DEF BitArrays!Next
  <2>2. CASE UNCHANGED bitVars
    BY <1>2, <2>2, BitsUnchanged
  <2> QED BY <1>2, <2>1, <2>2 DEF PiecesNext, piecesVars, BitsStep
<1>3. BitArrays!Sets!Spec <=>
        BitArrays!Sets!Init
          /\ [][BitArrays!Sets!Next]_<<size, SetsOf, visit.of, BitArrays!ToVisit, answer>>
  BY DEF BitArrays!Sets!Spec, SetsOf, SetOf
<1> QED BY <1>1, <1>2, <1>3, PTL DEF PiecesSpec, ImplementsSets, BitArrays!ImplementsSets
-----------------------------------------------------------------------------
(* Hash containers                                                         *)

\* The table has more slots than it was made for.
LEMMA SlotCount ==
  /\ cache_lines \in Nat \ {0} /\ Width \in Nat \ {0} /\ TableSize \in Nat \ {0}
  /\ IsFiniteSet(Slots) /\ Cardinality(Slots) > TableSize
<1>1. Width \in Nat \ {0} /\ TableSize \in Nat \ {0}
  BY PiecesAssumption
<1>2. PICK L : L = cache_lines
  OBVIOUS
<1>3. PICK d : d = 2 * Width
  OBVIOUS
<1>4. d \in Nat \ {0} /\ 3 * TableSize + d - 1 \in Nat
  BY <1>1, <1>3
<1>5. PICK q, a : q = (3 * TableSize + d - 1) \div d /\ a = (3 * TableSize + d - 1) % d
  OBVIOUS
<1>6. 3 * TableSize + d - 1 = q * d + a /\ q \in Nat /\ a \in 0 .. d - 1
  BY <1>4, <1>5, QuotientAndRest
<1>7. L \in Nat /\ L >= q
  BY <1>2, <1>3, <1>5, CacheLinesAssumption DEF ceildiv
<1>8. L * d >= q * d
  BY <1>4, <1>6, <1>7
<1>9. L * d >= 3 * TableSize
  <2>1. PICK x, y : x = q * d /\ y = L * d
    OBVIOUS
  <2>2. x \in Int /\ y \in Int
    BY <1>4, <1>6, <1>7, <2>1
  <2> QED BY <1>1, <1>4, <1>6, <1>8, <2>1, <2>2
<1>10. PICK s : s = L * Width
  OBVIOUS
<1>11. s \in Nat /\ L * d = 2 * s
  BY <1>1, <1>3, <1>7, <1>10
<1>12. s > TableSize
  BY <1>1, <1>9, <1>11
<1>13. L # 0
  BY <1>1, <1>10, <1>12
<1>14. /\ IsFiniteSet(0 .. L - 1) /\ Cardinality(0 .. L - 1) = L
       /\ IsFiniteSet(0 .. Width - 1) /\ Cardinality(0 .. Width - 1) = Width
  <2>1. ASSUME NEW n \in Nat \ {0}
        PROVE  IsFiniteSet(0 .. n - 1) /\ Cardinality(0 .. n - 1) = n
    <3>1. 0 \in Int /\ n - 1 \in Int /\ ~ (0 > n - 1) /\ (n - 1) - 0 + 1 = n
      OBVIOUS
    <3> QED BY <3>1, FS_Interval
  <2> QED BY <1>1, <1>7, <1>13, <2>1
<1>15. IsFiniteSet(Slots) /\ Cardinality(Slots) = s
  <2>1. Slots = (0 .. L - 1) \X (0 .. Width - 1)
    BY <1>2 DEF Slots
  <2>2. /\ IsFiniteSet((0 .. L - 1) \X (0 .. Width - 1))
        /\ Cardinality((0 .. L - 1) \X (0 .. Width - 1))
             = Cardinality(0 .. L - 1) * Cardinality(0 .. Width - 1)
    BY <1>14, FS_Product
  <2> QED BY <1>10, <1>14, <2>1, <2>2
<1> QED BY <1>1, <1>2, <1>7, <1>12, <1>13, <1>15

\* A search comes to every line.
LEMMA LinesProbed ==
  ASSUME hash \in Hashes, NEW k \in Keys
  PROVE  /\ \A i \in Nat : Line(k, i) \in 0 .. cache_lines - 1
         /\ \A l \in 0 .. cache_lines - 1 : \E i \in 0 .. cache_lines - 1 : Line(k, i) = l
<1>1. PICK L, h : L = cache_lines /\ h = hash[k]
  OBVIOUS
<1>2. L \in Nat \ {0} /\ h \in Nat
  <2>1. hash \in [Keys -> Nat]
    BY PiecesAssumption
  <2> QED BY <1>1, <2>1, SlotCount
<1>3. \A i : Line(k, i) = (h + i) % L
  BY <1>1 DEF Line
<1>4. ASSUME NEW i \in Nat PROVE Line(k, i) \in 0 .. L - 1
  <2>1. h + i \in Nat
    BY <1>2
  <2>2. (h + i) % L \in 0 .. L - 1
    BY <1>2, <2>1, QuotientAndRest
  <2> QED BY <1>3, <2>2
<1>5. ASSUME NEW l \in 0 .. L - 1 PROVE \E i \in 0 .. L - 1 : Line(k, i) = l
  <2>1. PICK q, a : q = h \div L /\ a = h % L
    OBVIOUS
  <2>2. h = q * L + a /\ q \in Nat /\ a \in 0 .. L - 1
    BY <1>2, <2>1, QuotientAndRest
  <2>3. PICK x : x = q * L
    OBVIOUS
  <2>4. x \in Nat /\ h = x + a
    BY <1>2, <2>2, <2>3
  <2>5. CASE l >= a
    <3>1. l - a \in 0 .. L - 1 /\ h + (l - a) = x + l
      BY <1>2, <2>2, <2>4, <2>5
    <3>2. (x + l) % L = l
      BY <1>2, <2>2, <2>3, RestOf
    <3> QED BY <1>3, <3>1, <3>2
  <2>6. CASE l < a
    <3>1. (l - a) + L \in 0 .. L - 1 /\ h + ((l - a) + L) = (x + L) + l
      BY <1>2, <2>2, <2>4, <2>6
    <3>2. (q + 1) * L = x + L /\ q + 1 \in Nat
      BY <1>2, <2>2, <2>3
    <3>3. ((x + L) + l) % L = l
      BY <1>2, <3>2, RestOf
    <3> QED BY <1>3, <3>1, <3>3
  <2> QED BY <1>2, <2>2, <2>5, <2>6
<1> QED BY <1>1, <1>4, <1>5

\* The search for a key comes to a line past lines without nulls.
ComesTo(k, l) ==
  \E n \in 0 .. cache_lines - 1 :
    /\ Line(k, n) = l
    /\ \A i \in 0 .. n - 1 : Match(Line(k, i), {Null}) = {}

\* A key is in one slot; no line that its search comes through before has a
\* null; and the nulls of a line come behind its keys.
SlotsInv ==
  /\ SlotsTypeOK
  /\ Cardinality(Used) <= TableSize
  /\ \A s, t \in Slots : keys[s] \in Keys /\ keys[s] = keys[t] => s = t
  /\ \A s \in Slots : keys[s] \in Keys => ComesTo(keys[s], s[1])
  /\ \A l \in 0 .. cache_lines - 1 : \A x, y \in 0 .. Width - 1 :
       x < y /\ keys[<<l, x>>] = Null => keys[<<l, y>>] = Null

\* As some slot is null, every search ends.
LEMMA NullLeft ==
  ASSUME SlotsInv
  PROVE  \E s \in Slots : keys[s] = Null
<1>1. /\ Cardinality(Used) <= TableSize /\ TableSize \in Nat
      /\ Cardinality(Slots) > TableSize /\ IsFiniteSet(Slots)
  BY SlotCount DEF SlotsInv
<1>2. Cardinality(Slots) \in Nat
  BY <1>1, FS_CardinalityType
<1>3. Used # Slots
  <2>1. ASSUME Used = Slots PROVE FALSE
    <3>1. Cardinality(Slots) <= TableSize
      BY <1>1, <2>1
    <3> QED BY <1>1, <1>2, <3>1
  <2> QED BY <2>1
<1> QED BY <1>3 DEF Used

\* Every search ends, at the key or at a null slot: there is always a null left.
LEMMA SearchEnds ==
  ASSUME SlotsInv, NEW k \in Keys
  PROVE  Probes(k, {k, Null}) # {}
<1>1. PICK s \in Slots : keys[s] = Null
  BY NullLeft
<1>2. PICK l \in 0 .. cache_lines - 1, x \in 0 .. Width - 1 : s = <<l, x>>
  BY DEF Slots
<1>3. PICK i \in 0 .. cache_lines - 1 : Line(k, i) = l
  BY LinesProbed DEF SlotsInv, SlotsTypeOK
<1>4. x \in Match(Line(k, i), {k, Null})
  BY <1>1, <1>2, <1>3 DEF Match
<1> QED BY <1>3, <1>4 DEF Probes

\* What a line's matches are.
LEMMA MatchFacts ==
  ASSUME NEW l \in 0 .. cache_lines - 1, NEW S
  PROVE  /\ Match(l, S) \in SUBSET Nat
         /\ \A x : x \in Match(l, S) <=> <<l, x>> \in Slots /\ keys[<<l, x>>] \in S
         /\ \A x : x \in Match(l, S) <=> x \in 0 .. Width - 1 /\ keys[<<l, x>>] \in S
<1>1. 0 .. Width - 1 \subseteq Nat
  BY SlotCount
<1>2. \A x : <<l, x>> \in Slots <=> x \in 0 .. Width - 1
  BY DEF Slots
<1> QED BY <1>1, <1>2 DEF Match

\* The search finds the key where it is, and else the null where it may go.
LEMMA FindSlot ==
  ASSUME SlotsInv, NEW k \in Keys, NEW t, t = find_key_or_null(k)
  PROVE  /\ t \in Slots /\ find_slot(k) = t /\ keys[t] \in {k, Null}
         /\ keys[t] = k => find_key(k) = t
         /\ keys[t] # k =>
              /\ \A s \in Slots : keys[s] # k
              /\ ComesTo(k, t[1])
              /\ \A x \in 0 .. Width - 1 : x < t[2] => keys[<<t[1], x>>] # Null
<1>1. cache_lines \in Nat \ {0} /\ hash \in Hashes /\ k # Null
  BY SlotCount, PiecesAssumption DEF SlotsInv, SlotsTypeOK
<1>2. PICK m, l : m = Min(Probes(k, {k, Null})) /\ l = Line(k, m)
  OBVIOUS
<1>3. /\ m \in 0 .. cache_lines - 1 /\ l \in 0 .. cache_lines - 1
      /\ Match(l, {k, Null}) # {}
      /\ \A i \in Probes(k, {k, Null}) : m <= i
  <2>1. Probes(k, {k, Null}) \in SUBSET Nat /\ Probes(k, {k, Null}) # {}
    <3>1. Probes(k, {k, Null}) \in SUBSET Nat
      BY <1>1 DEF Probes
    <3> QED BY <3>1, SearchEnds
  <2>2. m \in Probes(k, {k, Null}) /\ \A i \in Probes(k, {k, Null}) : m <= i
    BY <1>2, <2>1, LeastOfSome
  <2>3. m \in 0 .. cache_lines - 1 /\ Match(l, {k, Null}) # {}
    BY <1>2, <2>2 DEF Probes
  <2>4. l \in 0 .. cache_lines - 1
    BY <1>1, <1>2, <2>3, LinesProbed
  <2> QED BY <2>2, <2>3, <2>4
<1>4. ASSUME NEW s \in Slots, keys[s] = k PROVE s[1] = l
  <2>1. PICK n \in 0 .. cache_lines - 1 :
          /\ Line(k, n) = s[1]
          /\ \A i \in 0 .. n - 1 : Match(Line(k, i), {Null}) = {}
    BY <1>4 DEF SlotsInv, ComesTo
  <2>2. PICK y \in 0 .. cache_lines - 1, x \in 0 .. Width - 1 : s = <<y, x>>
    BY DEF Slots
  <2>3. x \in Match(Line(k, n), {k, Null})
    BY <1>4, <2>1, <2>2 DEF Match
  <2>4. m <= n
    BY <1>3, <2>3 DEF Probes
  <2>5. CASE m = n
    BY <1>2, <2>1, <2>5
  <2>6. CASE m # n
    <3>1. m \in 0 .. n - 1
      BY <1>1, <1>3, <2>4, <2>6
    <3>2. Match(l, {Null}) = {}
      BY <1>2, <2>1, <3>1
    <3>3. PICK z : z \in Match(l, {k, Null})
      BY <1>3
    <3>4. <<l, z>> \in Slots /\ keys[<<l, z>>] = k
      BY <1>3, <3>2, <3>3, MatchFacts
    <3>5. <<l, z>> = s
      BY <1>4, <3>4 DEF SlotsInv
    <3> QED BY <3>5
  <2> QED BY <2>5, <2>6
<1>5. CASE Match(l, {k}) # {}
  <2>1. PICK x : x \in Match(l, {k})
    BY <1>5
  <2>2. <<l, x>> \in Slots /\ keys[<<l, x>>] = k /\ x \in 0 .. Width - 1 /\ x \in Nat
    BY <1>3, <2>1, MatchFacts
  <2>3. \A s \in Slots : keys[s] = k => s = <<l, x>>
    BY <2>2 DEF SlotsInv
  <2>4. Match(l, {k}) = {x}
    <3>1. ASSUME NEW y \in Match(l, {k}) PROVE y = x
      <4>1. <<l, y>> \in Slots /\ keys[<<l, y>>] = k
        BY <1>3, <3>1, MatchFacts
      <4>2. <<l, y>> = <<l, x>>
        BY <2>3, <4>1
      <4> QED BY <4>2
    <3> QED BY <2>1, <3>1
  <2>5. Min(Match(l, {k})) = x
    <3>1. {x} \in SUBSET Nat /\ x \in {x} /\ \A y \in {x} : x <= y
      BY <2>2
    <3>2. Min({x}) = x
      BY <3>1, LeastIs
    <3> QED BY <2>4, <3>2
  <2>6. t = <<l, x>>
    BY <1>2, <1>5, <2>5 DEF find_key_or_null
  <2>7. Min(Match(l, {k, Null})) = x
    <3>1. Match(l, {k, Null}) \in SUBSET Nat /\ x \in Match(l, {k, Null})
      BY <1>3, <2>2, MatchFacts
    <3>2. ASSUME NEW y \in Match(l, {k, Null}) PROVE x <= y
      <4>1. y \in 0 .. Width - 1 /\ keys[<<l, y>>] \in {k, Null} /\ <<l, y>> \in Slots /\ y \in Nat
        BY <1>3, <3>1, <3>2, MatchFacts
      <4>2. CASE keys[<<l, y>>] = k
        <5>1. <<l, y>> = <<l, x>>
          BY <2>3, <4>1, <4>2
        <5> QED BY <2>2, <5>1
      <4>3. CASE keys[<<l, y>>] = Null
        <5>1. ~ (y < x)
          BY <1>1, <1>3, <2>2, <4>1, <4>3 DEF SlotsInv
        <5> QED BY <2>2, <4>1, <5>1
      <4> QED BY <4>1, <4>2, <4>3
    <3> QED BY <3>1, <3>2, LeastIs
  <2>8. find_slot(k) = t
    BY <1>2, <2>6, <2>7 DEF find_slot, First
  <2>9. find_key(k) = t
    <3>1. PICK n : n = Min(Probes(k, {k}))
      OBVIOUS
    <3>2. n \in 0 .. cache_lines - 1 /\ Match(Line(k, n), {k}) # {}
      <4>1. Probes(k, {k}) \in SUBSET Nat
        BY <1>1 DEF Probes
      <4>2. m \in Probes(k, {k})
        BY <1>2, <1>3, <1>5 DEF Probes
      <4>3. n \in Probes(k, {k})
        BY <3>1, <4>1, <4>2, LeastOfSome
      <4> QED BY <4>3 DEF Probes
    <3>3. PICK y : y \in Match(Line(k, n), {k})
      BY <3>2
    <3>4. Line(k, n) \in 0 .. cache_lines - 1
      BY <1>1, <3>2, LinesProbed
    <3>5. <<Line(k, n), y>> \in Slots /\ keys[<<Line(k, n), y>>] = k
      BY <3>3, <3>4, MatchFacts
    <3>6. <<Line(k, n), y>> = <<l, x>>
      BY <2>3, <3>5
    <3>7. Line(k, n) = l
      BY <3>6
    <3> QED BY <2>5, <2>6, <3>1, <3>7 DEF find_key, First
  <2> QED BY <2>2, <2>6, <2>8, <2>9
<1>6. CASE Match(l, {k}) = {}
  <2>1. Match(l, {k, Null}) = Match(l, {Null})
    <3>1. Match(l, {k, Null}) = Match(l, {k}) \cup Match(l, {Null})
      BY DEF Match
    <3> QED BY <1>6, <3>1
  <2>2. PICK x : x = Min(Match(l, {Null}))
    OBVIOUS
  <2>3. t = <<l, x>> /\ find_slot(k) = t
    BY <1>2, <1>6, <2>1, <2>2 DEF find_key_or_null, find_slot, First
  <2>4. /\ Match(l, {Null}) \in SUBSET Nat
        /\ x \in Match(l, {Null}) /\ \A y \in Match(l, {Null}) : x <= y
    <3>1. Match(l, {Null}) \in SUBSET Nat /\ Match(l, {Null}) # {}
      BY <1>3, <2>1, MatchFacts
    <3> QED BY <2>2, <3>1, LeastOfSome
  <2>5. t \in Slots /\ keys[t] = Null
    BY <1>3, <2>3, <2>4, MatchFacts
  <2>6. ASSUME NEW s \in Slots PROVE keys[s] # k
    <3>1. PICK z \in 0 .. cache_lines - 1, y \in 0 .. Width - 1 : s = <<z, y>>
      BY DEF Slots
    <3>2. keys[s] = k => y \in Match(l, {k})
      BY <1>3, <1>4, <3>1, MatchFacts
    <3> QED BY <1>6, <3>2
  <2>7. ASSUME NEW i \in 0 .. m - 1 PROVE Match(Line(k, i), {Null}) = {}
    <3>1. i \in 0 .. cache_lines - 1 /\ ~ (m <= i)
      BY <1>1, <1>3
    <3>2. Match(Line(k, i), {k, Null}) = {}
      BY <1>3, <3>1 DEF Probes
    <3>3. Line(k, i) \in 0 .. cache_lines - 1
      BY <1>1, <3>1, LinesProbed
    <3>4. \A y : y \in Match(Line(k, i), {Null}) => y \in Match(Line(k, i), {k, Null})
      BY DEF Match
    <3> QED BY <3>2, <3>4
  <2>8. ASSUME NEW y \in 0 .. Width - 1, y < x PROVE keys[<<l, y>>] # Null
    <3>1. x \in Nat /\ y \in Nat
      BY <2>4, SlotCount
    <3>2. keys[<<l, y>>] = Null => y \in Match(l, {Null})
      BY <1>3, MatchFacts
    <3>3. ~ (x <= y)
      BY <2>8, <3>1
    <3> QED BY <2>4, <3>2, <3>3
  <2>9. t[1] = l /\ t[2] = x
    BY <2>3
  <2>10. ComesTo(k, t[1])
    BY <1>2, <1>3, <2>7, <2>9 DEF ComesTo
  <2>11. \A y \in 0 .. Width - 1 : y < t[2] => keys[<<t[1], y>>] # Null
    BY <2>8, <2>9
  <2> QED BY <1>1, <2>3, <2>5, <2>6, <2>10, <2>11
<1> QED BY <1>5, <1>6

\* The invariant is what is asked of the table.
LEMMA SlotsRight == SlotsInv => HashInv
<1> SUFFICES ASSUME SlotsInv PROVE HashInv
  OBVIOUS
<1>1. SearchesEnd
  BY SearchEnds DEF SlotsInv, SearchesEnd
<1>2. KeysAreFound
  <2> SUFFICES ASSUME NEW s \in Slots, keys[s] \in Keys
               PROVE  find_key_or_null(keys[s]) = s
    BY DEF KeysAreFound
  <2>1. PICK t : t = find_key_or_null(keys[s])
    OBVIOUS
  <2>2. /\ t \in Slots /\ keys[t] \in {keys[s], Null}
        /\ keys[t] # keys[s] => \A q \in Slots : keys[q] # keys[s]
    BY <2>1, FindSlot
  <2>3. keys[t] = keys[s]
    BY <2>2
  <2> QED BY <2>1, <2>2, <2>3 DEF SlotsInv
<1>3. SameSlot
  BY FindSlot DEF SameSlot
<1> QED BY <1>1, <1>2, <1>3 DEF SlotsInv, HashInv

\* The map that the slots stand for.
LEMMA MapFacts ==
  ASSUME SlotsInv, NEW k \in Keys
  PROVE  /\ k \in DOMAIN map <=> Found(k)
         /\ k \in DOMAIN map => map[k] = vals[find_key_or_null(k)]
<1>1. PICK t : t = find_key_or_null(k)
  OBVIOUS
<1>2. t \in Slots /\ (keys[t] # k => \A s \in Slots : keys[s] # k)
  BY <1>1, FindSlot
<1>3. DOMAIN map = {keys[s] : s \in Slots} \cap Keys
  BY DEF map
<1>4. k \in DOMAIN map <=> keys[t] = k
  BY <1>2, <1>3
<1>5. ASSUME keys[t] = k PROVE map[k] = vals[t]
  <2>1. (CHOOSE s \in Slots : keys[s] = k) = t
    <3>1. \A s \in Slots : keys[s] = k <=> s = t
      BY <1>2, <1>5 DEF SlotsInv
    <3>2. \E s \in Slots : keys[s] = k
      BY <1>2, <1>5
    <3>3. /\ (CHOOSE s \in Slots : keys[s] = k) \in Slots
          /\ keys[CHOOSE s \in Slots : keys[s] = k] = k
      BY <3>2
    <3> QED BY <3>1, <3>3
  <2>2. k \in {keys[s] : s \in Slots} \cap Keys
    BY <1>3, <1>4, <1>5
  <2> QED BY <2>1, <2>2 DEF map
<1> QED BY <1>1, <1>4, <1>5 DEF Found

\* Writing a key, where the search for it has ended, makes it the map's.
LEMMA WriteStep ==
  ASSUME SlotsInv, NEW k \in Keys, NEW v \in Vals, hash' = hash,
         result' \in Vals \cup BOOLEAN \cup {None},
         Write(find_key_or_null(k), k, v)
  PROVE  SlotsInv' /\ map' = Promised!With(k, v)
<1>1. PICK t : t = find_key_or_null(k)
  OBVIOUS
<1>2. /\ t \in Slots /\ keys[t] \in {k, Null}
      /\ keys[t] # k =>
           /\ \A s \in Slots : keys[s] # k
           /\ ComesTo(k, t[1])
           /\ \A x \in 0 .. Width - 1 : x < t[2] => keys[<<t[1], x>>] # Null
  BY <1>1, FindSlot
<1>3. /\ MayWrite(t)
      /\ keys' = [keys EXCEPT ![t] = k] /\ vals' = [vals EXCEPT ![t] = v]
  BY <1>1 DEF Write
<1>4. /\ hash \in Hashes /\ keys \in [Slots -> Keys \cup {Null, Invalid}]
      /\ vals \in [Slots -> Vals \cup {None}]
      /\ Cardinality(Used) <= TableSize
      /\ Null \notin Keys /\ Invalid \notin Keys /\ Null # Invalid
      /\ TableSize \in Nat /\ cache_lines \in Nat \ {0} /\ Width \in Nat \ {0}
  BY SlotCount, PiecesAssumption DEF SlotsInv, SlotsTypeOK
<1>5. /\ keys'[t] = k /\ \A s \in Slots : s # t => keys'[s] = keys[s]
      /\ vals'[t] = v /\ \A s \in Slots : s # t => vals'[s] = vals[s]
  BY <1>2, <1>3, <1>4
<1>6. SlotsTypeOK'
  <2>1. keys' \in [Slots -> Keys \cup {Null, Invalid}]
    BY <1>2, <1>3, <1>4
  <2>2. vals' \in [Slots -> Vals \cup {None}]
    BY <1>2, <1>3, <1>4
  <2> QED BY <1>4, <2>1, <2>2 DEF SlotsTypeOK
<1>7. \A s \in Slots : s # t => keys[s] # k
  <2>1. CASE keys[t] = k
    BY <1>2, <2>1 DEF SlotsInv
  <2>2. CASE keys[t] # k
    BY <1>2, <2>2
  <2> QED BY <2>1, <2>2
<1>8. (Cardinality(Used) <= TableSize)'
  <2>1. Used' = Used \cup {t}
    BY <1>2, <1>4, <1>5 DEF Used
  <2>2. IsFiniteSet(Used) /\ Cardinality(Used) \in Nat
    <3>1. Used \in SUBSET Slots
      BY DEF Used
    <3>2. IsFiniteSet(Used)
      BY <3>1, SlotCount, FS_Subset
    <3> QED BY <3>2, FS_CardinalityType
  <2>3. CASE keys[t] # Null
    <3>1. Used' = Used
      BY <1>2, <2>1, <2>3 DEF Used
    <3> QED BY <1>4, <3>1
  <2>4. CASE keys[t] = Null
    <3>1. Cardinality(Used) < TableSize
      BY <1>3, <2>4 DEF MayWrite
    <3>2. t \notin Used
      BY <2>4 DEF Used
    <3>3. Cardinality(Used \cup {t}) = Cardinality(Used) + 1
      BY <2>2, <3>2, FS_AddElement
    <3>4. Cardinality(Used') <= TableSize
      BY <1>4, <2>1, <2>2, <3>1, <3>3
    <3> QED BY <3>4
  <2> QED BY <2>3, <2>4
<1>9. ASSUME NEW s \in Slots, NEW q \in Slots, keys'[s] \in Keys, keys'[s] = keys'[q]
      PROVE  s = q
  <2>1. CASE s = t \/ q = t
    BY <1>5, <1>7, <1>9, <2>1
  <2>2. CASE s # t /\ q # t
    BY <1>5, <1>9, <2>2 DEF SlotsInv
  <2> QED BY <2>1, <2>2
<1>10. \A l \in 0 .. cache_lines - 1 : Match(l, {Null})' \subseteq Match(l, {Null})
  <2> SUFFICES ASSUME NEW l \in 0 .. cache_lines - 1, NEW x \in 0 .. Width - 1,
                      keys'[<<l, x>>] = Null
               PROVE  keys[<<l, x>>] = Null
    BY DEF Match
  <2>1. <<l, x>> \in Slots
    BY DEF Slots
  <2> QED BY <1>4, <1>5, <2>1
<1>11. \A q \in Keys, i \in Nat : Line(q, i)' = Line(q, i) /\ Line(q, i) \in 0 .. cache_lines - 1
  <2>1. \A q \in Keys, i \in Nat : Line(q, i)' = Line(q, i)
    BY DEF Line
  <2>2. \A q \in Keys, i \in Nat : Line(q, i) \in 0 .. cache_lines - 1
    BY <1>4, LinesProbed
  <2> QED BY <2>1, <2>2
<1>12. ASSUME NEW s \in Slots, keys'[s] \in Keys
       PROVE  ComesTo(keys[s], s[1])'
  <2>1. PICK q \in Keys : q = keys'[s]
    BY <1>12
  <2>2. ComesTo(q, s[1])
    <3>1. CASE s = t /\ keys[t] # k
      BY <1>2, <1>5, <2>1, <3>1
    <3>2. CASE s # t \/ keys[t] = k
      <4>1. keys[s] = q
        BY <1>5, <2>1, <3>2
      <4> QED BY <2>1, <4>1 DEF SlotsInv
    <3> QED BY <3>1, <3>2
  <2>3. PICK n \in 0 .. cache_lines - 1 :
          /\ Line(q, n) = s[1]
          /\ \A i \in 0 .. n - 1 : Match(Line(q, i), {Null}) = {}
    BY <2>2 DEF ComesTo
  <2>4. Line(q, n)' = s[1]
    BY <1>4, <1>11, <2>1, <2>3
  <2>5. ASSUME NEW i \in 0 .. n - 1 PROVE (Match(Line(q, i), {Null}))' = {}
    <3>1. i \in Nat /\ Line(q, i)' = Line(q, i) /\ Line(q, i) \in 0 .. cache_lines - 1
      BY <1>4, <1>11, <2>1, <2>3
    <3>2. PICK l \in 0 .. cache_lines - 1 : l = Line(q, i)
      BY <3>1
    <3>3. Match(l, {Null})' = {}
      BY <1>10, <2>3, <3>2
    <3>4. (Match(Line(q, i), {Null}))' = Match(l, {Null})'
      BY <3>1, <3>2 DEF Match
    <3> QED BY <3>3, <3>4
  <2>6. ComesTo(q, s[1])'
    BY <2>4, <2>5 DEF ComesTo
  <2>7. ComesTo(q, s[1])' = ComesTo(keys[s], s[1])'
    BY <2>1 DEF ComesTo, Line, Match
  <2> QED BY <2>6, <2>7
<1>13. ASSUME NEW l \in 0 .. cache_lines - 1, NEW x \in 0 .. Width - 1, NEW y \in 0 .. Width - 1,
              x < y, keys'[<<l, x>>] = Null
       PROVE  keys'[<<l, y>>] = Null
  <2>1. <<l, x>> \in Slots /\ <<l, y>> \in Slots
    BY DEF Slots
  <2>2. keys[<<l, x>>] = Null /\ <<l, x>> # t
    BY <1>4, <1>5, <1>13, <2>1
  <2>3. keys[<<l, y>>] = Null
    BY <1>13, <2>2 DEF SlotsInv
  <2>4. <<l, y>> # t
    <3>1. ASSUME <<l, y>> = t PROVE FALSE
      <4>1. keys[t] # k
        BY <1>4, <2>3, <3>1
      <4>2. t[1] = l /\ t[2] = y
        BY <3>1
      <4> QED BY <1>2, <1>13, <2>2, <4>1, <4>2
    <3> QED BY <3>1
  <2> QED BY <1>5, <2>1, <2>3, <2>4
<1>14. SlotsInv'
  BY <1>6, <1>8, <1>9, <1>12, <1>13 DEF SlotsInv
<1>15. map' = Promised!With(k, v)
  <2>1. DOMAIN map = {keys[s] : s \in Slots} \cap Keys
    BY DEF map
  <2>2. DOMAIN map' = {keys'[s] : s \in Slots} \cap Keys
    BY DEF map
  <2>3. DOMAIN map' = DOMAIN map \cup {k}
    <3>1. ASSUME NEW q \in Keys PROVE q \in DOMAIN map' <=> q \in DOMAIN map \cup {k}
      <4>1. CASE q = k
        BY <1>2, <1>5, <2>2, <4>1
      <4>2. CASE q # k
        <5>1. \A s \in Slots : keys'[s] = q <=> keys[s] = q
          BY <1>2, <1>4, <1>5, <4>2
        <5> QED BY <2>1, <2>2, <4>2, <5>1
      <4> QED BY <4>1, <4>2
    <3> QED BY <2>1, <2>2, <3>1
  <2>4. ASSUME NEW q \in Keys, q \in DOMAIN map'
        PROVE  map'[q] = IF q = k THEN v ELSE map[q]
    <3>1. \E s \in Slots : keys'[s] = q
      BY <2>2, <2>4
    <3>2. PICK s \in Slots : keys'[s] = q
      BY <3>1
    <3>3. \A p \in Slots : keys'[p] = q <=> p = s
      BY <1>9, <2>4, <3>2
    <3>4. (CHOOSE p \in Slots : keys'[p] = q) = s
      BY <3>2, <3>3
    <3>5. map'[q] = vals'[s]
      BY <2>2, <2>4, <3>4 DEF map
    <3>6. CASE q = k
      <4>1. s = t
        BY <1>2, <1>5, <3>3, <3>6
      <4> QED BY <1>5, <3>5, <3>6, <4>1
    <3>7. CASE q # k
      <4>1. s # t
        BY <1>5, <3>2, <3>7
      <4>2. keys[s] = q
        BY <1>5, <3>2, <4>1
      <4>3. \A p \in Slots : keys[p] = q <=> p = s
        BY <4>2 DEF SlotsInv
      <4>4. (CHOOSE p \in Slots : keys[p] = q) = s
        BY <4>2, <4>3
      <4>5. q \in {keys[p] : p \in Slots} \cap Keys
        BY <4>2
      <4>6. map[q] = vals[s]
        BY <4>4, <4>5 DEF map
      <4> QED BY <1>5, <3>5, <3>7, <4>1, <4>6
    <3> QED BY <3>6, <3>7
  <2>5. map' = [x \in DOMAIN map' |-> map'[x]]
    BY DEF map
  <2>6. DOMAIN map' \subseteq Keys
    BY <2>2
  <2> QED BY <2>3, <2>4, <2>5, <2>6 DEF Promised!With
<1> QED BY <1>14, <1>15

\* Where no key and no null comes or goes, the searches stay as they are.
LEMMA SlotsUnchanged ==
  ASSUME SlotsInv, hash' = hash, keys' = keys, vals' = vals,
         result' \in Vals \cup BOOLEAN \cup {None}
  PROVE  SlotsInv' /\ map' = map
<1>1. SlotsTypeOK' /\ Used' = Used
  BY DEF SlotsInv, SlotsTypeOK, Used
<1>2. ASSUME NEW s \in Slots, keys[s] \in Keys PROVE ComesTo(keys[s], s[1])'
  <2>1. ComesTo(keys[s], s[1])
    BY <1>2 DEF SlotsInv
  <2> QED BY <2>1 DEF ComesTo, Line, Match
<1>3. map' = map
  BY DEF map
<1> QED BY <1>1, <1>2, <1>3 DEF SlotsInv

\* A key taken out leaves a slot that no search stops at, and the map.
LEMMA InvalidateStep ==
  ASSUME SlotsInv, NEW k \in Keys, try_invalidate(k)
  PROVE  SlotsInv' /\ Promised!TryInvalidate(k)
<1>1. PICK t : t = find_key_or_null(k)
  OBVIOUS
<1>2. t \in Slots /\ keys[t] \in {k, Null}
  BY <1>1, FindSlot
<1>3. /\ keys' = (IF Found(k) THEN [keys EXCEPT ![t] = Invalid] ELSE keys)
      /\ result' = Found(k) /\ hash' = hash /\ vals' = vals
  BY <1>1 DEF try_invalidate, Returns
<1>4. Found(k) = (keys[t] = k) /\ Found(k) \in BOOLEAN
  BY <1>1 DEF Found
<1>5. result' = Promised!Held(k)
  <2>1. k \in DOMAIN map <=> Found(k)
    BY MapFacts
  <2>2. k \in DOMAIN map <=> keys[t] = k
    BY <1>4, <2>1
  <2>3. Promised!Held(k) = (keys[t] = k)
    BY <2>2 DEF Promised!Held
  <2> QED BY <1>3, <1>4, <2>3
<1>6. CASE ~ Found(k)
  <2>1. SlotsInv' /\ map' = map
    BY <1>3, <1>4, <1>6, SlotsUnchanged
  <2>2. k \notin DOMAIN map
    BY <1>6, MapFacts
  <2>3. map' = Promised!Without(k)
    <3>1. map = [x \in DOMAIN map |-> map[x]] /\ DOMAIN map \ {k} = DOMAIN map
      BY <2>2 DEF map
    <3> QED BY <2>1, <3>1 DEF Promised!Without
  <2> QED BY <1>5, <2>1, <2>3 DEF Promised!TryInvalidate
<1>7. CASE Found(k)
  <2>1. /\ hash \in Hashes /\ keys \in [Slots -> Keys \cup {Null, Invalid}]
        /\ vals \in [Slots -> Vals \cup {None}]
        /\ Cardinality(Used) <= TableSize
        /\ Null \notin Keys /\ Invalid \notin Keys /\ Null # Invalid
    BY PiecesAssumption DEF SlotsInv, SlotsTypeOK
  <2>2. /\ keys[t] = k /\ keys'[t] = Invalid
        /\ \A s \in Slots : s # t => keys'[s] = keys[s] /\ keys[s] # k
        /\ keys' \in [Slots -> Keys \cup {Null, Invalid}]
    BY <1>2, <1>3, <1>4, <1>7, <2>1 DEF SlotsInv
  <2>3. SlotsTypeOK'
    BY <1>3, <1>4, <2>1, <2>2 DEF SlotsTypeOK
  <2>4. \A s \in Slots : keys'[s] = Null <=> keys[s] = Null
    BY <2>1, <2>2
  <2>5. Used' = Used
    BY <2>4 DEF Used
  <2>6. ASSUME NEW s \in Slots, keys'[s] \in Keys PROVE s # t /\ keys'[s] = keys[s]
    BY <2>1, <2>2, <2>6
  <2>7. ASSUME NEW s \in Slots, NEW q \in Slots, keys'[s] \in Keys, keys'[s] = keys'[q]
        PROVE  s = q
    <3>1. keys'[q] = keys[q] /\ keys'[s] = keys[s]
      BY <2>6, <2>7
    <3> QED BY <2>7, <3>1 DEF SlotsInv
  <2>8. ASSUME NEW s \in Slots, keys'[s] \in Keys PROVE ComesTo(keys[s], s[1])'
    <3>1. PICK q \in Keys : q = keys[s] /\ keys'[s] = q
      BY <2>6, <2>8
    <3>2. PICK n \in 0 .. cache_lines - 1 :
            /\ Line(q, n) = s[1]
            /\ \A i \in 0 .. n - 1 : Match(Line(q, i), {Null}) = {}
      BY <3>1 DEF SlotsInv, ComesTo
    <3>3. \A i \in Nat : Line(q, i)' = Line(q, i) /\ Line(q, i) \in 0 .. cache_lines - 1
      <4>1. \A i \in Nat : Line(q, i)' = Line(q, i)
        BY <1>3 DEF Line
      <4>2. \A i \in Nat : Line(q, i) \in 0 .. cache_lines - 1
        BY <2>1, LinesProbed
      <4> QED BY <4>1, <4>2
    <3>4. n \in Nat /\ \A i \in 0 .. n - 1 : i \in Nat
      BY SlotCount
    <3>5. ASSUME NEW i \in 0 .. n - 1 PROVE (Match(Line(q, i), {Null}))' = {}
      <4>1. PICK l \in 0 .. cache_lines - 1 : l = Line(q, i) /\ l = Line(q, i)'
        BY <3>3, <3>4
      <4>2. Match(l, {Null}) = {}
        BY <3>2, <4>1
      <4>3. \A x \in 0 .. Width - 1 : <<l, x>> \in Slots
        BY DEF Slots
      <4>4. Match(l, {Null})' = {}
        BY <2>4, <4>2, <4>3 DEF Match
      <4>5. (Match(Line(q, i), {Null}))' = Match(l, {Null})'
        BY <4>1 DEF Match
      <4> QED BY <4>4, <4>5
    <3>6. ComesTo(q, s[1])'
      BY <3>2, <3>3, <3>4, <3>5 DEF ComesTo
    <3>7. ComesTo(q, s[1])' = ComesTo(keys[s], s[1])'
      BY <3>1 DEF ComesTo, Line, Match
    <3> QED BY <3>6, <3>7
  <2>9. ASSUME NEW l \in 0 .. cache_lines - 1, NEW x \in 0 .. Width - 1, NEW y \in 0 .. Width - 1,
               x < y, keys'[<<l, x>>] = Null
        PROVE  keys'[<<l, y>>] = Null
    <3>1. <<l, x>> \in Slots /\ <<l, y>> \in Slots
      BY DEF Slots
    <3>2. keys[<<l, x>>] = Null
      BY <2>4, <2>9, <3>1
    <3>3. keys[<<l, y>>] = Null
      BY <2>9, <3>2 DEF SlotsInv
    <3> QED BY <2>4, <3>1, <3>3
  <2>10. SlotsInv'
    BY <2>1, <2>3, <2>5, <2>7, <2>8, <2>9 DEF SlotsInv
  <2>11. map' = Promised!Without(k)
    <3>1. DOMAIN map = {keys[s] : s \in Slots} \cap Keys
      BY DEF map
    <3>2. DOMAIN map' = {keys'[s] : s \in Slots} \cap Keys
      BY DEF map
    <3>3. ASSUME NEW q \in Keys PROVE q \in DOMAIN map' <=> q \in DOMAIN map \ {k}
      <4>1. CASE q = k
        BY <2>1, <2>2, <3>2, <4>1
      <4>2. CASE q # k
        <5>1. \A s \in Slots : keys'[s] = q <=> keys[s] = q
          BY <2>1, <2>2, <4>2
        <5> QED BY <3>1, <3>2, <4>2, <5>1
      <4> QED BY <4>1, <4>2
    <3>4. DOMAIN map' = DOMAIN map \ {k}
      BY <3>1, <3>2, <3>3
    <3>5. ASSUME NEW q \in DOMAIN map' PROVE map'[q] = map[q]
      <4>1. q \in Keys /\ q # k
        BY <3>2, <3>4
      <4>2. \A s \in Slots : keys'[s] = q <=> keys[s] = q
        BY <2>1, <2>2, <4>1
      <4>3. (CHOOSE s \in Slots : keys'[s] = q) = (CHOOSE s \in Slots : keys[s] = q)
        <5>1. \A s : (s \in Slots /\ keys'[s] = q) <=> (s \in Slots /\ keys[s] = q)
          BY <4>2
        <5>2. \E s \in Slots : keys[s] = q
          BY <3>1, <3>4
        <5>3. PICK s \in Slots : keys[s] = q /\ \A p \in Slots : keys[p] = q <=> p = s
          BY <4>1, <5>2 DEF SlotsInv
        <5>4. (CHOOSE p \in Slots : keys[p] = q) = s
          BY <5>3
        <5>5. (CHOOSE p \in Slots : keys'[p] = q) = s
          BY <4>2, <5>3
        <5> QED BY <5>4, <5>5
      <4>4. map[q] = vals[CHOOSE s \in Slots : keys[s] = q]
        BY <3>1, <3>4 DEF map
      <4>5. map'[q] = vals[CHOOSE s \in Slots : keys'[s] = q]
        BY <1>3, <3>2 DEF map
      <4> QED BY <4>3, <4>4, <4>5
    <3>6. map' = [x \in DOMAIN map' |-> map'[x]]
      BY DEF map
    <3> QED BY <3>4, <3>5, <3>6 DEF Promised!Without
  <2> QED BY <1>5, <2>10, <2>11 DEF Promised!TryInvalidate
<1> QED BY <1>6, <1>7

NullTable ==
  /\ hash \in Hashes /\ result = None
  /\ keys = [s \in Slots |-> Null] /\ vals = [s \in Slots |-> None]

\* A table of nulls stands for the empty map.
LEMMA EmptyTable == NullTable => SlotsInv /\ map = [q \in {} |-> None]
<1> SUFFICES ASSUME NullTable PROVE SlotsInv /\ map = [q \in {} |-> None]
  OBVIOUS
<1> USE DEF NullTable
<1>1. Null \notin Keys /\ \A s \in Slots : keys[s] = Null
  BY PiecesAssumption
<1>2. SlotsTypeOK
  BY DEF SlotsTypeOK
<1>3. Cardinality(Used) <= TableSize
  <2>1. Used = {}
    BY <1>1 DEF Used
  <2> QED BY <2>1, FS_EmptySet, SlotCount
<1>4. \A l \in 0 .. cache_lines - 1, y \in 0 .. Width - 1 : keys[<<l, y>>] = Null
  BY <1>1 DEF Slots
<1>5. SlotsInv
  BY <1>1, <1>2, <1>3, <1>4 DEF SlotsInv
<1>6. {keys[s] : s \in Slots} \cap Keys = {}
  BY <1>1
<1>7. map = [q \in {} |-> None]
  BY <1>6 DEF map
<1> QED BY <1>5, <1>7

\* Clearing leaves the empty table, whose map is empty.
LEMMA ClearStep ==
  ASSUME SlotsInv, clear
  PROVE  SlotsInv' /\ Promised!Clear
<1>1. NullTable' /\ result' = None
  BY DEF clear, Returns, SlotsInv, SlotsTypeOK, NullTable
<1>2. NullTable' => SlotsInv' /\ (map = [q \in {} |-> None])'
  BY EmptyTable, PTL
<1> QED BY <1>1, <1>2 DEF Promised!Clear

\* The calls with a key and a value do to the map what they promise.
LEMMA ValueCallStep ==
  ASSUME SlotsInv, NEW k \in Keys, NEW v \in Vals,
         \/ insert_or_assign(k, v) \/ assign(k, v) \/ try_insert(k, v)
         \/ get_or_insert(k, v) \/ swap_or_insert(k, v) \/ get_default(k, v)
  PROVE  SlotsInv' /\ Promised!Next
<1>1. PICK t : t = find_key_or_null(k)
  OBVIOUS
<1>2. /\ t \in Slots /\ find_slot(k) = t
      /\ keys[t] = k => find_key(k) = t
  BY <1>1, FindSlot
<1>3. Found(k) = (keys[t] = k) /\ Found(k) \in BOOLEAN
  BY <1>1 DEF Found
<1>4. Promised!Held(k) = Found(k)
  <2>1. k \in DOMAIN map <=> keys[t] = k
    BY <1>3, MapFacts
  <2>2. Promised!Held(k) = (keys[t] = k)
    BY <2>1 DEF Promised!Held
  <2> QED BY <1>3, <2>2
<1>5. /\ vals[t] \in Vals \cup {None}
      /\ Found(k) => map[k] = vals[t]
  <2>1. vals[t] \in Vals \cup {None}
    BY <1>2 DEF SlotsInv, SlotsTypeOK
  <2>2. Found(k) => map[k] = vals[t]
    BY <1>1, MapFacts
  <2> QED BY <2>1, <2>2
<1>6. \A d : Promised!Got(k, d) = IF Found(k) THEN vals[t] ELSE d
  BY <1>4, <1>5 DEF Promised!Got
<1>7. ASSUME hash' = hash, result' \in Vals \cup BOOLEAN \cup {None}, Write(t, k, v)
      PROVE  SlotsInv' /\ map' = Promised!With(k, v)
  BY <1>1, <1>7, WriteStep
<1>8. ASSUME hash' = hash, result' \in Vals \cup BOOLEAN \cup {None}, UNCHANGED <<keys, vals>>
      PROVE  SlotsInv' /\ map' = map
  BY <1>8, SlotsUnchanged
<1>9. CASE insert_or_assign(k, v)
  <2>1. hash' = hash /\ result' = None /\ Write(t, k, v)
    BY <1>2, <1>9 DEF insert_or_assign, Returns
  <2>2. SlotsInv' /\ map' = Promised!With(k, v)
    BY <1>7, <2>1
  <2> QED BY <2>1, <2>2 DEF Promised!Next, Promised!InsertOrAssign
<1>10. CASE assign(k, v)
  <2>1. /\ Found(k) /\ vals' = [vals EXCEPT ![t] = v] /\ keys' = keys
        /\ hash' = hash /\ result' = None
    BY <1>2, <1>3, <1>10 DEF assign, Returns
  <2>2. Write(t, k, v)
    <3>1. keys[t] = k /\ k # Null
      BY <1>3, <2>1, PiecesAssumption
    <3>2. keys' = [keys EXCEPT ![t] = k]
      BY <1>2, <2>1, <3>1 DEF SlotsInv, SlotsTypeOK
    <3> QED BY <2>1, <3>1, <3>2 DEF Write, MayWrite
  <2>3. SlotsInv' /\ map' = Promised!With(k, v)
    BY <1>7, <2>1, <2>2
  <2> QED BY <1>4, <2>1, <2>3 DEF Promised!Next, Promised!Assign
<1>11. CASE try_insert(k, v)
  <2>1. /\ hash' = hash /\ result' = ~ Found(k)
        /\ IF Found(k) THEN UNCHANGED <<keys, vals>> ELSE Write(t, k, v)
    BY <1>1, <1>11 DEF try_insert, Returns
  <2>2. SlotsInv' /\ map' = (IF Found(k) THEN map ELSE Promised!With(k, v))
    BY <1>3, <1>7, <1>8, <2>1
  <2>3. Promised!TryInsert(k, v)
    BY <1>4, <2>1, <2>2 DEF Promised!TryInsert
  <2> QED BY <2>2, <2>3 DEF Promised!Next
<1>12. CASE get_or_insert(k, v)
  <2>1. /\ hash' = hash /\ result' = (IF Found(k) THEN vals[t] ELSE v)
        /\ IF Found(k) THEN UNCHANGED <<keys, vals>> ELSE Write(t, k, v)
    BY <1>1, <1>12 DEF get_or_insert, Returns
  <2>2. SlotsInv' /\ map' = (IF Found(k) THEN map ELSE Promised!With(k, v))
    BY <1>3, <1>5, <1>7, <1>8, <2>1
  <2>3. Promised!GetOrInsert(k, v)
    BY <1>4, <1>6, <2>1, <2>2 DEF Promised!GetOrInsert
  <2> QED BY <2>2, <2>3 DEF Promised!Next
<1>13. CASE swap_or_insert(k, v)
  <2>1. /\ hash' = hash /\ result' = (IF Found(k) THEN vals[t] ELSE None)
        /\ Write(t, k, v)
    BY <1>1, <1>13 DEF swap_or_insert, Returns
  <2>2. SlotsInv' /\ map' = Promised!With(k, v)
    BY <1>5, <1>7, <2>1
  <2>3. Promised!SwapOrInsert(k, v)
    BY <1>6, <2>1, <2>2 DEF Promised!SwapOrInsert
  <2> QED BY <2>2, <2>3 DEF Promised!Next
<1>14. CASE get_default(k, v)
  <2>1. /\ hash' = hash /\ result' = (IF Found(k) THEN vals[t] ELSE v)
        /\ UNCHANGED <<keys, vals>>
    BY <1>1, <1>14 DEF get_default, Returns
  <2>2. SlotsInv' /\ map' = map
    BY <1>5, <1>8, <2>1
  <2>3. Promised!GetDefault(k, v)
    BY <1>6, <2>1, <2>2 DEF Promised!GetDefault
  <2> QED BY <2>2, <2>3 DEF Promised!Next
<1> QED BY <1>9, <1>10, <1>11, <1>12, <1>13, <1>14

\* What every step does to the table, and to the map.
LEMMA TableStepRight ==
  ASSUME SlotsInv, [PiecesNext]_piecesVars
  PROVE  SlotsInv' /\ [Promised!Next]_<<map, result>>
<1>1. CASE SlotsNext
  <2>1. CASE \E k \in Keys, v \in Vals :
               \/ insert_or_assign(k, v) \/ assign(k, v) \/ try_insert(k, v)
               \/ get_or_insert(k, v) \/ swap_or_insert(k, v) \/ get_default(k, v)
    BY <2>1, ValueCallStep
  <2>2. CASE \E k \in Keys : try_invalidate(k)
    BY <2>2, InvalidateStep DEF Promised!Next
  <2>3. CASE clear
    BY <2>3, ClearStep DEF Promised!Next
  <2> QED BY <1>1, <2>1, <2>2, <2>3 DEF SlotsNext
<1>2. CASE UNCHANGED slotVars
  <2>1. result' = result /\ result \in Vals \cup BOOLEAN \cup {None}
    BY <1>2 DEF slotVars, SlotsInv, SlotsTypeOK
  <2>2. SlotsInv' /\ map' = map
    BY <1>2, <2>1, SlotsUnchanged DEF slotVars
  <2> QED BY <2>1, <2>2
<1> QED BY <1>1, <1>2 DEF PiecesNext, piecesVars, TableStep

\* The table begins as a table of nulls.
LEMMA TableInitial == PiecesInit => SlotsInv /\ Promised!Init
<1> SUFFICES ASSUME PiecesInit PROVE SlotsInv /\ Promised!Init
  OBVIOUS
<1>1. NullTable
  BY DEF PiecesInit, SlotsInit, NullTable
<1> QED BY <1>1, EmptyTable DEF NullTable, Promised!Init

\* For every table size, line width and hash function, searches end, as some
\* slot is always null, and find a key where it is, although keys are taken out
\* between (hash_set, hash_map).
THEOREM TableIsRight == PiecesSpec => []HashInv
<1>1. PiecesInit => SlotsInv
  BY TableInitial
<1>2. SlotsInv /\ [PiecesNext]_piecesVars => SlotsInv'
  BY TableStepRight
<1>3. SlotsInv => HashInv
  BY SlotsRight
<1> QED BY <1>1, <1>2, <1>3, PTL DEF PiecesSpec

\* The tables implement a map from keys to values, and every call returns what
\* it would return of that map (hash_set, hash_map).
THEOREM TableIsAMap == PiecesSpec => ImplementsMap
<1>1. PiecesInit => SlotsInv /\ Promised!Init
  BY TableInitial
<1>2. SlotsInv /\ [PiecesNext]_piecesVars => SlotsInv' /\ [Promised!Next]_<<map, result>>
  BY TableStepRight
<1> QED BY <1>1, <1>2, PTL DEF PiecesSpec, ImplementsMap, Promised!Spec
-----------------------------------------------------------------------------
(* Partitions                                                              *)

\* A number between two multiples is of the one below it.
LEMMA InMultiple ==
  ASSUME NEW x \in Nat, NEW d \in Nat \ {0}, NEW q \in Nat
  PROVE  q * d <= x /\ x < q * d + d <=> x \div d = q
<1>1. PICK p, a : p = x \div d /\ a = x % d
  OBVIOUS
<1>2. x = p * d + a /\ p \in Nat /\ a \in 0 .. d - 1
  BY <1>1, QuotientAndRest
<1>3. q < p => q * d + d <= p * d
  BY <1>2
<1>4. q > p => p * d + d <= q * d
  BY <1>2
<1>5. PICK y, z : y = p * d /\ z = q * d
  OBVIOUS
<1>6. y \in Int /\ z \in Int
  BY <1>2, <1>5
<1>7. p = q <=> z <= x /\ x < z + d
  BY <1>2, <1>3, <1>4, <1>5, <1>6
<1> QED BY <1>1, <1>5, <1>7

\* Division that rounds up counts the multiples below a number.
LEMMA MultiplesBelow ==
  ASSUME NEW x \in Nat, NEW d \in Nat \ {0}, NEW k \in Nat
  PROVE  /\ (x + d - 1) \div d \in Nat
         /\ k < (x + d - 1) \div d <=> k * d < x
<1>1. x + d - 1 \in Nat
  OBVIOUS
<1>2. PICK p, a : p = (x + d - 1) \div d /\ a = (x + d - 1) % d
  OBVIOUS
<1>3. x + d - 1 = p * d + a /\ p \in Nat /\ a \in 0 .. d - 1
  BY <1>1, <1>2, QuotientAndRest
<1>4. k < p => k * d + d <= p * d
  BY <1>3
<1>5. k >= p => p * d <= k * d
  BY <1>3
<1>6. PICK y, z : y = p * d /\ z = k * d
  OBVIOUS
<1>7. y \in Int /\ z \in Int
  BY <1>3, <1>6
<1>8. k < p <=> z < x
  BY <1>3, <1>4, <1>5, <1>6, <1>7
<1> QED BY <1>2, <1>3, <1>6, <1>8

\* Numbers that fit into a vertex_t stay what they are.
LEMMA Fits ==
  ASSUME NEW x \in Nat, x < Size
  PROVE  Wrap(x) = x
<1>1. Size \in Nat \ {0} /\ 0 \in Nat /\ x \in 0 .. Size - 1
  BY SizeAssumption
<1>2. (0 * Size + x) % Size = x
  BY <1>1, RestOf
<1>3. 0 * Size + x = x
  BY <1>1
<1> QED BY <1>2, <1>3 DEF Wrap

\* Rank q has the vertices from B[q] up to E[q], and all ranks know from W.
SlicesOf(parts, n, ws, B, E, W) ==
  /\ n \in 0 .. Size - 1 /\ ws \in Nat \ {0}
  /\ B \in [0 .. ws - 1 -> 0 .. n] /\ E \in [0 .. ws - 1 -> 0 .. n]
  /\ DOMAIN parts = 0 .. ws - 1
  /\ \A q \in 0 .. ws - 1 : B[q] <= E[q] /\ parts[q] = Slice(n, B[q], E[q], W)
  /\ \A i \in 0 .. n - 1 : \A q \in 0 .. ws - 1 : (B[q] <= i /\ i < E[q]) <=> W[i] = q

\* Slices that lie where the ranks look for them are a partition.
LEMMA SlicesAgree ==
  ASSUME NEW parts, NEW n, NEW ws, NEW B, NEW E, NEW W, SlicesOf(parts, n, ws, B, E, W)
  PROVE  PartsAgree(parts)
<1>0. /\ n \in 0 .. Size - 1 /\ ws \in Nat \ {0}
      /\ B \in [0 .. ws - 1 -> 0 .. n] /\ E \in [0 .. ws - 1 -> 0 .. n]
      /\ DOMAIN parts = 0 .. ws - 1
      /\ \A q \in 0 .. ws - 1 : B[q] <= E[q] /\ parts[q] = Slice(n, B[q], E[q], W)
      /\ \A i \in 0 .. n - 1 : \A q \in 0 .. ws - 1 : (B[q] <= i /\ i < E[q]) <=> W[i] = q
  BY DEF SlicesOf
<1>1. Size \in Nat \ {0}
  BY SizeAssumption
<1>2. ASSUME NEW x \in Nat, x < Size
      PROVE  Wrap(x) = x
  BY <1>1, <1>2, Fits
<1>3. ASSUME NEW q \in 0 .. ws - 1
      PROVE  /\ parts[q].n = n
             /\ parts[q].local_n = E[q] - B[q] /\ E[q] - B[q] \in Nat
             /\ \A i \in 0 .. n - 1 : /\ parts[q].to_local[i] = Wrap(i - B[q])
                                      /\ parts[q].has_local[i] <=> i >= B[q] /\ i < E[q]
             /\ \A k \in 0 .. E[q] - B[q] - 1 : parts[q].to_global[k] = k + B[q]
             /\ parts[q].world_rank_of = W
  <2>1. PICK b, e : b = B[q] /\ e = E[q]
    OBVIOUS
  <2>2. b \in 0 .. n /\ e \in 0 .. n /\ b <= e
    BY <1>0, <2>1
  <2>3. Wrap(e - b) = e - b /\ e - b \in Nat
    <3>1. e - b \in Nat /\ e - b < Size
      BY <1>0, <1>1, <2>2
    <3> QED BY <1>2, <3>1
  <2>4. ASSUME NEW k \in 0 .. e - b - 1
        PROVE  Wrap(k + b) = k + b
    <3>1. k + b \in Nat /\ k + b < Size
      BY <1>0, <1>1, <2>2
    <3> QED BY <1>2, <3>1
  <2>5. parts[q] = Slice(n, b, e, W)
    BY <1>0, <2>1
  <2>6. /\ parts[q].n = n
        /\ parts[q].local_n = Wrap(e - b)
        /\ parts[q].to_local = [i \in 0 .. n - 1 |-> Wrap(i - b)]
        /\ parts[q].to_global = [k \in 0 .. Wrap(e - b) - 1 |-> Wrap(k + b)]
        /\ parts[q].has_local = [i \in 0 .. n - 1 |-> i >= b /\ i < e]
        /\ parts[q].world_rank_of = W
    <3> QED BY <2>5 DEF Slice
  <2>7. ASSUME NEW i \in 0 .. n - 1
        PROVE  parts[q].to_local[i] = Wrap(i - b) /\ (parts[q].has_local[i] <=> i >= b /\ i < e)
    BY <2>6
  <2>8. ASSUME NEW k \in 0 .. e - b - 1
        PROVE  parts[q].to_global[k] = k + b
    BY <2>3, <2>4, <2>6
  <2> QED BY <2>1, <2>3, <2>6, <2>7, <2>8
<1>4. DOMAIN parts = 0 .. ws - 1
  BY <1>0
<1>5. ASSUME NEW q \in 0 .. ws - 1
      PROVE  LET p == parts[q]
             IN  /\ \A i \in 0 .. p.n - 1 :
                      /\ p.has_local[i] <=> p.world_rank_of[i] = q
                      /\ \A s \in DOMAIN parts : parts[s].world_rank_of[i] = p.world_rank_of[i]
                      /\ p.has_local[i] => /\ p.to_local[i] \in 0 .. p.local_n - 1
                                           /\ p.to_global[p.to_local[i]] = i
                 /\ \A k \in 0 .. p.local_n - 1 : /\ p.to_global[k] \in 0 .. p.n - 1
                                                  /\ p.has_local[p.to_global[k]]
                                                  /\ k > 0 => p.to_global[k - 1] < p.to_global[k]
  <2>1. PICK p : p = parts[q]
    OBVIOUS
  <2>2. PICK b, e : b = B[q] /\ e = E[q]
    OBVIOUS
  <2>3. b \in 0 .. n /\ e \in 0 .. n /\ b <= e
    BY <1>0, <2>2
  <2>4. /\ p.n = n /\ p.local_n = e - b /\ p.world_rank_of = W
        /\ \A i \in 0 .. n - 1 : /\ p.to_local[i] = Wrap(i - b)
                                 /\ p.has_local[i] <=> i >= b /\ i < e
        /\ \A k \in 0 .. e - b - 1 : p.to_global[k] = k + b
    BY <1>3, <2>1, <2>2
  <2>5. ASSUME NEW i \in 0 .. n - 1
        PROVE  /\ p.has_local[i] <=> p.world_rank_of[i] = q
               /\ \A s \in DOMAIN parts : parts[s].world_rank_of[i] = p.world_rank_of[i]
    <3>1. (b <= i /\ i < e) <=> W[i] = q
      BY <1>0, <2>2
    <3>2. i \in Int /\ b \in Int /\ (i >= b <=> b <= i)
      BY <1>0, <2>3
    <3>3. p.has_local[i] <=> W[i] = q
      BY <2>4, <3>1, <3>2
    <3>4. \A s \in DOMAIN parts : parts[s].world_rank_of = W
      BY <1>3, <1>4
    <3> QED BY <2>4, <3>3, <3>4
  <2>6. ASSUME NEW i \in 0 .. n - 1, p.has_local[i]
        PROVE  p.to_local[i] \in 0 .. p.local_n - 1 /\ p.to_global[p.to_local[i]] = i
    <3>1. i >= b /\ i < e
      BY <2>4, <2>6
    <3>2. i - b \in Nat /\ i - b < Size /\ i - b \in 0 .. e - b - 1
      BY <1>0, <1>1, <2>3, <3>1
    <3>3. p.to_local[i] = i - b
      BY <1>2, <2>4, <3>2
    <3>4. p.to_global[i - b] = (i - b) + b
      BY <2>4, <3>2
    <3> QED BY <1>0, <2>3, <2>4, <3>2, <3>3, <3>4
  <2>7. ASSUME NEW k \in 0 .. e - b - 1
        PROVE  /\ p.to_global[k] \in 0 .. n - 1
               /\ p.has_local[p.to_global[k]]
               /\ k > 0 => p.to_global[k - 1] < p.to_global[k]
    <3>1. p.to_global[k] = k + b /\ k + b \in 0 .. n - 1 /\ k + b >= b /\ k + b < e
      BY <1>0, <2>3, <2>4
    <3>2. k > 0 => p.to_global[k - 1] = (k - 1) + b
      <4>1. k > 0 => k - 1 \in 0 .. e - b - 1
        BY <1>0, <2>3
      <4> QED BY <2>4, <4>1
    <3>3. p.has_local[k + b]
      BY <2>4, <3>1
    <3> QED BY <1>0, <2>3, <3>1, <3>2, <3>3
  <2> QED BY <2>1, <2>4, <2>5, <2>6, <2>7
<1> QED BY <1>4, <1>5 DEF PartsAgree

\* Slices of balanced_slice_part: the first ranks have one vertex more.
LEMMA BalancedAgree ==
  ASSUME NEW n \in 0 .. Size - 1, NEW ws \in Nat \ {0}
  PROVE  PartsAgree([q \in 0 .. ws - 1 |-> balanced_slice_part(n, ws, q)])
<1>1. PICK base, rem : base = n \div ws /\ rem = n % ws
  OBVIOUS
<1>2. n \in Nat /\ n = base * ws + rem /\ base \in Nat /\ rem \in 0 .. ws - 1
  <2>1. n \in Nat
    BY SizeAssumption
  <2> QED BY <1>1, <2>1, QuotientAndRest
<1>3. PICK split : split = rem * (base + 1)
  OBVIOUS
<1>4. PICK d : d = base + 1
  OBVIOUS
<1>5. d \in Nat \ {0} /\ split = rem * d /\ split \in Nat
  BY <1>2, <1>3, <1>4
<1> DEFINE b(q) == IF q < rem THEN q * d ELSE split + (q - rem) * base
           e(q) == b(q) + (IF q < rem THEN d ELSE base)
           B == [q \in 0 .. ws - 1 |-> b(q)]
           E == [q \in 0 .. ws - 1 |-> e(q)]
           W == [i \in 0 .. n - 1 |-> IF i < split THEN i \div d
                                      ELSE rem + (i - split) \div base]
<1>6. n = split + (ws - rem) * base
  <2>1. rem * d = rem * base + rem
    BY <1>2, <1>4
  <2>2. (ws - rem) * base = base * ws - rem * base
    BY <1>2
  <2>3. PICK x, y : x = rem * base /\ y = base * ws
    OBVIOUS
  <2>4. x \in Int /\ y \in Int
    BY <1>2, <2>3
  <2> QED BY <1>2, <1>5, <2>1, <2>2, <2>3, <2>4
<1>7. ASSUME NEW q \in 0 .. ws - 1
      PROVE  b(q) \in Nat /\ e(q) \in 0 .. n /\ b(q) <= e(q)
  <2>1. CASE q < rem
    <3>1. q * d + d <= rem * d
      BY <1>2, <1>5, <2>1
    <3>2. PICK x, y : x = q * d /\ y = (ws - rem) * base
      OBVIOUS
    <3>3. x \in Nat /\ y \in Nat
      BY <1>2, <1>5, <3>2
    <3>4. b(q) = x /\ e(q) = x + d /\ x + d <= split /\ n = split + y
      BY <1>5, <1>6, <2>1, <3>1, <3>2
    <3> HIDE DEF b, e
    <3> QED BY <1>5, <3>3, <3>4
  <2>2. CASE q >= rem
    <3>1. (q - rem) * base + base <= (ws - rem) * base
      BY <1>2, <2>2
    <3>2. PICK x, y : x = (q - rem) * base /\ y = (ws - rem) * base
      OBVIOUS
    <3>3. x \in Nat /\ y \in Nat
      BY <1>2, <2>2, <3>2
    <3>4. ~ (q < rem)
      BY <1>2, <2>2
    <3>5. b(q) = split + x /\ e(q) = (split + x) + base
      BY <3>2, <3>4
    <3> HIDE DEF b, e
    <3> QED BY <1>2, <1>5, <1>6, <3>1, <3>2, <3>3, <3>5
  <2> HIDE DEF b, e
  <2> QED BY <1>2, <2>1, <2>2
<1>8. ASSUME NEW i \in 0 .. n - 1, NEW q \in 0 .. ws - 1
      PROVE  (b(q) <= i /\ i < e(q)) <=> W[i] = q
  <2>1. i \in Nat /\ n \in Nat
    BY <1>2
  <2>2. CASE i < split
    <3>1. PICK a : a = i \div d
      OBVIOUS
    <3>2. W[i] = a
      BY <1>8, <2>2, <3>1
    <3>3. a \in Nat /\ (\A s \in Nat : s * d <= i /\ i < s * d + d <=> a = s)
      BY <1>5, <2>1, <3>1, InMultiple, QuotientAndRest
    <3>4. CASE q < rem
      <4>1. b(q) = q * d /\ e(q) = q * d + d
        BY <3>4
      <4> HIDE DEF b, e, W
      <4> QED BY <3>2, <3>3, <4>1
    <3>5. CASE q >= rem
      <4>1. ~ (q < rem)
        BY <1>2, <3>5
      <4>2. b(q) = split + (q - rem) * base
        BY <4>1
      <4>3. (q - rem) * base \in Nat
        BY <1>2, <3>5
      <4>4. b(q) > i
        <5> HIDE DEF b
        <5> QED BY <1>5, <2>1, <2>2, <4>2, <4>3
      <4>5. a < rem
        <5>1. a * d <= i
          BY <3>3
        <5>2. a >= rem => rem * d <= a * d
          BY <1>2, <1>5, <3>3
        <5>3. PICK x, y : x = a * d /\ y = rem * d
          OBVIOUS
        <5>4. x \in Int /\ y \in Int
          BY <1>2, <1>5, <3>3, <5>3
        <5> QED BY <1>2, <1>5, <2>1, <2>2, <3>3, <5>1, <5>2, <5>3, <5>4
      <4>6. b(q) \in Nat
        BY <1>7
      <4> HIDE DEF b, e, W
      <4> QED BY <1>2, <2>1, <3>2, <3>3, <3>5, <4>4, <4>5, <4>6
    <3> HIDE DEF b, e, W
    <3> QED BY <1>2, <3>4, <3>5
  <2>3. CASE i >= split
    <3>1. base # 0
      <4>1. base = 0 => (ws - rem) * base = 0
        BY <1>2
      <4> QED BY <1>2, <1>5, <1>6, <2>1, <2>3, <4>1
    <3>2. base \in Nat \ {0} /\ i - split \in Nat /\ ~ (i < split)
      BY <1>2, <1>5, <2>1, <2>3, <3>1
    <3>3. PICK a : a = (i - split) \div base
      OBVIOUS
    <3>4. W[i] = rem + a
      BY <1>8, <3>2, <3>3
    <3>5. /\ a \in Nat
          /\ \A s \in Nat : s * base <= i - split /\ i - split < s * base + base <=> a = s
      BY <3>2, <3>3, InMultiple, QuotientAndRest
    <3>6. CASE q < rem
      <4>1. e(q) = q * d + d
        BY <3>6
      <4>2. q * d + d <= rem * d
        BY <1>2, <1>5, <3>6
      <4>3. e(q) <= i
        <5>1. e(q) \in Nat
          BY <1>2, <1>7
        <5> HIDE DEF e
        <5> QED BY <1>5, <2>1, <2>3, <4>1, <4>2, <5>1
      <4>4. e(q) \in Nat
        BY <1>2, <1>7
      <4> HIDE DEF b, e, W
      <4> QED BY <1>2, <2>1, <3>4, <3>5, <3>6, <4>3, <4>4
    <3>7. CASE q >= rem
      <4>1. ~ (q < rem) /\ q - rem \in Nat
        BY <1>2, <3>7
      <4>2. PICK x : x = (q - rem) * base
        OBVIOUS
      <4>3. x \in Nat
        BY <1>2, <4>1, <4>2
      <4>4. b(q) = split + x /\ e(q) = (split + x) + base
        BY <4>1, <4>2
      <4>5. (x <= i - split /\ i - split < x + base) <=> a = q - rem
        BY <3>5, <4>1, <4>2
      <4> HIDE DEF b, e, W
      <4>6. (b(q) <= i /\ i < e(q)) <=> (x <= i - split /\ i - split < x + base)
        BY <1>2, <1>5, <2>1, <4>3, <4>4
      <4>7. a = q - rem <=> rem + a = q
        BY <1>2, <3>5
      <4> QED BY <3>4, <4>5, <4>6, <4>7
    <3> HIDE DEF b, e, W
    <3> QED BY <1>2, <3>6, <3>7
  <2> HIDE DEF b, e, W
  <2> QED BY <1>5, <2>1, <2>2, <2>3
<1> DEFINE parts == [q \in 0 .. ws - 1 |-> balanced_slice_part(n, ws, q)]
<1>9. \A q \in 0 .. ws - 1 : parts[q] = Slice(n, b(q), e(q), W)
  BY <1>1, <1>3, <1>4 DEF balanced_slice_part, balanced_slice_part_view
<1>10. DOMAIN parts = 0 .. ws - 1
  OBVIOUS
<1> HIDE DEF b, e, W, parts
<1>11. \A q \in 0 .. ws - 1 : b(q) \in 0 .. n /\ e(q) \in 0 .. n /\ b(q) <= e(q)
  BY <1>2, <1>7
<1>12. /\ B \in [0 .. ws - 1 -> 0 .. n] /\ E \in [0 .. ws - 1 -> 0 .. n]
       /\ \A q \in 0 .. ws - 1 : B[q] = b(q) /\ E[q] = e(q)
  BY <1>11
<1> HIDE DEF B, E
<1>13. SlicesOf(parts, n, ws, B, E, W)
  BY <1>8, <1>9, <1>10, <1>11, <1>12 DEF SlicesOf
<1> QED BY <1>13, SlicesAgree DEF parts

\* Slices of trivial_slice_part: the last rank has the remainder as well.
LEMMA TrivialAgree ==
  ASSUME NEW n \in 0 .. Size - 1, NEW ws \in Nat \ {0}
  PROVE  PartsAgree([q \in 0 .. ws - 1 |-> trivial_slice_part(n, ws, q)])
<1>1. PICK base, rem : base = n \div ws /\ rem = n % ws
  OBVIOUS
<1>2. n \in Nat /\ n = base * ws + rem /\ base \in Nat /\ rem \in 0 .. ws - 1
  <2>1. n \in Nat
    BY SizeAssumption
  <2> QED BY <1>1, <2>1, QuotientAndRest
<1> DEFINE b(q) == q * base
           e(q) == IF q + 1 = ws THEN n ELSE q * base + base
           B == [q \in 0 .. ws - 1 |-> b(q)]
           E == [q \in 0 .. ws - 1 |-> e(q)]
           W == [i \in 0 .. n - 1 |-> IF base = 0 \/ i \div base >= ws THEN ws - 1
                                                                      ELSE i \div base]
<1>3. ASSUME NEW q \in 0 .. ws - 1
      PROVE  /\ b(q) \in Nat /\ b(q) + base <= n
             /\ e(q) \in 0 .. n /\ b(q) + base <= e(q)
  <2>1. q * base + base <= base * ws
    BY <1>2
  <2>2. PICK x, y : x = q * base /\ y = base * ws
    OBVIOUS
  <2>3. x \in Nat /\ y \in Nat
    BY <1>2, <2>2
  <2>4. b(q) = x /\ e(q) = IF q + 1 = ws THEN n ELSE x + base
    BY <2>2
  <2> HIDE DEF b, e
  <2> QED BY <1>2, <2>1, <2>2, <2>3, <2>4
<1>4. ASSUME NEW i \in 0 .. n - 1, NEW q \in 0 .. ws - 1
      PROVE  (b(q) <= i /\ i < e(q)) <=> W[i] = q
  <2>1. i \in Nat /\ n \in Nat
    BY <1>2
  <2>2. CASE base = 0
    <3>1. b(q) = 0 /\ e(q) = IF q + 1 = ws THEN n ELSE 0
      BY <1>2, <2>2
    <3>2. W[i] = ws - 1
      BY <1>4, <2>2
    <3> HIDE DEF b, e, W
    <3> QED BY <2>1, <3>1, <3>2
  <2>3. CASE base # 0
    <3>1. PICK a : a = i \div base
      OBVIOUS
    <3>2. /\ a \in Nat
          /\ \A s \in Nat : s * base <= i /\ i < s * base + base <=> a = s
      BY <1>2, <2>1, <2>3, <3>1, InMultiple, QuotientAndRest
    <3>3. W[i] = IF a >= ws THEN ws - 1 ELSE a
      BY <1>4, <2>3, <3>1
    <3>4. PICK x : x = q * base
      OBVIOUS
    <3>5. x \in Nat /\ b(q) = x /\ e(q) = IF q + 1 = ws THEN n ELSE x + base
      BY <1>2, <3>4
    <3>6. (x <= i /\ i < x + base) <=> a = q
      BY <3>2, <3>4
    <3>7. x <= i <=> q <= a
      <4>1. q < a => q * base + base <= a * base
        BY <1>2, <3>2
      <4>2. q > a => a * base + base <= q * base
        BY <1>2, <3>2
      <4>3. PICK y : y = a * base
        OBVIOUS
      <4>4. y \in Nat
        BY <1>2, <3>2, <4>3
      <4>5. y <= i /\ i < y + base
        BY <3>2, <4>3
      <4> QED BY <1>2, <2>1, <3>2, <3>4, <3>5, <4>1, <4>2, <4>3, <4>4, <4>5
    <3> HIDE DEF b, e, W
    <3> QED BY <1>2, <2>1, <3>2, <3>3, <3>5, <3>6, <3>7
  <2> HIDE DEF b, e, W
  <2> QED BY <2>2, <2>3
<1> DEFINE parts == [q \in 0 .. ws - 1 |-> trivial_slice_part(n, ws, q)]
<1>5. \A q \in 0 .. ws - 1 : parts[q] = Slice(n, b(q), e(q), W)
  BY <1>1 DEF trivial_slice_part, trivial_slice_part_view
<1>6. DOMAIN parts = 0 .. ws - 1
  OBVIOUS
<1> HIDE DEF b, e, W, parts
<1>7. \A q \in 0 .. ws - 1 : b(q) \in 0 .. n /\ e(q) \in 0 .. n /\ b(q) <= e(q)
  BY <1>2, <1>3
<1>8. /\ B \in [0 .. ws - 1 -> 0 .. n] /\ E \in [0 .. ws - 1 -> 0 .. n]
      /\ \A q \in 0 .. ws - 1 : B[q] = b(q) /\ E[q] = e(q)
  BY <1>7
<1> HIDE DEF B, E
<1>9. SlicesOf(parts, n, ws, B, E, W)
  BY <1>4, <1>5, <1>6, <1>7, <1>8 DEF SlicesOf
<1> QED BY <1>9, SlicesAgree DEF parts

\* Slices of single_part: one rank has everything.
LEMMA SingleAgrees ==
  ASSUME NEW n \in 0 .. Size - 1
  PROVE  PartsAgree([q \in 0 .. 0 |-> single_part(n)])
<1> DEFINE B == [q \in 0 .. 1 - 1 |-> 0]
           E == [q \in 0 .. 1 - 1 |-> n]
           W == [i \in 0 .. n - 1 |-> 0]
           parts == [q \in 0 .. 0 |-> single_part(n)]
<1>1. n \in Nat
  BY SizeAssumption
<1>2. 0 .. 1 - 1 = {0} /\ 0 .. 0 = {0}
  OBVIOUS
<1>3. B \in [0 .. 1 - 1 -> 0 .. n] /\ E \in [0 .. 1 - 1 -> 0 .. n] /\ B[0] = 0 /\ E[0] = n
  BY <1>1, <1>2
<1>4. DOMAIN parts = 0 .. 1 - 1 /\ parts[0] = Slice(n, 0, n, W)
  BY <1>2 DEF single_part, single_part_view
<1>5. \A i \in 0 .. n - 1 : W[i] = 0 /\ 0 <= i /\ i < n
  BY <1>1
<1> HIDE DEF B, E, W, parts
<1>6. /\ \A q \in 0 .. 1 - 1 : B[q] <= E[q] /\ parts[q] = Slice(n, B[q], E[q], W)
      /\ \A i \in 0 .. n - 1 : \A q \in 0 .. 1 - 1 : (B[q] <= i /\ i < E[q]) <=> W[i] = q
  BY <1>1, <1>2, <1>3, <1>4, <1>5
<1>7. SlicesOf(parts, n, 1, B, E, W)
  BY <1>3, <1>4, <1>6 DEF SlicesOf
<1> QED BY <1>7, SlicesAgree DEF parts

\* Slices of explicit_sorted_part: the first rank whose end is behind a vertex
\* has it.
LEMMA SortedAgree ==
  ASSUME NEW n \in 0 .. Size - 1, NEW ws \in Nat \ {0}, NEW p \in [0 .. ws - 1 -> 0 .. n],
         Sorted([n |-> n, ws |-> ws, part |-> p])
  PROVE  PartsAgree([q \in 0 .. ws - 1 |-> explicit_sorted_part(n, ws, q, p)])
<1>1. n \in Nat
  BY SizeAssumption
<1>2. /\ \A q \in 0 .. ws - 1, s \in 0 .. ws - 1 : q <= s => p[q] <= p[s]
      /\ p[ws - 1] = n
  BY DEF Sorted
<1>3. \A q \in 0 .. ws - 1 : p[q] \in 0 .. n
  OBVIOUS
<1> DEFINE b(q) == IF q = 0 THEN 0 ELSE p[q - 1]
           B == [q \in 0 .. ws - 1 |-> b(q)]
           W == [i \in 0 .. n - 1 |-> CHOOSE q \in 0 .. ws - 1 : b(q) <= i /\ i < p[q]]
<1>4. \A q \in 0 .. ws - 1 : b(q) \in 0 .. n /\ b(q) <= p[q]
  <2> SUFFICES ASSUME NEW q \in 0 .. ws - 1
               PROVE  b(q) \in 0 .. n /\ b(q) <= p[q]
    OBVIOUS
  <2>1. q # 0 => q - 1 \in 0 .. ws - 1 /\ q - 1 <= q
    OBVIOUS
  <2>2. q # 0 => p[q - 1] \in 0 .. n /\ p[q - 1] <= p[q]
    BY <1>2, <1>3, <2>1
  <2> QED BY <1>1, <1>3, <2>2
<1>5. ASSUME NEW i \in 0 .. n - 1
      PROVE  \E q \in 0 .. ws - 1 : \A s \in 0 .. ws - 1 : (b(s) <= i /\ i < p[s]) <=> s = q
  <2> DEFINE S == {q \in 0 .. ws - 1 : i < p[q]}
  <2>1. ws - 1 \in S /\ S \in SUBSET Nat
    BY <1>2
  <2>2. PICK q \in S : \A s \in S : q <= s
    <3> HIDE DEF S
    <3>1. Min(S) \in S /\ \A s \in S : Min(S) <= s
      BY <2>1, LeastOfSome
    <3> QED BY <3>1
  <2>3. q \in 0 .. ws - 1 /\ i < p[q] /\ \A s \in 0 .. ws - 1 : i < p[s] => q <= s
    BY <2>2
  <2> HIDE DEF S
  <2>4. ASSUME NEW s \in 0 .. ws - 1
        PROVE  (b(s) <= i /\ i < p[s]) <=> s = q
    <3>1. CASE s < q
      <4>1. ~ (i < p[s]) /\ s # q
        BY <2>3, <3>1
      <4> QED BY <4>1
    <3>2. CASE s = q
      <4>1. q # 0 => q - 1 \in 0 .. ws - 1 /\ ~ (q <= q - 1)
        BY <2>3
      <4>2. q # 0 => ~ (i < p[q - 1])
        BY <2>3, <4>1
      <4>3. q # 0 => p[q - 1] \in 0 .. n
        BY <1>3, <4>1
      <4> QED BY <1>1, <2>3, <3>2, <4>2, <4>3
    <3>3. CASE s > q
      <4>1. s # 0 /\ s - 1 \in 0 .. ws - 1 /\ q <= s - 1
        BY <2>3, <3>3
      <4>2. p[q] <= p[s - 1] /\ p[s - 1] \in 0 .. n /\ p[q] \in 0 .. n
        BY <1>2, <1>3, <2>3, <4>1
      <4>3. ~ (p[s - 1] <= i) /\ s # q
        BY <1>1, <2>3, <3>3, <4>2
      <4> QED BY <4>1, <4>3
    <3> HIDE DEF b
    <3> QED BY <2>3, <3>1, <3>2, <3>3
  <2> HIDE DEF b
  <2> QED BY <2>3, <2>4
<1>6. ASSUME NEW i \in 0 .. n - 1, NEW q \in 0 .. ws - 1
      PROVE  (b(q) <= i /\ i < p[q]) <=> W[i] = q
  <2>1. W[i] = CHOOSE s \in 0 .. ws - 1 : b(s) <= i /\ i < p[s]
    OBVIOUS
  <2> HIDE DEF b, W
  <2>2. PICK s \in 0 .. ws - 1 : \A t \in 0 .. ws - 1 : (b(t) <= i /\ i < p[t]) <=> t = s
    BY <1>5
  <2>3. W[i] = s
    BY <2>1, <2>2
  <2> QED BY <2>2, <2>3
<1> DEFINE parts == [q \in 0 .. ws - 1 |-> explicit_sorted_part(n, ws, q, p)]
<1>7. \A q \in 0 .. ws - 1 : parts[q] = Slice(n, b(q), p[q], W)
  <2>1. [q \in 0 .. ws - 1 |-> p[q]] = p
    OBVIOUS
  <2>2. ASSUME NEW q \in 0 .. ws - 1
        PROVE  explicit_sorted_part(n, ws, q, p) = Slice(n, b(q), p[q], W)
    <3>1. explicit_sorted_part(n, ws, q, p) = explicit_sorted_part_view(n, ws, q, p)
      BY <2>1 DEF explicit_sorted_part
    <3>2. explicit_sorted_part_view(n, ws, q, p) = Slice(n, b(q), p[q], W)
      BY DEF explicit_sorted_part_view
    <3> QED BY <3>1, <3>2
  <2>3. \A q \in 0 .. ws - 1 : parts[q] = explicit_sorted_part(n, ws, q, p)
    OBVIOUS
  <2> HIDE DEF b, W, parts
  <2> QED BY <2>2, <2>3
<1>8. DOMAIN parts = 0 .. ws - 1
  OBVIOUS
<1> HIDE DEF b, W, parts
<1>9. B \in [0 .. ws - 1 -> 0 .. n] /\ \A q \in 0 .. ws - 1 : B[q] = b(q)
  BY <1>4
<1> HIDE DEF B
<1>10. SlicesOf(parts, n, ws, B, p, W)
  BY <1>4, <1>6, <1>7, <1>8, <1>9 DEF SlicesOf
<1> QED BY <1>10, SlicesAgree DEF parts

\* Slices of explicit_continuous_part: all ranks hold the same array of ends.
LEMMA ContinuousAgree ==
  ASSUME NEW n \in 0 .. Size - 1, NEW ws \in Nat \ {0},
         NEW B \in [0 .. ws - 1 -> 0 .. n], NEW E \in [0 .. ws - 1 -> 0 .. n],
         \A q \in 0 .. ws - 1 : B[q] <= E[q],
         \A v \in 0 .. n - 1 : \E q \in 0 .. ws - 1 : \A s \in 0 .. ws - 1 :
           (B[s] <= v /\ v < E[s]) <=> s = q
  PROVE  PartsAgree([q \in 0 .. ws - 1 |-> explicit_continuous_part(n, ws, q, B, E)])
<1> DEFINE all == [x \in 0 .. 2 * ws - 1 |-> IF x % 2 = 0 THEN B[x \div 2] ELSE E[x \div 2]]
           has(i) == {q \in 0 .. ws - 1 : all[2 * q] <= i /\ i < all[2 * q + 1]}
           W == [i \in 0 .. n - 1 |->
                   LET owners == has(i)
                   IN  IF owners = {} THEN -1
                       ELSE CHOOSE q \in owners : \A p \in owners : q <= p]
<1>1. \A q \in 0 .. ws - 1 : all[2 * q] = B[q] /\ all[2 * q + 1] = E[q]
  <2> SUFFICES ASSUME NEW q \in 0 .. ws - 1
               PROVE  all[2 * q] = B[q] /\ all[2 * q + 1] = E[q]
    OBVIOUS
  <2>1. /\ 2 * q \in 0 .. 2 * ws - 1 /\ 2 * q + 1 \in 0 .. 2 * ws - 1
        /\ (2 * q) % 2 = 0 /\ (2 * q) \div 2 = q
        /\ (2 * q + 1) % 2 = 1 /\ (2 * q + 1) \div 2 = q
    OBVIOUS
  <2>2. \A x \in 0 .. 2 * ws - 1 : all[x] = IF x % 2 = 0 THEN B[x \div 2] ELSE E[x \div 2]
    OBVIOUS
  <2> HIDE DEF all
  <2>3. all[2 * q] = B[q]
    BY <2>1, <2>2
  <2>4. all[2 * q + 1] = E[q]
    <3>1. PICK x : x = 2 * q + 1
      OBVIOUS
    <3>2. x \in 0 .. 2 * ws - 1 /\ x % 2 # 0 /\ x \div 2 = q
      BY <2>1, <3>1
    <3> QED BY <2>2, <3>1, <3>2
  <2> QED BY <2>3, <2>4
<1>2. ASSUME NEW i \in 0 .. n - 1, NEW q \in 0 .. ws - 1
      PROVE  (B[q] <= i /\ i < E[q]) <=> W[i] = q
  <2>1. PICK o \in 0 .. ws - 1 : \A s \in 0 .. ws - 1 : (B[s] <= i /\ i < E[s]) <=> s = o
    OBVIOUS
  <2>2. has(i) = {o}
    <3> HIDE DEF all
    <3> QED BY <1>1, <2>1
  <2>3. W[i] = IF has(i) = {} THEN -1 ELSE CHOOSE s \in has(i) : \A p \in has(i) : s <= p
    OBVIOUS
  <2> HIDE DEF has, W
  <2>4. W[i] = CHOOSE s \in {o} : \A p \in {o} : s <= p
    BY <2>2, <2>3
  <2>5. W[i] = o
    BY <2>4
  <2> QED BY <2>1, <2>5
<1> DEFINE parts == [q \in 0 .. ws - 1 |-> explicit_continuous_part(n, ws, q, B, E)]
<1>3. \A q \in 0 .. ws - 1 : parts[q] = Slice(n, B[q], E[q], W)
  <2>1. ASSUME NEW q \in 0 .. ws - 1
        PROVE  explicit_continuous_part(n, ws, q, B, E) = Slice(n, B[q], E[q], W)
    <3>1. explicit_continuous_part(n, ws, q, B, E) = explicit_continuous_part_view(n, ws, q, all)
      BY DEF explicit_continuous_part
    <3>2. explicit_continuous_part_view(n, ws, q, all) = Slice(n, all[2 * q], all[2 * q + 1], W)
      BY DEF explicit_continuous_part_view
    <3> HIDE DEF all, W
    <3> QED BY <1>1, <3>1, <3>2
  <2>2. \A q \in 0 .. ws - 1 : parts[q] = explicit_continuous_part(n, ws, q, B, E)
    OBVIOUS
  <2> HIDE DEF W, parts
  <2> QED BY <2>1, <2>2
<1>4. DOMAIN parts = 0 .. ws - 1
  OBVIOUS
<1> HIDE DEF W, parts
<1>5. SlicesOf(parts, n, ws, B, E, W)
  BY <1>2, <1>3, <1>4 DEF SlicesOf
<1> QED BY <1>5, SlicesAgree DEF parts

\* Rank q has L[q] places, and the vertices that all ranks think it has, in order.
PlacesOf(parts, n, ws, L) ==
  /\ DOMAIN parts = 0 .. ws - 1
  /\ \A q \in 0 .. ws - 1 : parts[q].n = n /\ parts[q].local_n = L[q]
  /\ \A q \in 0 .. ws - 1 : \A i \in 0 .. n - 1 :
       /\ parts[q].has_local[i] <=> parts[q].world_rank_of[i] = q
       /\ \A s \in 0 .. ws - 1 : parts[s].world_rank_of[i] = parts[q].world_rank_of[i]
       /\ parts[q].has_local[i] => /\ parts[q].to_local[i] \in 0 .. L[q] - 1
                                   /\ parts[q].to_global[parts[q].to_local[i]] = i
  /\ \A q \in 0 .. ws - 1 : \A k \in 0 .. L[q] - 1 :
       /\ parts[q].to_global[k] \in 0 .. n - 1
       /\ parts[q].has_local[parts[q].to_global[k]]
       /\ k > 0 => parts[q].to_global[k - 1] < parts[q].to_global[k]

\* Such parts are a partition.
LEMMA PlacesAgree ==
  ASSUME NEW parts, NEW n, NEW ws, NEW L, PlacesOf(parts, n, ws, L)
  PROVE  PartsAgree(parts)
BY DEF PlacesOf, PartsAgree

\* Parts of cyclic_part: vertex a * ws + q is number a on rank q.
LEMMA CyclicAgree ==
  ASSUME NEW n \in 0 .. Size - 1, NEW ws \in Nat \ {0}, n + ws <= Size
  PROVE  PartsAgree([q \in 0 .. ws - 1 |-> cyclic_part(n, ws, q)])
<1>1. n \in Nat /\ Size \in Nat \ {0}
  BY SizeAssumption
<1> DEFINE parts == [q \in 0 .. ws - 1 |-> cyclic_part(n, ws, q)]
           L(q) == IF ws = 1 THEN n ELSE IF q >= n THEN 0 ELSE Wrap(n - q + ws - 1) \div ws
<1>2. ASSUME NEW q \in 0 .. ws - 1, NEW k \in Nat
      PROVE  L(q) \in Nat /\ (k < L(q) <=> k * ws + q < n)
  <2>1. CASE ws = 1
    BY <1>1, <2>1
  <2>2. CASE ws # 1 /\ q >= n
    <3>1. k * ws \in Nat
      OBVIOUS
    <3>2. L(q) = 0
      BY <2>2
    <3> HIDE DEF L
    <3> QED BY <1>1, <2>2, <3>1, <3>2
  <2>3. CASE ws # 1 /\ q < n
    <3>1. PICK x : x = n - q
      OBVIOUS
    <3>2. x \in Nat /\ x + ws - 1 \in Nat /\ x + ws - 1 < Size
      BY <1>1, <2>3, <3>1
    <3>3. Wrap(x + ws - 1) = x + ws - 1
      BY <3>2, Fits
    <3>4. ~ (q >= n)
      BY <1>1, <2>3
    <3>5. L(q) = (x + ws - 1) \div ws
      BY <2>3, <3>1, <3>3, <3>4
    <3>6. L(q) \in Nat /\ (k < L(q) <=> k * ws < x)
      BY <3>2, <3>5, MultiplesBelow
    <3>7. PICK y : y = k * ws
      OBVIOUS
    <3>8. y \in Nat
      BY <3>7
    <3> HIDE DEF L
    <3> QED BY <1>1, <3>1, <3>6, <3>7, <3>8
  <2> HIDE DEF L
  <2> QED BY <1>1, <2>1, <2>2, <2>3
<1>3. DOMAIN parts = 0 .. ws - 1 /\ \A q \in 0 .. ws - 1 : parts[q] = cyclic_part(n, ws, q)
  OBVIOUS
<1> HIDE DEF parts
<1>4. ASSUME NEW q \in 0 .. ws - 1
      PROVE  /\ parts[q].n = n /\ parts[q].local_n = L(q)
             /\ \A i \in 0 .. n - 1 : /\ parts[q].to_local[i] = Wrap(i - q) \div ws
                                      /\ parts[q].has_local[i] <=> i % ws = q
                                      /\ parts[q].world_rank_of[i] = i % ws
             /\ \A k \in 0 .. L(q) - 1 : parts[q].to_global[k] = Wrap(q + k * ws)
  <2> DEFINE local == [i \in 0 .. n - 1 |-> Wrap(i - q) \div ws]
             global == [k \in 0 .. L(q) - 1 |-> Wrap(q + k * ws)]
             has == [i \in 0 .. n - 1 |-> i % ws = q]
             owner_of == [i \in 0 .. n - 1 |-> i % ws]
  <2>1. cyclic_part(n, ws, q) =
          [n |-> n, local_n |-> L(q), to_local |-> local, to_global |-> global,
           has_local |-> has, world_rank_of |-> owner_of]
    BY DEF cyclic_part, cyclic_part_view
  <2> HIDE DEF L
  <2>2. /\ parts[q].n = n /\ parts[q].local_n = L(q)
        /\ parts[q].to_local = local /\ parts[q].to_global = global
        /\ parts[q].has_local = has /\ parts[q].world_rank_of = owner_of
    <3> HIDE DEF local, global, has, owner_of
    <3> QED BY <1>3, <2>1
  <2>3. ASSUME NEW i \in 0 .. n - 1
        PROVE  /\ parts[q].to_local[i] = Wrap(i - q) \div ws
               /\ parts[q].has_local[i] <=> i % ws = q
               /\ parts[q].world_rank_of[i] = i % ws
    BY <2>2
  <2>4. ASSUME NEW k \in 0 .. L(q) - 1
        PROVE  parts[q].to_global[k] = Wrap(q + k * ws)
    BY <2>2
  <2> QED BY <2>2, <2>3, <2>4
<1> HIDE DEF parts, L
<1>5. ASSUME NEW q \in 0 .. ws - 1, NEW k \in 0 .. L(q) - 1
      PROVE  /\ k \in Nat /\ k * ws \in Nat /\ q + k * ws \in 0 .. n - 1
             /\ parts[q].to_global[k] = q + k * ws
  <2>1. k \in Nat /\ k < L(q)
    BY <1>2
  <2>2. PICK y : y = k * ws
    OBVIOUS
  <2>3. y \in Nat /\ y + q < n
    BY <1>2, <2>1, <2>2
  <2>4. q + y \in 0 .. n - 1 /\ q + y \in Nat /\ q + y < Size
    BY <1>1, <2>3
  <2>5. Wrap(q + y) = q + y
    BY <2>4, Fits
  <2>6. parts[q].to_global[k] = Wrap(q + k * ws)
    BY <1>4
  <2> QED BY <2>1, <2>2, <2>3, <2>4, <2>5, <2>6
<1>6. ASSUME NEW q \in 0 .. ws - 1, NEW i \in 0 .. n - 1
      PROVE  /\ parts[q].has_local[i] <=> parts[q].world_rank_of[i] = q
             /\ \A s \in 0 .. ws - 1 : parts[s].world_rank_of[i] = parts[q].world_rank_of[i]
             /\ parts[q].has_local[i] <=> i % ws = q
  BY <1>4
<1>7. ASSUME NEW q \in 0 .. ws - 1, NEW i \in 0 .. n - 1, parts[q].has_local[i]
      PROVE  /\ parts[q].to_local[i] \in 0 .. L(q) - 1
             /\ parts[q].to_global[parts[q].to_local[i]] = i
  <2>1. PICK a : a = i \div ws
    OBVIOUS
  <2>2. i = a * ws + q /\ a \in Nat /\ i \in Nat
    <3>1. i \in Nat
      BY <1>1
    <3>2. i % ws = q
      BY <1>6, <1>7
    <3> QED BY <2>1, <3>1, <3>2, QuotientAndRest
  <2>3. PICK y : y = a * ws
    OBVIOUS
  <2>4. y \in Nat /\ i = y + q /\ i - q = y /\ y < Size /\ y + q < n
    BY <1>1, <2>2, <2>3
  <2>5. Wrap(i - q) = y
    BY <2>4, Fits
  <2>6. (a * ws + 0) \div ws = a /\ a * ws + 0 = y
    <3>1. 0 \in 0 .. ws - 1
      OBVIOUS
    <3> QED BY <2>2, <2>3, <2>4, <3>1, RestOf
  <2>7. parts[q].to_local[i] = a
    BY <1>4, <2>5, <2>6
  <2>8. a < L(q) /\ L(q) \in Nat
    BY <1>2, <2>2, <2>3, <2>4
  <2>9. a \in 0 .. L(q) - 1
    BY <2>2, <2>8
  <2>10. parts[q].to_global[a] = q + a * ws
    BY <1>5, <2>9
  <2> QED BY <2>3, <2>4, <2>7, <2>9, <2>10
<1>8. ASSUME NEW q \in 0 .. ws - 1, NEW k \in 0 .. L(q) - 1
      PROVE  /\ parts[q].to_global[k] \in 0 .. n - 1
             /\ parts[q].has_local[parts[q].to_global[k]]
             /\ k > 0 => parts[q].to_global[k - 1] < parts[q].to_global[k]
  <2>1. k \in Nat /\ k * ws \in Nat /\ q + k * ws \in 0 .. n - 1
    BY <1>5
  <2>2. (k * ws + q) % ws = q
    BY <2>1, RestOf
  <2>3. k * ws + q = q + k * ws
    BY <2>1
  <2>4. parts[q].to_global[k] = q + k * ws
    BY <1>5
  <2>5. parts[q].has_local[q + k * ws]
    BY <1>6, <2>1, <2>2, <2>3
  <2>6. k > 0 => parts[q].to_global[k - 1] < q + k * ws
    <3> SUFFICES ASSUME k > 0
                 PROVE  parts[q].to_global[k - 1] < q + k * ws
      OBVIOUS
    <3>1. k - 1 \in 0 .. L(q) - 1
      BY <1>2, <2>1
    <3>2. parts[q].to_global[k - 1] = q + (k - 1) * ws
      BY <1>5, <3>1
    <3>3. (k - 1) * ws = k * ws - ws
      BY <2>1
    <3>4. PICK y : y = k * ws
      OBVIOUS
    <3> QED BY <2>1, <3>2, <3>3, <3>4
  <2> QED BY <2>1, <2>4, <2>5, <2>6
<1>9. \A q \in 0 .. ws - 1 : parts[q].n = n /\ parts[q].local_n = L(q)
  BY <1>4
<1> DEFINE Ls == [q \in 0 .. ws - 1 |-> L(q)]
<1>10. \A q \in 0 .. ws - 1 : Ls[q] = L(q)
  OBVIOUS
<1> HIDE DEF Ls
<1>11. PlacesOf(parts, n, ws, Ls)
  BY <1>3, <1>6, <1>7, <1>8, <1>9, <1>10 DEF PlacesOf
<1>12. PartsAgree(parts)
  BY <1>11, PlacesAgree
<1> QED BY <1>12 DEF parts

\* The vertex at place x of the block that is number t of rank q.
VertexAt(ws, b, q, t, x) == (t * ws + q) * b + x

\* The block, the rank and the place are found again.
LEMMA VertexFound ==
  ASSUME NEW ws \in Nat \ {0}, NEW b \in Nat \ {0}, NEW q \in 0 .. ws - 1,
         NEW t \in Nat, NEW x \in 0 .. b - 1
  PROVE  LET v == VertexAt(ws, b, q, t, x)
         IN  /\ v \in Nat /\ b * ws \in Nat \ {0}
             /\ v % b = x /\ (v \div b) % ws = q /\ v \div (b * ws) = t
             /\ v = t * (b * ws) + q * b + x
<1>1. PICK v : v = VertexAt(ws, b, q, t, x)
  OBVIOUS
<1>2. t * ws + q \in Nat
  BY DEF VertexAt
<1>3. v % b = x /\ v \div b = t * ws + q
  BY <1>1, <1>2, RestOf DEF VertexAt
<1>4. (t * ws + q) % ws = q
  BY RestOf
<1>5. PICK c, y : c = b * ws /\ y = q * b
  OBVIOUS
<1>6. c \in Nat \ {0} /\ y \in Nat
  BY <1>5
<1>7. v = t * c + (y + x)
  <2>1. v = (t * ws) * b + q * b + x
    BY <1>1 DEF VertexAt
  <2>2. (t * ws) * b = t * (b * ws)
    OBVIOUS
  <2>3. PICK z : z = t * c
    OBVIOUS
  <2>4. z \in Nat /\ v = z + y + x
    BY <1>5, <1>6, <2>1, <2>2, <2>3
  <2> QED BY <1>6, <2>3, <2>4
<1>8. y + x \in 0 .. c - 1
  <2>1. q * b + b <= b * ws
    OBVIOUS
  <2> QED BY <1>5, <1>6, <2>1
<1>9. v \div c = t
  BY <1>6, <1>7, <1>8, RestOf
<1>10. v \in Nat
  BY <1>1, <1>2 DEF VertexAt
<1>11. v = t * c + y + x
  <2>1. PICK z : z = t * c
    OBVIOUS
  <2>2. z \in Nat
    BY <1>6, <2>1
  <2> QED BY <1>6, <1>7, <2>1, <2>2
<1> QED BY <1>1, <1>3, <1>4, <1>5, <1>6, <1>9, <1>10, <1>11

\* A rank has a place for a vertex of one of its blocks if there is the vertex.
LEMMA BlocksCounted ==
  ASSUME NEW n \in 0 .. Size - 1, NEW ws \in Nat \ {0}, NEW b \in Nat \ {0},
         n + ws <= Size, n + b <= Size,
         NEW q \in 0 .. ws - 1, NEW t \in Nat, NEW x \in 0 .. b - 1
  PROVE  /\ BlockCyclicLocalN(n, ws, q, b) \in Nat
         /\ t * b + x < BlockCyclicLocalN(n, ws, q, b) <=> VertexAt(ws, b, q, t, x) < n
<1>1. n \in Nat /\ Size \in Nat \ {0}
  BY SizeAssumption
<1>2. PICK L, v : L = BlockCyclicLocalN(n, ws, q, b) /\ v = VertexAt(ws, b, q, t, x)
  OBVIOUS
<1>3. CASE ws = 1
  <2>1. L = n
    BY <1>2, <1>3 DEF BlockCyclicLocalN
  <2>2. v = t * b + x
    BY <1>2, <1>3 DEF VertexAt
  <2> QED BY <1>1, <1>2, <2>1, <2>2
<1>4. CASE ws # 1
  <2>1. PICK nb : nb = (n + b - 1) \div b
    OBVIOUS
  <2>2. nb \in Nat /\ \A k \in Nat : k < nb <=> k * b < n
    BY <1>1, <2>1, MultiplesBelow
  <2>3. nb <= n
    <3>1. n * b >= n
      BY <1>1
    <3>2. n * b \in Nat
      BY <1>1
    <3>3. ~ (n < nb)
      BY <1>1, <2>2, <3>1, <3>2
    <3> QED BY <1>1, <2>2, <3>3
  <2>4. Wrap(n + b - 1) = n + b - 1
    <3>1. n + b - 1 \in Nat /\ n + b - 1 < Size
      BY <1>1
    <3> QED BY <3>1, Fits
  <2>5. PICK blk : blk = t * ws + q
    OBVIOUS
  <2>6. blk \in Nat /\ blk >= q
    <3>1. t * ws \in Nat
      OBVIOUS
    <3> QED BY <2>5, <3>1
  <2>7. PICK u : u = blk * b
    OBVIOUS
  <2>8. u \in Nat /\ v = u + x
    BY <1>2, <2>5, <2>6, <2>7 DEF VertexAt
  <2>9. blk >= nb => ~ (v < n)
    BY <1>1, <2>2, <2>6, <2>7, <2>8
  <2>10. CASE nb <= q
    <3>1. L = 0
      <4>1. ~ (nb > q)
        BY <2>2, <2>10
      <4> QED BY <1>2, <1>4, <2>1, <2>4, <2>10, <4>1 DEF BlockCyclicLocalN
    <3>2. t * b \in Nat
      OBVIOUS
    <3>3. ~ (v < n)
      BY <2>2, <2>6, <2>9, <2>10
    <3> QED BY <1>2, <3>1, <3>2, <3>3
  <2>11. CASE nb > q
    <3>1. PICK y : y = nb - q
      OBVIOUS
    <3>2. y \in Nat \ {0} /\ y + ws - 1 \in Nat /\ y + ws - 1 < Size
      BY <1>1, <2>2, <2>3, <2>11, <3>1
    <3>3. Wrap(y + ws - 1) = y + ws - 1
      BY <3>2, Fits
    <3>4. PICK owned : owned = (y + ws - 1) \div ws
      OBVIOUS
    <3>5. owned \in Nat /\ \A k \in Nat : k < owned <=> k * ws < y
      BY <3>2, <3>4, MultiplesBelow
    <3>6. owned \in Nat \ {0}
      <4>1. 0 * ws = 0
        OBVIOUS
      <4>2. 0 < owned
        BY <3>2, <3>5, <4>1
      <4> QED BY <3>5, <4>2
    <3>7. PICK m : m = owned - 1
      OBVIOUS
    <3>8. m \in Nat /\ owned = m + 1 /\ m * ws < y
      BY <3>5, <3>6, <3>7
    <3>9. PICK last : last = q + m * ws
      OBVIOUS
    <3>10. last \in Nat /\ last < nb
      <4>1. PICK z : z = m * ws
        OBVIOUS
      <4>2. z \in Nat
        BY <3>8, <4>1
      <4> QED BY <2>2, <3>1, <3>8, <3>9, <4>1, <4>2
    <3>11. PICK w : w = last * b
      OBVIOUS
    <3>12. w \in Nat /\ w < n
      BY <2>2, <3>10, <3>11
    <3>13. PICK s : s = IF last = nb - 1 THEN n - w ELSE b
      OBVIOUS
    <3>14. s \in 1 .. b
      <4>1. CASE last = nb - 1
        <5>1. ~ (nb * b < n)
          BY <2>2
        <5>2. nb = last + 1
          BY <2>2, <3>10, <4>1
        <5>3. nb * b = w + b
          BY <3>10, <3>11, <5>2
        <5> QED BY <1>1, <3>12, <3>13, <4>1, <5>1, <5>3
      <4>2. CASE last # nb - 1
        BY <3>13, <4>2
      <4> QED BY <4>1, <4>2
    <3>15. L = m * b + s
      <4>1. ~ (nb <= q)
        BY <2>2, <2>11
      <4> QED BY <1>2, <1>4, <2>1, <2>4, <2>11, <3>1, <3>3, <3>4, <3>7, <3>9, <3>11, <3>13, <4>1
           DEF BlockCyclicLocalN
    <3>16. PICK f, g : f = m * b /\ g = t * b
      OBVIOUS
    <3>17. f \in Nat /\ g \in Nat
      BY <3>8, <3>16
    <3>18. L \in Nat
      BY <3>14, <3>15, <3>16, <3>17
    <3>19. CASE t < m
      <4>1. g + b <= f
        BY <3>8, <3>16, <3>19
      <4>2. g + x < L
        BY <3>14, <3>15, <3>16, <3>17, <4>1
      <4>3. blk + 1 <= last
        <5>1. t * ws + ws <= m * ws
          BY <3>8, <3>19
        <5>2. PICK z, a : z = t * ws /\ a = m * ws
          OBVIOUS
        <5>3. z \in Nat /\ a \in Nat
          BY <3>8, <5>2
        <5> QED BY <2>5, <3>9, <5>1, <5>2, <5>3
      <4>4. u + b <= w
        BY <2>6, <2>7, <3>10, <3>11, <4>3
      <4>5. v < n
        BY <1>1, <2>8, <3>12, <4>4
      <4> QED BY <1>2, <3>16, <3>18, <4>2, <4>5
    <3>20. CASE t = m
      <4>1. g = f /\ blk = last
        BY <2>5, <3>8, <3>9, <3>16, <3>20
      <4>2. u = w
        BY <2>7, <3>11, <4>1
      <4>3. g + x < L <=> x < s
        BY <3>14, <3>15, <3>16, <3>17, <4>1
      <4>4. last # nb - 1 => w + b < n
        <5> SUFFICES ASSUME last # nb - 1
                     PROVE  w + b < n
          OBVIOUS
        <5>1. last + 1 \in Nat /\ last + 1 < nb
          BY <2>2, <3>10
        <5>2. (last + 1) * b < n
          BY <2>2, <5>1
        <5>3. (last + 1) * b = w + b
          BY <3>10, <3>11
        <5> QED BY <5>2, <5>3
      <4>5. x < s <=> w + x < n
        BY <1>1, <3>12, <3>13, <4>4
      <4> QED BY <1>2, <2>8, <3>16, <3>18, <4>2, <4>3, <4>5
    <3>21. CASE t > m
      <4>1. f + b <= g
        BY <3>8, <3>16, <3>21
      <4>2. ~ (g + x < L)
        BY <3>14, <3>15, <3>16, <3>17, <4>1
      <4>3. blk >= nb
        <5>1. ~ (t < owned)
          BY <3>8, <3>21
        <5>2. ~ (t * ws < y)
          BY <3>5, <5>1
        <5>3. PICK z : z = t * ws
          OBVIOUS
        <5>4. z \in Nat
          BY <5>3
        <5> QED BY <2>2, <2>5, <3>1, <5>2, <5>3, <5>4
      <4> QED BY <1>2, <2>9, <3>16, <3>18, <4>2, <4>3
    <3> QED BY <3>8, <3>19, <3>20, <3>21
  <2> QED BY <2>2, <2>10, <2>11
<1> QED BY <1>3, <1>4

\* Parts of block_cyclic_part: blocks are dealt out to the ranks in turn.
LEMMA BlocksAgree ==
  ASSUME NEW n \in 0 .. Size - 1, NEW ws \in Nat \ {0}, NEW b \in Nat \ {0},
         n + ws <= Size, n + b <= Size, b * ws < Size
  PROVE  PartsAgree([q \in 0 .. ws - 1 |-> block_cyclic_part(n, ws, q, b)])
<1>1. n \in Nat /\ Size \in Nat \ {0}
  BY SizeAssumption
<1> DEFINE parts == [q \in 0 .. ws - 1 |-> block_cyclic_part(n, ws, q, b)]
           L(q) == BlockCyclicLocalN(n, ws, q, b)
           At(q, t, x) == VertexAt(ws, b, q, t, x)
           toLocal(i) == IF ws = 1 THEN i ELSE (i \div Wrap(b * ws)) * b + (i % b)
           toGlobal(q, k) == IF ws = 1 THEN k
                             ELSE Wrap((k \div b) * Wrap(b * ws) + q * b + (k % b))
<1>2. DOMAIN parts = 0 .. ws - 1 /\ \A q \in 0 .. ws - 1 : parts[q] = block_cyclic_part(n, ws, q, b)
  OBVIOUS
<1> HIDE DEF parts
<1>3. ASSUME NEW q \in 0 .. ws - 1
      PROVE  /\ parts[q].n = n /\ parts[q].local_n = L(q)
             /\ \A i \in 0 .. n - 1 : /\ parts[q].to_local[i] = toLocal(i)
                                      /\ parts[q].has_local[i] <=> (i \div b) % ws = q
                                      /\ parts[q].world_rank_of[i] = (i \div b) % ws
             /\ \A k \in 0 .. L(q) - 1 : parts[q].to_global[k] = toGlobal(q, k)
  <2> DEFINE local == [i \in 0 .. n - 1 |-> toLocal(i)]
             global == [k \in 0 .. L(q) - 1 |-> toGlobal(q, k)]
             has == [i \in 0 .. n - 1 |-> (i \div b) % ws = q]
             owner_of == [i \in 0 .. n - 1 |-> (i \div b) % ws]
  <2>1. block_cyclic_part(n, ws, q, b) =
          [n |-> n, local_n |-> L(q), to_local |-> local, to_global |-> global,
           has_local |-> has, world_rank_of |-> owner_of]
    BY DEF block_cyclic_part, block_cyclic_part_view
  <2> HIDE DEF L, toLocal, toGlobal
  <2>2. /\ parts[q].n = n /\ parts[q].local_n = L(q)
        /\ parts[q].to_local = local /\ parts[q].to_global = global
        /\ parts[q].has_local = has /\ parts[q].world_rank_of = owner_of
    <3> HIDE DEF local, global, has, owner_of
    <3> QED BY <1>2, <2>1
  <2>3. ASSUME NEW i \in 0 .. n - 1
        PROVE  /\ parts[q].to_local[i] = toLocal(i)
               /\ parts[q].has_local[i] <=> (i \div b) % ws = q
               /\ parts[q].world_rank_of[i] = (i \div b) % ws
    BY <2>2
  <2>4. ASSUME NEW k \in 0 .. L(q) - 1
        PROVE  parts[q].to_global[k] = toGlobal(q, k)
    BY <2>2
  <2> QED BY <2>2, <2>3, <2>4
<1>4. ASSUME NEW q \in 0 .. ws - 1, NEW t \in Nat, NEW x \in 0 .. b - 1
      PROVE  /\ L(q) \in Nat /\ t * b + x \in Nat
             /\ t * b + x < L(q) <=> At(q, t, x) < n
             /\ (t * b + x) \div b = t /\ (t * b + x) % b = x
             /\ At(q, t, x) \in Nat
             /\ (At(q, t, x) \div b) % ws = q
             /\ toLocal(At(q, t, x)) = t * b + x
             /\ At(q, t, x) < n => toGlobal(q, t * b + x) = At(q, t, x)
  <2>1. t * b + x \in Nat
    OBVIOUS
  <2>2. (t * b + x) \div b = t /\ (t * b + x) % b = x
    BY RestOf
  <2>3. L(q) \in Nat /\ (t * b + x < L(q) <=> At(q, t, x) < n)
    BY BlocksCounted
  <2>4. PICK v : v = At(q, t, x)
    OBVIOUS
  <2>5. /\ v \in Nat /\ b * ws \in Nat \ {0}
        /\ v % b = x /\ (v \div b) % ws = q /\ v \div (b * ws) = t
        /\ v = t * (b * ws) + q * b + x
    BY <2>4, VertexFound
  <2>6. Wrap(b * ws) = b * ws
    BY <2>5, Fits
  <2>7. toLocal(v) = t * b + x
    <3>1. CASE ws = 1
      <4>1. v = t * b + x
        BY <2>4, <3>1 DEF VertexAt
      <4> QED BY <3>1, <4>1
    <3>2. CASE ws # 1
      BY <2>5, <2>6, <3>2
    <3> QED BY <3>1, <3>2
  <2>8. v < n => toGlobal(q, t * b + x) = v
    <3> SUFFICES ASSUME v < n
                 PROVE  toGlobal(q, t * b + x) = v
      OBVIOUS
    <3>1. CASE ws = 1
      <4>1. v = t * b + x
        BY <2>4, <3>1 DEF VertexAt
      <4> QED BY <3>1, <4>1
    <3>2. CASE ws # 1
      <4>1. Wrap(v) = v
        <5>1. v < Size
          BY <1>1, <2>5
        <5> QED BY <2>5, <5>1, Fits
      <4>2. toGlobal(q, t * b + x) = Wrap(t * (b * ws) + q * b + x)
        BY <2>2, <2>6, <3>2
      <4> HIDE DEF toGlobal
      <4> QED BY <2>5, <4>1, <4>2
    <3> QED BY <3>1, <3>2
  <2> HIDE DEF L, toLocal, toGlobal, At
  <2> QED BY <2>1, <2>2, <2>3, <2>4, <2>5, <2>7, <2>8
<1> HIDE DEF L, toLocal, toGlobal
<1>5. ASSUME NEW q \in 0 .. ws - 1, NEW i \in 0 .. n - 1, (i \div b) % ws = q
      PROVE  \E t \in Nat, x \in 0 .. b - 1 : i = At(q, t, x)
  <2>1. PICK a, x : a = i \div b /\ x = i % b
    OBVIOUS
  <2>2. i = a * b + x /\ a \in Nat /\ x \in 0 .. b - 1
    <3>1. i \in Nat
      BY <1>1
    <3> HIDE DEF At
    <3> QED BY <2>1, <3>1, QuotientAndRest
  <2>3. PICK t : t = a \div ws
    OBVIOUS
  <2>4. a = t * ws + q /\ t \in Nat
    BY <1>5, <2>1, <2>2, <2>3, QuotientAndRest
  <2> QED BY <2>2, <2>4 DEF VertexAt
<1>6. ASSUME NEW q \in 0 .. ws - 1, NEW k \in 0 .. L(q) - 1
      PROVE  \E t \in Nat, x \in 0 .. b - 1 :
               k = t * b + x /\ At(q, t, x) \in 0 .. n - 1 /\ parts[q].to_global[k] = At(q, t, x)
  <2>1. L(q) \in Nat
    <3>1. 0 \in Nat /\ 0 \in 0 .. b - 1
      OBVIOUS
    <3> QED BY <1>4, <3>1
  <2>2. k \in Nat /\ k < L(q)
    BY <2>1
  <2>3. PICK t, x : t = k \div b /\ x = k % b
    OBVIOUS
  <2>4. k = t * b + x /\ t \in Nat /\ x \in 0 .. b - 1
    BY <2>2, <2>3, QuotientAndRest
  <2> HIDE DEF At
  <2>5. /\ At(q, t, x) \in Nat /\ At(q, t, x) < n
        /\ toGlobal(q, k) = At(q, t, x)
    BY <1>4, <2>2, <2>4
  <2>6. parts[q].to_global[k] = At(q, t, x)
    BY <1>3, <2>5
  <2>7. At(q, t, x) \in 0 .. n - 1
    BY <1>1, <2>5
  <2> QED BY <2>4, <2>6, <2>7
<1>7. ASSUME NEW q \in 0 .. ws - 1, NEW i \in 0 .. n - 1
      PROVE  /\ parts[q].has_local[i] <=> parts[q].world_rank_of[i] = q
             /\ \A s \in 0 .. ws - 1 : parts[s].world_rank_of[i] = parts[q].world_rank_of[i]
             /\ parts[q].has_local[i] <=> (i \div b) % ws = q
  BY <1>3
<1>8. ASSUME NEW q \in 0 .. ws - 1, NEW i \in 0 .. n - 1, parts[q].has_local[i]
      PROVE  /\ parts[q].to_local[i] \in 0 .. L(q) - 1
             /\ parts[q].to_global[parts[q].to_local[i]] = i
  <2>1. PICK t \in Nat, x \in 0 .. b - 1 : i = At(q, t, x)
    BY <1>5, <1>7, <1>8
  <2> HIDE DEF At
  <2>2. /\ i < n /\ L(q) \in Nat /\ t * b + x \in Nat /\ t * b + x < L(q)
        /\ toLocal(i) = t * b + x /\ toGlobal(q, t * b + x) = i
    <3>1. i < n
      BY <1>1
    <3> QED BY <1>4, <2>1, <3>1
  <2>3. t * b + x \in 0 .. L(q) - 1
    BY <2>2
  <2>4. parts[q].to_local[i] = t * b + x
    BY <1>3, <2>2
  <2>5. parts[q].to_global[t * b + x] = i
    BY <1>3, <2>2, <2>3
  <2> QED BY <2>3, <2>4, <2>5
<1>9. ASSUME NEW q \in 0 .. ws - 1, NEW k \in 0 .. L(q) - 1
      PROVE  /\ parts[q].to_global[k] \in 0 .. n - 1
             /\ parts[q].has_local[parts[q].to_global[k]]
             /\ k > 0 => parts[q].to_global[k - 1] < parts[q].to_global[k]
  <2>1. PICK t \in Nat, x \in 0 .. b - 1 :
          k = t * b + x /\ At(q, t, x) \in 0 .. n - 1 /\ parts[q].to_global[k] = At(q, t, x)
    BY <1>6
  <2>2. parts[q].has_local[At(q, t, x)]
    <3> HIDE DEF At
    <3>1. (At(q, t, x) \div b) % ws = q
      BY <1>4, <2>1
    <3> QED BY <1>7, <2>1, <3>1
  <2>3. k > 0 => parts[q].to_global[k - 1] < At(q, t, x)
    <3> SUFFICES ASSUME k > 0
                 PROVE  parts[q].to_global[k - 1] < At(q, t, x)
      OBVIOUS
    <3>1. k \in Nat /\ k - 1 \in 0 .. L(q) - 1
      <4>1. L(q) \in Nat
        BY <1>4, <2>1
      <4> QED BY <4>1
    <3>2. PICK s \in Nat, y \in 0 .. b - 1 :
            k - 1 = s * b + y /\ At(q, s, y) \in 0 .. n - 1 /\ parts[q].to_global[k - 1] = At(q, s, y)
      BY <1>6, <3>1
    <3>3. PICK f, g : f = t * b /\ g = s * b
      OBVIOUS
    <3>4. f \in Nat /\ g \in Nat /\ k = f + x /\ k - 1 = g + y
      BY <2>1, <3>2, <3>3
    <3>5. s <= t
      <4>1. s > t => f + b <= g
        BY <3>3
      <4> QED BY <3>1, <3>4, <4>1
    <3>6. CASE s = t
      <4>1. f = g /\ y < x
        BY <3>1, <3>3, <3>4, <3>6
      <4>2. PICK u : u = (t * ws + q) * b
        OBVIOUS
      <4>3. u \in Nat /\ At(q, t, x) = u + x /\ At(q, s, y) = u + y
        BY <3>6, <4>2 DEF VertexAt
      <4> HIDE DEF At
      <4> QED BY <3>2, <4>1, <4>3
    <3>7. CASE s < t
      <4>1. s * ws + ws <= t * ws
        BY <3>7
      <4>2. PICK c, d : c = s * ws + q /\ d = t * ws + q
        OBVIOUS
      <4>3. c \in Nat /\ d \in Nat /\ c + 1 <= d
        <5>1. PICK z, a : z = s * ws /\ a = t * ws
          OBVIOUS
        <5>2. z \in Nat /\ a \in Nat
          BY <5>1
        <5> QED BY <4>1, <4>2, <5>1, <5>2
      <4>4. c * b + b <= d * b
        BY <4>3
      <4>5. PICK u, w : u = c * b /\ w = d * b
        OBVIOUS
      <4>6. u \in Nat /\ w \in Nat /\ At(q, t, x) = w + x /\ At(q, s, y) = u + y
        BY <4>2, <4>3, <4>5 DEF VertexAt
      <4> HIDE DEF At
      <4> QED BY <3>2, <4>4, <4>5, <4>6
    <3>8. s < t \/ s = t
      BY <3>5
    <3> HIDE DEF At
    <3> QED BY <3>6, <3>7, <3>8
  <2> HIDE DEF At
  <2> QED BY <2>1, <2>2, <2>3
<1>10. \A q \in 0 .. ws - 1 : parts[q].n = n /\ parts[q].local_n = L(q)
  BY <1>3
<1> DEFINE Ls == [q \in 0 .. ws - 1 |-> L(q)]
<1>11. \A q \in 0 .. ws - 1 : Ls[q] = L(q)
  OBVIOUS
<1> HIDE DEF At, Ls
<1>12. \A q \in 0 .. ws - 1 : \A i \in 0 .. n - 1 :
         /\ parts[q].has_local[i] <=> parts[q].world_rank_of[i] = q
         /\ \A s \in 0 .. ws - 1 : parts[s].world_rank_of[i] = parts[q].world_rank_of[i]
         /\ parts[q].has_local[i] => /\ parts[q].to_local[i] \in 0 .. Ls[q] - 1
                                     /\ parts[q].to_global[parts[q].to_local[i]] = i
  <2> SUFFICES ASSUME NEW q \in 0 .. ws - 1, NEW i \in 0 .. n - 1
               PROVE  /\ parts[q].has_local[i] <=> parts[q].world_rank_of[i] = q
                      /\ \A s \in 0 .. ws - 1 :
                           parts[s].world_rank_of[i] = parts[q].world_rank_of[i]
                      /\ parts[q].has_local[i] =>
                           /\ parts[q].to_local[i] \in 0 .. Ls[q] - 1
                           /\ parts[q].to_global[parts[q].to_local[i]] = i
    OBVIOUS
  <2>1. Ls[q] = L(q)
    BY <1>11
  <2> QED BY <1>7, <1>8, <2>1
<1>13. \A q \in 0 .. ws - 1 : \A k \in 0 .. Ls[q] - 1 :
         /\ parts[q].to_global[k] \in 0 .. n - 1
         /\ parts[q].has_local[parts[q].to_global[k]]
         /\ k > 0 => parts[q].to_global[k - 1] < parts[q].to_global[k]
  BY <1>9, <1>11
<1>14. \A q \in 0 .. ws - 1 : parts[q].n = n /\ parts[q].local_n = Ls[q]
  BY <1>10, <1>11
<1>15. PlacesOf(parts, n, ws, Ls)
  BY <1>2, <1>12, <1>13, <1>14, Zenon DEF PlacesOf
<1>16. PartsAgree(parts)
  BY <1>15, PlacesAgree
<1> QED BY <1>16 DEF parts

\* Every kind of partition gives each vertex to one rank, and all know which:
\* for every number of vertices and ranks, every size of the blocks and all
\* slices that are given.
THEOREM PartsAreRight == PiecesSpec => []PartsInv
<1>1. ASSUME NEW l \in Layouts
      PROVE  PartsAgree([q \in 0 .. l.ws - 1 |-> part_of(l, q)])
  <2>1. /\ l.n \in 0 .. Size - 1 /\ l.ws \in Nat \ {0} /\ l.b \in Nat \ {0}
        /\ \/ l.kind \in {"balanced", "trivial"}
           \/ l.kind = "single" /\ l.ws = 1
           \/ l.kind = "cyclic" /\ l.n + l.ws <= Size
           \/ l.kind = "block" /\ l.n + l.ws <= Size /\ l.n + l.b <= Size /\ l.b * l.ws < Size
           \/ /\ l.kind = "sorted" /\ l.ends \in [0 .. l.ws - 1 -> 0 .. l.n]
              /\ Sorted([n |-> l.n, ws |-> l.ws, part |-> l.ends])
           \/ /\ l.kind = "continuous"
              /\ l.begins \in [0 .. l.ws - 1 -> 0 .. l.n] /\ l.ends \in [0 .. l.ws - 1 -> 0 .. l.n]
              /\ \A q \in 0 .. l.ws - 1 : l.begins[q] <= l.ends[q]
              /\ \A v \in 0 .. l.n - 1 : \E q \in 0 .. l.ws - 1 : \A p \in 0 .. l.ws - 1 :
                   (l.begins[p] <= v /\ v < l.ends[p]) <=> p = q
    BY LayoutsAssumption
  <2>2. CASE l.kind = "balanced"
    <3>1. \A q : part_of(l, q) = balanced_slice_part(l.n, l.ws, q)
      BY <2>2 DEF part_of
    <3> QED BY <2>1, <3>1, BalancedAgree
  <2>3. CASE l.kind = "trivial"
    <3>1. \A q : part_of(l, q) = trivial_slice_part(l.n, l.ws, q)
      BY <2>3 DEF part_of
    <3> QED BY <2>1, <3>1, TrivialAgree
  <2>4. CASE l.kind = "single" /\ l.ws = 1
    <3>1. \A q : part_of(l, q) = single_part(l.n)
      BY <2>4 DEF part_of
    <3>2. 0 .. l.ws - 1 = 0 .. 0
      BY <2>4
    <3> QED BY <2>1, <3>1, <3>2, SingleAgrees
  <2>5. CASE l.kind = "cyclic" /\ l.n + l.ws <= Size
    <3>1. \A q : part_of(l, q) = cyclic_part(l.n, l.ws, q)
      BY <2>5 DEF part_of
    <3> QED BY <2>1, <2>5, <3>1, CyclicAgree
  <2>6. CASE l.kind = "block" /\ l.n + l.ws <= Size /\ l.n + l.b <= Size /\ l.b * l.ws < Size
    <3>1. \A q : part_of(l, q) = block_cyclic_part(l.n, l.ws, q, l.b)
      BY <2>6 DEF part_of
    <3> QED BY <2>1, <2>6, <3>1, BlocksAgree
  <2>7. CASE /\ l.kind = "sorted" /\ l.ends \in [0 .. l.ws - 1 -> 0 .. l.n]
             /\ Sorted([n |-> l.n, ws |-> l.ws, part |-> l.ends])
    <3>1. \A q : part_of(l, q) = explicit_sorted_part(l.n, l.ws, q, l.ends)
      BY <2>7 DEF part_of
    <3> QED BY <2>1, <2>7, <3>1, SortedAgree
  <2>8. CASE /\ l.kind = "continuous"
             /\ l.begins \in [0 .. l.ws - 1 -> 0 .. l.n] /\ l.ends \in [0 .. l.ws - 1 -> 0 .. l.n]
             /\ \A q \in 0 .. l.ws - 1 : l.begins[q] <= l.ends[q]
             /\ \A v \in 0 .. l.n - 1 : \E q \in 0 .. l.ws - 1 : \A p \in 0 .. l.ws - 1 :
                  (l.begins[p] <= v /\ v < l.ends[p]) <=> p = q
    <3>1. \A q : part_of(l, q) = explicit_continuous_part(l.n, l.ws, q, l.begins, l.ends)
      BY <2>8 DEF part_of
    <3> QED BY <2>1, <2>8, <3>1, ContinuousAgree
  <2> QED BY <2>1, <2>2, <2>3, <2>4, <2>5, <2>6, <2>7, <2>8
<1>2. layout \in Layouts => PartsInv
  BY <1>1 DEF PartsInv
<1>3. PiecesInit => layout \in Layouts
  BY DEF PiecesInit
<1>4. layout \in Layouts /\ [PiecesNext]_piecesVars => (layout \in Layouts)'
  BY DEF PiecesNext, piecesVars
<1> QED BY <1>2, <1>3, <1>4, PTL DEF PiecesSpec
-----------------------------------------------------------------------------
(* Tarjan's algorithm                                                      *)

\* The graph between the vertices wanted of an input, and its closed sets.
EdgeIn(i, u, v) ==
  /\ u \in i.filter /\ v \in i.filter
  /\ \E m \in 1 .. Len(i.csr_range[u]) : i.csr_range[u][m] = v
ClosedIn(i, C) == \A u, v \in i.filter : u \in C /\ EdgeIn(i, u, v) => v \in C

\* There is a way from u to v: every closed set with u has v.
Leads(i, u, v) == \A C \in SUBSET i.filter : u \in C /\ ClosedIn(i, C) => v \in C

ComponentOf(i, u) == {v \in i.filter : Leads(i, u, v) /\ Leads(i, v, u)}

\* The vertices with an index, and those callback was given.
Visited == {u \in 0 .. input.n - 1 : index[u] # input.n}
Emitted == {v \in input.filter : \E k \in 1 .. Len(components) : v \in components[k]}

Frames == 1 .. Len(dfs)
FrameVertex(k) == dfs[k][1]     \* local_u and `it` of a frame
FrameNext(k) == dfs[k][2]
FrameIndex(k) == index[FrameVertex(k)]
Neighbor(u, m) == input.csr_range[u][m]

\* Neighbour m of u has been looked at.
Explored(u, m) ==
  /\ u \in Visited /\ m \in 1 .. Len(input.csr_range[u])
  /\ \A k \in Frames : FrameVertex(k) = u => m < FrameNext(k)

\* y was visited while k was the frame in hand, or one that is left since.
Under(k, y) ==
  /\ k \in Frames /\ y \in on_stack /\ FrameIndex(k) <= index[y]
  /\ k < Len(dfs) => index[y] < FrameIndex(k + 1)

SearchTypes ==
  /\ input \in Inputs /\ local_root \in 0 .. input.n
  /\ index \in [0 .. input.n - 1 -> 0 .. input.n]
  /\ low \in [0 .. input.n - 1 -> 0 .. input.n - 1]
  /\ st \in Seq(input.filter) /\ on_stack \subseteq input.filter
  /\ dfs \in Seq(input.filter \X (Nat \ {0})) /\ components \in Seq(SUBSET input.filter)

\* Indices are given in turn, roots in their order.
IndicesInv ==
  /\ Visited \subseteq input.filter
  /\ \A u \in Visited : index[u] < Cardinality(Visited)
  /\ \A v \in input.filter : v < local_root => v \in Visited

\* The vertices visited are on st, in the order of their indices, or emitted.
StackInv ==
  /\ \A i, k \in 1 .. Len(st) : i < k => index[st[i]] < index[st[k]]
  /\ on_stack = {st[i] : i \in 1 .. Len(st)}
  /\ Visited = on_stack \cup Emitted /\ on_stack \cap Emitted = {}

FramesInv ==
  /\ \A k \in Frames : FrameVertex(k) \in on_stack
  /\ \A i, k \in Frames : i < k => FrameIndex(i) < FrameIndex(k)

\* A neighbour that has been looked at has been visited if it is wanted.
NeighborsInv ==
  \A u, m : Explored(u, m) /\ Neighbor(u, m) \in input.filter => Neighbor(u, m) \in Visited

\* On st a vertex leads to all above it, and to a frame's at or below it.
WaysInv ==
  /\ \A x, y \in on_stack : index[x] <= index[y] => Leads(input, x, y)
  /\ \A y \in on_stack : \E k \in Frames :
       FrameIndex(k) <= index[y] /\ Leads(input, y, FrameVertex(k))

\* low is the index of a vertex on st that one gets to, and for a frame not
\* above that of any neighbour that its vertices have shown to be there.
LowInv ==
  /\ \A v \in on_stack : \E w \in on_stack :
       low[v] = index[w] /\ index[w] <= index[v] /\ Leads(input, v, w)
  /\ \A k, y, m : Under(k, y) /\ Explored(y, m) /\ Neighbor(y, m) \in on_stack =>
       low[FrameVertex(k)] <= index[Neighbor(y, m)]

\* What was emitted are components, each after those it leads to.
EmittedInv ==
  \A i \in 1 .. Len(components) :
    /\ \A u \in components[i] : components[i] = ComponentOf(input, u)
    /\ \A k \in 1 .. i - 1 : components[k] # components[i]
    /\ \A u \in components[i], v \in input.filter :
         EdgeIn(input, u, v) => \E k \in 1 .. i : v \in components[k]

SearchInv ==
  /\ SearchTypes /\ IndicesInv /\ StackInv /\ FramesInv /\ NeighborsInv
  /\ WaysInv /\ LowInv /\ EmittedInv

\* The graphs that are searched are finite.
LEMMA InputFacts ==
  ASSUME NEW i \in Inputs
  PROVE  /\ i.n \in Nat /\ i.filter \subseteq 0 .. i.n - 1
         /\ \A u \in i.filter : i.csr_range[u] \in Seq(Nat)
         /\ IsFiniteSet(i.filter) /\ Cardinality(i.filter) \in Nat
<1>1. /\ i.n \in Nat /\ i.filter \subseteq 0 .. i.n - 1
      /\ i.csr_range \in [0 .. i.n - 1 -> Seq(Nat)]
  BY InputsAssumption
<1>2. IsFiniteSet(0 .. i.n - 1)
  BY <1>1, FS_Interval
<1>3. IsFiniteSet(i.filter)
  BY <1>1, <1>2, FS_Subset
<1> QED BY <1>1, <1>3, FS_CardinalityType

\* A vertex leads to itself.
LEMMA LeadsSelf ==
  ASSUME NEW i, NEW u
  PROVE  Leads(i, u, u)
BY DEF Leads

\* An edge is a way.
LEMMA LeadsEdge ==
  ASSUME NEW i, NEW u, NEW v, EdgeIn(i, u, v)
  PROVE  Leads(i, u, v)
<1>1. u \in i.filter /\ v \in i.filter
  BY DEF EdgeIn
<1> QED BY <1>1 DEF Leads, ClosedIn

\* Two ways one after the other are one.
LEMMA LeadsOn ==
  ASSUME NEW i, NEW u, NEW v, NEW w, Leads(i, u, v), Leads(i, v, w)
  PROVE  Leads(i, u, w)
BY DEF Leads

\* No way leads out of a closed set.
LEMMA LeadsWithin ==
  ASSUME NEW i, NEW u, NEW v, NEW C \in SUBSET i.filter,
         u \in C, ClosedIn(i, C), Leads(i, u, v)
  PROVE  v \in C
BY DEF Leads

\* The components are those of the model.
LEMMA ComponentIsScc ==
  ASSUME NEW u \in input.filter
  PROVE  Tarjans!Sets!SCC(Tarjans!Edges, u) = ComponentOf(input, u)
<1> DEFINE G == Tarjans!Edges
           S == input.filter
<1>1. \A x, y \in S : <<x, y>> \in G <=> EdgeIn(input, x, y)
  BY DEF Tarjans!Edges, EdgeIn, Tarjans!Contains, Tarjans!csr_range
<1>2. \A C : Tarjans!Sets!IsClosed(G, C) <=> ClosedIn(input, C)
  <2> HIDE DEF G
  <2> QED BY <1>1 DEF Tarjans!Sets!IsClosed, ClosedIn
<1>3. \A x : Tarjans!Sets!Reach(G, x) = {v \in S : Leads(input, x, v)}
  <2> HIDE DEF G
  <2> QED BY <1>2 DEF Tarjans!Sets!Reach, Leads
<1> HIDE DEF G
<1>4. Tarjans!Sets!SCC(G, u) = {v \in S : Leads(input, u, v) /\ Leads(input, v, u)}
  BY <1>3 DEF Tarjans!Sets!SCC
<1> QED BY <1>4 DEF ComponentOf, G
-----------------------------------------------------------------------------
(* What a step of the search does                                          *)

\* The frame in hand looks at neighbour m of u.
LooksAt(u, m) ==
  /\ Len(dfs) > 0 /\ u = FrameVertex(Len(dfs)) /\ m = FrameNext(Len(dfs))
  /\ m \in 1 .. Len(input.csr_range[u])

\* Frames stay, but the one in hand moves on to its next neighbour.
FramesMoveOn ==
  \A k \in Frames : /\ FrameVertex(k)' = FrameVertex(k)
                    /\ FrameNext(k)' = IF k = Len(dfs) THEN FrameNext(k) + 1 ELSE FrameNext(k)

Entered(v) ==
  /\ input' = input /\ local_root' = local_root /\ components' = components
  /\ v \in input.filter /\ v \notin Visited /\ Visited' = Visited \cup {v}
  /\ index'[v] = Cardinality(Visited) /\ low'[v] = index'[v]
  /\ \A x \in Visited : index'[x] = index[x] /\ low'[x] = low[x]
  /\ on_stack' = on_stack \cup {v}
  /\ Len(st') = Len(st) + 1 /\ st'[Len(st) + 1] = v
  /\ \A i \in 1 .. Len(st) : st'[i] = st[i]
  /\ Len(dfs') = Len(dfs) + 1 /\ FramesMoveOn
  /\ \A k : k = Len(dfs) + 1 => FrameVertex(k)' = v /\ FrameNext(k)' = 1
  /\ Len(dfs) > 0 => \E u, m : LooksAt(u, m) /\ v = Neighbor(u, m) /\ EdgeIn(input, u, v)

Passed(u, m) ==
  /\ UNCHANGED <<input, local_root, index, on_stack, st, components>>
  /\ LooksAt(u, m) /\ Len(dfs') = Len(dfs) /\ FramesMoveOn
  /\ Neighbor(u, m) \in input.filter =>
       EdgeIn(input, u, Neighbor(u, m)) /\ Neighbor(u, m) \in Visited
  /\ \A x \in input.filter : x # u => low'[x] = low[x]
  /\ low'[u] <= low[u]
  /\ Neighbor(u, m) \in on_stack => low'[u] <= index[Neighbor(u, m)]
  /\ \/ low'[u] = low[u]
     \/ Neighbor(u, m) \in on_stack /\ low'[u] = index[Neighbor(u, m)]

\* The frames and vertices of SearchTypes.
LEMMA FrameFacts ==
  ASSUME SearchTypes
  PROVE  /\ Len(dfs) \in Nat
         /\ \A k \in Frames : FrameVertex(k) \in input.filter /\ FrameNext(k) \in Nat \ {0}
         /\ \A u \in input.filter : index[u] \in 0 .. input.n /\ low[u] \in 0 .. input.n - 1
         /\ \A u \in input.filter : Len(input.csr_range[u]) \in Nat
         /\ \A u \in input.filter : u \in Visited <=> index[u] # input.n
         /\ input.n \in Nat /\ input.filter \subseteq 0 .. input.n - 1
         /\ Visited \subseteq 0 .. input.n - 1
<1>1. input \in Inputs /\ dfs \in Seq(input.filter \X (Nat \ {0}))
  BY DEF SearchTypes
<1>2. \A k \in Frames : dfs[k] \in input.filter \X (Nat \ {0})
  BY <1>1 DEF Frames
<1>3. \A k \in Frames : FrameVertex(k) \in input.filter /\ FrameNext(k) \in Nat \ {0}
  BY <1>2 DEF FrameVertex, FrameNext
<1>4. /\ input.n \in Nat /\ input.filter \subseteq 0 .. input.n - 1
      /\ \A u \in input.filter : input.csr_range[u] \in Seq(Nat)
  BY <1>1, InputFacts
<1>5. \A u \in input.filter : index[u] \in 0 .. input.n /\ low[u] \in 0 .. input.n - 1
  BY <1>4 DEF SearchTypes
<1>6. \A u \in input.filter : Len(input.csr_range[u]) \in Nat
  BY <1>4
<1>7. /\ Visited \subseteq 0 .. input.n - 1
      /\ \A u \in input.filter : u \in Visited <=> index[u] # input.n
  BY <1>4 DEF Visited
<1> QED BY <1>1, <1>3, <1>4, <1>5, <1>6, <1>7

\* There is an index for one more vertex.
LEMMA IndexLeft ==
  ASSUME SearchTypes, IndicesInv, NEW v \in input.filter, v \notin Visited
  PROVE  /\ Cardinality(Visited) \in 0 .. input.n - 1
         /\ Cardinality(Visited \cup {v}) = Cardinality(Visited) + 1
         /\ Tarjans!index_count = Cardinality(Visited)
<1> DEFINE W == Visited \cup {v}
<1>1. input.n \in Nat /\ W \subseteq 0 .. input.n - 1
  BY FrameFacts
<1>2. IsFiniteSet(0 .. input.n - 1) /\ Cardinality(0 .. input.n - 1) = input.n
  <2>1. PICK b : b = input.n - 1
    OBVIOUS
  <2>2. 0 \in Int /\ b \in Int /\ input.n = b + 1 /\ (0 > b <=> b + 1 = 0)
    BY <1>1, <2>1
  <2>3. IsFiniteSet(0 .. b) /\ Cardinality(0 .. b) = IF 0 > b THEN 0 ELSE b - 0 + 1
    BY <2>2, FS_Interval
  <2>4. Cardinality(0 .. b) = b + 1
    BY <2>2, <2>3
  <2> QED BY <2>1, <2>2, <2>3, <2>4
<1>3. IsFiniteSet(W) /\ Cardinality(W) <= input.n
  BY <1>1, <1>2, FS_Subset
<1>4. IsFiniteSet(Visited)
  BY <1>3, FS_Subset
<1>5. Cardinality(W) = Cardinality(Visited) + 1
  BY <1>4, FS_AddElement
<1>6. Cardinality(Visited) \in Nat
  BY <1>4, FS_CardinalityType
<1>7. Tarjans!index_count = Cardinality(Visited)
  BY DEF Visited, Tarjans!index_count, Tarjans!n, Tarjans!index_undecided, Cardinality,
         Tarjans!Cardinality
<1> QED BY <1>1, <1>3, <1>5, <1>6, <1>7

\* The frame in hand.
LEMMA TopFrame ==
  ASSUME SearchTypes, dfs # <<>>
  PROVE  /\ Len(dfs) \in Frames
         /\ Tarjans!local_u = FrameVertex(Len(dfs)) /\ Tarjans!it = FrameNext(Len(dfs))
         /\ Tarjans!AtEdge => /\ LooksAt(Tarjans!local_u, Tarjans!it)
                              /\ Tarjans!local_v = Neighbor(Tarjans!local_u, Tarjans!it)
         /\ ~ Tarjans!AtEdge => Tarjans!it > Len(input.csr_range[Tarjans!local_u])
<1>1. dfs \in Seq(input.filter \X (Nat \ {0}))
  BY DEF SearchTypes
<1>2. Len(dfs) \in Nat /\ Len(dfs) > 0 /\ Len(dfs) \in Frames
  BY <1>1 DEF Frames
<1>3. Tarjans!local_u = FrameVertex(Len(dfs)) /\ Tarjans!it = FrameNext(Len(dfs))
  BY DEF Tarjans!local_u, Tarjans!it, Tarjans!Last, FrameVertex, FrameNext
<1>4. Tarjans!local_u \in input.filter /\ Tarjans!it \in Nat \ {0}
  BY <1>2, <1>3, FrameFacts
<1>5. Len(input.csr_range[Tarjans!local_u]) \in Nat
  BY <1>4, FrameFacts
<1>6. Tarjans!AtEdge <=> Tarjans!it <= Len(input.csr_range[Tarjans!local_u])
  BY DEF Tarjans!AtEdge, Tarjans!csr_range
<1>7. Tarjans!local_v = Neighbor(Tarjans!local_u, Tarjans!it)
  BY DEF Tarjans!local_v, Tarjans!csr_range, Neighbor
<1>8. Tarjans!AtEdge => LooksAt(Tarjans!local_u, Tarjans!it)
  BY <1>2, <1>3, <1>4, <1>5, <1>6 DEF LooksAt
<1> QED BY <1>2, <1>3, <1>4, <1>5, <1>6, <1>7, <1>8

\* The frames after `it` has been moved on.
LEMMA AdvancedFrames ==
  ASSUME SearchTypes, dfs # <<>>
  PROVE  /\ Tarjans!Advanced \in Seq(input.filter \X (Nat \ {0}))
         /\ Len(Tarjans!Advanced) = Len(dfs)
         /\ \A k \in Frames :
              /\ Tarjans!Advanced[k][1] = FrameVertex(k)
              /\ Tarjans!Advanced[k][2] = IF k = Len(dfs) THEN FrameNext(k) + 1 ELSE FrameNext(k)
<1> DEFINE F == input.filter \X (Nat \ {0})
           A == Tarjans!Advanced
           top == <<Tarjans!local_u, Tarjans!it + 1>>
<1>1. dfs \in Seq(F) /\ Len(dfs) \in Nat /\ Len(dfs) \in Frames
  BY TopFrame, FrameFacts DEF SearchTypes
<1>2. Tarjans!local_u = FrameVertex(Len(dfs)) /\ Tarjans!it = FrameNext(Len(dfs))
  BY TopFrame
<1>3. Tarjans!local_u \in input.filter /\ Tarjans!it \in Nat \ {0}
  BY <1>1, <1>2, FrameFacts
<1>4. top \in F
  BY <1>3
<1>5. A = [dfs EXCEPT ![Len(dfs)] = top]
  BY DEF Tarjans!Advanced
<1> HIDE DEF A, top, F
<1>6. A \in Seq(F) /\ Len(A) = Len(dfs)
  BY <1>1, <1>4, <1>5
<1>7. A[Len(dfs)] = top /\ \A k \in Frames : k # Len(dfs) => A[k] = dfs[k]
  BY <1>1, <1>4, <1>5 DEF Frames
<1>8. top[1] = Tarjans!local_u /\ top[2] = Tarjans!it + 1
  BY DEF top
<1>9. \A k \in Frames : /\ A[k][1] = FrameVertex(k)
                        /\ A[k][2] = IF k = Len(dfs) THEN FrameNext(k) + 1 ELSE FrameNext(k)
  BY <1>2, <1>7, <1>8 DEF FrameVertex, FrameNext
<1> QED BY <1>6, <1>9 DEF A, F

\* A vertex gets the next index and goes onto both stacks.
LEMMA EnterRight ==
  ASSUME SearchTypes, IndicesInv, NEW v \in input.filter, index[v] = input.n,
         UNCHANGED <<input, local_root, components>>,
         NEW frames, frames \in Seq(input.filter \X (Nat \ {0})), Len(frames) = Len(dfs),
         \A k \in Frames : /\ frames[k][1] = FrameVertex(k)
                           /\ frames[k][2] = IF k = Len(dfs) THEN FrameNext(k) + 1
                                                              ELSE FrameNext(k),
         Tarjans!Enter(v, frames),
         Len(dfs) > 0 => \E u, m : LooksAt(u, m) /\ v = Neighbor(u, m) /\ EdgeIn(input, u, v)
  PROVE  SearchTypes' /\ Entered(v)
<1> DEFINE c == Cardinality(Visited)
           F == input.filter \X (Nat \ {0})
           N == 0 .. input.n - 1
<1>1. /\ input.n \in Nat /\ v \in N /\ Visited \subseteq N /\ v \notin Visited
      /\ Len(dfs) \in Nat /\ \A u \in input.filter : u \in N
  BY FrameFacts DEF Visited
<1>2. c \in N /\ Tarjans!index_count = c
  BY <1>1, IndexLeft
<1>3. /\ index' = [index EXCEPT ![v] = c] /\ low' = [low EXCEPT ![v] = c]
      /\ st' = Append(st, v) /\ on_stack' = on_stack \cup {v}
      /\ dfs' = Append(frames, <<v, 1>>)
  BY <1>2 DEF Tarjans!Enter
<1>4. /\ index \in [N -> 0 .. input.n] /\ low \in [N -> N] /\ st \in Seq(input.filter)
      /\ on_stack \subseteq input.filter /\ input \in Inputs /\ local_root \in 0 .. input.n
      /\ components \in Seq(SUBSET input.filter)
  BY DEF SearchTypes
<1> HIDE DEF c
<1>5. index' \in [N -> 0 .. input.n] /\ low' \in [N -> N]
  <2>1. c \in 0 .. input.n
    BY <1>1, <1>2
  <2> HIDE DEF N
  <2>2. low' \in [N -> N]
    BY <1>1, <1>2, <1>3, <1>4
  <2>3. index' \in [N -> 0 .. input.n]
    BY <1>1, <1>3, <1>4, <2>1
  <2> QED BY <2>2, <2>3
<1>6. /\ index'[v] = c /\ low'[v] = c
      /\ \A x \in N : x # v => index'[x] = index[x] /\ low'[x] = low[x]
  BY <1>1, <1>3, <1>4
<1>7. /\ st' \in Seq(input.filter) /\ Len(st') = Len(st) + 1 /\ st'[Len(st) + 1] = v
      /\ \A i \in 1 .. Len(st) : st'[i] = st[i]
  BY <1>3, <1>4
<1>8. <<v, 1>> \in F
  OBVIOUS
<1>9. /\ dfs' \in Seq(F) /\ Len(dfs') = Len(dfs) + 1 /\ dfs'[Len(dfs) + 1] = <<v, 1>>
      /\ \A k \in Frames : dfs'[k] = frames[k]
  <2> HIDE DEF F
  <2> QED BY <1>1, <1>3, <1>8 DEF Frames, F
<1>10. \A k : k = Len(dfs) + 1 => FrameVertex(k)' = v /\ FrameNext(k)' = 1
  BY <1>9 DEF FrameVertex, FrameNext
<1>11. FramesMoveOn
  BY <1>9 DEF FramesMoveOn, FrameVertex, FrameNext
<1>12. SearchTypes'
  BY <1>3, <1>4, <1>5, <1>7, <1>9 DEF SearchTypes
<1>13. Visited' = Visited \cup {v}
  <2>1. \A x \in N : x \in Visited' <=> index'[x] # input.n
    BY DEF Visited
  <2>2. \A x \in N : x \in Visited <=> index[x] # input.n
    BY DEF Visited
  <2>3. Visited' \subseteq N
    BY DEF Visited
  <2>4. c # input.n
    BY <1>1, <1>2
  <2>5. \A x \in N : x \in Visited' <=> x \in Visited \cup {v}
    BY <1>1, <1>6, <2>1, <2>2, <2>4
  <2> HIDE DEF N
  <2> QED BY <1>1, <2>3, <2>5
<1>14. \A x \in Visited : index'[x] = index[x] /\ low'[x] = low[x]
  BY <1>1, <1>6
<1>15. Entered(v)
  BY <1>1, <1>3, <1>6, <1>7, <1>9, <1>10, <1>11, <1>13, <1>14 DEF Entered, c
<1> QED BY <1>12, <1>15

\* The steps that visit a vertex.
LEMMA EnterSteps ==
  ASSUME SearchTypes, IndicesInv, Tarjans!EnterRoot \/ Tarjans!EnterNeighbor
  PROVE  SearchTypes' /\ \E v : Entered(v)
<1>1. CASE Tarjans!EnterRoot
  <2>1. /\ dfs = <<>> /\ local_root \in input.filter /\ index[local_root] = input.n
        /\ Tarjans!Enter(local_root, dfs) /\ UNCHANGED <<input, local_root, components>>
    BY <1>1 DEF Tarjans!EnterRoot, Tarjans!index_undecided, Tarjans!n
  <2>2. Len(dfs) = 0 /\ Frames = {} /\ dfs \in Seq(input.filter \X (Nat \ {0}))
    BY <2>1 DEF Frames
  <2>3. ~ (Len(dfs) > 0)
    BY <2>2
  <2> QED BY <2>1, <2>2, <2>3, EnterRight
<1>2. CASE Tarjans!EnterNeighbor
  <2> DEFINE u == Tarjans!local_u
             m == Tarjans!it
             v == Tarjans!local_v
  <2>1. /\ Tarjans!AtEdge /\ v \in input.filter /\ index[v] = input.n
        /\ Tarjans!Enter(v, Tarjans!Advanced) /\ UNCHANGED <<input, local_root, components>>
    BY <1>2 DEF Tarjans!EnterNeighbor, Tarjans!index_undecided, Tarjans!n
  <2>2. dfs # <<>>
    BY <2>1 DEF Tarjans!AtEdge
  <2>3. LooksAt(u, m) /\ v = Neighbor(u, m)
    BY <2>1, <2>2, TopFrame
  <2>4. u \in input.filter /\ m \in 1 .. Len(input.csr_range[u])
    BY <2>2, <2>3, TopFrame, FrameFacts DEF LooksAt
  <2> HIDE DEF u, m, v
  <2>5. EdgeIn(input, u, v)
    BY <2>1, <2>3, <2>4 DEF EdgeIn, Neighbor
  <2>6. /\ Tarjans!Advanced \in Seq(input.filter \X (Nat \ {0}))
        /\ Len(Tarjans!Advanced) = Len(dfs)
        /\ \A k \in Frames :
             /\ Tarjans!Advanced[k][1] = FrameVertex(k)
             /\ Tarjans!Advanced[k][2] = IF k = Len(dfs) THEN FrameNext(k) + 1 ELSE FrameNext(k)
    BY <2>2, AdvancedFrames
  <2> QED BY <2>1, <2>3, <2>5, <2>6, EnterRight
<1> QED BY <1>1, <1>2

\* The steps that look at a neighbour and stay where they are.
LEMMA PassSteps ==
  ASSUME SearchTypes, FramesInv, Tarjans!LowerNeighbor \/ Tarjans!PassNeighbor
  PROVE  SearchTypes' /\ \E u, m : Passed(u, m)
<1> DEFINE u == Tarjans!local_u
           m == Tarjans!it
           v == Tarjans!local_v
           N == 0 .. input.n - 1
<1>1. /\ Tarjans!AtEdge /\ dfs' = Tarjans!Advanced
      /\ UNCHANGED <<input, local_root, index, on_stack, st, components>>
  BY DEF Tarjans!LowerNeighbor, Tarjans!PassNeighbor
<1>2. dfs # <<>>
  BY <1>1 DEF Tarjans!AtEdge
<1>3. LooksAt(u, m) /\ v = Neighbor(u, m) /\ u = FrameVertex(Len(dfs)) /\ Len(dfs) \in Frames
  BY <1>1, <1>2, TopFrame
<1>4. u \in input.filter /\ m \in 1 .. Len(input.csr_range[u])
  BY <1>3, FrameFacts DEF LooksAt
<1>5. input.n \in Nat /\ u \in N /\ low[u] \in N /\ \A x \in input.filter : x \in N
  BY <1>4, FrameFacts
<1>6. /\ dfs' \in Seq(input.filter \X (Nat \ {0})) /\ Len(dfs') = Len(dfs) /\ FramesMoveOn
  BY <1>1, <1>2, AdvancedFrames DEF FramesMoveOn, FrameVertex, FrameNext
<1>7. low \in [N -> N]
  BY DEF SearchTypes
<1>8. \/ /\ v \in input.filter /\ v \in Visited /\ v \in on_stack /\ index[v] < low[u]
         /\ low' = [low EXCEPT ![u] = index[v]]
      \/ /\ v \in input.filter => v \in Visited
         /\ v \in input.filter => v \notin on_stack \/ index[v] >= low[u]
         /\ low' = low
  BY FrameFacts DEF Tarjans!LowerNeighbor, Tarjans!PassNeighbor, Tarjans!index_undecided, Tarjans!n
<1>9. on_stack \subseteq input.filter
  BY DEF SearchTypes
<1> HIDE DEF u, m, v
<1>10. v \in input.filter => index[v] \in Int
  BY FrameFacts
<1>11. /\ low' \in [N -> N]
       /\ \A x \in input.filter : x # u => low'[x] = low[x]
       /\ low'[u] <= low[u]
       /\ v \in on_stack => low'[u] <= index[v]
       /\ low'[u] = low[u] \/ (v \in on_stack /\ low'[u] = index[v])
       /\ v \in input.filter => v \in Visited
  <2>1. CASE /\ v \in input.filter /\ v \in Visited /\ v \in on_stack /\ index[v] < low[u]
             /\ low' = [low EXCEPT ![u] = index[v]]
    <3>1. index[v] \in N
      BY <1>5, <2>1, FrameFacts
    <3>2. low' \in [N -> N] /\ low'[u] = index[v] /\ \A x \in N : x # u => low'[x] = low[x]
      BY <1>5, <1>7, <2>1, <3>1
    <3> QED BY <1>5, <2>1, <3>1, <3>2
  <2>2. CASE /\ v \in input.filter => v \in Visited
             /\ v \in input.filter => v \notin on_stack \/ index[v] >= low[u]
             /\ low' = low
    BY <1>5, <1>7, <1>9, <1>10, <2>2
  <2> QED BY <1>8, <2>1, <2>2
<1>12. SearchTypes'
  BY <1>1, <1>6, <1>11 DEF SearchTypes
<1>13. v \in input.filter => EdgeIn(input, u, v)
  BY <1>3, <1>4 DEF EdgeIn, Neighbor
<1>14. Passed(u, m)
  BY <1>1, <1>3, <1>6, <1>11, <1>13 DEF Passed
<1> QED BY <1>12, <1>14

\* The frame of u is left, and what low has told of u is told of the one below.
Left(u) ==
  /\ UNCHANGED <<input, local_root, index>>
  /\ Len(dfs) > 0 /\ u = FrameVertex(Len(dfs))
  /\ FrameNext(Len(dfs)) > Len(input.csr_range[u])
  /\ Len(dfs') = Len(dfs) - 1
  /\ \A k \in Frames : k < Len(dfs) => /\ FrameVertex(k)' = FrameVertex(k)
                                       /\ FrameNext(k)' = FrameNext(k)
  /\ \A x \in input.filter :
       low'[x] = IF Len(dfs) > 1 /\ x = FrameVertex(Len(dfs) - 1) /\ low[u] < low[x]
                 THEN low[u] ELSE low[x]

\* What lies on st from u on.
Above(u) == {y \in on_stack : index[u] <= index[y]}

EmittedFrom(u) ==
  /\ Left(u) /\ low[u] = index[u]
  /\ on_stack' = on_stack \ Above(u)
  /\ Len(st') \in 0 .. Len(st) /\ \A i \in 1 .. Len(st') : st'[i] = st[i]
  /\ on_stack' = {st'[i] : i \in 1 .. Len(st')}
  /\ Len(components') = Len(components) + 1
  /\ \A k \in 1 .. Len(components) : components'[k] = components[k]
  /\ \A k : k = Len(components) + 1 => components'[k] = Above(u)

KeptOn(u) == Left(u) /\ low[u] # index[u] /\ UNCHANGED <<on_stack, st, components>>

\* The beginning of a sequence.
LEMMA Prefix ==
  ASSUME NEW S, NEW s \in Seq(S), NEW k \in 0 .. Len(s)
  PROVE  /\ SubSeq(s, 1, k) \in Seq(S) /\ Len(SubSeq(s, 1, k)) = k
         /\ \A i \in 1 .. k : SubSeq(s, 1, k)[i] = s[i]
<1>1. Len(s) \in Nat /\ k \in Nat /\ k <= Len(s)
  OBVIOUS
<1>2. Len(SubSeq(s, 1, k)) = k
  BY <1>1
<1>3. \A i \in 1 .. k : SubSeq(s, 1, k)[i] = s[i]
  BY <1>1
<1>4. SubSeq(s, 1, k) \in Seq(S)
  BY <1>1
<1> QED BY <1>2, <1>3, <1>4

\* Where u is, st is cut.
LEMMA CutRight ==
  ASSUME SearchTypes, StackInv, NEW u \in on_stack
  PROVE  LET begin == CHOOSE i \in 1 .. Len(st) : st[i] = u
         IN  /\ begin \in 1 .. Len(st)
             /\ {st[i] : i \in begin .. Len(st)} = Above(u)
             /\ {st[i] : i \in 1 .. begin - 1} = on_stack \ Above(u)
<1> DEFINE begin == CHOOSE i \in 1 .. Len(st) : st[i] = u
<1>1. /\ st \in Seq(input.filter) /\ Len(st) \in Nat
      /\ on_stack = {st[i] : i \in 1 .. Len(st)} /\ u \in input.filter
  BY DEF SearchTypes, StackInv
<1>2. begin \in 1 .. Len(st) /\ st[begin] = u
  <2>1. \E i \in 1 .. Len(st) : st[i] = u
    BY <1>1
  <2> QED BY <2>1
<1> HIDE DEF begin
<1>3. \A i \in 1 .. Len(st) : st[i] \in on_stack /\ index[st[i]] \in Int
  BY <1>1, FrameFacts
<1>4. \A i \in 1 .. Len(st) : index[u] <= index[st[i]] <=> begin <= i
  <2> SUFFICES ASSUME NEW i \in 1 .. Len(st)
               PROVE  index[u] <= index[st[i]] <=> begin <= i
    OBVIOUS
  <2>1. i < begin => index[st[i]] < index[u]
    BY <1>2 DEF StackInv
  <2>2. begin < i => index[u] < index[st[i]]
    BY <1>2 DEF StackInv
  <2>3. i = begin => index[u] = index[st[i]]
    BY <1>2
  <2>4. index[u] \in Int /\ index[st[i]] \in Int
    BY <1>2, <1>3
  <2> QED BY <1>1, <1>2, <2>1, <2>2, <2>3, <2>4
<1>5. {st[i] : i \in begin .. Len(st)} = Above(u)
  <2>1. ASSUME NEW i \in begin .. Len(st)
        PROVE  st[i] \in Above(u)
    BY <1>1, <1>2, <1>3, <1>4 DEF Above
  <2>2. ASSUME NEW y \in Above(u)
        PROVE  \E i \in begin .. Len(st) : st[i] = y
    <3>1. PICK i \in 1 .. Len(st) : st[i] = y
      BY <1>1 DEF Above
    <3>2. begin <= i
      BY <1>4, <3>1 DEF Above
    <3> QED BY <1>1, <1>2, <3>1, <3>2
  <2> QED BY <2>1, <2>2
<1>6. {st[i] : i \in 1 .. begin - 1} = on_stack \ Above(u)
  <2>1. ASSUME NEW i \in 1 .. begin - 1
        PROVE  st[i] \in on_stack \ Above(u)
    <3>1. i \in 1 .. Len(st) /\ ~ (begin <= i)
      BY <1>1, <1>2
    <3> QED BY <1>3, <1>4, <3>1 DEF Above
  <2>2. ASSUME NEW y \in on_stack \ Above(u)
        PROVE  \E i \in 1 .. begin - 1 : st[i] = y
    <3>1. PICK i \in 1 .. Len(st) : st[i] = y
      BY <1>1
    <3>2. ~ (begin <= i)
      BY <1>4, <3>1 DEF Above
    <3> QED BY <1>1, <1>2, <3>1, <3>2
  <2> QED BY <2>1, <2>2
<1> QED BY <1>2, <1>5, <1>6 DEF begin

\* The step that leaves a frame.
LEMMA LeaveStep ==
  ASSUME SearchTypes, StackInv, FramesInv, Tarjans!Leave
  PROVE  SearchTypes' /\ \E u : EmittedFrom(u) \/ KeptOn(u)
<1> DEFINE u == Tarjans!local_u
           F == input.filter \X (Nat \ {0})
           N == 0 .. input.n - 1
<1>1. /\ dfs # <<>> /\ ~ Tarjans!AtEdge /\ dfs' = Tarjans!Front(dfs)
      /\ UNCHANGED <<input, local_root, index>>
  BY DEF Tarjans!Leave
<1>2. /\ Len(dfs) \in Frames /\ u = FrameVertex(Len(dfs))
      /\ FrameNext(Len(dfs)) > Len(input.csr_range[u])
  BY <1>1, TopFrame
<1>3. u \in input.filter /\ u \in on_stack
  BY <1>2, FrameFacts DEF FramesInv
<1>4. Len(dfs) \in Nat /\ Len(dfs) > 0 /\ dfs \in Seq(F)
  BY <1>2 DEF Frames, SearchTypes
<1>5. dfs' = SubSeq(dfs, 1, Len(dfs) - 1)
  BY <1>1 DEF Tarjans!Front
<1>6. /\ dfs' \in Seq(F) /\ Len(dfs') = Len(dfs) - 1
      /\ \A k \in Frames : k < Len(dfs) => dfs'[k] = dfs[k]
  <2> HIDE DEF F
  <2>1. PICK k : k = Len(dfs) - 1
    OBVIOUS
  <2>2. k \in 0 .. Len(dfs) /\ \A i \in Frames : i < Len(dfs) => i \in 1 .. k
    BY <1>4, <2>1 DEF Frames
  <2> QED BY <1>4, <1>5, <2>1, <2>2, Prefix
<1>7. \A k \in Frames : k < Len(dfs) => /\ FrameVertex(k)' = FrameVertex(k)
                                       /\ FrameNext(k)' = FrameNext(k)
  BY <1>6 DEF FrameVertex, FrameNext
<1>8. low \in [N -> N] /\ \A x \in input.filter : x \in N
  BY FrameFacts DEF SearchTypes
<1>9. IF Len(dfs) = 1 THEN low' = low
      ELSE \E p : /\ p = FrameVertex(Len(dfs) - 1)
                  /\ low' = [low EXCEPT ![p] = IF low[u] < low[p] THEN low[u] ELSE low[p]]
  BY DEF Tarjans!Leave, FrameVertex
<1>10. \/ low[u] = index[u] /\ Tarjans!EmitComponent
       \/ low[u] # index[u] /\ UNCHANGED <<st, on_stack, components>>
  BY DEF Tarjans!Leave
<1>11. Tarjans!EmitComponent =>
         LET begin == CHOOSE i \in 1 .. Len(st) : st[i] = u
             Popped == {st[i] : i \in begin .. Len(st)}
         IN  /\ st' = SubSeq(st, 1, begin - 1)
             /\ on_stack' = on_stack \ Popped
             /\ components' = Append(components, Popped)
  BY DEF Tarjans!EmitComponent
<1> HIDE DEF u
<1>12. /\ low' \in [N -> N]
       /\ \A x \in input.filter :
            low'[x] = IF Len(dfs) > 1 /\ x = FrameVertex(Len(dfs) - 1) /\ low[u] < low[x]
                      THEN low[u] ELSE low[x]
  <2>1. CASE Len(dfs) = 1
    BY <1>8, <1>9, <2>1
  <2>2. CASE Len(dfs) # 1
    <3>1. PICK p : /\ p = FrameVertex(Len(dfs) - 1)
                   /\ low' = [low EXCEPT ![p] = IF low[u] < low[p] THEN low[u] ELSE low[p]]
      BY <1>9, <2>2
    <3>2. Len(dfs) > 1 /\ Len(dfs) - 1 \in Frames
      <4>1. PICK d : d = Len(dfs)
        OBVIOUS
      <4>2. d \in Nat /\ d > 0 /\ d # 1
        BY <1>4, <2>2, <4>1
      <4> QED BY <4>1, <4>2 DEF Frames
    <3>3. p \in N /\ u \in N /\ low[u] \in N /\ low[p] \in N
      BY <1>3, <1>8, <3>1, <3>2, FrameFacts
    <3>4. PICK b : b = IF low[u] < low[p] THEN low[u] ELSE low[p]
      OBVIOUS
    <3>5. b \in N /\ low' = [low EXCEPT ![p] = b]
      BY <3>1, <3>3, <3>4
    <3>6. low' \in [N -> N] /\ low'[p] = b /\ \A x \in N : x # p => low'[x] = low[x]
      BY <1>8, <3>3, <3>5
    <3> QED BY <1>8, <3>1, <3>2, <3>4, <3>6
  <2> QED BY <2>1, <2>2
<1>13. Left(u)
  BY <1>1, <1>2, <1>4, <1>6, <1>7, <1>12 DEF Left
<1>14. /\ input' \in Inputs /\ input' = input /\ local_root' \in 0 .. input.n
       /\ index' \in [N -> 0 .. input.n] /\ st \in Seq(input.filter)
       /\ on_stack \subseteq input.filter /\ components \in Seq(SUBSET input.filter)
  BY <1>1 DEF SearchTypes
<1>15. CASE low[u] = index[u] /\ Tarjans!EmitComponent
  <2>1. PICK begin : begin = CHOOSE i \in 1 .. Len(st) : st[i] = u
    OBVIOUS
  <2>2. PICK Popped : Popped = {st[i] : i \in begin .. Len(st)}
    OBVIOUS
  <2>3. /\ begin \in 1 .. Len(st) /\ Popped = Above(u)
        /\ {st[i] : i \in 1 .. begin - 1} = on_stack \ Above(u)
    BY <1>3, <2>1, <2>2, CutRight
  <2>4. /\ st' = SubSeq(st, 1, begin - 1) /\ on_stack' = on_stack \ Popped
        /\ components' = Append(components, Popped)
    BY <1>11, <1>15, <2>1, <2>2
  <2>5. /\ st' \in Seq(input.filter) /\ Len(st') = begin - 1
        /\ \A i \in 1 .. begin - 1 : st'[i] = st[i]
    <3>1. PICK k : k = begin - 1
      OBVIOUS
    <3>2. k \in 0 .. Len(st)
      BY <1>14, <2>3, <3>1
    <3> QED BY <1>14, <2>4, <3>1, <3>2, Prefix
  <2>6. Len(st') \in 0 .. Len(st) /\ \A i \in 1 .. Len(st') : st'[i] = st[i]
    BY <1>14, <2>3, <2>5
  <2>7. on_stack' = {st'[i] : i \in 1 .. Len(st')}
    <3>1. 1 .. Len(st') = 1 .. begin - 1
      BY <2>5
    <3>2. {st'[i] : i \in 1 .. begin - 1} = {st[i] : i \in 1 .. begin - 1}
      BY <2>5
    <3> QED BY <2>3, <2>4, <3>1, <3>2
  <2>8. Popped \in SUBSET input.filter
    BY <1>14, <2>3 DEF Above
  <2>9. /\ components' \in Seq(SUBSET input.filter) /\ Len(components') = Len(components) + 1
        /\ \A k \in 1 .. Len(components) : components'[k] = components[k]
        /\ \A k : k = Len(components) + 1 => components'[k] = Popped
    BY <1>14, <2>4, <2>8
  <2>10. EmittedFrom(u)
    BY <1>13, <1>15, <2>3, <2>4, <2>6, <2>7, <2>9 DEF EmittedFrom
  <2>11. SearchTypes'
    BY <1>6, <1>12, <1>14, <2>4, <2>5, <2>9 DEF SearchTypes
  <2> QED BY <2>10, <2>11
<1>16. CASE low[u] # index[u] /\ UNCHANGED <<st, on_stack, components>>
  <2>1. SearchTypes'
    BY <1>6, <1>12, <1>14, <1>16 DEF SearchTypes
  <2> QED BY <1>13, <1>16, <2>1 DEF KeptOn
<1> QED BY <1>10, <1>15, <1>16
-----------------------------------------------------------------------------
(* The steps keep the invariant                                            *)

\* What the parts of the invariant say together of the vertices.
LEMMA SearchFacts ==
  ASSUME SearchInv
  PROVE  /\ on_stack \subseteq Visited /\ Visited \subseteq input.filter
         /\ \A x \in Visited : index[x] \in Nat /\ index[x] < Cardinality(Visited)
         /\ \A x \in Visited : low[x] \in Nat
         /\ \A x \in on_stack : low[x] <= index[x]
         /\ \A k \in Frames : FrameVertex(k) \in on_stack /\ FrameIndex(k) \in Nat
         /\ \A i, k \in Frames : i <= k => FrameIndex(i) <= FrameIndex(k)
         /\ Len(dfs) \in Nat /\ Cardinality(Visited) \in Nat
<1>1. SearchTypes /\ IndicesInv /\ StackInv /\ FramesInv /\ LowInv
  BY DEF SearchInv
<1>2. on_stack \subseteq Visited /\ Visited \subseteq input.filter
  BY <1>1 DEF StackInv, IndicesInv
<1>3. \A x \in Visited : index[x] \in Nat /\ index[x] < Cardinality(Visited) /\ low[x] \in Nat
  BY <1>1, <1>2, FrameFacts DEF IndicesInv
<1>4. \A x \in on_stack : low[x] <= index[x]
  BY <1>1, <1>2, <1>3 DEF LowInv
<1>5. \A k \in Frames : FrameVertex(k) \in on_stack /\ FrameIndex(k) \in Nat
  BY <1>1, <1>2, <1>3 DEF FramesInv, FrameIndex
<1>6. Len(dfs) \in Nat
  BY <1>1, FrameFacts
<1>7. \A i, k \in Frames : i <= k => FrameIndex(i) <= FrameIndex(k)
  <2> SUFFICES ASSUME NEW i \in Frames, NEW k \in Frames, i <= k
               PROVE  FrameIndex(i) <= FrameIndex(k)
    OBVIOUS
  <2>1. i < k => FrameIndex(i) < FrameIndex(k)
    BY <1>1 DEF FramesInv
  <2>2. FrameIndex(i) \in Nat /\ FrameIndex(k) \in Nat
    BY <1>5
  <2>3. i \in Nat /\ k \in Nat
    BY <1>6 DEF Frames
  <2> QED BY <2>1, <2>2, <2>3
<1>8. Cardinality(Visited) \in Nat
  <2>1. IsFiniteSet(input.filter)
    BY <1>1, InputFacts DEF SearchTypes
  <2>2. IsFiniteSet(Visited)
    BY <1>2, <2>1, FS_Subset
  <2> QED BY <2>2, FS_CardinalityType
<1> QED BY <1>2, <1>3, <1>4, <1>5, <1>6, <1>7, <1>8

\* What has been looked at after a step had been before, or is what it looks at.
LEMMA ExploredBefore ==
  ASSUME SearchTypes, FramesMoveOn, input' = input, Len(dfs') \in {Len(dfs), Len(dfs) + 1},
         NEW x \in Visited, NEW m, Explored(x, m)'
  PROVE  Explored(x, m) \/ LooksAt(x, m)
<1> SUFFICES ASSUME ~ LooksAt(x, m)
             PROVE  Explored(x, m)
  OBVIOUS
<1>1. m \in 1 .. Len(input.csr_range[x])
  BY DEF Explored
<1>2. Len(dfs) \in Nat /\ \A k \in Frames : k \in Frames' /\ FrameNext(k) \in Nat
  BY FrameFacts DEF Frames
<1>3. ASSUME NEW k \in Frames, FrameVertex(k) = x
      PROVE  m < FrameNext(k)
  <2>1. k \in Frames' /\ FrameVertex(k)' = x
    BY <1>2, <1>3 DEF FramesMoveOn
  <2>2. m < FrameNext(k)'
    BY <2>1 DEF Explored
  <2>3. CASE k = Len(dfs)
    <3>1. FrameNext(k)' = FrameNext(k) + 1
      BY <2>3 DEF FramesMoveOn
    <3>2. m # FrameNext(k)
      <4>1. Len(dfs) > 0
        BY <1>2, <2>3 DEF Frames
      <4> QED BY <1>1, <1>3, <2>3, <4>1 DEF LooksAt
    <3>3. m \in Int /\ FrameNext(k) \in Int
      BY <1>1, <1>2
    <3> QED BY <2>2, <3>1, <3>2, <3>3
  <2>4. CASE k # Len(dfs)
    <3>1. FrameNext(k)' = FrameNext(k)
      BY <2>4 DEF FramesMoveOn
    <3> QED BY <2>2, <3>1
  <2> QED BY <2>3, <2>4
<1> QED BY <1>1, <1>3 DEF Explored

\* A vertex just visited has not shown any of its neighbours.
LEMMA ExploredEntered ==
  ASSUME SearchTypes, NEW v, Entered(v), NEW x, NEW m, Explored(x, m)'
  PROVE  x \in Visited /\ x # v /\ (Explored(x, m) \/ LooksAt(x, m))
<1>1. x \in Visited \cup {v} /\ m \in 1 .. Len(input.csr_range[x])
  BY DEF Explored, Entered
<1>2. x # v
  <2> SUFFICES ASSUME x = v PROVE FALSE
    OBVIOUS
  <2>1. PICK k : k = Len(dfs) + 1
    OBVIOUS
  <2>2. k \in Frames' /\ FrameVertex(k)' = v /\ FrameNext(k)' = 1
    BY <2>1, FrameFacts DEF Entered, Frames
  <2>3. m < FrameNext(k)'
    BY <2>2 DEF Explored
  <2>4. m \in Int /\ 1 <= m
    BY <1>1
  <2> QED BY <2>2, <2>3, <2>4
<1>3. x \in Visited
  BY <1>1, <1>2
<1>4. FramesMoveOn /\ input' = input /\ Len(dfs') = Len(dfs) + 1
  BY DEF Entered
<1> QED BY <1>2, <1>3, <1>4, ExploredBefore

\* A frame that is left has looked at all neighbours.
LEMMA ExploredLeft ==
  ASSUME SearchTypes, NEW u, Left(u), NEW x, NEW m, Explored(x, m)'
  PROVE  Explored(x, m)
<1>1. input' = input /\ Visited' = Visited
  BY DEF Left, Visited
<1>2. x \in Visited /\ m \in 1 .. Len(input.csr_range[x])
  BY <1>1 DEF Explored
<1>3. ASSUME NEW k \in Frames, FrameVertex(k) = x
      PROVE  m < FrameNext(k)
  <2>1. Len(dfs) \in Nat /\ k \in 1 .. Len(dfs) /\ Len(dfs') = Len(dfs) - 1
    BY FrameFacts DEF Frames, Left
  <2>2. CASE k < Len(dfs)
    <3>1. k \in Frames' /\ FrameVertex(k)' = x /\ FrameNext(k)' = FrameNext(k)
      BY <1>3, <2>1, <2>2 DEF Left, Frames
    <3> QED BY <3>1 DEF Explored
  <2>3. CASE k = Len(dfs)
    <3>1. FrameNext(k) > Len(input.csr_range[x])
      BY <1>3, <2>3 DEF Left
    <3>2. FrameNext(k) \in Nat /\ x \in input.filter
      BY <1>3, FrameFacts
    <3>3. Len(input.csr_range[x]) \in Nat
      BY <3>2, FrameFacts
    <3> QED BY <1>2, <3>1, <3>2, <3>3
  <2> QED BY <2>1, <2>2, <2>3
<1> QED BY <1>2, <1>3 DEF Explored

\* Visiting a vertex keeps the order of the indices and of the stacks.
LEMMA EnteredKeepsOrder ==
  ASSUME SearchInv, NEW v, Entered(v)
  PROVE  IndicesInv' /\ StackInv' /\ FramesInv'
<1> DEFINE c == Cardinality(Visited)
<1>1. SearchTypes /\ IndicesInv /\ StackInv /\ FramesInv
  BY DEF SearchInv
<1>2. /\ on_stack \subseteq Visited /\ Visited \subseteq input.filter
      /\ \A x \in Visited : index[x] \in Nat /\ index[x] < c
      /\ Len(dfs) \in Nat /\ c \in Nat
  BY SearchFacts
<1>3. /\ v \in input.filter /\ v \notin Visited /\ Visited' = Visited \cup {v}
      /\ index'[v] = c /\ \A x \in Visited : index'[x] = index[x]
      /\ on_stack' = on_stack \cup {v} /\ input' = input /\ local_root' = local_root
      /\ components' = components
  BY DEF Entered
<1>4. IndicesInv'
  <2>1. Cardinality(Visited') = c + 1
    BY <1>1, <1>3, IndexLeft
  <2>2. \A x \in Visited' : index'[x] < c + 1
    <3> HIDE DEF c
    <3> QED BY <1>2, <1>3
  <2>3. \A x \in Visited' : index'[x] < Cardinality(Visited')
    BY <2>1, <2>2
  <2>4. Visited' \subseteq input'.filter
    BY <1>2, <1>3
  <2>5. \A x \in input'.filter : x < local_root' => x \in Visited'
    BY <1>1, <1>3 DEF IndicesInv
  <2>6. QED BY <2>3, <2>4, <2>5 DEF IndicesInv
<1> HIDE DEF c
<1>5. StackInv'
  <2>1. /\ Len(st) \in Nat /\ Len(st') = Len(st) + 1 /\ st'[Len(st) + 1] = v
        /\ \A i \in 1 .. Len(st) : st'[i] = st[i]
    BY <1>1 DEF Entered, SearchTypes
  <2>2. on_stack = {st[i] : i \in 1 .. Len(st)} /\ Visited = on_stack \cup Emitted
        /\ on_stack \cap Emitted = {}
    BY <1>1 DEF StackInv
  <2>3. \A i \in 1 .. Len(st) : st[i] \in Visited
    BY <1>2, <2>2
  <2>4. ASSUME NEW i \in 1 .. Len(st'), NEW k \in 1 .. Len(st'), i < k
        PROVE  index'[st'[i]] < index'[st'[k]]
    <3>1. i \in 1 .. Len(st)
      BY <2>1, <2>4
    <3>2. st'[i] = st[i] /\ index'[st[i]] = index[st[i]]
      BY <1>3, <2>1, <2>3, <3>1
    <3>3. CASE k \in 1 .. Len(st)
      <4>1. st'[k] = st[k] /\ index'[st[k]] = index[st[k]]
        BY <1>3, <2>1, <2>3, <3>3
      <4>2. index[st[i]] < index[st[k]]
        BY <1>1, <2>4, <3>1, <3>3 DEF StackInv
      <4> QED BY <3>2, <4>1, <4>2
    <3>4. CASE k = Len(st) + 1
      <4>1. index'[st'[k]] = c
        BY <1>3, <2>1, <3>4
      <4>2. index[st[i]] < c
        BY <1>2, <2>3, <3>1
      <4> QED BY <3>2, <4>1, <4>2
    <3> QED BY <2>1, <3>3, <3>4
  <2>5. on_stack' = {st'[i] : i \in 1 .. Len(st')}
    <3>1. 1 .. Len(st') = (1 .. Len(st)) \cup {Len(st) + 1}
      BY <2>1
    <3>2. \A i \in 1 .. Len(st') : st'[i] \in on_stack'
      BY <1>3, <2>1, <2>2, <3>1
    <3>3. \A y \in on_stack' : \E i \in 1 .. Len(st') : st'[i] = y
      BY <1>3, <2>1, <2>2, <3>1
    <3> QED BY <3>2, <3>3
  <2>6. Emitted' = Emitted
    BY <1>3 DEF Emitted
  <2>7. Visited' = on_stack' \cup Emitted' /\ on_stack' \cap Emitted' = {}
    BY <1>3, <2>2, <2>6
  <2> QED BY <2>4, <2>5, <2>7 DEF StackInv
<1>6. FramesInv'
  <2>1. /\ Frames' = Frames \cup {Len(dfs) + 1}
        /\ \A k \in Frames : k \in Nat /\ k <= Len(dfs)
    BY <1>2 DEF Entered, Frames
  <2>2. \A k \in Frames : /\ FrameVertex(k)' = FrameVertex(k) /\ FrameVertex(k) \in on_stack
                          /\ FrameIndex(k)' = FrameIndex(k) /\ FrameIndex(k) < c
    BY <1>1, <1>2, <1>3 DEF Entered, FramesMoveOn, FramesInv, FrameIndex
  <2>3. \A k : k = Len(dfs) + 1 => FrameVertex(k)' = v /\ FrameIndex(k)' = c
    BY <1>3 DEF Entered, FrameIndex
  <2>4. \A k \in Frames' : FrameVertex(k)' \in on_stack'
    BY <1>3, <2>1, <2>2, <2>3
  <2>5. ASSUME NEW i \in Frames', NEW k \in Frames', i < k
        PROVE  FrameIndex(i)' < FrameIndex(k)'
    <3>1. i \in Frames
      BY <1>2, <2>1, <2>5
    <3>2. CASE k \in Frames
      BY <1>1, <2>2, <2>5, <3>1, <3>2 DEF FramesInv
    <3>3. CASE k = Len(dfs) + 1
      BY <2>2, <2>3, <3>1, <3>3
    <3> QED BY <2>1, <3>2, <3>3
  <2> QED BY <2>4, <2>5 DEF FramesInv
<1> QED BY <1>4, <1>5, <1>6

\* Visiting a vertex keeps what is known of the neighbours and ways.
LEMMA EnteredKeepsWays ==
  ASSUME SearchInv, NEW v, Entered(v)
  PROVE  NeighborsInv' /\ WaysInv'
<1> DEFINE c == Cardinality(Visited)
<1>1. SearchTypes /\ WaysInv /\ NeighborsInv
  BY DEF SearchInv
<1>2. /\ on_stack \subseteq Visited /\ Visited \subseteq input.filter
      /\ \A x \in Visited : index[x] \in Nat /\ index[x] < c
      /\ \A k \in Frames : FrameVertex(k) \in on_stack /\ FrameIndex(k) \in Nat
      /\ \A i, k \in Frames : i <= k => FrameIndex(i) <= FrameIndex(k)
      /\ Len(dfs) \in Nat /\ c \in Nat
  BY SearchFacts
<1>3. /\ v \in input.filter /\ v \notin Visited /\ Visited' = Visited \cup {v}
      /\ index'[v] = c /\ \A x \in Visited : index'[x] = index[x]
      /\ on_stack' = on_stack \cup {v} /\ input' = input
  BY DEF Entered
<1> HIDE DEF c
<1>4. NeighborsInv'
  <2> SUFFICES ASSUME NEW x, NEW m, Explored(x, m)', Neighbor(x, m)' \in input'.filter
               PROVE  Neighbor(x, m)' \in Visited'
    BY DEF NeighborsInv
  <2>1. Neighbor(x, m)' = Neighbor(x, m) /\ Neighbor(x, m) \in input.filter
    BY <1>3 DEF Neighbor
  <2>2. Explored(x, m) \/ LooksAt(x, m)
    BY <1>1, ExploredEntered
  <2>3. CASE Explored(x, m)
    BY <1>1, <1>3, <2>1, <2>3 DEF NeighborsInv
  <2>4. CASE LooksAt(x, m)
    <3>1. Neighbor(x, m) = v
      BY <2>4 DEF LooksAt, Entered
    <3> QED BY <1>3, <2>1, <3>1
  <2> QED BY <2>2, <2>3, <2>4
<1>5. /\ Frames' = Frames \cup {Len(dfs) + 1}
      /\ \A k \in Frames : FrameVertex(k)' = FrameVertex(k) /\ FrameIndex(k)' = FrameIndex(k)
  BY <1>2, <1>3 DEF Entered, Frames, FramesMoveOn, FrameIndex
<1>6. ASSUME NEW x \in on_stack', NEW y \in on_stack', index'[x] <= index'[y]
      PROVE  Leads(input', x, y)
  <2>1. CASE x = v
    <3>1. y = v
      BY <1>2, <1>3, <1>6, <2>1
    <3> QED BY <2>1, <3>1, LeadsSelf
  <2>2. CASE x \in on_stack /\ y \in on_stack
    <3>1. index[x] <= index[y]
      BY <1>2, <1>3, <1>6, <2>2
    <3> QED BY <1>1, <1>3, <2>2, <3>1 DEF WaysInv
  <2>3. CASE x \in on_stack /\ y = v
    <3>1. PICK k \in Frames : Leads(input, x, FrameVertex(k))
      BY <1>1, <2>3 DEF WaysInv
    <3>2. Len(dfs) \in Frames /\ k <= Len(dfs) /\ Len(dfs) > 0
      BY <1>2 DEF Frames
    <3>3. PICK u, m : LooksAt(u, m) /\ EdgeIn(input, u, v)
      BY <3>2 DEF Entered
    <3>4. u = FrameVertex(Len(dfs))
      BY <3>3 DEF LooksAt
    <3>5. FrameIndex(k) <= FrameIndex(Len(dfs))
      BY <1>2, <3>2
    <3>6. Leads(input, FrameVertex(k), u)
      BY <1>1, <1>2, <3>2, <3>4, <3>5 DEF WaysInv, FrameIndex
    <3>7. Leads(input, u, v)
      BY <3>3, LeadsEdge
    <3>8. Leads(input, x, u)
      BY <3>1, <3>6, LeadsOn
    <3> QED BY <1>3, <2>3, <3>7, <3>8, LeadsOn
  <2> QED BY <1>3, <2>1, <2>2, <2>3
<1>7. ASSUME NEW y \in on_stack'
      PROVE  \E k \in Frames' : FrameIndex(k)' <= index'[y] /\ Leads(input', y, FrameVertex(k)')
  <2>1. CASE y = v
    <3>1. PICK k : k = Len(dfs) + 1
      OBVIOUS
    <3>2. k \in Frames' /\ FrameVertex(k)' = v /\ FrameIndex(k)' = c
      BY <1>3, <1>5, <3>1 DEF Entered, FrameIndex
    <3> QED BY <1>2, <1>3, <2>1, <3>2, LeadsSelf
  <2>2. CASE y \in on_stack
    <3>1. PICK k \in Frames : FrameIndex(k) <= index[y] /\ Leads(input, y, FrameVertex(k))
      BY <1>1, <2>2 DEF WaysInv
    <3> QED BY <1>2, <1>3, <1>5, <2>2, <3>1
  <2> QED BY <1>3, <2>1, <2>2
<1>8. WaysInv'
  BY <1>6, <1>7 DEF WaysInv
<1> QED BY <1>4, <1>8

\* Visiting a vertex keeps what low says of the vertices.
LEMMA EnteredKeepsLow ==
  ASSUME SearchInv, NEW v, Entered(v)
  PROVE  LowInv'
<1> DEFINE c == Cardinality(Visited)
<1>1. SearchTypes /\ LowInv /\ NeighborsInv /\ StackInv
  BY DEF SearchInv
<1>2. /\ on_stack \subseteq Visited /\ Visited \subseteq input.filter
      /\ \A x \in Visited : index[x] \in Nat /\ index[x] < c /\ low[x] \in Nat
      /\ \A x \in on_stack : low[x] <= index[x]
      /\ \A k \in Frames : FrameVertex(k) \in on_stack
      /\ Len(dfs) \in Nat /\ c \in Nat
  BY SearchFacts
<1>3. /\ v \in input.filter /\ v \notin Visited /\ input' = input
      /\ index'[v] = c /\ low'[v] = c
      /\ \A x \in Visited : index'[x] = index[x] /\ low'[x] = low[x]
      /\ on_stack' = on_stack \cup {v}
  BY DEF Entered
<1> HIDE DEF c
<1>4. ASSUME NEW x \in on_stack'
      PROVE  \E w \in on_stack' :
               low'[x] = index'[w] /\ index'[w] <= index'[x] /\ Leads(input', x, w)
  <2>1. CASE x = v
    BY <1>2, <1>3, <2>1, LeadsSelf
  <2>2. CASE x \in on_stack
    <3>1. PICK w \in on_stack : low[x] = index[w] /\ index[w] <= index[x] /\ Leads(input, x, w)
      BY <1>1, <2>2 DEF LowInv
    <3> QED BY <1>2, <1>3, <2>2, <3>1
  <2> QED BY <1>3, <2>1, <2>2
<1>5. /\ Frames' = Frames \cup {Len(dfs) + 1}
      /\ \A k \in Frames : FrameVertex(k)' = FrameVertex(k) /\ FrameIndex(k)' = FrameIndex(k)
      /\ \A k : k = Len(dfs) + 1 => FrameIndex(k)' = c
  BY <1>2, <1>3 DEF Entered, Frames, FramesMoveOn, FrameIndex
<1>6. ASSUME NEW k, NEW y, NEW m, Under(k, y)', Explored(y, m)', Neighbor(y, m)' \in on_stack'
      PROVE  low'[FrameVertex(k)'] <= index'[Neighbor(y, m)']
  <2> DEFINE w == Neighbor(y, m)
  <2>1. Neighbor(y, m)' = w
    BY <1>3 DEF Neighbor
  <2>2. y \in Visited /\ y # v /\ (Explored(y, m) \/ LooksAt(y, m))
    BY <1>1, <1>6, ExploredEntered
  <2>3. y \in on_stack
    BY <1>3, <1>6, <2>2 DEF Under
  <2>4. k \in Frames
    <3>1. k = Len(dfs) + 1 => c <= index[y]
      BY <1>2, <1>3, <1>5, <1>6, <2>3 DEF Under
    <3>2. index[y] < c /\ index[y] \in Nat
      BY <1>2, <2>2
    <3> QED BY <1>2, <1>5, <1>6, <3>1, <3>2 DEF Under
  <2>5. Under(k, y)
    <3>1. FrameIndex(k) <= index[y]
      BY <1>2, <1>3, <1>5, <1>6, <2>3, <2>4 DEF Under
    <3>2. k < Len(dfs) => index[y] < FrameIndex(k + 1)
      <4> SUFFICES ASSUME k < Len(dfs) PROVE index[y] < FrameIndex(k + 1)
        OBVIOUS
      <4>1. k + 1 \in Frames /\ k < Len(dfs')
        BY <1>2, <2>4 DEF Frames, Entered
      <4>2. index'[y] < FrameIndex(k + 1)'
        BY <1>6, <4>1 DEF Under
      <4>3. FrameIndex(k + 1)' = FrameIndex(k + 1)
        BY <1>5, <4>1
      <4> QED BY <1>2, <1>3, <2>3, <4>2, <4>3
    <3> QED BY <2>3, <2>4, <3>1, <3>2 DEF Under
  <2>6. low'[FrameVertex(k)'] = low[FrameVertex(k)]
    BY <1>2, <1>3, <1>5, <2>4
  <2> HIDE DEF w
  <2>7. CASE Explored(y, m)
    <3>1. w \in Visited
      BY <1>1, <1>2, <1>3, <1>6, <2>1, <2>7 DEF NeighborsInv, w
    <3>2. w \in on_stack /\ index'[w] = index[w]
      BY <1>3, <1>6, <2>1, <3>1
    <3>3. low[FrameVertex(k)] <= index[w]
      BY <1>1, <2>5, <2>7, <3>2 DEF LowInv, w
    <3> QED BY <2>1, <2>6, <3>2, <3>3
  <2>8. CASE LooksAt(y, m)
    <3>1. w = v
      BY <2>8 DEF LooksAt, Entered, w
    <3>2. FrameVertex(k) \in on_stack
      BY <1>2, <2>4
    <3>3. low[FrameVertex(k)] <= index[FrameVertex(k)] /\ index[FrameVertex(k)] < c
      BY <1>2, <3>2
    <3>4. low[FrameVertex(k)] \in Nat /\ index[FrameVertex(k)] \in Nat
      BY <1>2, <3>2
    <3> QED BY <1>2, <1>3, <2>1, <2>6, <3>1, <3>3, <3>4
  <2> QED BY <2>2, <2>7, <2>8
<1> QED BY <1>4, <1>6 DEF LowInv

\* What has been emitted stays what it is.
LEMMA EmittedStays ==
  ASSUME EmittedInv, input' = input, components' = components
  PROVE  EmittedInv'
BY DEF EmittedInv

\* Visiting a vertex keeps the invariant.
LEMMA EnteredKeeps ==
  ASSUME SearchInv, SearchTypes', NEW v, Entered(v)
  PROVE  SearchInv'
<1>1. EmittedInv'
  BY EmittedStays DEF SearchInv, Entered
<1> QED BY <1>1, EnteredKeepsOrder, EnteredKeepsWays, EnteredKeepsLow DEF SearchInv

\* Looking at a neighbour keeps the invariant.
LEMMA PassedKeeps ==
  ASSUME SearchInv, SearchTypes', NEW u, NEW m, Passed(u, m)
  PROVE  SearchInv'
<1> DEFINE v == Neighbor(u, m)
<1>1. /\ SearchTypes /\ IndicesInv /\ StackInv /\ FramesInv /\ NeighborsInv
      /\ WaysInv /\ LowInv /\ EmittedInv
  BY DEF SearchInv
<1>2. /\ on_stack \subseteq Visited /\ Visited \subseteq input.filter
      /\ \A x \in Visited : index[x] \in Nat /\ low[x] \in Nat
      /\ \A x \in on_stack : low[x] <= index[x]
      /\ \A k \in Frames : FrameVertex(k) \in on_stack
      /\ \A i, k \in Frames : i <= k => FrameIndex(i) <= FrameIndex(k)
      /\ Len(dfs) \in Nat
  BY SearchFacts
<1>3. /\ input' = input /\ local_root' = local_root /\ index' = index
      /\ on_stack' = on_stack /\ st' = st /\ components' = components
      /\ Visited' = Visited /\ Emitted' = Emitted
  BY DEF Passed, Visited, Emitted
<1>4. /\ Len(dfs') = Len(dfs) /\ Frames' = Frames /\ FramesMoveOn
      /\ \A k \in Frames : FrameVertex(k)' = FrameVertex(k) /\ FrameIndex(k)' = FrameIndex(k)
  BY <1>3 DEF Passed, Frames, FramesMoveOn, FrameIndex
<1>5. u = FrameVertex(Len(dfs)) /\ Len(dfs) \in Frames /\ u \in on_stack
  BY <1>2 DEF Passed, LooksAt, Frames
<1>6. /\ v \in input.filter => EdgeIn(input, u, v) /\ v \in Visited
      /\ \A x \in input.filter : x # u => low'[x] = low[x]
      /\ low'[u] <= low[u]
      /\ v \in on_stack => low'[u] <= index[v]
      /\ low'[u] = low[u] \/ (v \in on_stack /\ low'[u] = index[v])
  BY DEF Passed
<1>7. \A x, i : Neighbor(x, i)' = Neighbor(x, i)
  BY <1>3 DEF Neighbor
<1>8. \A x, i : LooksAt(x, i) => x = u /\ Neighbor(x, i) = v
  BY DEF LooksAt, Passed
<1>9. IndicesInv' /\ StackInv' /\ EmittedInv'
  BY <1>1, <1>3, EmittedStays DEF IndicesInv, StackInv
<1>10. FramesInv'
  BY <1>1, <1>3, <1>4 DEF FramesInv
<1>11. ASSUME NEW x, NEW i, Explored(x, i)'
       PROVE  Explored(x, i) \/ (x = u /\ Neighbor(x, i) = v)
  <2>1. x \in Visited
    BY <1>3, <1>11 DEF Explored
  <2> QED BY <1>1, <1>3, <1>4, <1>8, <1>11, <2>1, ExploredBefore
<1> HIDE DEF v
<1>12. NeighborsInv'
  BY <1>1, <1>3, <1>6, <1>7, <1>11 DEF NeighborsInv
<1>13. WaysInv'
  BY <1>1, <1>3, <1>4 DEF WaysInv
<1>14. ASSUME NEW x \in on_stack
       PROVE  \E w \in on_stack : low'[x] = index[w] /\ index[w] <= index[x] /\ Leads(input, x, w)
  <2>1. PICK w \in on_stack : low[x] = index[w] /\ index[w] <= index[x] /\ Leads(input, x, w)
    BY <1>1 DEF LowInv
  <2>2. CASE low'[x] = low[x]
    BY <2>1, <2>2
  <2>3. CASE low'[x] # low[x]
    <3>1. x = u /\ v \in on_stack /\ low'[u] = index[v]
      BY <1>2, <1>6, <2>3
    <3>2. low'[u] <= low[u] /\ low[u] <= index[u]
      BY <1>2, <1>5, <1>6
    <3>3. low[u] \in Nat /\ index[u] \in Nat /\ index[v] \in Nat
      BY <1>2, <1>5, <3>1
    <3>4. Leads(input, u, v)
      BY <1>2, <1>6, <3>1, LeadsEdge
    <3> QED BY <3>1, <3>2, <3>3, <3>4
  <2> QED BY <2>2, <2>3
<1>15. \A k, y : Under(k, y)' => Under(k, y)
  <2> SUFFICES ASSUME NEW k, NEW y, Under(k, y)'
               PROVE  Under(k, y)
    OBVIOUS
  <2>1. k \in Frames /\ y \in on_stack /\ FrameIndex(k) <= index[y]
    BY <1>3, <1>4 DEF Under
  <2>2. k < Len(dfs) => index[y] < FrameIndex(k + 1)
    <3> SUFFICES ASSUME k < Len(dfs) PROVE index[y] < FrameIndex(k + 1)
      OBVIOUS
    <3>1. k + 1 \in Frames
      BY <1>2, <2>1 DEF Frames
    <3> QED BY <1>3, <1>4, <3>1 DEF Under
  <2> QED BY <2>1, <2>2 DEF Under
<1>16. ASSUME NEW k, NEW y, NEW i, Under(k, y)', Explored(y, i)', Neighbor(y, i)' \in on_stack'
       PROVE  low'[FrameVertex(k)'] <= index'[Neighbor(y, i)']
  <2>1. PICK x, w : x = FrameVertex(k) /\ w = Neighbor(y, i)
    OBVIOUS
  <2>2. Under(k, y) /\ k \in Frames /\ w \in on_stack /\ x \in on_stack
    BY <1>2, <1>3, <1>7, <1>15, <1>16, <2>1 DEF Under
  <2>3. FrameVertex(k)' = x /\ Neighbor(y, i)' = w
    BY <1>4, <1>7, <2>1, <2>2
  <2>4. low'[x] <= low[x] /\ low'[x] \in Int /\ low[x] \in Int /\ index[w] \in Int
    BY <1>2, <1>6, <2>2
  <2>5. CASE Explored(y, i)
    <3>1. low[x] <= index[w]
      BY <1>1, <2>1, <2>2, <2>5 DEF LowInv
    <3> QED BY <1>3, <2>3, <2>4, <3>1
  <2>6. CASE y = u /\ w = v
    <3>1. k = Len(dfs)
      <4> SUFFICES ASSUME k # Len(dfs) PROVE FALSE
        OBVIOUS
      <4>1. k + 1 \in Frames /\ k + 1 <= Len(dfs) /\ k < Len(dfs)
        BY <1>2, <2>2 DEF Frames
      <4>2. index[u] < FrameIndex(k + 1)
        BY <2>2, <2>6, <4>1 DEF Under
      <4>3. FrameIndex(k + 1) <= FrameIndex(Len(dfs)) /\ FrameIndex(Len(dfs)) = index[u]
        BY <1>2, <1>5, <4>1 DEF FrameIndex
      <4>4. index[u] \in Int /\ FrameIndex(k + 1) \in Int
        BY <1>2, <1>5, <4>1 DEF FrameIndex
      <4> QED BY <4>2, <4>3, <4>4
    <3>2. x = u
      BY <1>5, <2>1, <3>1
    <3> QED BY <1>3, <1>6, <2>2, <2>3, <2>6, <3>2
  <2> QED BY <1>11, <1>16, <2>1, <2>5, <2>6
<1>17. LowInv'
  BY <1>3, <1>14, <1>16 DEF LowInv
<1> QED BY <1>9, <1>10, <1>12, <1>13, <1>17 DEF SearchInv

\* Leaving a frame, whether it ends a component or not.
LEMMA LeftFacts ==
  ASSUME SearchInv, NEW u, Left(u)
  PROVE  /\ u \in on_stack /\ Len(dfs) \in Frames
         /\ u = FrameVertex(Len(dfs)) /\ FrameIndex(Len(dfs)) = index[u]
         /\ \A k \in Frames : k # Len(dfs) => k < Len(dfs) /\ FrameIndex(k) < index[u]
         /\ \A k : k \in Frames' <=> k \in Frames /\ k < Len(dfs)
         /\ \A k \in Frames' : FrameVertex(k)' = FrameVertex(k) /\ FrameIndex(k)' = FrameIndex(k)
         /\ input' = input /\ local_root' = local_root /\ index' = index /\ Visited' = Visited
         /\ NeighborsInv' /\ IndicesInv'
         /\ \A x, y \in Frames' : x < y => FrameIndex(x)' < FrameIndex(y)'
<1>1. SearchTypes /\ NeighborsInv /\ IndicesInv /\ FramesInv
  BY DEF SearchInv
<1>2. /\ Len(dfs) \in Nat /\ \A k \in Frames : FrameVertex(k) \in on_stack
  BY SearchFacts
<1>3. Len(dfs) > 0 /\ u = FrameVertex(Len(dfs)) /\ Len(dfs') = Len(dfs) - 1
  BY DEF Left
<1>4. Len(dfs) \in Frames /\ u \in on_stack /\ FrameIndex(Len(dfs)) = index[u]
  BY <1>2, <1>3 DEF Frames, FrameIndex
<1>5. \A k \in Frames : k # Len(dfs) => k < Len(dfs) /\ FrameIndex(k) < index[u]
  <2> SUFFICES ASSUME NEW k \in Frames, k # Len(dfs)
               PROVE  k < Len(dfs) /\ FrameIndex(k) < index[u]
    OBVIOUS
  <2>1. k < Len(dfs)
    BY <1>2 DEF Frames
  <2>2. FrameIndex(k) < FrameIndex(Len(dfs))
    BY <1>1, <1>4, <2>1 DEF FramesInv
  <2> QED BY <1>4, <2>1, <2>2
<1>6. \A k : k \in Frames' <=> k \in Frames /\ k < Len(dfs)
  BY <1>2, <1>3 DEF Frames
<1>7. /\ input' = input /\ local_root' = local_root /\ index' = index /\ Visited' = Visited
  BY DEF Left, Visited
<1>8. \A k \in Frames' : FrameVertex(k)' = FrameVertex(k) /\ FrameIndex(k)' = FrameIndex(k)
  <2>1. \A k \in Frames' : FrameVertex(k)' = FrameVertex(k)
    BY <1>6 DEF Left
  <2> QED BY <1>7, <2>1 DEF FrameIndex
<1>9. NeighborsInv'
  <2> SUFFICES ASSUME NEW x, NEW m, Explored(x, m)', Neighbor(x, m)' \in input'.filter
               PROVE  Neighbor(x, m)' \in Visited'
    BY DEF NeighborsInv
  <2>1. Neighbor(x, m)' = Neighbor(x, m)
    BY <1>7 DEF Neighbor
  <2>2. Explored(x, m)
    BY <1>1, ExploredLeft
  <2> QED BY <1>1, <1>7, <2>1, <2>2 DEF NeighborsInv
<1>10. IndicesInv'
  BY <1>1, <1>7 DEF IndicesInv
<1>11. \A x, y \in Frames' : x < y => FrameIndex(x)' < FrameIndex(y)'
  <2> SUFFICES ASSUME NEW x \in Frames', NEW y \in Frames', x < y
               PROVE  FrameIndex(x)' < FrameIndex(y)'
    OBVIOUS
  <2>1. x \in Frames /\ y \in Frames
    BY <1>6
  <2>2. FrameIndex(x) < FrameIndex(y)
    BY <1>1, <2>1 DEF FramesInv
  <2> QED BY <1>8, <2>2
<1> QED BY <1>3, <1>4, <1>5, <1>6, <1>7, <1>8, <1>9, <1>10, <1>11

\* Leaving a frame whose vertex leads below it keeps the invariant.
LEMMA KeptOnKeeps ==
  ASSUME SearchInv, SearchTypes', NEW u, KeptOn(u)
  PROVE  SearchInv'
<1>1. /\ SearchTypes /\ StackInv /\ FramesInv /\ WaysInv /\ LowInv /\ EmittedInv
  BY DEF SearchInv
<1>2. Left(u) /\ low[u] # index[u] /\ UNCHANGED <<on_stack, st, components>>
  BY DEF KeptOn
<1>3. /\ on_stack \subseteq Visited /\ Visited \subseteq input.filter
      /\ \A x \in Visited : index[x] \in Nat /\ low[x] \in Nat
      /\ \A x \in on_stack : low[x] <= index[x]
      /\ \A k \in Frames : FrameVertex(k) \in on_stack /\ FrameIndex(k) \in Nat
      /\ Len(dfs) \in Nat
  BY SearchFacts
<1>4. /\ u \in on_stack /\ Len(dfs) \in Frames
      /\ u = FrameVertex(Len(dfs)) /\ FrameIndex(Len(dfs)) = index[u]
      /\ \A k \in Frames : k # Len(dfs) => k < Len(dfs) /\ FrameIndex(k) < index[u]
      /\ \A k : k \in Frames' <=> k \in Frames /\ k < Len(dfs)
      /\ \A k \in Frames' : FrameVertex(k)' = FrameVertex(k) /\ FrameIndex(k)' = FrameIndex(k)
      /\ input' = input /\ index' = index /\ Visited' = Visited
      /\ NeighborsInv' /\ IndicesInv'
      /\ \A x, y \in Frames' : x < y => FrameIndex(x)' < FrameIndex(y)'
  BY <1>2, LeftFacts
<1>5. EmittedInv' /\ StackInv'
  <2>1. Emitted' = Emitted
    BY <1>2, <1>4 DEF Emitted
  <2> QED BY <1>1, <1>2, <1>4, <2>1, EmittedStays DEF StackInv
<1>6. FramesInv'
  BY <1>2, <1>3, <1>4 DEF FramesInv
<1>7. PICK b \in on_stack : low[u] = index[b] /\ index[b] <= index[u] /\ Leads(input, u, b)
  BY <1>1, <1>4 DEF LowInv
<1>8. index[b] < index[u]
  BY <1>2, <1>3, <1>4, <1>7
<1>9. ASSUME NEW y \in on_stack
      PROVE  \E k \in Frames' : FrameIndex(k)' <= index[y] /\ Leads(input, y, FrameVertex(k)')
  <2>1. PICK k \in Frames : FrameIndex(k) <= index[y] /\ Leads(input, y, FrameVertex(k))
    BY <1>1 DEF WaysInv
  <2>2. CASE k # Len(dfs)
    BY <1>4, <2>1, <2>2
  <2>3. CASE k = Len(dfs)
    <3>1. PICK i \in Frames : FrameIndex(i) <= index[b] /\ Leads(input, b, FrameVertex(i))
      BY <1>1 DEF WaysInv
    <3>2. /\ FrameIndex(i) \in Nat /\ index[b] \in Nat /\ index[u] \in Nat /\ index[y] \in Nat
      BY <1>3, <1>4
    <3>3. i # Len(dfs)
      BY <1>4, <1>8, <3>1, <3>2
    <3>4. FrameIndex(i) <= index[y]
      BY <1>4, <1>8, <2>1, <2>3, <3>1, <3>2
    <3>5. Leads(input, y, u)
      BY <1>4, <2>1, <2>3
    <3>6. Leads(input, y, b)
      BY <1>7, <3>5, LeadsOn
    <3>7. Leads(input, y, FrameVertex(i))
      BY <3>1, <3>6, LeadsOn
    <3> QED BY <1>4, <3>3, <3>4, <3>7
  <2> QED BY <2>2, <2>3
<1>10. WaysInv'
  <2>1. \A x, y \in on_stack' : index'[x] <= index'[y] => Leads(input', x, y)
    BY <1>1, <1>2, <1>4 DEF WaysInv
  <2> QED BY <1>2, <1>4, <1>9, <2>1 DEF WaysInv
<1>11. \A x \in input.filter :
         low'[x] = IF Len(dfs) > 1 /\ x = FrameVertex(Len(dfs) - 1) /\ low[u] < low[x]
                   THEN low[u] ELSE low[x]
  BY <1>2 DEF Left
<1>12. ASSUME NEW x \in on_stack
       PROVE  \E w \in on_stack : low'[x] = index[w] /\ index[w] <= index[x] /\ Leads(input, x, w)
  <2>0. x \in input.filter
    BY <1>3
  <2>1. CASE low'[x] = low[x]
    BY <1>1, <2>1 DEF LowInv
  <2>2. CASE low'[x] # low[x]
    <3>1. Len(dfs) > 1 /\ x = FrameVertex(Len(dfs) - 1) /\ low[u] < low[x] /\ low'[x] = low[u]
      BY <1>11, <2>0, <2>2
    <3>2. Len(dfs) - 1 \in Frames /\ Len(dfs) - 1 # Len(dfs)
      BY <1>3, <3>1 DEF Frames
    <3>3. index[x] < index[u]
      BY <1>4, <3>1, <3>2 DEF FrameIndex
    <3>4. /\ index[x] \in Nat /\ index[u] \in Nat /\ low[u] \in Nat
          /\ low[x] \in Nat /\ low[x] <= index[x]
      BY <1>3, <1>4
    <3>5. index[x] <= index[u]
      BY <3>3, <3>4
    <3>6. Leads(input, x, u)
      BY <1>1, <1>4, <3>5 DEF WaysInv
    <3>7. Leads(input, x, b)
      BY <1>7, <3>6, LeadsOn
    <3>8. index[b] <= index[x]
      BY <1>7, <3>1, <3>4
    <3> QED BY <1>7, <3>1, <3>7, <3>8
  <2> QED BY <2>1, <2>2
<1>13. ASSUME NEW k, NEW y, NEW m, Under(k, y)', Explored(y, m)', Neighbor(y, m)' \in on_stack'
       PROVE  low'[FrameVertex(k)'] <= index'[Neighbor(y, m)']
  <2>1. PICK x, w : x = FrameVertex(k) /\ w = Neighbor(y, m)
    OBVIOUS
  <2>2. Neighbor(y, m)' = w /\ w \in on_stack
    BY <1>2, <1>4, <1>13, <2>1 DEF Neighbor
  <2>3. Explored(y, m)
    BY <1>1, <1>2, <1>13, ExploredLeft
  <2>4. /\ k \in Frames' /\ k \in Frames /\ k < Len(dfs) /\ y \in on_stack
        /\ FrameIndex(k) <= index[y] /\ FrameVertex(k)' = x /\ x \in on_stack
    BY <1>2, <1>3, <1>4, <1>13, <2>1 DEF Under
  <2>5. low[x] \in Nat /\ low[u] \in Nat /\ index[w] \in Nat /\ index[y] \in Nat /\ index[u] \in Nat
    BY <1>3, <1>4, <2>2, <2>4
  <2>6. low'[x] <= low[x] /\ low'[x] \in Nat
    BY <1>3, <1>11, <2>4, <2>5
  <2>7. k = Len(dfs) - 1 => low'[x] <= low[u]
    <3> SUFFICES ASSUME k = Len(dfs) - 1 PROVE low'[x] <= low[u]
      OBVIOUS
    <3>1. Len(dfs) > 1
      BY <1>3, <2>4 DEF Frames
    <3> QED BY <1>3, <1>11, <2>1, <2>4, <2>5, <3>1
  <2>8. CASE Under(k, y)
    <3>1. low[x] <= index[w]
      BY <1>1, <2>1, <2>2, <2>3, <2>8 DEF LowInv
    <3> QED BY <1>4, <2>2, <2>4, <2>5, <2>6, <3>1
  <2>9. CASE ~ Under(k, y)
    <3>1. ~ (index[y] < FrameIndex(k + 1))
      BY <2>4, <2>9 DEF Under
    <3>2. k = Len(dfs) - 1
      <4> SUFFICES ASSUME k # Len(dfs) - 1 PROVE FALSE
        OBVIOUS
      <4>1. k + 1 \in Frames /\ k + 1 < Len(dfs) /\ k < Len(dfs')
        BY <1>2, <1>3, <2>4 DEF Left, Frames
      <4>2. index'[y] < FrameIndex(k + 1)'
        BY <1>13, <4>1 DEF Under
      <4>3. FrameIndex(k + 1)' = FrameIndex(k + 1)
        BY <1>4, <4>1
      <4> QED BY <1>4, <3>1, <4>2, <4>3
    <3>3. k + 1 = Len(dfs)
      BY <1>3, <3>2
    <3>4. index[u] <= index[y]
      BY <1>4, <2>5, <3>1, <3>3
    <3>5. Under(Len(dfs), y)
      BY <1>3, <1>4, <2>4, <3>4 DEF Under
    <3>6. low[u] <= index[w]
      BY <1>1, <1>4, <2>1, <2>2, <2>3, <3>5 DEF LowInv
    <3>7. low'[x] <= low[u]
      BY <2>7, <3>2
    <3> QED BY <1>4, <2>2, <2>4, <2>5, <2>6, <3>6, <3>7
  <2> QED BY <2>8, <2>9
<1>14. LowInv'
  BY <1>2, <1>4, <1>12, <1>13 DEF LowInv
<1> QED BY <1>4, <1>5, <1>6, <1>10, <1>14 DEF SearchInv

\* Nothing leads out of what has been emitted.
LEMMA EmittedClosed ==
  ASSUME SearchTypes, EmittedInv
  PROVE  ClosedIn(input, Emitted)
<1> SUFFICES ASSUME NEW x \in Emitted, NEW y \in input.filter, EdgeIn(input, x, y)
             PROVE  y \in Emitted
  BY DEF ClosedIn
<1>1. PICK i \in 1 .. Len(components) : x \in components[i]
  BY DEF Emitted
<1>2. PICK k \in 1 .. i : y \in components[k]
  BY <1>1 DEF EmittedInv
<1>3. k \in 1 .. Len(components)
  <2>1. Len(components) \in Nat
    BY DEF SearchTypes
  <2> QED BY <1>2, <2>1
<1> QED BY <1>2, <1>3 DEF Emitted

\* If nothing above u leads below it, what lies on st from u on is a component,
\* and leads to what has been emitted only.
LEMMA AboveIsComponent ==
  ASSUME SearchInv, NEW u, Left(u), low[u] = index[u]
  PROVE  /\ u \in Above(u) /\ Above(u) \subseteq on_stack
         /\ \A x \in Above(u) : Above(u) = ComponentOf(input, x)
         /\ \A x \in Above(u), y \in input.filter :
              EdgeIn(input, x, y) => y \in Above(u) \cup Emitted
<1> DEFINE A == Above(u)
<1>1. /\ SearchTypes /\ StackInv /\ NeighborsInv /\ WaysInv /\ LowInv /\ EmittedInv
  BY DEF SearchInv
<1>2. /\ on_stack \subseteq Visited /\ Visited \subseteq input.filter
      /\ \A x \in Visited : index[x] \in Nat
      /\ \A k \in Frames : FrameVertex(k) \in on_stack
      /\ Len(dfs) \in Nat
  BY SearchFacts
<1>3. /\ u \in on_stack /\ Len(dfs) \in Frames
      /\ u = FrameVertex(Len(dfs)) /\ FrameIndex(Len(dfs)) = index[u]
      /\ \A k \in Frames : k # Len(dfs) => k < Len(dfs) /\ FrameIndex(k) < index[u]
  BY LeftFacts
<1>4. u \in A /\ A \subseteq on_stack /\ \A y \in A : index[u] <= index[y]
  BY <1>2, <1>3 DEF Above
<1>5. Visited = on_stack \cup Emitted /\ on_stack \cap Emitted = {}
  BY <1>1 DEF StackInv
<1>6. ASSUME NEW x \in A, NEW y \in input.filter, EdgeIn(input, x, y)
      PROVE  y \in A \cup Emitted
  <2>1. PICK m \in 1 .. Len(input.csr_range[x]) : Neighbor(x, m) = y
    BY <1>6 DEF EdgeIn, Neighbor
  <2>2. x \in on_stack /\ index[u] <= index[x]
    BY <1>4
  <2>3. ASSUME NEW k \in Frames, FrameVertex(k) = x
        PROVE  m < FrameNext(k)
    <3>1. ~ (FrameIndex(k) < index[u])
      BY <1>2, <1>3, <2>2, <2>3 DEF FrameIndex
    <3>2. k = Len(dfs) /\ x = u
      BY <1>3, <2>3, <3>1
    <3>3. FrameNext(k) > Len(input.csr_range[x])
      BY <3>2 DEF Left
    <3>4. FrameNext(k) \in Nat /\ Len(input.csr_range[x]) \in Nat
      BY <1>1, <1>2, <2>2, FrameFacts
    <3> QED BY <3>3, <3>4
  <2>4. Explored(x, m)
    BY <1>2, <2>1, <2>2, <2>3 DEF Explored
  <2>5. y \in Visited
    BY <1>1, <2>1, <2>4 DEF NeighborsInv
  <2>6. CASE y \in on_stack
    <3>1. Under(Len(dfs), x)
      BY <1>2, <1>3, <2>2 DEF Under
    <3>2. low[u] <= index[y]
      BY <1>1, <1>3, <2>1, <2>4, <2>6, <3>1 DEF LowInv
    <3> QED BY <2>6, <3>2 DEF Above
  <2> QED BY <1>5, <2>5, <2>6
<1>7. ClosedIn(input, Emitted)
  BY <1>1, EmittedClosed
<1>8. Emitted \in SUBSET input.filter /\ A \cup Emitted \in SUBSET input.filter
  BY <1>2, <1>4 DEF Emitted
<1> HIDE DEF A
<1>9. ClosedIn(input, A \cup Emitted)
  <2> SUFFICES ASSUME NEW x \in A \cup Emitted, NEW y \in input.filter, EdgeIn(input, x, y)
               PROVE  y \in A \cup Emitted
    BY DEF ClosedIn
  <2>1. x \in input.filter
    BY <1>8
  <2>2. CASE x \in A
    BY <1>6, <2>2
  <2>3. CASE x \in Emitted
    BY <1>7, <2>1, <2>3 DEF ClosedIn
  <2> QED BY <2>2, <2>3
<1>10. \A y \in A : Leads(input, u, y)
  BY <1>1, <1>3, <1>4 DEF WaysInv
<1>11. ASSUME NEW y \in A
       PROVE  Leads(input, y, u)
  <2>1. y \in on_stack
    BY <1>4
  <2>2. PICK k \in Frames : Leads(input, y, FrameVertex(k))
    BY <1>1, <2>1 DEF WaysInv
  <2>3. FrameVertex(k) \in A \cup Emitted
    BY <1>8, <1>9, <2>2, LeadsWithin
  <2>4. FrameVertex(k) \in on_stack
    BY <1>2
  <2>5. index[u] <= FrameIndex(k)
    BY <1>4, <1>5, <2>3, <2>4 DEF FrameIndex
  <2>6. k = Len(dfs)
    <3>1. index[u] \in Nat /\ FrameIndex(k) \in Nat
      BY <1>2, <1>3, <2>4 DEF FrameIndex
    <3> QED BY <1>3, <2>5, <3>1
  <2> QED BY <1>3, <2>2, <2>6
<1>12. ASSUME NEW x \in A
       PROVE  A = ComponentOf(input, x)
  <2>1. ASSUME NEW y \in A
        PROVE  y \in ComponentOf(input, x)
    <3>1. Leads(input, x, y)
      BY <1>10, <1>11, LeadsOn
    <3>2. Leads(input, y, x)
      BY <1>10, <1>11, LeadsOn
    <3>3. y \in input.filter
      BY <1>2, <1>4
    <3> QED BY <3>1, <3>2, <3>3 DEF ComponentOf
  <2>2. ASSUME NEW y \in ComponentOf(input, x)
        PROVE  y \in A
    <3>1. y \in input.filter /\ Leads(input, x, y) /\ Leads(input, y, x)
      BY DEF ComponentOf
    <3>2. y \in A \cup Emitted
      BY <1>8, <1>9, <3>1, LeadsWithin
    <3>3. y \notin Emitted
      <4> SUFFICES ASSUME y \in Emitted PROVE FALSE
        OBVIOUS
      <4>1. x \in Emitted
        BY <1>7, <1>8, <3>1, LeadsWithin
      <4> QED BY <1>4, <1>5, <4>1
    <3> QED BY <3>2, <3>3
  <2> QED BY <2>1, <2>2
<1> QED BY <1>4, <1>6, <1>12 DEF A

\* The component that is emitted joins the others.
LEMMA EmittedFromGives ==
  ASSUME SearchInv, SearchTypes', NEW u, EmittedFrom(u)
  PROVE  EmittedInv' /\ Emitted' = Emitted \cup Above(u)
<1> DEFINE A == Above(u)
           l == Len(components)
<1>1. /\ SearchTypes /\ StackInv /\ EmittedInv
  BY DEF SearchInv
<1>2. /\ u \in A /\ A \subseteq on_stack
      /\ \A x \in A : A = ComponentOf(input, x)
      /\ \A x \in A, y \in input.filter : EdgeIn(input, x, y) => y \in A \cup Emitted
  BY AboveIsComponent DEF EmittedFrom
<1>3. /\ Len(components') = l + 1 /\ \A k \in 1 .. l : components'[k] = components[k]
      /\ \A k : k = l + 1 => components'[k] = A
      /\ input' = input
  BY DEF EmittedFrom, Left
<1>4. on_stack \cap Emitted = {} /\ on_stack \subseteq input.filter
  BY <1>1 DEF StackInv, SearchTypes
<1>5. l \in Nat
  BY <1>1 DEF SearchTypes
<1> HIDE DEF A, l
<1>6. 1 .. l + 1 = (1 .. l) \cup {l + 1}
  BY <1>5
<1>7. Emitted' = Emitted \cup A
  <2>1. ASSUME NEW x \in Emitted'
        PROVE  x \in Emitted \cup A
    <3>1. PICK k \in 1 .. l + 1 : x \in components'[k]
      BY <1>3 DEF Emitted
    <3>2. x \in input.filter
      BY <1>3 DEF Emitted
    <3>3. CASE k \in 1 .. l
      BY <1>3, <3>1, <3>2, <3>3 DEF Emitted, l
    <3>4. CASE k = l + 1
      BY <1>3, <3>1, <3>4
    <3> QED BY <1>6, <3>3, <3>4
  <2>2. ASSUME NEW x \in Emitted
        PROVE  x \in Emitted'
    <3>1. PICK k \in 1 .. l : x \in components[k]
      BY DEF Emitted, l
    <3>2. x \in input.filter
      BY DEF Emitted
    <3>3. k \in 1 .. Len(components') /\ x \in components'[k]
      BY <1>3, <1>6, <3>1
    <3> QED BY <1>3, <3>2, <3>3 DEF Emitted
  <2>3. ASSUME NEW x \in A
        PROVE  x \in Emitted'
    <3>1. PICK k : k = l + 1
      OBVIOUS
    <3>2. k \in 1 .. Len(components') /\ x \in components'[k]
      BY <1>3, <1>6, <3>1
    <3>3. x \in input.filter
      BY <1>2, <1>4
    <3> QED BY <1>3, <3>2, <3>3 DEF Emitted
  <2> QED BY <2>1, <2>2, <2>3
<1>8. ASSUME NEW i \in 1 .. l
      PROVE  /\ \A x \in components'[i] : components'[i] = ComponentOf(input', x)
             /\ \A k \in 1 .. i - 1 : components'[k] # components'[i]
             /\ \A x \in components'[i], y \in input'.filter :
                  EdgeIn(input', x, y) => \E k \in 1 .. i : y \in components'[k]
  <2>1. /\ \A x \in components[i] : components[i] = ComponentOf(input, x)
        /\ \A k \in 1 .. i - 1 : components[k] # components[i]
        /\ \A x \in components[i], y \in input.filter :
             EdgeIn(input, x, y) => \E k \in 1 .. i : y \in components[k]
    BY <1>1 DEF EmittedInv, l
  <2>2. \A k \in 1 .. i : components'[k] = components[k]
    BY <1>3, <1>5
  <2>3. components'[i] = components[i] /\ \A k \in 1 .. i - 1 : components'[k] = components[k]
    BY <1>5, <2>2
  <2> QED BY <1>3, <2>1, <2>2, <2>3
<1>9. ASSUME NEW i, i = l + 1
      PROVE  /\ \A x \in components'[i] : components'[i] = ComponentOf(input', x)
             /\ \A k \in 1 .. i - 1 : components'[k] # components'[i]
             /\ \A x \in components'[i], y \in input'.filter :
                  EdgeIn(input', x, y) => \E k \in 1 .. i : y \in components'[k]
  <2>1. components'[i] = A /\ 1 .. i - 1 = 1 .. l /\ i \in 1 .. i /\ \A k \in 1 .. l : k \in 1 .. i
    BY <1>3, <1>5, <1>9
  <2>2. ASSUME NEW k \in 1 .. l
        PROVE  components[k] # A
    <3> SUFFICES ASSUME components[k] = A PROVE FALSE
      OBVIOUS
    <3>1. u \in Emitted
      BY <1>2, <1>4 DEF Emitted, l
    <3> QED BY <1>2, <1>4, <3>1
  <2>3. ASSUME NEW x \in A, NEW y \in input.filter, EdgeIn(input, x, y)
        PROVE  \E k \in 1 .. i : y \in components'[k]
    <3>1. CASE y \in A
      BY <2>1, <3>1
    <3>2. CASE y \in Emitted
      <4>1. PICK k \in 1 .. l : y \in components[k]
        BY <3>2 DEF Emitted, l
      <4> QED BY <1>3, <2>1, <4>1
    <3> QED BY <1>2, <2>3, <3>1, <3>2
  <2> QED BY <1>2, <1>3, <2>1, <2>2, <2>3
<1>10. \A i \in 1 .. Len(components') : i \in 1 .. l \/ i = l + 1
  BY <1>3, <1>6
<1>11. EmittedInv'
  BY <1>8, <1>9, <1>10 DEF EmittedInv
<1> QED BY <1>7, <1>11 DEF A

\* Leaving a frame whose component is emitted keeps the invariant.
LEMMA EmittedFromKeeps ==
  ASSUME SearchInv, SearchTypes', NEW u, EmittedFrom(u)
  PROVE  SearchInv'
<1>1. /\ SearchTypes /\ StackInv /\ FramesInv /\ WaysInv /\ LowInv
  BY DEF SearchInv
<1>2. Left(u) /\ low[u] = index[u] /\ on_stack' = on_stack \ Above(u)
  BY DEF EmittedFrom
<1>3. /\ on_stack \subseteq Visited /\ Visited \subseteq input.filter
      /\ \A x \in Visited : index[x] \in Nat /\ low[x] \in Nat
      /\ \A x \in on_stack : low[x] <= index[x]
      /\ \A k \in Frames : FrameVertex(k) \in on_stack /\ FrameIndex(k) \in Nat
      /\ Len(dfs) \in Nat
  BY SearchFacts
<1>4. /\ u \in on_stack /\ Len(dfs) \in Frames
      /\ u = FrameVertex(Len(dfs)) /\ FrameIndex(Len(dfs)) = index[u]
      /\ \A k \in Frames : k # Len(dfs) => k < Len(dfs) /\ FrameIndex(k) < index[u]
      /\ \A k : k \in Frames' <=> k \in Frames /\ k < Len(dfs)
      /\ \A k \in Frames' : FrameVertex(k)' = FrameVertex(k) /\ FrameIndex(k)' = FrameIndex(k)
      /\ input' = input /\ index' = index /\ Visited' = Visited
      /\ NeighborsInv' /\ IndicesInv'
      /\ \A x, y \in Frames' : x < y => FrameIndex(x)' < FrameIndex(y)'
  BY <1>2, LeftFacts
<1>5. EmittedInv' /\ Emitted' = Emitted \cup Above(u)
  BY EmittedFromGives
<1>6. \A x \in Visited : x \in on_stack' <=> x \in on_stack /\ index[x] < index[u]
  BY <1>2, <1>3, <1>4 DEF Above
<1>7. on_stack' \subseteq on_stack /\ \A x \in on_stack' : x \in Visited /\ index[x] < index[u]
  BY <1>2, <1>3, <1>6
<1>8. \A k \in Frames' : k \in Frames /\ k < Len(dfs) /\ FrameIndex(k) < index[u]
                         /\ FrameVertex(k) \in on_stack'
  BY <1>3, <1>4, <1>6 DEF FrameIndex
<1>9. StackInv'
  <2>1. /\ Len(st) \in Nat /\ Len(st') \in 0 .. Len(st)
        /\ \A i \in 1 .. Len(st') : st'[i] = st[i]
        /\ on_stack' = {st'[i] : i \in 1 .. Len(st')}
    <3>1. st \in Seq(input.filter)
      BY <1>1 DEF SearchTypes
    <3>2. Len(st) \in Nat
      BY <3>1
    <3> QED BY <3>2 DEF EmittedFrom
  <2>2. \A i, k \in 1 .. Len(st') : i < k => index'[st'[i]] < index'[st'[k]]
    <3> SUFFICES ASSUME NEW i \in 1 .. Len(st'), NEW k \in 1 .. Len(st'), i < k
                 PROVE  index'[st'[i]] < index'[st'[k]]
      OBVIOUS
    <3>1. i \in 1 .. Len(st) /\ k \in 1 .. Len(st)
      BY <2>1
    <3>2. index[st[i]] < index[st[k]]
      BY <1>1, <3>1 DEF StackInv
    <3> QED BY <1>4, <2>1, <3>2
  <2>3. Visited = on_stack \cup Emitted /\ on_stack \cap Emitted = {}
    BY <1>1 DEF StackInv
  <2>4. Above(u) \subseteq on_stack
    BY DEF Above
  <2>5. Visited' = on_stack' \cup Emitted' /\ on_stack' \cap Emitted' = {}
    BY <1>2, <1>4, <1>5, <2>3, <2>4
  <2> QED BY <2>1, <2>2, <2>5 DEF StackInv
<1>10. FramesInv'
  BY <1>4, <1>8 DEF FramesInv
<1>11. WaysInv'
  <2>1. \A x, y \in on_stack' : index'[x] <= index'[y] => Leads(input', x, y)
    BY <1>1, <1>4, <1>7 DEF WaysInv
  <2>2. ASSUME NEW y \in on_stack'
        PROVE  \E k \in Frames' : FrameIndex(k)' <= index'[y] /\ Leads(input', y, FrameVertex(k)')
    <3>1. PICK k \in Frames : FrameIndex(k) <= index[y] /\ Leads(input, y, FrameVertex(k))
      BY <1>1, <1>7 DEF WaysInv
    <3>2. index[y] < index[u] /\ index[y] \in Nat /\ index[u] \in Nat
      BY <1>3, <1>4, <1>7
    <3>3. k # Len(dfs)
      BY <1>4, <3>1, <3>2
    <3> QED BY <1>4, <3>1, <3>3
  <2> QED BY <2>1, <2>2 DEF WaysInv
<1>12. \A x \in on_stack : low'[x] = low[x]
  <2> SUFFICES ASSUME NEW x \in on_stack
               PROVE  low'[x] = low[x]
    OBVIOUS
  <2>1. x \in input.filter /\ low[x] \in Nat /\ index[x] \in Nat /\ low[x] <= index[x]
    BY <1>3
  <2>2. Len(dfs) > 1 /\ x = FrameVertex(Len(dfs) - 1) => ~ (low[u] < low[x])
    <3> SUFFICES ASSUME Len(dfs) > 1, x = FrameVertex(Len(dfs) - 1)
                 PROVE  ~ (low[u] < low[x])
      OBVIOUS
    <3>1. Len(dfs) - 1 \in Frames /\ Len(dfs) - 1 # Len(dfs)
      BY <1>3 DEF Frames
    <3>2. index[x] < index[u]
      BY <1>4, <3>1 DEF FrameIndex
    <3>3. index[u] \in Nat
      BY <1>3, <1>4
    <3> QED BY <1>2, <2>1, <3>2, <3>3
  <2>3. low'[x] = IF Len(dfs) > 1 /\ x = FrameVertex(Len(dfs) - 1) /\ low[u] < low[x]
                  THEN low[u] ELSE low[x]
    BY <1>2, <2>1 DEF Left
  <2> QED BY <2>2, <2>3
<1>13. ASSUME NEW x \in on_stack'
       PROVE  \E w \in on_stack' :
                low'[x] = index'[w] /\ index'[w] <= index'[x] /\ Leads(input', x, w)
  <2>1. PICK w \in on_stack : low[x] = index[w] /\ index[w] <= index[x] /\ Leads(input, x, w)
    BY <1>1, <1>7 DEF LowInv
  <2>2. index[w] < index[u]
    BY <1>3, <1>4, <1>7, <2>1
  <2>3. w \in on_stack'
    BY <1>3, <1>6, <2>2
  <2> QED BY <1>4, <1>7, <1>12, <2>1, <2>3
<1>14. ASSUME NEW k, NEW y, NEW m, Under(k, y)', Explored(y, m)', Neighbor(y, m)' \in on_stack'
       PROVE  low'[FrameVertex(k)'] <= index'[Neighbor(y, m)']
  <2>1. PICK x, w : x = FrameVertex(k) /\ w = Neighbor(y, m)
    OBVIOUS
  <2>2. Neighbor(y, m)' = w /\ w \in on_stack
    BY <1>4, <1>7, <1>14, <2>1 DEF Neighbor
  <2>3. Explored(y, m)
    BY <1>1, <1>2, <1>14, ExploredLeft
  <2>4. /\ k \in Frames' /\ k \in Frames /\ k < Len(dfs) /\ y \in on_stack /\ y \in on_stack'
        /\ FrameIndex(k) <= index[y] /\ FrameVertex(k)' = x /\ x \in on_stack
    BY <1>4, <1>7, <1>8, <1>14, <2>1 DEF Under
  <2>5. index[y] < FrameIndex(k + 1)
    <3>1. CASE k = Len(dfs) - 1
      <4>1. k + 1 = Len(dfs)
        BY <1>3, <3>1
      <4> QED BY <1>4, <1>7, <2>4, <4>1
    <3>2. CASE k # Len(dfs) - 1
      <4>1. k + 1 \in Frames /\ k + 1 < Len(dfs) /\ k < Len(dfs')
        BY <1>2, <1>3, <2>4, <3>2 DEF Left, Frames
      <4>2. index'[y] < FrameIndex(k + 1)'
        BY <1>14, <4>1 DEF Under
      <4>3. FrameIndex(k + 1)' = FrameIndex(k + 1)
        BY <1>4, <4>1
      <4> QED BY <1>4, <4>2, <4>3
    <3> QED BY <3>1, <3>2
  <2>6. Under(k, y)
    BY <2>4, <2>5 DEF Under
  <2>7. low[x] <= index[w]
    BY <1>1, <2>1, <2>2, <2>3, <2>6 DEF LowInv
  <2> QED BY <1>4, <1>12, <2>2, <2>4, <2>7
<1>15. LowInv'
  BY <1>13, <1>14 DEF LowInv
<1> QED BY <1>4, <1>5, <1>9, <1>10, <1>11, <1>15 DEF SearchInv
-----------------------------------------------------------------------------
(* The whole search                                                        *)

\* Where only local_root moves, the rest of the invariant stays.
LEMMA SearchUnchanged ==
  ASSUME SearchInv, UNCHANGED <<input, index, low, on_stack, st, dfs, components>>
  PROVE  /\ Visited' = Visited
         /\ StackInv' /\ FramesInv' /\ NeighborsInv' /\ WaysInv' /\ LowInv' /\ EmittedInv'
<1>1. StackInv /\ FramesInv /\ NeighborsInv /\ WaysInv /\ LowInv /\ EmittedInv
  BY DEF SearchInv
<1>2. /\ input' = input /\ index' = index /\ low' = low /\ on_stack' = on_stack
      /\ st' = st /\ dfs' = dfs /\ components' = components
  OBVIOUS
<1>3. Visited' = Visited /\ Emitted' = Emitted /\ Frames' = Frames
  BY <1>2 DEF Visited, Emitted, Frames
<1>4. StackInv' /\ FramesInv' /\ EmittedInv'
  BY <1>1, <1>2, <1>3, EmittedStays DEF StackInv, FramesInv, FrameVertex, FrameIndex
<1>5. \A k : FrameVertex(k)' = FrameVertex(k) /\ FrameNext(k)' = FrameNext(k)
             /\ FrameIndex(k)' = FrameIndex(k)
  BY <1>2 DEF FrameVertex, FrameNext, FrameIndex
<1>6. \A x, m : /\ Explored(x, m)' <=> Explored(x, m)
                /\ Neighbor(x, m)' = Neighbor(x, m)
  BY <1>2, <1>3, <1>5 DEF Explored, Neighbor
<1>7. \A k, y : Under(k, y)' <=> Under(k, y)
  BY <1>2, <1>3 DEF Under, FrameIndex, FrameVertex
<1>8. NeighborsInv' /\ WaysInv' /\ LowInv'
  BY <1>1, <1>2, <1>3, <1>5, <1>6, <1>7 DEF NeighborsInv, WaysInv, LowInv
<1> QED BY <1>3, <1>4, <1>8

\* Passing over a root keeps the invariant.
LEMMA SkipRootKeeps ==
  ASSUME SearchInv, Tarjans!SkipRoot
  PROVE  SearchInv'
<1>1. SearchTypes /\ IndicesInv
  BY DEF SearchInv
<1>2. /\ local_root < input.n /\ local_root' = local_root + 1
      /\ local_root \notin input.filter \/ index[local_root] # input.n
      /\ UNCHANGED <<input, index, low, on_stack, st, dfs, components>>
  BY DEF Tarjans!SkipRoot, Tarjans!index_undecided, Tarjans!n
<1>3. input.n \in Nat /\ local_root \in 0 .. input.n /\ input.filter \subseteq 0 .. input.n - 1
  BY <1>1, FrameFacts DEF SearchTypes
<1>4. SearchTypes'
  <2>1. local_root' \in 0 .. input.n
    BY <1>2, <1>3
  <2> QED BY <1>1, <1>2, <2>1 DEF SearchTypes
<1>5. /\ Visited' = Visited
      /\ StackInv' /\ FramesInv' /\ NeighborsInv' /\ WaysInv' /\ LowInv' /\ EmittedInv'
  BY <1>2, SearchUnchanged
<1>6. IndicesInv'
  <2>1. ASSUME NEW v \in input.filter, v < local_root'
        PROVE  v \in Visited
    <3>1. v < local_root \/ v = local_root
      BY <1>2, <1>3, <2>1
    <3>2. v < local_root => v \in Visited
      BY <1>1 DEF IndicesInv
    <3>3. v = local_root => v \in Visited
      BY <1>1, <1>2, FrameFacts
    <3> QED BY <3>1, <3>2, <3>3
  <2> QED BY <1>1, <1>2, <1>5, <2>1 DEF IndicesInv
<1> QED BY <1>4, <1>5, <1>6 DEF SearchInv

\* Nothing has been visited at the beginning.
LEMMA SearchInitial ==
  ASSUME Tarjans!Init
  PROVE  SearchInv
<1>1. /\ input \in Inputs /\ local_root = 0 /\ on_stack = {} /\ st = <<>> /\ dfs = <<>>
      /\ components = <<>>
      /\ index = [u \in 0 .. input.n - 1 |-> input.n] /\ low = [u \in 0 .. input.n - 1 |-> 0]
  BY DEF Tarjans!Init, Tarjans!n, Tarjans!index_undecided
<1>2. input.n \in Nat /\ input.filter \subseteq 0 .. input.n - 1
  BY <1>1, InputFacts
<1>3. Visited = {}
  BY <1>1 DEF Visited
<1>4. Emitted = {} /\ Frames = {} /\ Len(st) = 0 /\ Len(components) = 0
  BY <1>1 DEF Emitted, Frames
<1>5. SearchTypes
  <2>1. /\ index \in [0 .. input.n - 1 -> 0 .. input.n]
        /\ low \in [0 .. input.n - 1 -> 0 .. input.n - 1]
    BY <1>1, <1>2
  <2>2. st \in Seq(input.filter) /\ components \in Seq(SUBSET input.filter)
        /\ dfs \in Seq(input.filter \X (Nat \ {0}))
    BY <1>1
  <2>3. local_root \in 0 .. input.n
    BY <1>1, <1>2
  <2> QED BY <1>1, <2>1, <2>2, <2>3 DEF SearchTypes
<1>6. IndicesInv
  <2>1. \A v \in input.filter : ~ (v < local_root)
    BY <1>1, <1>2
  <2> QED BY <1>3, <2>1 DEF IndicesInv
<1>7. StackInv
  BY <1>1, <1>3, <1>4 DEF StackInv
<1>8. FramesInv /\ NeighborsInv /\ WaysInv
  BY <1>1, <1>3, <1>4 DEF FramesInv, NeighborsInv, WaysInv, Explored
<1>9. LowInv /\ EmittedInv
  BY <1>1, <1>4 DEF LowInv, EmittedInv, Under
<1> QED BY <1>5, <1>6, <1>7, <1>8, <1>9 DEF SearchInv

\* Every step of the search keeps the invariant.
LEMMA SearchKeeps ==
  ASSUME SearchInv, [Tarjans!Next]_tarjanVars
  PROVE  SearchInv'
<1>1. SearchTypes /\ IndicesInv /\ StackInv /\ FramesInv
  BY DEF SearchInv
<1>2. CASE Tarjans!SkipRoot
  BY <1>2, SkipRootKeeps
<1>3. CASE Tarjans!EnterRoot \/ Tarjans!EnterNeighbor
  BY <1>1, <1>3, EnterSteps, EnteredKeeps
<1>4. CASE Tarjans!LowerNeighbor \/ Tarjans!PassNeighbor
  BY <1>1, <1>4, PassSteps, PassedKeeps
<1>5. CASE Tarjans!Leave
  BY <1>1, <1>5, LeaveStep, EmittedFromKeeps, KeptOnKeeps
<1>6. CASE UNCHANGED tarjanVars
  <2>1. /\ UNCHANGED <<input, index, low, on_stack, st, dfs, components>>
        /\ local_root' = local_root
    BY <1>6 DEF tarjanVars
  <2>2. /\ Visited' = Visited
        /\ StackInv' /\ FramesInv' /\ NeighborsInv' /\ WaysInv' /\ LowInv' /\ EmittedInv'
    BY <2>1, SearchUnchanged
  <2>3. SearchTypes' /\ IndicesInv'
    BY <1>1, <2>1, <2>2 DEF SearchTypes, IndicesInv
  <2> QED BY <2>2, <2>3 DEF SearchInv
<1>7. Tarjans!Returned => UNCHANGED tarjanVars
  BY DEF Tarjans!Returned, Tarjans!vars, tarjanVars
<1> QED BY <1>2, <1>3, <1>4, <1>5, <1>6, <1>7 DEF Tarjans!Next

\* A sequence of different elements of a finite set is not longer than it is large.
LEMMA LengthBound ==
  ASSUME NEW S, IsFiniteSet(S), NEW l \in Nat, NEW f \in [1 .. l -> S],
         \A i, k \in 1 .. l : f[i] = f[k] => i = k
  PROVE  l <= Cardinality(S)
<1>1. f \in Injection(1 .. l, S)
  BY DEF Injection, IsInjective
<1>2. Cardinality(1 .. l) <= Cardinality(S)
  BY <1>1, FS_Injection
<1>3. Cardinality(1 .. l) = l
  <2>1. 1 \in Int /\ l \in Int
    OBVIOUS
  <2>2. Cardinality(1 .. l) = IF 1 > l THEN 0 ELSE l - 1 + 1
    BY <2>1, FS_Interval
  <2> QED BY <2>2
<1> QED BY <1>2, <1>3

\* The stacks have room for what is pushed.
LEMMA SearchFits ==
  ASSUME SearchInv
  PROVE  Tarjans!StacksFit
<1>1. SearchTypes /\ StackInv /\ FramesInv
  BY DEF SearchInv
<1>2. IsFiniteSet(input.filter) /\ Cardinality(input.filter) \in Nat /\ input.n \in Nat
  BY <1>1, InputFacts DEF SearchTypes
<1>3. Tarjans!undecided_count = Cardinality(input.filter)
  <2>1. Tarjans!undecided_count = input.n - (input.n - Cardinality(input.filter))
    BY DEF Tarjans!undecided_count, Tarjans!decided_count, Tarjans!n, Cardinality,
           Tarjans!Cardinality
  <2> QED BY <1>2, <2>1
<1>4. /\ st \in Seq(input.filter) /\ Len(st) \in Nat /\ st \in [1 .. Len(st) -> input.filter]
      /\ DOMAIN st = 1 .. Len(st)
  BY <1>1 DEF SearchTypes
<1>5. \A i \in 1 .. Len(st) : index[st[i]] \in Int
  BY <1>1, <1>4, FrameFacts
<1>6. ASSUME NEW i \in 1 .. Len(st), NEW k \in 1 .. Len(st), st[i] = st[k]
      PROVE  i = k
  <2>1. ~ (i < k)
    <3>1. i < k => index[st[i]] < index[st[k]]
      BY <1>1 DEF StackInv
    <3> QED BY <1>5, <1>6, <3>1
  <2>2. ~ (k < i)
    <3>1. k < i => index[st[k]] < index[st[i]]
      BY <1>1 DEF StackInv
    <3> QED BY <1>5, <1>6, <3>1
  <2> QED BY <1>4, <2>1, <2>2
<1>7. Len(st) <= Cardinality(input.filter)
  BY <1>2, <1>4, <1>6, LengthBound
<1>8. Len(dfs) <= Cardinality(input.filter)
  <2> DEFINE f == [k \in 1 .. Len(dfs) |-> FrameVertex(k)]
  <2>1. /\ Len(dfs) \in Nat
        /\ \A k \in 1 .. Len(dfs) : FrameVertex(k) \in input.filter
    BY <1>1, FrameFacts DEF Frames
  <2>2. f \in [1 .. Len(dfs) -> input.filter] /\ \A k \in 1 .. Len(dfs) : f[k] = FrameVertex(k)
    BY <2>1
  <2>3. ASSUME NEW i \in 1 .. Len(dfs), NEW k \in 1 .. Len(dfs), f[i] = f[k]
        PROVE  i = k
    <3>1. FrameIndex(i) = FrameIndex(k) /\ FrameIndex(i) \in Int
      BY <1>1, <2>1, <2>2, <2>3, FrameFacts DEF FrameIndex
    <3>2. i < k => FrameIndex(i) < FrameIndex(k)
      BY <1>1 DEF FramesInv, Frames
    <3>3. k < i => FrameIndex(k) < FrameIndex(i)
      BY <1>1 DEF FramesInv, Frames
    <3> QED BY <2>1, <3>1, <3>2, <3>3
  <2> HIDE DEF f
  <2> QED BY <1>2, <2>1, <2>2, <2>3, LengthBound
<1>9. Tarjans!IsInjective(st)
  BY <1>4, <1>6 DEF Tarjans!IsInjective
<1>10. on_stack = Tarjans!ToSet(st)
  BY <1>1, <1>4 DEF StackInv, Tarjans!ToSet
<1> QED BY <1>3, <1>7, <1>8, <1>9, <1>10 DEF Tarjans!StacksFit

\* The invariant is what Tarjan's algorithm promises.
LEMMA SearchIsRight ==
  ASSUME SearchInv
  PROVE  Tarjans!TarjanInv
<1>1. SearchTypes /\ IndicesInv /\ StackInv /\ WaysInv /\ EmittedInv
  BY DEF SearchInv
<1>2. /\ input.n \in Nat /\ input.filter \subseteq 0 .. input.n - 1
      /\ components \in Seq(SUBSET input.filter) /\ Len(components) \in Nat
      /\ \A i \in 1 .. Len(components) : components[i] \subseteq input.filter
  BY <1>1, FrameFacts DEF SearchTypes
<1>3. Tarjans!TypeOK
  BY <1>1 DEF SearchTypes, Tarjans!TypeOK, Tarjans!n
<1>4. Tarjans!ComponentsAreRight
  <2> DEFINE G == Tarjans!Edges
  <2>1. \A x, y \in input.filter : <<x, y>> \in G <=> EdgeIn(input, x, y)
    BY DEF Tarjans!Edges, EdgeIn, Tarjans!Contains, Tarjans!csr_range
  <2>2. \A u \in input.filter : Tarjans!Sets!SCC(G, u) = ComponentOf(input, u)
    BY ComponentIsScc
  <2> HIDE DEF G
  <2>3. ASSUME NEW i \in 1 .. Len(components)
        PROVE  /\ \A u \in components[i] : components[i] = Tarjans!Sets!SCC(G, u)
               /\ \A k \in 1 .. i - 1 : components[k] # components[i]
               /\ \A u \in components[i], v \in input.filter :
                    <<u, v>> \in G => \E k \in 1 .. i : v \in components[k]
    BY <1>1, <1>2, <2>1, <2>2, <2>3 DEF EmittedInv
  <2> QED BY <2>3 DEF Tarjans!ComponentsAreRight, G
<1>5. Tarjans!AllEmitted
  <2> SUFFICES ASSUME dfs = <<>>, local_root = input.n
               PROVE  UNION Tarjans!ToSet(components) = input.filter
    BY DEF Tarjans!AllEmitted, Tarjans!n
  <2>1. Frames = {}
    BY DEF Frames
  <2>2. on_stack = {}
    BY <1>1, <2>1 DEF WaysInv
  <2>3. \A v \in input.filter : v \in Emitted
    <3>1. \A v \in input.filter : v < local_root
      BY <1>2
    <3> QED BY <1>1, <2>2, <3>1 DEF IndicesInv, StackInv
  <2>4. Tarjans!ToSet(components) = {components[i] : i \in 1 .. Len(components)}
    BY <1>2 DEF Tarjans!ToSet
  <2> QED BY <1>2, <2>3, <2>4 DEF Emitted
<1> QED BY <1>3, <1>4, <1>5, SearchFits DEF Tarjans!TarjanInv

\* What tarjan emits are the components of the graph between the vertices
\* wanted, whole, once, and after those they lead to, none is left out at the
\* end, and the stacks never hold more than the vertices wanted: for every
\* graph and every filter (tarjan.hpp).
THEOREM TarjanIsRight == PiecesSpec => []TarjanInv
<1>1. PiecesInit => SearchInv
  BY SearchInitial DEF PiecesInit
<1>2. SearchInv /\ [PiecesNext]_piecesVars => SearchInv'
  <2>1. [PiecesNext]_piecesVars => [Tarjans!Next]_tarjanVars
    BY DEF PiecesNext, piecesVars, TarjanStep, tarjanVars
  <2> QED BY <2>1, SearchKeeps
<1>3. SearchInv => TarjanInv
  BY SearchIsRight DEF TarjanInv
<1> QED BY <1>1, <1>2, <1>3, PTL DEF PiecesSpec
-----------------------------------------------------------------------------
(* SortedOwner: the owner found is right, for every type of vertex, every  *)
(* number of ranks and every sorted partition.                             *)

(***************************************************************************)
(* Wrapping can only make the guess smaller, so it names a rank: the first *)
(* part[r - 1] is read within the array.                                   *)
(***************************************************************************)
LEMMA DivBound ==
  ASSUME NEW x \in Nat, NEW n \in Nat \ {0}, NEW w \in Nat, x < n * w
  PROVE  x \div n \in 0 .. w - 1
PROOF
<1> DEFINE q == x \div n
<1>1. q \in Nat /\ n * q <= x
  OBVIOUS
<1>2. n * q < n * w
  BY <1>1
<1>3. q < w
  BY <1>1, <1>2
<1> QED
  BY <1>1, <1>3

\* The rank that find_owner of a sorted partition guesses first,
\* j * world_size / n, is a rank: the probe never leaves the bounds.
LEMMA GuessIsARank ==
  ASSUME NEW c \in Calls
  PROVE  guess(c) \in 0 .. c.ws - 1
PROOF
<1>1. /\ c.ws \in Nat \ {0} /\ c.n \in Nat \ {0} /\ c.j \in Nat /\ c.j < c.n
      /\ Size \in Nat \ {0}
  BY CallsAssumption, SizeAssumption
<1> DEFINE x == c.j * c.ws
<1>2. x \in Nat /\ x < c.n * c.ws
  BY <1>1
<1>3. x % Size \in Nat /\ x % Size <= x
  BY <1>1, <1>2
<1>4. x % Size < c.n * c.ws
  BY <1>1, <1>2, <1>3
<1>5. (x % Size) \div c.n \in 0 .. c.ws - 1
  BY <1>1, <1>3, <1>4, DivBound
<1> QED
  BY <1>5 DEF guess, Wrap

\* What CallsAssumption says of one call.
LEMMA CallFacts ==
  ASSUME NEW c \in Calls
  PROVE  /\ c.ws \in Nat \ {0} /\ c.n \in Nat
         /\ c.part \in [0 .. c.ws - 1 -> 0 .. c.n]
         /\ c.j \in 0 .. c.n - 1
         /\ c.part[c.ws - 1] = c.n
PROOF
  BY CallsAssumption DEF Sorted

\* The invariant holds of the guess, and every correction keeps it.
LEMMA GuessInvariant == Spec => []GuessInv
PROOF
<1>1. Init => GuessInv
  BY GuessIsARank DEF Init, GuessInv
<1>2. GuessInv /\ [Next]_vars => GuessInv'
  <2> SUFFICES ASSUME GuessInv, [Next]_vars
               PROVE  GuessInv'
    OBVIOUS
  <2>1. /\ call.ws \in Nat \ {0} /\ call.n \in Nat
        /\ part \in [0 .. call.ws - 1 -> 0 .. call.n]
        /\ j \in 0 .. call.n - 1
    BY CallFacts DEF GuessInv, part, j
  <2>2. CASE Down
    <3>1. call' = call /\ part' = part /\ j' = j
      BY <2>2 DEF Down, part, j
    <3>2. r' \in 0 .. call.ws - 1 /\ j < part[r']
      BY <2>1, <2>2 DEF Down, Before, GuessInv
    <3> QED
      BY <2>2, <3>1, <3>2 DEF Down, GuessInv
  <2>3. CASE Up
    <3>1. call' = call /\ part' = part /\ j' = j
      BY <2>3 DEF Up, part, j
    <3>2. r' \in 0 .. call.ws - 1 /\ part[r' - 1] <= j
      BY <2>1, <2>3 DEF Up, Behind, GuessInv
    <3> QED
      BY <2>3, <3>1, <3>2 DEF Up, GuessInv
  <2>4. CASE Return
    BY <2>4 DEF Return, GuessInv, part, j
  <2>5. CASE Returned
    BY <2>5 DEF Returned, GuessInv, vars, part, j
  <2>6. CASE UNCHANGED vars
    BY <2>6 DEF GuessInv, vars, part, j
  <2> QED
    BY <2>2, <2>3, <2>4, <2>5, <2>6 DEF Next
<1> QED
  BY <1>1, <1>2, PTL DEF Spec

(***************************************************************************)
(* world_rank_of returns the owner: the other end of the slice is known    *)
(* from the way the rank was reached, and the last slice ends with n.      *)
(***************************************************************************)
THEOREM OwnerIsRight == Spec => []OwnerInv
PROOF
<1>1. Init => OwnerFound
  BY DEF Init, OwnerFound
<1>2. GuessInv /\ OwnerFound /\ [Next]_vars => OwnerFound'
  <2> SUFFICES ASSUME GuessInv, OwnerFound, [Next]_vars, pc' = "done"
               PROVE  Owns(call, r, j)'
    BY DEF OwnerFound
  <2>1. /\ call.ws \in Nat \ {0} /\ call.n \in Nat
        /\ part \in [0 .. call.ws - 1 -> 0 .. call.n]
        /\ j \in 0 .. call.n - 1
        /\ part[call.ws - 1] = call.n
    BY CallFacts DEF GuessInv, part, j
  <2>2. CASE pc = "done"
    <3>1. UNCHANGED vars
      BY <2>2 DEF Next, Down, Up, Return, Returned
    <3> QED
      BY <2>2, <3>1 DEF OwnerFound, Owns, vars, part, j
  <2>3. CASE pc # "done"
    <3>1. Return
      BY <2>3 DEF Next, Down, Up, Returned, vars
    <3>2. r = 0 \/ part[r - 1] <= j
      BY <2>1, <3>1 DEF Return, Before, GuessInv
    <3>3. j < part[r]
      <4>1. CASE pc = "down"
        BY <4>1 DEF GuessInv
      <4>2. CASE ~Behind
        <5>1. r = call.ws - 1 \/ r < call.ws - 1
          BY <2>1 DEF GuessInv
        <5> QED
          BY <2>1, <4>2, <5>1 DEF Behind, GuessInv
      <4> QED
        BY <3>1, <4>1, <4>2 DEF Return
    <3>4. UNCHANGED <<call, r>>
      BY <3>1 DEF Return
    <3> QED
      BY <3>2, <3>3, <3>4 DEF Owns, part, j
  <2> QED
    BY <2>2, <2>3
<1>3. GuessInv /\ OwnerFound <=> OwnerInv
  BY DEF OwnerInv
<1> QED
  BY <1>1, <1>2, <1>3, GuessInvariant, PTL DEF Spec
=============================================================================
