---------------------------- MODULE FrontierProofs ----------------------------
(***************************************************************************)
(* Proofs about Frontier, for every number of ranks, messages and phases.  *)
(* ExchangeInv is inductive.  Its core is that the ranks' calls are in     *)
(* step: no rank is more than one collective ahead of another, the one     *)
(* ahead says where the other is, and the last arguments a rank has passed *)
(* are those of its buffers.  So when the last rank joins an alltoallv the *)
(* slices that lie ready for a rank are exactly what was pushed for it.    *)
(***************************************************************************)
EXTENDS Frontier, FiniteSetTheorems, WellFoundedInduction, TLAPS
-----------------------------------------------------------------------------
(* The inductive invariant                                                 *)

InComm == {"reduce", "counts", "data"}

Calls(r) == Len(posted[r])

\* What the ranks' k-th arguments add up to, if that call is an allreduce.
SumOf(calls, k) == Summed([q \in Ranks |-> calls[q][k].arg])

CallSet == [op : {"allreduce"}, arg : Nat]
           \cup [op : {"alltoall"}, arg : [Ranks -> Nat]]
           \cup [op : {"alltoallv"}, arg : [Ranks -> Seq(Msgs)]]

StateOK ==
  /\ TypeOK
  /\ posted \in [Ranks -> Seq(CallSet)]
  /\ send_buffer \in [Ranks -> Seq(Msgs)] /\ recv_buffer \in [Ranks -> Seq(Msgs)]
  /\ \A r \in Ranks : pc[r] = "returned" <=> phase[r] = MaxPhases

(***************************************************************************)
(* No rank is more than one call ahead of another, and a rank that has     *)
(* left its last call is not behind in anything.                           *)
(***************************************************************************)
InStep ==
  /\ \A r, q \in Ranks : Calls(q) <= Calls(r) + 1
  /\ \A r \in Ranks : pc[r] \notin InComm => Matched(r)

\* A rank one call ahead says where the other one is.
Ahead ==
  \A r, q \in Ranks : Calls(q) = Calls(r) + 1 =>
    /\ pc[q] = "reduce" => \/ pc[r] \in {"work", "returned", "data"}
                           \/ pc[r] = "reduce" /\ SumOf(posted, Calls(r)) = 0
    /\ pc[q] = "counts" => pc[r] = "reduce" /\ SumOf(posted, Calls(r)) # 0
    /\ pc[q] = "data" => pc[r] = "counts"

\* What a rank has passed to its last calls, by where it is.
LastCall(r, n) ==
  /\ pc[r] = "reduce" =>
       n > 0 /\ posted[r][n] = Call("allreduce", Summed(send_counts[r]))
  /\ pc[r] = "counts" =>
       /\ n > 1 /\ posted[r][n] = Call("alltoall", send_counts[r])
       /\ posted[r][n - 1] = Call("allreduce", Summed(send_counts[r]))
       /\ SumOf(posted, n - 1) # 0
  /\ pc[r] = "data" =>
       /\ n > 2
       /\ posted[r][n] = Call("alltoallv",
                              [q \in Ranks |-> Slice(send_buffer[r], send_counts[r], q)])
       /\ posted[r][n - 1] = Call("alltoall", send_counts[r])
       /\ posted[r][n - 2] = Call("allreduce", Summed(send_counts[r]))
       /\ SumOf(posted, n - 2) # 0
  /\ pc[r] \notin InComm =>
       \/ n = 0
       \/ n > 0 /\ posted[r][n].op = "alltoallv"
       \/ n > 0 /\ posted[r][n].op = "allreduce" /\ SumOf(posted, n) = 0

LastCalls == \A r \in Ranks : LastCall(r, Calls(r))

\* What a rank in comm has in its buffers.
BuffersInv ==
  \A r \in Ranks :
    /\ pc[r] # "work" => recv_buffer[r] = <<>>
    /\ pc[r] = "data" =>
         /\ \A i, j \in DOMAIN send_buffer[r] :
              i < j => Dest[send_buffer[r][i]] <= Dest[send_buffer[r][j]]
         /\ \A q \in Ranks : recv_counts[r][q] = posted[q][Calls(r) - 1].arg[r]

\* Messages on their way come from the phase their destination is in.
TransitInv ==
  /\ \A r \in Ranks : \A m \in Range(ToSend(r)) : pushed_in[m] = phase[r]
  /\ \A r \in Ranks : Delivered(r) => \A q \in Ranks : \A m \in Range(Arg(r, q)[r]) :
       Dest[m] = r /\ pushed_in[m] = phase[r]

\* Ranks end a phase together, though they notice one by one.
PhaseOf(r) == phase[r] + IF Stopped(r) THEN 1 ELSE 0
OnePhase == \A r, q \in Ranks : PhaseOf(r) = PhaseOf(q)

ExchangeInv ==
  /\ FrontierInv /\ StateOK /\ InStep /\ Ahead /\ LastCalls
  /\ BuffersInv /\ TransitInv /\ OnePhase
-----------------------------------------------------------------------------
(* Prefix sums                                                             *)

\* What holds of some number holds of a first one.
LEMMA FirstNat ==
  ASSUME NEW S, S \subseteq Nat, S # {}
  PROVE  \E n \in S : \A k \in S : n <= k
<1>1. PICK n \in S : \A k \in S : ~ (<<k, n>> \in OpToRel(<, Nat))
  BY NatLessThanWellFounded, WFMin
<1>2. \A k \in S : ~ (k < n)
  BY <1>1 DEF OpToRel
<1> QED BY <1>2

\* What FrontierAssumption says of the ranks.
LEMMA RankFacts ==
  /\ WorldSize \in Nat \ {0} /\ MaxPhases \in Nat \ {0}
  /\ Dest \in [Msgs -> Ranks] /\ Ranks \subseteq Nat
  /\ \A q \in Ranks : q \in 0 .. WorldSize /\ q + 1 \in 0 .. WorldSize
  /\ \A q \in 0 .. WorldSize : q # 0 => q - 1 \in Ranks
  /\ 0 \in Ranks /\ IsFiniteSet(Ranks)
BY FrontierAssumption, FS_Interval DEF Ranks

\* The recursion that displs is written as has a solution.
LEMMA DisplsExist ==
  ASSUME NEW counts \in [Ranks -> Nat], NEW n \in 0 .. WorldSize
  PROVE  \E f \in [0 .. n -> Nat] : \A q \in 0 .. n :
           f[q] = IF q = 0 THEN 0 ELSE f[q - 1] + counts[q - 1]
<1> DEFINE Has(k) == \E f \in [0 .. k -> Nat] : \A q \in 0 .. k :
                       f[q] = IF q = 0 THEN 0 ELSE f[q - 1] + counts[q - 1]
           Bad == {k \in 0 .. WorldSize : ~ Has(k)}
<1>1. WorldSize \in Nat
  BY RankFacts
<1>2. SUFFICES ASSUME Bad # {} PROVE FALSE
  OBVIOUS
<1>3. PICK k \in Bad : \A j \in Bad : k <= j
  <2>1. Bad \subseteq Nat
    BY <1>1
  <2> HIDE DEF Bad
  <2> QED BY <1>2, <2>1, FirstNat
<1>4. k # 0
  <2>1. Has(0)
    <3> DEFINE z == [q \in 0 .. 0 |-> 0]
    <3>1. z \in [0 .. 0 -> Nat] /\ \A q \in 0 .. 0 : q = 0 /\ z[q] = 0
      OBVIOUS
    <3> HIDE DEF z
    <3> QED BY <3>1
  <2> QED BY <1>3, <2>1
<1>5. k - 1 \in 0 .. WorldSize /\ k \in Nat \ {0}
  BY <1>1, <1>3, <1>4
<1>6. Has(k - 1)
  <2>1. k - 1 \notin Bad
    BY <1>3, <1>5
  <2> QED BY <1>5, <2>1
<1>7. PICK f \in [0 .. k - 1 -> Nat] : \A q \in 0 .. k - 1 :
        f[q] = IF q = 0 THEN 0 ELSE f[q - 1] + counts[q - 1]
  BY <1>6
<1> DEFINE g == [q \in 0 .. k |-> IF q = k THEN f[k - 1] + counts[k - 1] ELSE f[q]]
<1>8. k - 1 \in Ranks /\ counts[k - 1] \in Nat
  BY <1>5, RankFacts
<1>9. g \in [0 .. k -> Nat]
  BY <1>5, <1>7, <1>8
<1>10. ASSUME NEW q \in 0 .. k
       PROVE  g[q] = IF q = 0 THEN 0 ELSE g[q - 1] + counts[q - 1]
  <2>1. CASE q = k
    BY <1>5, <2>1
  <2>2. CASE q # k
    <3>1. q \in 0 .. k - 1 /\ (q # 0 => q - 1 \in 0 .. k - 1)
      BY <1>5, <2>2
    <3>2. g[q] = f[q] /\ (q # 0 => g[q - 1] = f[q - 1])
      BY <1>5, <2>2, <3>1
    <3> QED BY <1>7, <3>1, <3>2
  <2> QED BY <2>1, <2>2
<1>11. Has(k)
  BY <1>9, <1>10
<1> QED BY <1>3, <1>11

\* displs[q] counts what comes before q.
LEMMA DisplsFacts ==
  ASSUME NEW counts \in [Ranks -> Nat]
  PROVE  /\ displs(counts) \in [0 .. WorldSize -> Nat]
         /\ displs(counts)[0] = 0
         /\ \A q \in Ranks : displs(counts)[q + 1] = displs(counts)[q] + counts[q]
<1> DEFINE Eq(f) == f = [q \in 0 .. WorldSize |-> IF q = 0 THEN 0
                                                  ELSE f[q - 1] + counts[q - 1]]
<1>1. PICK f \in [0 .. WorldSize -> Nat] : \A q \in 0 .. WorldSize :
        f[q] = IF q = 0 THEN 0 ELSE f[q - 1] + counts[q - 1]
  <2>1. WorldSize \in 0 .. WorldSize
    BY RankFacts
  <2> QED BY <2>1, DisplsExist
<1>2. Eq(f)
  BY <1>1
<1>3. displs(counts) = CHOOSE h : Eq(h)
  BY DEF displs
<1>4. Eq(displs(counts))
  BY <1>2, <1>3
<1>5. /\ displs(counts) = [q \in 0 .. WorldSize |-> IF q = 0 THEN 0
                              ELSE displs(counts)[q - 1] + counts[q - 1]]
  BY <1>4
<1> HIDE DEF Eq
<1> DEFINE d == displs(counts)
<1> HIDE DEF d
<1>6. /\ DOMAIN d = 0 .. WorldSize
      /\ \A q \in 0 .. WorldSize : d[q] = IF q = 0 THEN 0 ELSE d[q - 1] + counts[q - 1]
  BY <1>5 DEF d
<1>7. /\ d[0] = 0
      /\ \A q \in Ranks : d[q + 1] = d[q] + counts[q]
  <2>1. \A q \in Ranks : q + 1 \in 0 .. WorldSize /\ q + 1 # 0 /\ (q + 1) - 1 = q
    BY RankFacts
  <2>2. 0 \in 0 .. WorldSize
    BY RankFacts
  <2> QED BY <1>6, <2>1, <2>2
<1>8. \A q \in 0 .. WorldSize : d[q] \in Nat
  <2> DEFINE Bad == {q \in 0 .. WorldSize : d[q] \notin Nat}
  <2>1. SUFFICES ASSUME Bad # {} PROVE FALSE
    OBVIOUS
  <2>2. PICK k \in Bad : \A j \in Bad : k <= j
    <3>1. Bad \subseteq Nat
      BY RankFacts
    <3> HIDE DEF Bad
    <3> QED BY <2>1, <3>1, FirstNat
  <2>3. k # 0 /\ k \in 0 .. WorldSize
    BY <1>7, <2>2
  <2>4. k - 1 \in Ranks /\ k - 1 \in 0 .. WorldSize /\ k - 1 + 1 = k /\ ~ (k <= k - 1)
    BY <2>3, RankFacts
  <2>5. d[k - 1] \in Nat
    BY <2>2, <2>4
  <2> QED BY <1>7, <2>2, <2>4, <2>5
<1>9. d \in [0 .. WorldSize -> Nat]
  <2>1. d = [q \in 0 .. WorldSize |-> d[q]]
    BY <1>5 DEF d
  <2> QED BY <1>8, <2>1
<1> QED BY <1>7, <1>9 DEF d

\* The sums do not fall.
LEMMA DisplsGrow ==
  ASSUME NEW counts \in [Ranks -> Nat], NEW p \in 0 .. WorldSize, NEW q \in 0 .. WorldSize,
         p <= q
  PROVE  displs(counts)[p] <= displs(counts)[q]
<1> DEFINE d == displs(counts)
           Bad == {k \in 0 .. WorldSize : p <= k /\ ~ (d[p] <= d[k])}
<1>1. /\ \A k \in 0 .. WorldSize : d[k] \in Nat
      /\ \A k \in Ranks : d[k + 1] = d[k] + counts[k]
  BY DisplsFacts
<1> HIDE DEF d
<1>2. SUFFICES ASSUME Bad # {} PROVE FALSE
  BY DEF d
<1>3. PICK k \in Bad : \A j \in Bad : k <= j
  <2>1. Bad \subseteq Nat
    BY RankFacts
  <2> HIDE DEF Bad
  <2> QED BY <1>2, <2>1, FirstNat
<1>4. k # p /\ k \in 0 .. WorldSize /\ p <= k /\ k # 0
  BY <1>1, <1>3
<1>5. /\ k - 1 \in Ranks /\ k - 1 \in 0 .. WorldSize /\ (k - 1) + 1 = k
      /\ ~ (k <= k - 1) /\ p <= k - 1
  BY <1>4, RankFacts
<1>6. d[p] <= d[k - 1]
  BY <1>3, <1>5
<1>7. d[k] = d[k - 1] + counts[k - 1] /\ counts[k - 1] \in Nat
  BY <1>1, <1>5
<1> QED BY <1>1, <1>3, <1>4, <1>5, <1>6, <1>7

\* They are zero as long as what they are of is.
LEMMA SummedZero ==
  ASSUME NEW counts \in [Ranks -> Nat]
  PROVE  Summed(counts) \in Nat /\ (Summed(counts) = 0 <=> \A q \in Ranks : counts[q] = 0)
<1> DEFINE d == displs(counts)
<1>1. /\ \A k \in 0 .. WorldSize : d[k] \in Nat
      /\ \A k \in Ranks : d[k + 1] = d[k] + counts[k]
      /\ d[0] = 0
  BY DisplsFacts, RankFacts
<1>2. \A k \in 0 .. WorldSize : d[k] <= d[WorldSize]
  BY DisplsGrow, RankFacts
<1> HIDE DEF d
<1>3. ASSUME d[WorldSize] = 0, NEW q \in Ranks PROVE counts[q] = 0
  <2>1. q + 1 \in 0 .. WorldSize /\ q \in 0 .. WorldSize /\ counts[q] \in Nat
    BY RankFacts
  <2>2. d[q + 1] = d[q] + counts[q] /\ d[q + 1] = 0 /\ d[q] = 0
    BY <1>1, <1>2, <1>3, <2>1
  <2> QED BY <2>1, <2>2
<1>4. ASSUME \A q \in Ranks : counts[q] = 0 PROVE d[WorldSize] = 0
  <2> DEFINE Bad == {k \in 0 .. WorldSize : d[k] # 0}
  <2>1. SUFFICES ASSUME Bad # {} PROVE FALSE
    BY RankFacts
  <2>2. PICK k \in Bad : \A j \in Bad : k <= j
    <3>1. Bad \subseteq Nat
      BY RankFacts
    <3> HIDE DEF Bad
    <3> QED BY <2>1, <3>1, FirstNat
  <2>3. k # 0 /\ k \in 0 .. WorldSize
    BY <1>1, <2>2
  <2>4. k - 1 \in Ranks /\ k - 1 \in 0 .. WorldSize /\ k - 1 + 1 = k /\ ~ (k <= k - 1)
    BY <2>3, RankFacts
  <2>5. d[k - 1] = 0
    BY <2>2, <2>4
  <2>6. d[k] = d[k - 1] + counts[k - 1]
    BY <1>1, <2>4
  <2> QED BY <1>4, <2>2, <2>4, <2>5, <2>6
<1>5. d[WorldSize] \in Nat
  BY <1>1, RankFacts
<1> QED BY <1>3, <1>4, <1>5 DEF Summed, d

\* Every place below the total is in the slice of one rank.
LEMMA OneSlice ==
  ASSUME NEW counts \in [Ranks -> Nat], NEW x \in 1 .. Summed(counts)
  PROVE  /\ \E q \in Ranks : displs(counts)[q] < x /\ x <= displs(counts)[q + 1]
         /\ \A p, q \in Ranks :
              /\ displs(counts)[q] < x /\ x <= displs(counts)[q + 1]
              /\ displs(counts)[p] < x /\ x <= displs(counts)[p + 1]
              => p = q
<1> DEFINE d == displs(counts)
           Reached == {k \in 0 .. WorldSize : x <= d[k]}
<1>1. (\A k \in 0 .. WorldSize : d[k] \in Nat) /\ d[0] = 0 /\ x \in Nat /\ x # 0
  <2>1. Summed(counts) \in Nat
    BY SummedZero
  <2>2. displs(counts) \in [0 .. WorldSize -> Nat] /\ displs(counts)[0] = 0
    BY DisplsFacts
  <2>3. x \in Nat /\ x # 0
    BY <2>1
  <2> QED BY <2>2, <2>3
<1>2. WorldSize \in Reached
  BY RankFacts DEF Summed
<1>3. \A p, q \in 0 .. WorldSize : p <= q => d[p] <= d[q]
  BY DisplsGrow
<1> HIDE DEF d
<1>4. PICK k \in Reached : \A j \in Reached : k <= j
  <2>1. Reached \subseteq Nat
    BY RankFacts
  <2> HIDE DEF Reached
  <2> QED BY <1>2, <2>1, FirstNat
<1>5. k # 0 /\ k \in 0 .. WorldSize
  BY <1>1, <1>4
<1>6. k - 1 \in Ranks /\ k - 1 \in 0 .. WorldSize /\ k - 1 + 1 = k /\ ~ (k <= k - 1)
  BY <1>5, RankFacts
<1>7. d[k - 1] < x /\ x <= d[k - 1 + 1]
  BY <1>1, <1>4, <1>6
<1>8. ASSUME NEW p \in Ranks, NEW q \in Ranks, d[q] < x, x <= d[q + 1], d[p] < x, x <= d[p + 1]
      PROVE  p = q
  <2>1. /\ p \in Nat /\ q \in Nat
        /\ \A j \in {p, q} : j \in 0 .. WorldSize /\ j + 1 \in 0 .. WorldSize
    BY RankFacts
  <2>2. ~ (p + 1 <= q)
    <3>1. p + 1 <= q => d[p + 1] <= d[q]
      BY <1>3, <2>1
    <3>2. d[p + 1] \in Nat /\ d[q] \in Nat
      BY <1>1, <2>1
    <3> QED BY <1>1, <1>8, <3>1, <3>2
  <2>3. ~ (q + 1 <= p)
    <3>1. q + 1 <= p => d[q + 1] <= d[p]
      BY <1>3, <2>1
    <3>2. d[q + 1] \in Nat /\ d[p] \in Nat
      BY <1>1, <2>1
    <3> QED BY <1>1, <1>8, <3>1, <3>2
  <2> QED BY <2>1, <2>2, <2>3
<1> QED BY <1>6, <1>7, <1>8 DEF d

SliceOf(counts, x) ==
  CHOOSE q \in Ranks : displs(counts)[q] < x /\ x <= displs(counts)[q + 1]

\* The slice a place lies in contains the place.
LEMMA SliceOfFacts ==
  ASSUME NEW counts \in [Ranks -> Nat], NEW x \in 1 .. Summed(counts)
  PROVE  /\ SliceOf(counts, x) \in Ranks
         /\ x - displs(counts)[SliceOf(counts, x)] \in 1 .. counts[SliceOf(counts, x)]
<1> DEFINE q == SliceOf(counts, x)
<1>1. q \in Ranks /\ displs(counts)[q] < x /\ x <= displs(counts)[q + 1]
  BY OneSlice DEF SliceOf
<1> HIDE DEF q
<1>2. /\ displs(counts)[q + 1] = displs(counts)[q] + counts[q]
      /\ displs(counts)[q] \in Nat /\ counts[q] \in Nat /\ x \in Nat
  BY <1>1, RankFacts, DisplsFacts, SummedZero
<1>3. x - displs(counts)[q] \in 1 .. counts[q]
  BY <1>1, <1>2
<1> QED BY <1>1, <1>3 DEF q

\* The k-th message of a slice is gathered k places behind the sum before it.
LEMMA SliceOfIs ==
  ASSUME NEW counts \in [Ranks -> Nat], NEW q \in Ranks, NEW k \in 1 .. counts[q],
         NEW x, x = displs(counts)[q] + k
  PROVE  x \in 1 .. Summed(counts) /\ SliceOf(counts, x) = q /\ x - displs(counts)[q] = k
<1> DEFINE d == displs(counts)
<1>1. /\ d[q] \in Nat /\ counts[q] \in Nat /\ d[q + 1] = d[q] + counts[q]
      /\ d[q + 1] <= Summed(counts) /\ Summed(counts) \in Nat
  <2>1. d[q] \in Nat /\ counts[q] \in Nat /\ d[q + 1] = d[q] + counts[q]
    BY DisplsFacts, RankFacts
  <2>2. WorldSize \in 0 .. WorldSize /\ q + 1 \in 0 .. WorldSize /\ q + 1 <= WorldSize
    BY RankFacts
  <2>3. d[q + 1] <= Summed(counts)
    BY <2>2, DisplsGrow DEF Summed
  <2> QED BY <2>1, <2>3, SummedZero
<1>0. x = d[q] + k
  OBVIOUS
<1> HIDE DEF d
<1>2. x \in 1 .. Summed(counts) /\ d[q] < x /\ x <= d[q + 1] /\ x - d[q] = k
  BY <1>0, <1>1
<1>3. SliceOf(counts, x) = q
  <2>1. \A p, o \in Ranks : /\ d[o] < x /\ x <= d[o + 1]
                            /\ d[p] < x /\ x <= d[p + 1]
                            => p = o
    BY <1>2, OneSlice DEF d
  <2>2. SliceOf(counts, x) = CHOOSE p \in Ranks : d[p] < x /\ x <= d[p + 1]
    BY DEF SliceOf, d
  <2> QED BY <1>2, <2>1, <2>2
<1> QED BY <1>2, <1>3 DEF d

\* What r gathers, and what it will have received.
LEMMA GatheredFacts ==
  ASSUME NEW r \in Ranks, NEW counts \in [Ranks -> Nat]
  PROVE  /\ Gathered(r, counts) = [x \in 1 .. Summed(counts) |-> Gathered(r, counts)[x]]
         /\ \A x \in 1 .. Summed(counts) : \E q \in Ranks :
              /\ x - displs(counts)[q] \in 1 .. counts[q]
              /\ Gathered(r, counts)[x] = Arg(r, q)[r][x - displs(counts)[q]]
<1>1. Gathered(r, counts) = [x \in 1 .. Summed(counts) |->
         Arg(r, SliceOf(counts, x))[r][x - displs(counts)[SliceOf(counts, x)]]]
  BY DEF Gathered, SliceOf, Summed
<1>2. ASSUME NEW x \in 1 .. Summed(counts)
      PROVE  \E q \in Ranks : /\ x - displs(counts)[q] \in 1 .. counts[q]
                              /\ Gathered(r, counts)[x] = Arg(r, q)[r][x - displs(counts)[q]]
  BY <1>1, SliceOfFacts
<1> QED BY <1>1, <1>2

\* What a rank will have gathered, from the slices the others will have passed.
LEMMA ReceivedWillBe ==
  ASSUME NEW r \in Ranks, NEW counts \in [Ranks -> Nat], recv_counts'[r] = counts,
         NEW slices, \A q \in Ranks : Arg(r, q)'[r] = slices[q], NEW g, g = Received(r)'
  PROVE  /\ g = [x \in 1 .. Summed(counts) |-> g[x]]
         /\ \A x \in 1 .. Summed(counts) :
              g[x] = slices[SliceOf(counts, x)][x - displs(counts)[SliceOf(counts, x)]]
<1>1. ASSUME NEW x \in 1 .. Summed(counts) PROVE SliceOf(counts, x) \in Ranks
  BY SliceOfFacts
<1>2. Received(r)' = [x \in 1 .. Summed(counts) |->
         Arg(r, SliceOf(counts, x))'[r][x - displs(counts)[SliceOf(counts, x)]]]
  BY DEF Received, Gathered, SliceOf, Summed
<1>3. \A x \in 1 .. Summed(counts) :
         g[x] = slices[SliceOf(counts, x)][x - displs(counts)[SliceOf(counts, x)]]
  BY <1>1, <1>2
<1>4. g = [x \in 1 .. Summed(counts) |-> g[x]]
  BY <1>2
<1> QED BY <1>3, <1>4
-----------------------------------------------------------------------------
(* Grouping                                                                *)

\* The numbers up to k are k.
LEMMA CardUpTo ==
  ASSUME NEW k \in Nat
  PROVE  Cardinality(1 .. k) = k
<1>1. Cardinality(1 .. k) = IF 1 > k THEN 0 ELSE k - 1 + 1
  BY FS_Interval
<1> QED BY <1>1

\* Some numbers from 1 on, without gap.
LEMMA InitialSegment ==
  ASSUME NEW n \in Nat, NEW S \in SUBSET (1 .. n),
         \A i \in S, j \in 1 .. n : j < i => j \in S
  PROVE  IsFiniteSet(S) /\ Cardinality(S) \in Nat /\ S = 1 .. Cardinality(S)
<1>1. IsFiniteSet(S) /\ Cardinality(S) \in Nat
  <2>1. IsFiniteSet(1 .. n)
    BY FS_Interval
  <2> QED BY <2>1, FS_Subset, FS_CardinalityType
<1> DEFINE Out == {i \in 1 .. n + 1 : i \notin S}
<1>2. PICK k \in Out : \A j \in Out : k <= j
  <2>1. n + 1 \in Out /\ Out \subseteq Nat
    OBVIOUS
  <2> HIDE DEF Out
  <2> QED BY <2>1, FirstNat
<1>3. k \in 1 .. n + 1 /\ k \notin S
  BY <1>2
<1>4. S = 1 .. k - 1
  <2>1. ASSUME NEW j \in S PROVE j \in 1 .. k - 1
    <3>1. j \in 1 .. n /\ j # k /\ ~ (k < j)
      <4>1. k < j => k \in S
        BY <1>3
      <4> QED BY <1>3, <4>1
    <3> QED BY <1>3, <3>1
  <2>2. ASSUME NEW j \in 1 .. k - 1 PROVE j \in S
    <3>1. j \in 1 .. n + 1 /\ ~ (k <= j)
      BY <1>3
    <3> QED BY <1>2, <3>1
  <2> QED BY <2>1, <2>2
<1>5. Cardinality(S) = k - 1
  BY <1>3, <1>4, CardUpTo
<1> QED BY <1>1, <1>4, <1>5

InOrder(s) == \A i, j \in DOMAIN s : i < j => Dest[s[i]] <= Dest[s[j]]

At(s, q) == {i \in DOMAIN s : Dest[s[i]] = q}

\* The slices of a grouped buffer are where the sums of its counts say.
LEMMA GroupsAreSlices ==
  ASSUME NEW s \in Seq(Msgs), InOrder(s), NEW counts \in [Ranks -> Nat],
         \A q \in Ranks : counts[q] = Cardinality(At(s, q)),
         NEW r \in Ranks
  PROVE  At(s, r) = displs(counts)[r] + 1 .. displs(counts)[r + 1]
<1> DEFINE d == displs(counts)
           Below(q) == {i \in DOMAIN s : Dest[s[i]] < q}
           Bad == {q \in 0 .. WorldSize : Below(q) # 1 .. d[q]}
<1>1. /\ \A k \in 0 .. WorldSize : d[k] \in Nat
      /\ \A k \in Ranks : d[k + 1] = d[k] + counts[k]
      /\ d[0] = 0
  BY DisplsFacts
<1> HIDE DEF d
<1>2. /\ DOMAIN s = 1 .. Len(s) /\ Len(s) \in Nat
      /\ \A i \in DOMAIN s : Dest[s[i]] \in Ranks /\ Dest[s[i]] \in Nat
  <2>1. DOMAIN s = 1 .. Len(s) /\ Len(s) \in Nat /\ \A i \in DOMAIN s : s[i] \in Msgs
    OBVIOUS
  <2> QED BY <2>1, RankFacts
<1>3. Bad = {}
  <2>1. SUFFICES ASSUME Bad # {} PROVE FALSE
    OBVIOUS
  <2>2. PICK k \in Bad : \A j \in Bad : k <= j
    <3>1. Bad \subseteq Nat
      BY RankFacts
    <3> HIDE DEF Bad
    <3> QED BY <2>1, <3>1, FirstNat
  <2>3. k # 0 /\ k \in 0 .. WorldSize
    <3>1. Below(0) = 1 .. d[0]
      BY <1>1, <1>2
    <3> QED BY <2>2, <3>1
  <2>4. k - 1 \in Ranks /\ k - 1 \in 0 .. WorldSize /\ k - 1 + 1 = k /\ ~ (k <= k - 1)
    BY <2>3, RankFacts
  <2>5. Below(k - 1) = 1 .. d[k - 1]
    BY <2>2, <2>4
  <2>6. Below(k) = Below(k - 1) \cup At(s, k - 1) /\ Below(k - 1) \cap At(s, k - 1) = {}
    BY <1>2, <2>3, <2>4 DEF At
  <2>7. IsFiniteSet(Below(k)) /\ Cardinality(Below(k)) \in Nat /\ Below(k) = 1 .. Cardinality(Below(k))
    <3>1. Below(k) \in SUBSET (1 .. Len(s))
      BY <1>2
    <3>2. ASSUME NEW i \in Below(k), NEW j \in 1 .. Len(s), j < i PROVE j \in Below(k)
      <4>1. i \in DOMAIN s /\ j \in DOMAIN s /\ Dest[s[i]] < k
        BY <1>2
      <4>2. Dest[s[j]] <= Dest[s[i]]
        BY <3>2, <4>1 DEF InOrder
      <4>3. Dest[s[j]] < k
        BY <1>2, <2>3, <4>1, <4>2
      <4> QED BY <4>1, <4>3
    <3> HIDE DEF Below
    <3> QED BY <1>2, <3>1, <3>2, InitialSegment
  <2>8. Cardinality(Below(k)) = d[k - 1] + counts[k - 1]
    <3>1. IsFiniteSet(Below(k - 1)) /\ IsFiniteSet(At(s, k - 1))
      <4> HIDE DEF Below
      <4> QED BY <2>6, <2>7, FS_Subset
    <3>2. Cardinality(Below(k - 1)) = d[k - 1]
      <4>1. d[k - 1] \in Nat
        BY <1>1, <2>4
      <4>2. Cardinality(1 .. d[k - 1]) = d[k - 1]
        BY <4>1, CardUpTo
      <4> HIDE DEF Below
      <4> QED BY <2>5, <4>2
    <3>3. Cardinality(At(s, k - 1)) = counts[k - 1] /\ counts[k - 1] \in Nat
      BY <2>4
    <3> HIDE DEF Below
    <3>4. Cardinality(Below(k)) = Cardinality(Below(k - 1)) + Cardinality(At(s, k - 1))
                                  - Cardinality(Below(k - 1) \cap At(s, k - 1))
      BY <2>6, <3>1, FS_Union
    <3>5. Cardinality(Below(k - 1) \cap At(s, k - 1)) = 0
      BY <2>6, FS_EmptySet
    <3> QED BY <1>1, <2>4, <3>2, <3>3, <3>4, <3>5
  <2>9. d[k] = d[k - 1] + counts[k - 1]
    BY <1>1, <2>4
  <2> HIDE DEF Below
  <2> QED BY <2>2, <2>7, <2>8, <2>9
<1>4. \A q \in 0 .. WorldSize : Below(q) = 1 .. d[q]
  BY <1>3
<1>5. r \in 0 .. WorldSize /\ r + 1 \in 0 .. WorldSize /\ r \in Nat
  BY RankFacts
<1>6. Below(r) = 1 .. d[r] /\ Below(r + 1) = 1 .. d[r + 1] /\ d[r] \in Nat /\ d[r + 1] \in Nat
  BY <1>1, <1>4, <1>5
<1>7. At(s, r) = Below(r + 1) \ Below(r)
  BY <1>2, <1>5 DEF At
<1>8. 1 .. d[r + 1] \ 1 .. d[r] = d[r] + 1 .. d[r + 1]
  BY <1>6
<1> HIDE DEF Below
<1> QED BY <1>6, <1>7, <1>8 DEF d
-----------------------------------------------------------------------------
(* Calls                                                                   *)

\* What is known of one call of one rank.
LEMMA CallFacts ==
  ASSUME StateOK, NEW r \in Ranks
  PROVE  /\ posted[r] \in Seq(CallSet) /\ Calls(r) \in Nat
         /\ DOMAIN posted[r] = 1 .. Calls(r)
         /\ \A i \in 1 .. Calls(r) :
              /\ posted[r][i].op \in {"allreduce", "alltoall", "alltoallv"}
              /\ posted[r][i].op = "allreduce" => posted[r][i].arg \in Nat
              /\ posted[r][i].op = "alltoall" => posted[r][i].arg \in [Ranks -> Nat]
              /\ posted[r][i].op = "alltoallv" => posted[r][i].arg \in [Ranks -> Seq(Msgs)]
<1>1. posted[r] \in Seq(CallSet)
  BY DEF StateOK
<1>2. Calls(r) \in Nat /\ DOMAIN posted[r] = 1 .. Calls(r)
      /\ \A i \in 1 .. Calls(r) : posted[r][i] \in CallSet
  BY <1>1 DEF Calls
<1> QED BY <1>1, <1>2 DEF CallSet

\* What is posted stays posted, and what is computed from it stays the same.
LEMMA PostedSame ==
  ASSUME posted' = posted
  PROVE  \A r \in Ranks : /\ Calls(r)' = Calls(r) /\ Matched(r)' = Matched(r)
                          /\ Total(r)' = Total(r) /\ Total(r) = SumOf(posted, Calls(r))
                          /\ SumOf(posted, Calls(r))' = SumOf(posted, Calls(r))
                          /\ \A q \in Ranks : Arg(r, q)' = Arg(r, q)
<1>1. ASSUME NEW r \in Ranks
      PROVE  /\ Calls(r)' = Calls(r) /\ Matched(r)' = Matched(r)
             /\ Total(r)' = Total(r) /\ Total(r) = SumOf(posted, Calls(r))
             /\ SumOf(posted, Calls(r))' = SumOf(posted, Calls(r))
             /\ \A q \in Ranks : Arg(r, q)' = Arg(r, q)
  <2>1. Calls(r)' = Calls(r) /\ \A q \in Ranks : Arg(r, q)' = Arg(r, q)
    BY DEF Calls, Arg
  <2>2. Matched(r)' = Matched(r)
    BY DEF Matched
  <2>3. Total(r)' = Total(r)
    BY DEF Total, Summed, displs, Arg
  <2>4. Total(r) = SumOf(posted, Calls(r))
    BY DEF Total, SumOf, Arg, Calls
  <2>5. SumOf(posted, Calls(r))' = SumOf(posted, Calls(r))
    BY DEF Calls
  <2> QED BY <2>1, <2>2, <2>3, <2>4, <2>5
<1> QED BY <1>1

\* A rank makes a call.
Posts(r, c) ==
  /\ r \in Ranks /\ c \in CallSet /\ Matched(r)
  /\ posted' = [posted EXCEPT ![r] = Append(@, c)]

\* What one more call changes.
LEMMA PostsFacts ==
  ASSUME StateOK, InStep, NEW r, NEW c, Posts(r, c)
  PROVE  /\ posted' \in [Ranks -> Seq(CallSet)]
         /\ Calls(r)' = Calls(r) + 1 /\ posted'[r][Calls(r) + 1] = c
         /\ \A q \in Ranks \ {r} : Calls(q)' = Calls(q) /\ posted'[q] = posted[q]
         /\ \A q \in Ranks : \A i \in 1 .. Calls(q) : posted'[q][i] = posted[q][i]
         /\ \A q \in Ranks : Calls(q) \in Nat /\ Calls(r) <= Calls(q) /\ Calls(q) <= Calls(r) + 1
<1>1. \A q \in Ranks : posted[q] \in Seq(CallSet) /\ Calls(q) \in Nat
  BY CallFacts
<1>2. posted \in [Ranks -> Seq(CallSet)]
  BY DEF StateOK
<1>3. r \in Ranks /\ c \in CallSet /\ posted' = [posted EXCEPT ![r] = Append(posted[r], c)]
  BY DEF Posts
<1>4. Append(posted[r], c) \in Seq(CallSet) /\ Len(Append(posted[r], c)) = Calls(r) + 1
      /\ Append(posted[r], c)[Calls(r) + 1] = c
      /\ \A i \in 1 .. Calls(r) : Append(posted[r], c)[i] = posted[r][i]
  BY <1>1, <1>3 DEF Calls
<1>5. posted' \in [Ranks -> Seq(CallSet)]
  BY <1>2, <1>3, <1>4
<1>6. posted'[r] = Append(posted[r], c) /\ \A q \in Ranks \ {r} : posted'[q] = posted[q]
  BY <1>2, <1>3
<1>7. Calls(r)' = Calls(r) + 1 /\ posted'[r][Calls(r) + 1] = c
      /\ \A q \in Ranks \ {r} : Calls(q)' = Calls(q) /\ posted'[q] = posted[q]
  BY <1>4, <1>6 DEF Calls
<1>8. \A q \in Ranks : \A i \in 1 .. Calls(q) : posted'[q][i] = posted[q][i]
  BY <1>4, <1>6
<1>9. \A q \in Ranks : Calls(r) <= Calls(q) /\ Calls(q) <= Calls(r) + 1
  BY <1>3 DEF Posts, Matched, InStep, Calls
<1> QED BY <1>1, <1>5, <1>7, <1>8, <1>9

\* The sums of calls that all ranks have made do not change.
LEMMA SumsKept ==
  ASSUME StateOK, InStep, NEW r, NEW c, Posts(r, c),
         NEW k \in Nat \ {0}, \A q \in Ranks : k <= Calls(q)
  PROVE  SumOf(posted', k) = SumOf(posted, k)
<1>1. \A q \in Ranks : posted'[q][k] = posted[q][k]
  BY PostsFacts
<1>2. [q \in Ranks |-> posted'[q][k].arg] = [q \in Ranks |-> posted[q][k].arg]
  BY <1>1
<1> QED BY <1>2 DEF SumOf

\* Who has joined whom.
LEMMA MatchedAfter ==
  ASSUME StateOK, InStep, NEW r, NEW c, Posts(r, c), NEW q \in Ranks
  PROVE  /\ q # r /\ Calls(q) = Calls(r) => Matched(q) /\ Matched(q)'
         /\ q = r \/ Calls(q) = Calls(r) + 1 =>
              (Matched(q)' <=> \A p \in Ranks \ {r} : Calls(p) = Calls(r) + 1)
         /\ Calls(q) = Calls(r) + 1 => ~ Matched(q)
<1>1. /\ \A p \in Ranks : Calls(p) \in Nat /\ Calls(r) <= Calls(p) /\ Calls(p) <= Calls(r) + 1
      /\ Calls(r)' = Calls(r) + 1 /\ \A p \in Ranks \ {r} : Calls(p)' = Calls(p)
      /\ r \in Ranks
  BY PostsFacts DEF Posts
<1>2. Matched(q) <=> \A p \in Ranks : Calls(p) >= Calls(q)
  BY DEF Matched, Calls
<1>3. Matched(q)' <=> \A p \in Ranks : Calls(p)' >= Calls(q)'
  BY DEF Matched, Calls
<1>4. CASE q # r /\ Calls(q) = Calls(r)
  BY <1>1, <1>2, <1>3, <1>4
<1>5. CASE q = r
  BY <1>1, <1>2, <1>3, <1>5
<1>6. CASE q # r /\ Calls(q) = Calls(r) + 1
  BY <1>1, <1>2, <1>3, <1>6
<1> QED BY <1>1, <1>4, <1>5, <1>6

\* The call a rank is in.
LEMMA LastOp ==
  ASSUME StateOK, LastCalls, NEW r \in Ranks
  PROVE  /\ pc[r] \in InComm => Calls(r) > 0
         /\ pc[r] = "reduce" => posted[r][Calls(r)].op = "allreduce"
         /\ pc[r] = "counts" => posted[r][Calls(r)].op = "alltoall"
         /\ pc[r] = "data" => posted[r][Calls(r)].op = "alltoallv"
         /\ pc[r] \notin InComm /\ Calls(r) > 0 =>
              \/ posted[r][Calls(r)].op = "alltoallv"
              \/ posted[r][Calls(r)].op = "allreduce" /\ SumOf(posted, Calls(r)) = 0
         /\ pc[r] \in {"work", "reduce", "counts", "data", "returned"}
         /\ Calls(r) \in Nat
<1>1. Calls(r) \in Nat
  BY CallFacts
<1>2. pc[r] \in {"work", "reduce", "counts", "data", "returned"}
  BY DEF StateOK, TypeOK
<1>3. LastCall(r, Calls(r))
  BY DEF LastCalls
<1>4. pc[r] = "reduce" => Calls(r) > 0 /\ posted[r][Calls(r)].op = "allreduce"
  BY <1>1, <1>3 DEF LastCall, Call
<1>5. pc[r] = "counts" => Calls(r) > 0 /\ posted[r][Calls(r)].op = "alltoall"
  BY <1>1, <1>3 DEF LastCall, Call
<1>6. pc[r] = "data" => Calls(r) > 0 /\ posted[r][Calls(r)].op = "alltoallv"
  BY <1>1, <1>3 DEF LastCall, Call
<1>7. pc[r] \notin InComm /\ Calls(r) > 0 =>
              \/ posted[r][Calls(r)].op = "alltoallv"
              \/ posted[r][Calls(r)].op = "allreduce" /\ SumOf(posted, Calls(r)) = 0
  BY <1>1, <1>3 DEF LastCall
<1> QED BY <1>1, <1>2, <1>4, <1>5, <1>6, <1>7 DEF InComm

\* Ranks that have made as many calls are not far from each other.
LEMMA SameCall ==
  ASSUME StateOK, LastCalls, CollectivesMatch, NEW r \in Ranks, NEW q \in Ranks,
         Calls(q) = Calls(r)
  PROVE  /\ pc[r] = "reduce" => \/ pc[q] = "reduce"
                                \/ pc[q] \in {"work", "returned"} /\ SumOf(posted, Calls(r)) = 0
         /\ pc[r] = "counts" => pc[q] = "counts"
         /\ pc[r] = "data" => pc[q] \in {"data", "work", "returned"}
         /\ pc[r] \in {"work", "returned"} => \/ pc[q] \in {"work", "returned", "data"}
                                              \/ pc[q] = "reduce" /\ SumOf(posted, Calls(r)) = 0
<1>1. Calls(r) > 0 => posted[r][Calls(r)].op = posted[q][Calls(r)].op
  <2>1. DOMAIN posted[r] = 1 .. Calls(r) /\ DOMAIN posted[q] = 1 .. Calls(r) /\ Calls(r) \in Nat
    BY CallFacts
  <2> QED BY <2>1 DEF CollectivesMatch
<1> QED BY <1>1, LastOp DEF InComm

\* The calls of comm follow one another.
Follows(r, c) ==
  \/ pc[r] = "work" /\ pc'[r] = "reduce" /\ c.op = "allreduce"
  \/ pc[r] = "reduce" /\ SumOf(posted, Calls(r)) # 0 /\ pc'[r] = "counts" /\ c.op = "alltoall"
  \/ pc[r] = "counts" /\ pc'[r] = "data" /\ c.op = "alltoallv"

\* One more call keeps all calls in step, if it follows from where the rank is.
LEMMA PostsKeep ==
  ASSUME StateOK, InStep, Ahead, LastCalls, CollectivesMatch, NEW r, NEW c, Posts(r, c),
         Follows(r, c), \A q \in Ranks \ {r} : pc'[q] = pc[q]
  PROVE  InStep' /\ Ahead' /\ CollectivesMatch'
<1>1. /\ r \in Ranks
      /\ Calls(r)' = Calls(r) + 1 /\ posted'[r][Calls(r) + 1] = c
      /\ \A q \in Ranks \ {r} : Calls(q)' = Calls(q) /\ posted'[q] = posted[q]
      /\ \A q \in Ranks : \A i \in 1 .. Calls(q) : posted'[q][i] = posted[q][i]
      /\ \A q \in Ranks : Calls(q) \in Nat /\ Calls(r) <= Calls(q) /\ Calls(q) <= Calls(r) + 1
  BY PostsFacts DEF Posts
<1>2. pc'[r] \in InComm
  BY DEF Follows, InComm
<1>3. InStep'
  <2>1. ASSUME NEW x \in Ranks, NEW q \in Ranks PROVE Calls(q)' <= Calls(x)' + 1
    BY <1>1
  <2>2. ASSUME NEW x \in Ranks, pc'[x] \notin InComm PROVE Matched(x)'
    <3>1. x # r /\ pc[x] \notin InComm
      BY <1>2, <2>2
    <3>2. Matched(x)
      BY <3>1 DEF InStep
    <3>3. Calls(x) = Calls(r)
      <4>1. Calls(x) <= Calls(r)
        BY <1>1, <3>2 DEF Matched, Calls
      <4> QED BY <1>1, <4>1
    <3> QED BY <3>1, <3>3, MatchedAfter
  <2> QED BY <2>1, <2>2 DEF InStep
<1>4. ASSUME NEW k \in Nat \ {0}, k <= Calls(r) PROVE SumOf(posted', k) = SumOf(posted, k)
  <2>1. \A q \in Ranks : k <= Calls(q)
    BY <1>1, <1>4
  <2> QED BY <2>1, SumsKept
<1>5. Ahead'
  <2> SUFFICES ASSUME NEW x \in Ranks, NEW q \in Ranks, Calls(q)' = Calls(x)' + 1
               PROVE  /\ pc'[q] = "reduce" => \/ pc'[x] \in {"work", "returned", "data"}
                                              \/ pc'[x] = "reduce" /\ SumOf(posted, Calls(x))' = 0
                      /\ pc'[q] = "counts" => pc'[x] = "reduce" /\ SumOf(posted, Calls(x))' # 0
                      /\ pc'[q] = "data" => pc'[x] = "counts"
    BY DEF Ahead
  <2>1. x # r /\ Calls(x) = Calls(r) /\ Calls(x)' = Calls(x) /\ pc'[x] = pc[x]
    BY <1>1
  <2>2. pc[x] = "reduce" => SumOf(posted, Calls(x))' = SumOf(posted, Calls(x))
    <3>1. pc[x] = "reduce" => Calls(x) \in Nat \ {0} /\ Calls(x) <= Calls(r)
      BY <1>1, <2>1, LastOp DEF InComm
    <3>2. SumOf(posted, Calls(x))' = SumOf(posted', Calls(x)')
      OBVIOUS
    <3> QED BY <1>4, <2>1, <3>1, <3>2
  <2>3. CASE q = r
    <3>1. Calls(x) = Calls(r)
      BY <2>1
    <3> QED BY <2>1, <2>2, <2>3, <3>1, SameCall DEF Follows
  <2>4. CASE q # r
    <3>1. Calls(q) = Calls(x) + 1 /\ pc'[q] = pc[q]
      BY <1>1, <2>1, <2>4
    <3> QED BY <2>1, <2>2, <3>1 DEF Ahead
  <2> QED BY <2>3, <2>4
<1>6. CollectivesMatch'
  <2>1. \A q \in Ranks : DOMAIN posted[q] = 1 .. Calls(q) /\ DOMAIN posted'[q] = 1 .. Calls(q)'
    <3>1. \A q \in Ranks : posted'[q] \in Seq(CallSet)
      BY PostsFacts
    <3> QED BY <3>1, CallFacts DEF Calls
  <2>2. ASSUME NEW q \in Ranks \ {r}, Calls(q) = Calls(r) + 1 PROVE posted[q][Calls(q)].op = c.op
    <3>1. pc[q] \in InComm
      BY <2>2, MatchedAfter DEF InStep
    <3> QED BY <2>2, <3>1, <1>1, LastOp DEF Ahead, Follows, InComm
  <2>3. ASSUME NEW q \in Ranks, NEW i \in 1 .. Calls(r)', i \in 1 .. Calls(q)'
        PROVE  posted'[r][i].op = posted'[q][i].op
    <3>1. CASE q = r
      BY <3>1
    <3>2. CASE q # r /\ i <= Calls(r)
      <4>1. i \in 1 .. Calls(r) /\ i \in 1 .. Calls(q)
        BY <1>1, <2>3, <3>2
      <4>2. posted[r][i].op = posted[q][i].op
        BY <1>1, <2>1, <4>1 DEF CollectivesMatch
      <4> QED BY <1>1, <4>1, <4>2
    <3>3. CASE q # r /\ ~ (i <= Calls(r))
      <4>1. i = Calls(r) + 1 /\ Calls(q) = Calls(r) + 1
        BY <1>1, <2>3, <3>3
      <4> QED BY <1>1, <2>2, <3>3, <4>1
    <3> QED BY <3>1, <3>2, <3>3
  <2>4. ASSUME NEW x \in Ranks \ {r}, NEW q \in Ranks \ {r}, NEW i \in 1 .. Calls(x)',
               i \in 1 .. Calls(q)'
        PROVE  posted'[x][i].op = posted'[q][i].op
    BY <1>1, <2>1, <2>4 DEF CollectivesMatch
  <2>5. ASSUME NEW x \in Ranks, NEW q \in Ranks, NEW i \in 1 .. Calls(x)', i \in 1 .. Calls(q)'
        PROVE  posted'[x][i].op = posted'[q][i].op
    BY <1>1, <2>3, <2>4, <2>5
  <2> QED BY <2>1, <2>5 DEF CollectivesMatch
<1> QED BY <1>3, <1>5, <1>6

\* A call of another rank changes nothing about the last calls of this one.
LEMMA LastCallsStay ==
  ASSUME StateOK, InStep, LastCalls, NEW r, NEW c, Posts(r, c), NEW q \in Ranks \ {r},
         pc'[q] = pc[q], send_counts'[q] = send_counts[q], send_buffer'[q] = send_buffer[q]
  PROVE  LastCall(q, Calls(q))'
<1> DEFINE n == Calls(q)
<1>1. Calls(q)' = n /\ posted'[q] = posted[q] /\ n \in Nat
  BY PostsFacts
<1>2. LastCall(q, n)
  BY DEF LastCalls
<1>3. ASSUME NEW k \in Nat \ {0}, k < n PROVE SumOf(posted', k) = SumOf(posted, k)
  <2>1. \A p \in Ranks : k <= Calls(p)
    <3>1. \A p \in Ranks : Calls(p) \in Nat /\ n <= Calls(p) + 1
      BY CallFacts DEF InStep
    <3> QED BY <1>1, <1>3, <3>1
  <2> QED BY <2>1, SumsKept
<1>4. pc[q] \notin InComm /\ n > 0 => SumOf(posted', n) = SumOf(posted, n)
  <2>1. ASSUME pc[q] \notin InComm, n > 0 PROVE SumOf(posted', n) = SumOf(posted, n)
    <3>1. \A p \in Ranks : n <= Calls(p)
      BY <2>1 DEF InStep, Matched, Calls
    <3> QED BY <1>1, <2>1, <3>1, SumsKept
  <2> QED BY <2>1
<1> HIDE DEF n
<1>5. /\ n > 1 => SumOf(posted', n - 1) = SumOf(posted, n - 1)
      /\ n > 2 => SumOf(posted', n - 2) = SumOf(posted, n - 2)
  BY <1>1, <1>3
<1>6. LastCall(q, Calls(q))' <=> LastCall(q, n)
  BY <1>1, <1>4, <1>5 DEF LastCall
<1> QED BY <1>2, <1>6

\* Nor does it change anything when a rank goes on with its work, or leaves a call
\* that all ranks have made.
Leaves(r) ==
  /\ Matched(r) /\ pc'[r] \in {"work", "returned"}
  /\ pc[r] = "data" \/ (pc[r] = "reduce" /\ Total(r) = 0)

\* A rank that leaves a complete call keeps all calls in step.
LEMMA QuietKeeps ==
  ASSUME StateOK, InStep, Ahead, LastCalls, CollectivesMatch, posted' = posted,
         NEW r \in Ranks, pc'[r] = pc[r] \/ Leaves(r),
         \A q \in Ranks \ {r} : pc'[q] = pc[q],
         \A q \in Ranks : pc'[q] \in InComm =>
           send_counts'[q] = send_counts[q] /\ send_buffer'[q] = send_buffer[q]
  PROVE  InStep' /\ Ahead' /\ CollectivesMatch' /\ LastCalls'
<1>1. /\ \A k : SumOf(posted', k) = SumOf(posted, k)
      /\ \A q \in Ranks : Calls(q)' = Calls(q) /\ Matched(q)' = Matched(q)
      /\ Total(r) = SumOf(posted, Calls(r))
  BY PostedSame
<1>2. pc'[r] = pc[r] \/ pc'[r] \in {"work", "returned"}
  BY DEF Leaves
<1>3. InStep'
  <2>1. ASSUME NEW q \in Ranks, pc'[q] \notin InComm PROVE Matched(q)'
    <3>1. CASE q = r /\ Leaves(r)
      BY <1>1, <3>1 DEF Leaves
    <3>2. CASE pc'[q] = pc[q]
      BY <1>1, <2>1, <3>2 DEF InStep
    <3> QED BY <3>1, <3>2
  <2>2. \A x, q \in Ranks : Calls(q)' <= Calls(x)' + 1
    BY <1>1 DEF InStep
  <2> QED BY <2>1, <2>2 DEF InStep
<1>4. CollectivesMatch'
  BY DEF CollectivesMatch
<1>5. Ahead'
  <2> SUFFICES ASSUME NEW x \in Ranks, NEW q \in Ranks, Calls(q)' = Calls(x)' + 1
               PROVE  /\ pc'[q] = "reduce" => \/ pc'[x] \in {"work", "returned", "data"}
                                              \/ pc'[x] = "reduce" /\ SumOf(posted, Calls(x))' = 0
                      /\ pc'[q] = "counts" => pc'[x] = "reduce" /\ SumOf(posted, Calls(x))' # 0
                      /\ pc'[q] = "data" => pc'[x] = "counts"
    BY DEF Ahead
  <2>1. Calls(q) = Calls(x) + 1 /\ SumOf(posted, Calls(x))' = SumOf(posted, Calls(x))
    BY <1>1
  <2>2. /\ pc[q] = "reduce" => \/ pc[x] \in {"work", "returned", "data"}
                               \/ pc[x] = "reduce" /\ SumOf(posted, Calls(x)) = 0
        /\ pc[q] = "counts" => pc[x] = "reduce" /\ SumOf(posted, Calls(x)) # 0
        /\ pc[q] = "data" => pc[x] = "counts"
    BY <2>1 DEF Ahead
  <2>3. x # q
    <3>1. Calls(x) \in Nat
      BY CallFacts
    <3> QED BY <2>1, <3>1
  <2>4. CASE pc'[r] = pc[r]
    BY <2>1, <2>2, <2>4
  <2>5. CASE Leaves(r) /\ q = r
    BY <2>1, <2>2, <2>3, <2>5, <1>2 DEF Leaves
  <2>6. CASE Leaves(r) /\ x = r
    BY <1>1, <2>1, <2>2, <2>3, <2>6 DEF Leaves
  <2>7. CASE x # r /\ q # r
    BY <2>1, <2>2, <2>7
  <2> QED BY <2>4, <2>5, <2>6, <2>7
<1>6. LastCalls'
  <2>1. ASSUME NEW q \in Ranks PROVE LastCall(q, Calls(q))'
    <3>1. LastCall(q, Calls(q))
      BY DEF LastCalls
    <3>2. CASE pc'[q] \in InComm
      <4>1. pc'[q] = pc[q]
        BY <1>2, <3>2 DEF InComm
      <4> QED BY <1>1, <3>1, <3>2, <4>1 DEF LastCall
    <3>3. CASE pc'[q] \notin InComm /\ pc'[q] = pc[q]
      BY <1>1, <3>1, <3>3 DEF LastCall, InComm
    <3>4. CASE pc'[q] \notin InComm /\ q = r /\ Leaves(r)
      <4>1. Calls(r) > 0 /\ (\/ posted[r][Calls(r)].op = "alltoallv"
                             \/ posted[r][Calls(r)].op = "allreduce" /\ SumOf(posted, Calls(r)) = 0)
        BY <1>1, <3>4, LastOp DEF Leaves, InComm
      <4> QED BY <1>1, <3>4, <4>1 DEF LastCall, InComm
    <3> QED BY <3>2, <3>3, <3>4
  <2> QED BY <2>1 DEF LastCalls
<1> QED BY <1>3, <1>4, <1>5, <1>6
-----------------------------------------------------------------------------
(* Places                                                                  *)

\* The places of one kind on one rank.
LEMMA TripleIs ==
  ASSUME NEW a, NEW r, NEW W, NEW p
  PROVE  p \in {a} \X {r} \X W <=> \E i \in W : p = <<a, r, i>>
<1>1. ASSUME p \in {a} \X {r} \X W PROVE \E i \in W : p = <<a, r, i>>
  <2>1. p[3] \in W /\ p = <<a, r, p[3]>>
    BY <1>1
  <2> QED BY <2>1
<1>2. ASSUME NEW i \in W, p = <<a, r, i>> PROVE p \in {a} \X {r} \X W
  BY <1>2
<1> QED BY <1>1, <1>2

\* The places with a rank.
PlacesAt(m, r, sent, transit, received, taken) ==
  ({"sent"} \X {r} \X Where(sent, m)) \cup ({"transit"} \X {r} \X Where(transit, m))
  \cup ({"received"} \X {r} \X Where(received, m))
  \cup ({"consumed"} \X {r} \X ({m} \cap taken))

IsPlace(p, m, r, sent, transit, received, taken) ==
  \/ \E i \in Where(sent, m) : p = <<"sent", r, i>>
  \/ \E i \in Where(transit, m) : p = <<"transit", r, i>>
  \/ \E i \in Where(received, m) : p = <<"received", r, i>>
  \/ m \in taken /\ p = <<"consumed", r, m>>

\* The places on one rank.
LEMMA PlaceAtIs ==
  ASSUME NEW m, NEW p, NEW r, NEW sent, NEW transit, NEW received, NEW taken
  PROVE  p \in PlacesAt(m, r, sent, transit, received, taken)
           <=> IsPlace(p, m, r, sent, transit, received, taken)
<1>1. p \in {"consumed"} \X {r} \X ({m} \cap taken) <=> m \in taken /\ p = <<"consumed", r, m>>
  <2>1. p \in {"consumed"} \X {r} \X ({m} \cap taken) <=>
          \E i \in {m} \cap taken : p = <<"consumed", r, i>>
    BY TripleIs
  <2> QED BY <2>1
<1>2. p \in {"sent"} \X {r} \X Where(sent, m) <=>
        \E i \in Where(sent, m) : p = <<"sent", r, i>>
  BY TripleIs
<1>3. p \in {"transit"} \X {r} \X Where(transit, m) <=>
        \E i \in Where(transit, m) : p = <<"transit", r, i>>
  BY TripleIs
<1>4. p \in {"received"} \X {r} \X Where(received, m) <=>
        \E i \in Where(received, m) : p = <<"received", r, i>>
  BY TripleIs
<1> QED BY <1>1, <1>2, <1>3, <1>4 DEF PlacesAt, IsPlace

\* The places of a message.
LEMMA PlaceIs ==
  ASSUME NEW m, NEW p
  PROVE  p \in Places(m) <=>
           \E r \in Ranks : IsPlace(p, m, r, ToSend(r), InTransit(r), recv_buffer[r], consumed[r])
<1>1. Places(m) = UNION {PlacesAt(m, r, ToSend(r), InTransit(r), recv_buffer[r], consumed[r]) :
                           r \in Ranks}
  BY DEF Places, PlacesAt
<1>2. p \in Places(m) <=>
        \E r \in Ranks : p \in PlacesAt(m, r, ToSend(r), InTransit(r), recv_buffer[r], consumed[r])
  BY <1>1
<1> QED BY <1>2, PlaceAtIs

\* The same after a step.
LEMMA PlaceWillBe ==
  ASSUME NEW m, NEW p
  PROVE  p \in Places(m)' <=>
           \E r \in Ranks : IsPlace(p, m, r, ToSend(r)', InTransit(r)', recv_buffer'[r], consumed'[r])
<1>1. Places(m)' = UNION {PlacesAt(m, r, ToSend(r)', InTransit(r)', recv_buffer'[r], consumed'[r]) :
                           r \in Ranks}
  BY DEF Places, PlacesAt, Where
<1>2. p \in Places(m)' <=>
        \E r \in Ranks : p \in PlacesAt(m, r, ToSend(r)', InTransit(r)', recv_buffer'[r], consumed'[r])
  BY <1>1
<1> QED BY <1>2, PlaceAtIs

\* At most one place, and one as soon as the message is pushed.
PlacedOnce(m) ==
  /\ Places(m) = {} <=> pushed_in[m] = -1
  /\ \A p, o \in Places(m) : p = o

\* PlacedOnce is what ExactlyOnePlace says of one message.
LEMMA PlacedOnceIs ==
  ASSUME NEW m
  PROVE  PlacedOnce(m) <=> /\ pushed_in[m] = -1 => Places(m) = {}
                           /\ pushed_in[m] # -1 => \E p \in Places(m) : Places(m) = {p}
BY DEF PlacedOnce

\* The same for all messages.
LEMMA PlacedOnceFacts == ExactlyOnePlace => \A m \in Msgs : PlacedOnce(m)
BY PlacedOnceIs DEF ExactlyOnePlace

\* A message stays where it is.
LEMMA PlacesSame ==
  ASSUME NEW m,
         \A q \in Ranks : /\ Where(ToSend(q)', m) = Where(ToSend(q), m)
                          /\ Where(InTransit(q)', m) = Where(InTransit(q), m)
                          /\ Where(recv_buffer'[q], m) = Where(recv_buffer[q], m)
                          /\ m \in consumed[q] <=> m \in consumed'[q]
  PROVE  Places(m)' = Places(m)
<1>1. ASSUME NEW p PROVE p \in Places(m)' <=> p \in Places(m)
  <2>1. ASSUME NEW r \in Ranks
        PROVE  IsPlace(p, m, r, ToSend(r)', InTransit(r)', recv_buffer'[r], consumed'[r])
                 <=> IsPlace(p, m, r, ToSend(r), InTransit(r), recv_buffer[r], consumed[r])
    BY DEF IsPlace
  <2> QED BY <2>1, PlaceIs, PlaceWillBe
<1> QED BY <1>1
-----------------------------------------------------------------------------
(* Buffers                                                                 *)

\* Buffers as sequences.
LEMMA SeqFacts ==
  ASSUME NEW s \in Seq(Msgs)
  PROVE  /\ Len(s) \in Nat /\ DOMAIN s = 1 .. Len(s) /\ \A i \in DOMAIN s : s[i] \in Msgs
         /\ \A m : Where(s, m) \subseteq 1 .. Len(s)
         /\ \A m : m \in Range(s) <=> Where(s, m) # {}
         /\ \A q : At(s, q) \in SUBSET (1 .. Len(s)) /\ IsFiniteSet(At(s, q))
                   /\ Cardinality(At(s, q)) \in Nat
<1>1. Len(s) \in Nat /\ DOMAIN s = 1 .. Len(s) /\ \A i \in DOMAIN s : s[i] \in Msgs
  OBVIOUS
<1>2. \A m : Where(s, m) \subseteq 1 .. Len(s)
  BY <1>1 DEF Where
<1>3. \A m : m \in Range(s) <=> Where(s, m) # {}
  BY DEF Range, Where
<1>4. ASSUME NEW q PROVE /\ At(s, q) \in SUBSET (1 .. Len(s)) /\ IsFiniteSet(At(s, q))
                         /\ Cardinality(At(s, q)) \in Nat
  <2>1. IsFiniteSet(1 .. Len(s))
    BY <1>1, FS_Interval
  <2>2. At(s, q) \in SUBSET (1 .. Len(s))
    BY <1>1 DEF At
  <2> QED BY <2>1, <2>2, FS_Subset, FS_CardinalityType
<1> QED BY <1>1, <1>2, <1>3, <1>4

\* A message is put at the end.
LEMMA AppendFacts ==
  ASSUME NEW s \in Seq(Msgs), NEW x \in Msgs
  PROVE  /\ Append(s, x) \in Seq(Msgs)
         /\ \A m : Where(Append(s, x), m) = IF m = x THEN Where(s, m) \cup {Len(s) + 1}
                                            ELSE Where(s, m)
         /\ \A q : Cardinality(At(Append(s, x), q)) =
                     IF Dest[x] = q THEN Cardinality(At(s, q)) + 1 ELSE Cardinality(At(s, q))
<1> DEFINE t == Append(s, x)
<1>1. /\ t \in Seq(Msgs) /\ DOMAIN t = 1 .. Len(s) + 1 /\ t[Len(s) + 1] = x
      /\ \A i \in 1 .. Len(s) : t[i] = s[i]
      /\ DOMAIN s = 1 .. Len(s) /\ Len(s) \in Nat
  OBVIOUS
<1> HIDE DEF t
<1>2. \A m : Where(t, m) = IF m = x THEN Where(s, m) \cup {Len(s) + 1} ELSE Where(s, m)
  BY <1>1 DEF Where
<1>3. ASSUME NEW q PROVE Cardinality(At(t, q)) = IF Dest[x] = q THEN Cardinality(At(s, q)) + 1
                                                 ELSE Cardinality(At(s, q))
  <2>1. At(t, q) = IF Dest[x] = q THEN At(s, q) \cup {Len(s) + 1} ELSE At(s, q)
    BY <1>1 DEF At
  <2>2. IsFiniteSet(At(s, q)) /\ Len(s) + 1 \notin At(s, q)
    <3>1. IsFiniteSet(At(s, q))
      BY SeqFacts
    <3>2. Len(s) + 1 \notin At(s, q)
      BY <1>1 DEF At
    <3> QED BY <3>1, <3>2
  <2>3. Cardinality(At(s, q) \cup {Len(s) + 1}) = Cardinality(At(s, q)) + 1
    BY <2>2, FS_AddElement
  <2> QED BY <2>1, <2>3
<1> QED BY <1>1, <1>2, <1>3 DEF t

\* The last message is taken.
LEMMA FrontFacts ==
  ASSUME NEW s \in Seq(Msgs), s # <<>>
  PROVE  /\ Front(s) \in Seq(Msgs) /\ Last(s) \in Msgs /\ Last(s) \in Range(s)
         /\ Len(s) \in Where(s, Last(s))
         /\ \A m : Where(Front(s), m) = Where(s, m) \ {i \in {Len(s)} : m = Last(s)}
         /\ Range(Front(s)) \subseteq Range(s)
<1>1. Len(s) \in Nat \ {0} /\ DOMAIN s = 1 .. Len(s) /\ Last(s) = s[Len(s)]
  BY DEF Last
<1>2. /\ Front(s) \in Seq(Msgs) /\ DOMAIN Front(s) = 1 .. Len(s) - 1
      /\ \A i \in 1 .. Len(s) - 1 : Front(s)[i] = s[i]
  BY <1>1 DEF Front
<1>3. ASSUME NEW m PROVE Where(Front(s), m) = Where(s, m) \ {i \in {Len(s)} : m = Last(s)}
  BY <1>1, <1>2 DEF Where
<1>4. Range(Front(s)) \subseteq Range(s)
  BY <1>1, <1>2 DEF Range
<1>5. Last(s) \in Msgs /\ Last(s) \in Range(s) /\ Len(s) \in Where(s, Last(s))
  BY <1>1 DEF Range, Where
<1> QED BY <1>2, <1>3, <1>4, <1>5

\* Grouping moves messages about.
LEMMA GroupingFacts ==
  ASSUME NEW s \in Seq(Msgs), NEW t \in Groupings(s)
  PROVE  /\ t \in Seq(Msgs) /\ InOrder(t) /\ Range(t) = Range(s)
         /\ \A q \in Ranks : Cardinality(At(t, q)) = Cardinality(At(s, q))
         /\ \A m : (\A i, j \in Where(s, m) : i = j) => \A i, j \in Where(t, m) : i = j
         /\ s = <<>> => t = <<>>
<1>1. PICK p \in Bijection(DOMAIN s, DOMAIN s) : t = [i \in DOMAIN s |-> s[p[i]]]
  BY DEF Groupings
<1>2. /\ t \in [DOMAIN s -> Range(s)] /\ DOMAIN t = DOMAIN s /\ InOrder(t)
  BY DEF Groupings, InOrder
<1>3. /\ p \in [DOMAIN s -> DOMAIN s]
      /\ \A i, j \in DOMAIN s : p[i] = p[j] => i = j
      /\ \A j \in DOMAIN s : \E i \in DOMAIN s : p[i] = j
      /\ \A i \in DOMAIN s : t[i] = s[p[i]] /\ p[i] \in DOMAIN s
  BY <1>1 DEF Bijection, Injection, Surjection, IsInjective
<1>4. Range(t) = Range(s)
  BY <1>2, <1>3 DEF Range
<1>5. t \in Seq(Msgs)
  <2>1. Len(s) \in Nat /\ DOMAIN s = 1 .. Len(s) /\ \A i \in DOMAIN s : s[i] \in Msgs
    BY SeqFacts
  <2>2. t \in [1 .. Len(s) -> Msgs]
    BY <1>1, <1>3, <2>1
  <2> QED BY <2>1, <2>2
<1>6. ASSUME NEW q \in Ranks PROVE Cardinality(At(t, q)) = Cardinality(At(s, q))
  <2> DEFINE f == [i \in At(t, q) |-> p[i]]
  <2>1. f \in Bijection(At(t, q), At(s, q))
    <3>1. f \in [At(t, q) -> At(s, q)]
      BY <1>2, <1>3 DEF At
    <3>2. \A i, j \in At(t, q) : f[i] = f[j] => i = j
      BY <1>2, <1>3 DEF At
    <3>3. \A j \in At(s, q) : \E i \in At(t, q) : f[i] = j
      BY <1>2, <1>3 DEF At
    <3> HIDE DEF f
    <3> QED BY <3>1, <3>2, <3>3 DEF Bijection, Injection, Surjection, IsInjective
  <2>2. IsFiniteSet(At(t, q))
    BY <1>5, SeqFacts
  <2>3. ExistsBijection(At(t, q), At(s, q))
    BY <2>1 DEF ExistsBijection
  <2> QED BY <2>2, <2>3, FS_Bijection
<1>7. ASSUME NEW m, \A i, j \in Where(s, m) : i = j, NEW i \in Where(t, m), NEW j \in Where(t, m)
      PROVE  i = j
  BY <1>2, <1>3, <1>7 DEF Where
<1>8. s = <<>> => t = <<>>
  <2>1. ASSUME s = <<>> PROVE t = <<>>
    <3>1. DOMAIN t = {}
      BY <1>2, <2>1
    <3>2. Len(t) = 0
      BY <1>5, <3>1
    <3> QED BY <1>5, <3>2
  <2> QED BY <2>1
<1> QED BY <1>2, <1>4, <1>5, <1>6, <1>7, <1>8
-----------------------------------------------------------------------------
(* What a step leaves alone                                                *)

\* The parts of StateOK, after a step.
LEMMA StateWillBe ==
  ASSUME pc' \in [Ranks -> {"work", "reduce", "counts", "data", "returned"}],
         phase' \in [Ranks -> 0 .. MaxPhases],
         posted' \in [Ranks -> Seq(CallSet)],
         send_buffer' \in [Ranks -> Seq(Msgs)], recv_buffer' \in [Ranks -> Seq(Msgs)],
         send_counts' \in [Ranks -> [Ranks -> Nat]],
         recv_counts' \in [Ranks -> [Ranks -> Nat]],
         consumed' \in [Ranks -> SUBSET Msgs],
         pushed_in' \in [Msgs -> {-1} \cup (0 .. MaxPhases - 1)],
         \A r \in Ranks : pc'[r] = "returned" <=> phase'[r] = MaxPhases
  PROVE  StateOK'
<1>1. ASSUME NEW r \in Ranks, NEW i \in DOMAIN posted'[r]
      PROVE  posted'[r][i].op \in {"allreduce", "alltoall", "alltoallv"}
  <2>1. posted'[r] \in Seq(CallSet)
    OBVIOUS
  <2>2. posted'[r][i] \in CallSet
    BY <2>1
  <2> QED BY <2>2 DEF CallSet
<1>2. TypeOK'
  BY <1>1 DEF TypeOK
<1> QED BY <1>2 DEF StateOK

\* The parts of ExchangeInv.
LEMMA Invariants ==
  ExchangeInv => /\ TypeOK /\ ExactlyOnePlace /\ CountsAgree /\ CollectivesMatch /\ PhasesSeparate
                 /\ StateOK /\ InStep /\ Ahead /\ LastCalls /\ BuffersInv /\ TransitInv /\ OnePhase
BY DEF ExchangeInv, FrontierInv

\* A rank sees the same of its call as long as neither moves on.
LEMMA DeliverySame ==
  ASSUME posted' = posted, NEW q \in Ranks, pc'[q] = pc[q]
  PROVE  /\ Delivered(q)' <=> Delivered(q)
         /\ Stopped(q)' <=> Stopped(q)
         /\ ToSend(q) = (IF Delivered(q) THEN <<>> ELSE send_buffer[q])
         /\ ToSend(q)' = (IF Delivered(q) THEN <<>> ELSE send_buffer'[q])
         /\ phase'[q] = phase[q] => PhaseOf(q)' = PhaseOf(q)
         /\ recv_counts'[q] = recv_counts[q] => InTransit(q)' = InTransit(q)
         /\ \A p \in Ranks : Arg(q, p)' = Arg(q, p)
<1>1. /\ Matched(q)' = Matched(q) /\ Total(q)' = Total(q)
      /\ \A p \in Ranks : Arg(q, p)' = Arg(q, p)
  BY PostedSame
<1>2. Delivered(q)' <=> Delivered(q)
  BY <1>1 DEF Delivered
<1>3. Stopped(q)' <=> Stopped(q)
  BY <1>1 DEF Stopped
<1>4. phase'[q] = phase[q] => PhaseOf(q)' = PhaseOf(q)
  BY <1>3 DEF PhaseOf
<1>5. recv_counts'[q] = recv_counts[q] => Received(q)' = Received(q)
  BY DEF Received, Gathered, Arg
<1>6. recv_counts'[q] = recv_counts[q] => InTransit(q)' = InTransit(q)
  BY <1>2, <1>5 DEF InTransit
<1>7. /\ ToSend(q) = (IF Delivered(q) THEN <<>> ELSE send_buffer[q])
      /\ ToSend(q)' = (IF Delivered(q) THEN <<>> ELSE send_buffer'[q])
  BY <1>2 DEF ToSend
<1> QED BY <1>1, <1>2, <1>3, <1>4, <1>6, <1>7

\* A message without a place.
LEMMA NoPlace ==
  ASSUME NEW m, Places(m) = {}, NEW q \in Ranks
  PROVE  /\ Where(ToSend(q), m) = {} /\ Where(InTransit(q), m) = {}
         /\ Where(recv_buffer[q], m) = {} /\ m \notin consumed[q]
<1>1. \A p : ~ IsPlace(p, m, q, ToSend(q), InTransit(q), recv_buffer[q], consumed[q])
  BY PlaceIs
<1>2. Where(ToSend(q), m) = {}
  <2>1. ASSUME NEW i \in Where(ToSend(q), m) PROVE FALSE
    BY <1>1 DEF IsPlace
  <2> QED BY <2>1
<1>3. Where(InTransit(q), m) = {}
  <2>1. ASSUME NEW i \in Where(InTransit(q), m) PROVE FALSE
    BY <1>1 DEF IsPlace
  <2> QED BY <2>1
<1>4. Where(recv_buffer[q], m) = {}
  <2>1. ASSUME NEW i \in Where(recv_buffer[q], m) PROVE FALSE
    BY <1>1 DEF IsPlace
  <2> QED BY <2>1
<1>5. m \notin consumed[q]
  BY <1>1 DEF IsPlace
<1> QED BY <1>2, <1>3, <1>4, <1>5

\* What is on its way to a rank.
LEMMA ReceivedFacts ==
  ASSUME ExchangeInv, NEW r \in Ranks, Delivered(r)
  PROVE  /\ Received(r) \in Seq(Msgs)
         /\ \A q \in Ranks : Arg(r, q)[r] \in Seq(Msgs) /\ Len(Arg(r, q)[r]) = recv_counts[r][q]
         /\ \A m \in Range(Received(r)) : Dest[m] = r /\ pushed_in[m] = phase[r]
         /\ recv_counts[r] \in [Ranks -> Nat]
<1>1. /\ StateOK /\ LastCalls /\ CollectivesMatch /\ TransitInv /\ CountsAgree /\ TypeOK
  BY Invariants
<1>2. ASSUME NEW q \in Ranks PROVE Arg(r, q)[r] \in Seq(Msgs)
  <2>1. pc[r] = "data" /\ Calls(q) >= Calls(r) /\ Calls(r) \in Nat /\ Calls(r) > 0
        /\ posted[r][Calls(r)].op = "alltoallv" /\ Calls(q) \in Nat
    BY <1>1, LastOp, CallFacts DEF Delivered, Matched, Calls, InComm
  <2>2. Calls(r) \in DOMAIN posted[r] /\ Calls(r) \in DOMAIN posted[q] /\ Calls(r) \in 1 .. Calls(q)
    BY <1>1, <2>1, CallFacts
  <2>3. posted[q][Calls(r)].op = "alltoallv"
    BY <1>1, <2>1, <2>2 DEF CollectivesMatch
  <2>4. Arg(r, q) \in [Ranks -> Seq(Msgs)]
    BY <1>1, <2>2, <2>3, CallFacts DEF Arg, Calls
  <2> QED BY <2>4
<1>3. \A q \in Ranks : Len(Arg(r, q)[r]) = recv_counts[r][q]
  BY <1>1 DEF CountsAgree
<1>4. recv_counts[r] \in [Ranks -> Nat]
  BY <1>1 DEF TypeOK
<1> DEFINE n == Summed(recv_counts[r])
<1>5. n \in Nat /\ Received(r) = [x \in 1 .. n |-> Received(r)[x]]
  BY <1>4, GatheredFacts, SummedZero DEF Received
<1>6. ASSUME NEW x \in 1 .. n
      PROVE  Received(r)[x] \in Msgs /\ Dest[Received(r)[x]] = r
             /\ pushed_in[Received(r)[x]] = phase[r]
  <2>1. PICK q \in Ranks : /\ x - displs(recv_counts[r])[q] \in 1 .. recv_counts[r][q]
                           /\ Received(r)[x] = Arg(r, q)[r][x - displs(recv_counts[r])[q]]
    BY <1>4, GatheredFacts DEF Received
  <2>2. x - displs(recv_counts[r])[q] \in DOMAIN Arg(r, q)[r]
    BY <1>2, <1>3, <2>1
  <2>3. Received(r)[x] \in Msgs /\ Received(r)[x] \in Range(Arg(r, q)[r])
    BY <1>2, <2>1, <2>2 DEF Range
  <2> QED BY <1>1, <2>3 DEF TransitInv
<1> HIDE DEF n
<1>7. Received(r) \in Seq(Msgs) /\ DOMAIN Received(r) = 1 .. n
  <2> DEFINE g == Received(r)
  <2>1. g = [x \in 1 .. n |-> g[x]] /\ \A x \in 1 .. n : g[x] \in Msgs
    BY <1>5, <1>6
  <2> HIDE DEF g
  <2>2. g \in [1 .. n -> Msgs]
    BY <2>1
  <2>3. g \in Seq(Msgs)
    BY <1>5, <2>2
  <2> QED BY <2>2, <2>3 DEF g
<1>8. \A m \in Range(Received(r)) : Dest[m] = r /\ pushed_in[m] = phase[r]
  BY <1>6, <1>7 DEF Range
<1> QED BY <1>2, <1>3, <1>4, <1>7, <1>8

\* ExchangeInv from its parts, after a step.
LEMMA Conclude ==
  ASSUME StateOK', ExactlyOnePlace', CountsAgree', CollectivesMatch', PhasesSeparate',
         InStep', Ahead', LastCalls', BuffersInv', TransitInv', OnePhase'
  PROVE  ExchangeInv'
BY DEF ExchangeInv, FrontierInv, StateOK

\* ExactlyOnePlace from its parts, after a step.
LEMMA PlacedOnceWill ==
  ASSUME \A m \in Msgs : PlacedOnce(m)',
         \A m \in Msgs : \A r \in Ranks :
           m \in consumed'[r] \cup Range(recv_buffer'[r]) => Dest[m] = r
  PROVE  ExactlyOnePlace'
BY DEF ExactlyOnePlace, PlacedOnce
-----------------------------------------------------------------------------
(* Between the exchanges                                                   *)

\* A rank that works between two calls disturbs nobody's place in the collectives.
LEMMA WorkKeeps ==
  ASSUME ExchangeInv, NEW r \in Ranks, pc[r] = "work",
         UNCHANGED <<pc, phase, posted, recv_counts>>,
         \A q \in Ranks \ {r} : /\ send_buffer'[q] = send_buffer[q]
                                /\ send_counts'[q] = send_counts[q]
                                /\ recv_buffer'[q] = recv_buffer[q]
  PROVE  /\ InStep' /\ Ahead' /\ CollectivesMatch' /\ LastCalls' /\ OnePhase' /\ BuffersInv'
         /\ ToSend(r) = send_buffer[r] /\ ToSend(r)' = send_buffer'[r]
         /\ \A q \in Ranks \ {r} : ToSend(q)' = ToSend(q)
         /\ \A q \in Ranks : /\ InTransit(q)' = InTransit(q) /\ (Delivered(q)' <=> Delivered(q))
                             /\ \A p \in Ranks : Arg(q, p)' = Arg(q, p)
         /\ phase[r] \in 0 .. MaxPhases - 1
<1>1. /\ StateOK /\ InStep /\ Ahead /\ LastCalls /\ CollectivesMatch /\ OnePhase /\ BuffersInv
      /\ posted' = posted /\ pc' = pc /\ phase' = phase /\ recv_counts' = recv_counts
  BY Invariants
<1>2. InStep' /\ Ahead' /\ CollectivesMatch' /\ LastCalls'
  <2>1. \A q \in Ranks : pc'[q] \in InComm =>
           send_counts'[q] = send_counts[q] /\ send_buffer'[q] = send_buffer[q]
    BY <1>1 DEF InComm
  <2> QED BY <1>1, <2>1, QuietKeeps
<1>3. \A q \in Ranks :
        /\ Delivered(q)' <=> Delivered(q)
        /\ PhaseOf(q)' = PhaseOf(q) /\ InTransit(q)' = InTransit(q)
        /\ ToSend(q) = (IF Delivered(q) THEN <<>> ELSE send_buffer[q])
        /\ ToSend(q)' = (IF Delivered(q) THEN <<>> ELSE send_buffer'[q])
        /\ \A p \in Ranks : Arg(q, p)' = Arg(q, p)
  BY <1>1, DeliverySame
<1>4. OnePhase'
  BY <1>1, <1>3 DEF OnePhase
<1>5. ~ Delivered(r)
  BY DEF Delivered
<1>6. ToSend(r) = send_buffer[r] /\ ToSend(r)' = send_buffer'[r]
      /\ \A q \in Ranks \ {r} : ToSend(q)' = ToSend(q)
  BY <1>3, <1>5
<1>7. BuffersInv'
  <2> SUFFICES ASSUME NEW q \in Ranks
               PROVE  /\ pc'[q] # "work" => recv_buffer'[q] = <<>>
                      /\ pc'[q] = "data" =>
                         /\ \A i, j \in DOMAIN send_buffer'[q] :
                              i < j => Dest[send_buffer'[q][i]] <= Dest[send_buffer'[q][j]]
                         /\ \A p \in Ranks : recv_counts'[q][p] = posted'[p][Calls(q)' - 1].arg[q]
    BY DEF BuffersInv
  <2>1. Calls(q)' = Calls(q)
    BY <1>1 DEF Calls
  <2>2. CASE q = r
    BY <1>1, <2>2
  <2>3. CASE q # r
    BY <1>1, <2>1, <2>3 DEF BuffersInv
  <2> QED BY <2>2, <2>3
<1>8. phase[r] \in 0 .. MaxPhases - 1
  BY <1>1, RankFacts DEF StateOK, TypeOK
<1> QED BY <1>2, <1>3, <1>4, <1>6, <1>7, <1>8

\* A message pushed is in the send buffer, and nowhere else.
LEMMA PushKeeps ==
  ASSUME ExchangeInv, NEW r \in Ranks, NEW x \in Msgs, push(r, x)
  PROVE  ExchangeInv'
<1>1. /\ StateOK /\ TypeOK /\ ExactlyOnePlace /\ CountsAgree /\ PhasesSeparate /\ TransitInv
  BY Invariants
<1>2. /\ pc[r] = "work" /\ pushed_in[x] = -1
      /\ send_buffer' = [send_buffer EXCEPT ![r] = Append(send_buffer[r], x)]
      /\ send_counts' = [send_counts EXCEPT ![r][Dest[x]] = send_counts[r][Dest[x]] + 1]
      /\ pushed_in' = [pushed_in EXCEPT ![x] = phase[r]]
      /\ pc' = pc /\ phase' = phase /\ posted' = posted /\ recv_buffer' = recv_buffer
      /\ recv_counts' = recv_counts /\ consumed' = consumed
  BY DEF push
<1>3. /\ send_buffer \in [Ranks -> Seq(Msgs)] /\ send_buffer[r] \in Seq(Msgs)
      /\ send_counts \in [Ranks -> [Ranks -> Nat]]
      /\ pushed_in \in [Msgs -> {-1} \cup (0 .. MaxPhases - 1)] /\ Dest[x] \in Ranks
  BY <1>1, RankFacts DEF StateOK, TypeOK
<1>4. /\ send_buffer'[r] = Append(send_buffer[r], x)
      /\ \A q \in Ranks \ {r} : /\ send_buffer'[q] = send_buffer[q]
                                /\ send_counts'[q] = send_counts[q]
      /\ \A q \in Ranks : send_counts'[r][q] = IF q = Dest[x] THEN send_counts[r][q] + 1
                                               ELSE send_counts[r][q]
      /\ pushed_in'[x] = phase[r] /\ \A m \in Msgs \ {x} : pushed_in'[m] = pushed_in[m]
  BY <1>2, <1>3
<1>5. /\ InStep' /\ Ahead' /\ CollectivesMatch' /\ LastCalls' /\ OnePhase' /\ BuffersInv'
      /\ ToSend(r) = send_buffer[r] /\ ToSend(r)' = send_buffer'[r]
      /\ \A q \in Ranks \ {r} : ToSend(q)' = ToSend(q)
      /\ \A q \in Ranks : /\ InTransit(q)' = InTransit(q) /\ (Delivered(q)' <=> Delivered(q))
                          /\ \A p \in Ranks : Arg(q, p)' = Arg(q, p)
      /\ phase[r] \in 0 .. MaxPhases - 1
  BY <1>2, <1>4, WorkKeeps
<1>6. /\ send_buffer'[r] \in Seq(Msgs)
      /\ \A m : Where(send_buffer'[r], m) = IF m = x THEN Where(send_buffer[r], m) \cup {Len(send_buffer[r]) + 1}
                                            ELSE Where(send_buffer[r], m)
      /\ \A q : Cardinality(At(send_buffer'[r], q)) =
                  IF Dest[x] = q THEN Cardinality(At(send_buffer[r], q)) + 1
                  ELSE Cardinality(At(send_buffer[r], q))
  BY <1>3, <1>4, AppendFacts
<1>7. StateOK'
  <2>1. send_buffer' \in [Ranks -> Seq(Msgs)]
    BY <1>2, <1>3, <1>4, <1>6
  <2>2. send_counts' \in [Ranks -> [Ranks -> Nat]]
    BY <1>2, <1>3
  <2>3. pushed_in' \in [Msgs -> {-1} \cup (0 .. MaxPhases - 1)]
    BY <1>2, <1>3, <1>5
  <2> QED BY <1>1, <1>2, <2>1, <2>2, <2>3, StateWillBe DEF StateOK, TypeOK
<1>8. /\ \A q \in Ranks : Where(ToSend(q), x) = {} /\ Where(InTransit(q), x) = {}
                          /\ Where(recv_buffer[q], x) = {} /\ x \notin consumed[q]
  <2>1. Places(x) = {}
    BY <1>1, <1>2 DEF ExactlyOnePlace
  <2> QED BY <2>1, NoPlace
<1>9. ExactlyOnePlace'
  <2>1. ASSUME NEW m \in Msgs, m # x
        PROVE  PlacedOnce(m)'
    <3>1. \A q \in Ranks : Where(ToSend(q)', m) = Where(ToSend(q), m)
      BY <1>4, <1>5, <1>6, <2>1
    <3>2. Places(m)' = Places(m)
      BY <1>2, <1>5, <3>1, PlacesSame
    <3>3. PlacedOnce(m) /\ pushed_in'[m] = pushed_in[m]
      BY <1>1, <1>4, <2>1, PlacedOnceFacts
    <3> QED BY <3>2, <3>3 DEF PlacedOnce
  <2>2. PlacedOnce(x)'
    <3> DEFINE o == <<"sent", r, Len(send_buffer[r]) + 1>>
    <3>1. ASSUME NEW p, NEW q \in Ranks
          PROVE  IsPlace(p, x, q, ToSend(q)', InTransit(q)', recv_buffer'[q], consumed'[q])
                   <=> q = r /\ p = o
      <4>1. CASE q = r
        <5>1. /\ Where(ToSend(q)', x) = {Len(send_buffer[r]) + 1}
              /\ Where(InTransit(q)', x) = {} /\ Where(recv_buffer'[q], x) = {}
              /\ x \notin consumed'[q]
          BY <1>2, <1>5, <1>6, <1>8, <4>1
        <5> QED BY <4>1, <5>1 DEF IsPlace
      <4>2. CASE q # r
        <5>1. /\ Where(ToSend(q)', x) = {}
              /\ Where(InTransit(q)', x) = {} /\ Where(recv_buffer'[q], x) = {}
              /\ x \notin consumed'[q]
          BY <1>2, <1>5, <1>8, <4>2
        <5> QED BY <4>2, <5>1 DEF IsPlace
      <4> QED BY <4>1, <4>2
    <3> HIDE DEF o
    <3>2. Places(x)' = {o}
      <4>1. ASSUME NEW p PROVE p \in Places(x)' <=> p = o
        BY <3>1, PlaceWillBe
      <4> QED BY <4>1
    <3>3. pushed_in'[x] # -1
      BY <1>4, <1>5, RankFacts
    <3> QED BY <3>2, <3>3 DEF PlacedOnce
  <2>3. ASSUME NEW m \in Msgs, NEW q \in Ranks, m \in consumed'[q] \cup Range(recv_buffer'[q])
        PROVE  Dest[m] = q
    BY <1>1, <1>2, <2>3 DEF ExactlyOnePlace
  <2> QED BY <2>1, <2>2, <2>3, PlacedOnceWill
<1>10. CountsAgree'
  <2>1. ASSUME NEW q \in Ranks, NEW p \in Ranks
        PROVE  send_counts'[q][p] = Cardinality(At(send_buffer'[q], p))
    <3>1. \A k \in Ranks : send_counts[q][k] = Cardinality(At(send_buffer[q], k))
      BY <1>1 DEF CountsAgree, At
    <3>2. CASE q = r
      <4>1. send_counts'[r][p] = IF p = Dest[x] THEN send_counts[r][p] + 1 ELSE send_counts[r][p]
        BY <1>4
      <4>2. Cardinality(At(send_buffer'[r], p)) =
              IF Dest[x] = p THEN Cardinality(At(send_buffer[r], p)) + 1
              ELSE Cardinality(At(send_buffer[r], p))
        BY <1>6
      <4>3. send_counts[r][p] = Cardinality(At(send_buffer[r], p))
        BY <3>1, <3>2
      <4>4. send_counts'[r][p] = Cardinality(At(send_buffer'[r], p))
        BY <4>1, <4>2, <4>3
      <4> QED BY <3>2, <4>4
    <3>3. CASE q # r
      BY <1>4, <3>1, <3>3
    <3> QED BY <3>2, <3>3
  <2>2. ASSUME NEW q \in Ranks, Delivered(q)', NEW p \in Ranks
        PROVE  recv_counts'[q][p] = Len(Arg(q, p)'[q])
    BY <1>1, <1>2, <1>5, <2>2 DEF CountsAgree
  <2> QED BY <2>1, <2>2 DEF CountsAgree, At
<1>11. PhasesSeparate' /\ TransitInv'
  <2>1. \A m : m # x => pushed_in'[m] = pushed_in[m]
    BY <1>2, <1>3
  <2>2. \A q \in Ranks : phase[q] # -1
    BY <1>1, RankFacts DEF TypeOK
  <2>3. ASSUME NEW q \in Ranks, NEW m \in Range(recv_buffer'[q]) PROVE pushed_in'[m] = phase'[q]
    <3>1. pushed_in[m] = phase[q]
      BY <1>1, <1>2, <2>3 DEF PhasesSeparate
    <3> QED BY <1>2, <2>2, <3>1
  <2>4. ASSUME NEW q \in Ranks, NEW m \in Range(ToSend(q)') PROVE pushed_in'[m] = phase'[q]
    <3>1. CASE q # r
      <4>1. pushed_in[m] = phase[q]
        BY <1>1, <1>5, <2>4, <3>1 DEF TransitInv
      <4> QED BY <1>2, <2>2, <4>1
    <3>2. CASE q = r
      <4>1. m = x \/ m \in Range(send_buffer[r])
        BY <1>3, <1>5, <1>6, <2>4, <3>2, SeqFacts
      <4>2. m \in Range(send_buffer[r]) => pushed_in[m] = phase[r]
        BY <1>1, <1>5 DEF TransitInv
      <4> QED BY <1>2, <1>4, <2>2, <3>2, <4>1, <4>2
    <3> QED BY <3>1, <3>2
  <2>5. ASSUME NEW q \in Ranks, Delivered(q)', NEW p \in Ranks, NEW m \in Range(Arg(q, p)'[q])
        PROVE  Dest[m] = q /\ pushed_in'[m] = phase'[q]
    <3>1. Dest[m] = q /\ pushed_in[m] = phase[q]
      BY <1>1, <1>5, <2>5 DEF TransitInv
    <3> QED BY <1>2, <2>2, <3>1
  <2> QED BY <2>3, <2>4, <2>5 DEF PhasesSeparate, TransitInv
<1> QED BY <1>5, <1>7, <1>9, <1>10, <1>11, Conclude

\* A message a rank keeps for itself is in the receive buffer, and nowhere else.
LEMMA LocalPushKeeps ==
  ASSUME ExchangeInv, NEW r \in Ranks, NEW x \in Msgs, local_push(r, x)
  PROVE  ExchangeInv'
<1>1. /\ StateOK /\ TypeOK /\ ExactlyOnePlace /\ CountsAgree /\ PhasesSeparate /\ TransitInv
  BY Invariants
<1>2. /\ pc[r] = "work" /\ pushed_in[x] = -1 /\ Dest[x] = r
      /\ recv_buffer' = [recv_buffer EXCEPT ![r] = Append(recv_buffer[r], x)]
      /\ pushed_in' = [pushed_in EXCEPT ![x] = phase[r]]
      /\ pc' = pc /\ phase' = phase /\ posted' = posted /\ send_buffer' = send_buffer
      /\ send_counts' = send_counts /\ recv_counts' = recv_counts /\ consumed' = consumed
  BY DEF local_push
<1>3. /\ recv_buffer \in [Ranks -> Seq(Msgs)] /\ recv_buffer[r] \in Seq(Msgs)
      /\ pushed_in \in [Msgs -> {-1} \cup (0 .. MaxPhases - 1)]
  BY <1>1 DEF StateOK, TypeOK
<1>4. /\ recv_buffer'[r] = Append(recv_buffer[r], x)
      /\ \A q \in Ranks \ {r} : recv_buffer'[q] = recv_buffer[q]
      /\ pushed_in'[x] = phase[r] /\ \A m : m # x => pushed_in'[m] = pushed_in[m]
  BY <1>2, <1>3
<1>5. /\ InStep' /\ Ahead' /\ CollectivesMatch' /\ LastCalls' /\ OnePhase' /\ BuffersInv'
      /\ ToSend(r) = send_buffer[r] /\ ToSend(r)' = send_buffer'[r]
      /\ \A q \in Ranks \ {r} : ToSend(q)' = ToSend(q)
      /\ \A q \in Ranks : /\ InTransit(q)' = InTransit(q) /\ (Delivered(q)' <=> Delivered(q))
                          /\ \A p \in Ranks : Arg(q, p)' = Arg(q, p)
      /\ phase[r] \in 0 .. MaxPhases - 1
  BY <1>2, <1>4, WorkKeeps
<1>6. \A q \in Ranks : ToSend(q)' = ToSend(q)
  BY <1>2, <1>5
<1>7. /\ recv_buffer'[r] \in Seq(Msgs)
      /\ \A m : Where(recv_buffer'[r], m) = IF m = x THEN Where(recv_buffer[r], m) \cup {Len(recv_buffer[r]) + 1}
                                            ELSE Where(recv_buffer[r], m)
  BY <1>3, <1>4, AppendFacts
<1>8. StateOK'
  <2>1. recv_buffer' \in [Ranks -> Seq(Msgs)]
    BY <1>2, <1>3, <1>4, <1>7
  <2>2. pushed_in' \in [Msgs -> {-1} \cup (0 .. MaxPhases - 1)]
    BY <1>2, <1>3, <1>5
  <2> QED BY <1>1, <1>2, <2>1, <2>2, StateWillBe DEF StateOK, TypeOK
<1>9. /\ \A q \in Ranks : Where(ToSend(q), x) = {} /\ Where(InTransit(q), x) = {}
                          /\ Where(recv_buffer[q], x) = {} /\ x \notin consumed[q]
  <2>1. Places(x) = {}
    BY <1>1, <1>2 DEF ExactlyOnePlace
  <2> QED BY <2>1, NoPlace
\* What r may find in its buffer.
<1>10. \A m \in Range(recv_buffer'[r]) : m = x \/ m \in Range(recv_buffer[r])
  BY <1>3, <1>7, SeqFacts
<1>11. ExactlyOnePlace'
  <2>1. ASSUME NEW m \in Msgs, m # x
        PROVE  PlacedOnce(m)'
    <3>1. \A q \in Ranks : Where(recv_buffer'[q], m) = Where(recv_buffer[q], m)
      BY <1>4, <1>7, <2>1
    <3>2. Places(m)' = Places(m)
      BY <1>2, <1>5, <1>6, <3>1, PlacesSame
    <3>3. PlacedOnce(m) /\ pushed_in'[m] = pushed_in[m]
      BY <1>1, <1>4, <2>1, PlacedOnceFacts
    <3> QED BY <3>2, <3>3 DEF PlacedOnce
  <2>2. PlacedOnce(x)'
    <3> DEFINE o == <<"received", r, Len(recv_buffer[r]) + 1>>
    <3>1. ASSUME NEW p, NEW q \in Ranks
          PROVE  IsPlace(p, x, q, ToSend(q)', InTransit(q)', recv_buffer'[q], consumed'[q])
                   <=> q = r /\ p = o
      <4>1. CASE q = r
        <5>1. /\ Where(recv_buffer'[q], x) = {Len(recv_buffer[r]) + 1}
              /\ Where(ToSend(q)', x) = {} /\ Where(InTransit(q)', x) = {}
              /\ x \notin consumed'[q]
          BY <1>2, <1>5, <1>6, <1>7, <1>9, <4>1
        <5> QED BY <4>1, <5>1 DEF IsPlace
      <4>2. CASE q # r
        <5>1. /\ Where(ToSend(q)', x) = {}
              /\ Where(InTransit(q)', x) = {} /\ Where(recv_buffer'[q], x) = {}
              /\ x \notin consumed'[q]
          BY <1>2, <1>4, <1>5, <1>6, <1>9, <4>2
        <5> QED BY <4>2, <5>1 DEF IsPlace
      <4> QED BY <4>1, <4>2
    <3> HIDE DEF o
    <3>2. Places(x)' = {o}
      <4>1. ASSUME NEW p PROVE p \in Places(x)' <=> p = o
        BY <3>1, PlaceWillBe
      <4> QED BY <4>1
    <3>3. pushed_in'[x] # -1
      BY <1>4, <1>5, RankFacts
    <3> QED BY <3>2, <3>3 DEF PlacedOnce
  <2>3. ASSUME NEW m \in Msgs, NEW q \in Ranks, m \in consumed'[q] \cup Range(recv_buffer'[q])
        PROVE  Dest[m] = q
    <3>1. CASE q = r
      BY <1>1, <1>2, <1>10, <2>3, <3>1 DEF ExactlyOnePlace
    <3>2. CASE q # r
      BY <1>1, <1>2, <1>4, <2>3, <3>2 DEF ExactlyOnePlace
    <3> QED BY <3>1, <3>2
  <2> QED BY <2>1, <2>2, <2>3, PlacedOnceWill
<1>12. CountsAgree'
  <2>1. ASSUME NEW q \in Ranks, Delivered(q)', NEW p \in Ranks
        PROVE  recv_counts'[q][p] = Len(Arg(q, p)'[q])
    BY <1>1, <1>2, <1>5, <2>1 DEF CountsAgree
  <2> QED BY <1>1, <1>2, <2>1 DEF CountsAgree
<1>13. PhasesSeparate' /\ TransitInv'
  <2>2. \A q \in Ranks : phase[q] # -1
    BY <1>1, RankFacts DEF TypeOK
  <2>3. ASSUME NEW q \in Ranks, NEW m \in Range(recv_buffer'[q]) PROVE pushed_in'[m] = phase'[q]
    <3>1. CASE q # r
      <4>1. pushed_in[m] = phase[q]
        BY <1>1, <1>4, <2>3, <3>1 DEF PhasesSeparate
      <4> QED BY <1>2, <1>4, <2>2, <4>1
    <3>2. CASE q = r
      <4>1. m = x \/ m \in Range(recv_buffer[r])
        BY <1>10, <2>3, <3>2
      <4>2. m \in Range(recv_buffer[r]) => pushed_in[m] = phase[r]
        BY <1>1 DEF PhasesSeparate
      <4> QED BY <1>2, <1>4, <2>2, <3>2, <4>1, <4>2
    <3> QED BY <3>1, <3>2
  <2>4. ASSUME NEW q \in Ranks, NEW m \in Range(ToSend(q)') PROVE pushed_in'[m] = phase'[q]
    <3>1. pushed_in[m] = phase[q]
      BY <1>1, <1>6, <2>4 DEF TransitInv
    <3> QED BY <1>2, <1>4, <2>2, <3>1
  <2>5. ASSUME NEW q \in Ranks, Delivered(q)', NEW p \in Ranks, NEW m \in Range(Arg(q, p)'[q])
        PROVE  Dest[m] = q /\ pushed_in'[m] = phase'[q]
    <3>1. Dest[m] = q /\ pushed_in[m] = phase[q]
      BY <1>1, <1>5, <2>5 DEF TransitInv
    <3> QED BY <1>2, <1>4, <2>2, <3>1
  <2> QED BY <2>3, <2>4, <2>5 DEF PhasesSeparate, TransitInv
<1> QED BY <1>5, <1>8, <1>11, <1>12, <1>13, Conclude

\* A message taken from the receive buffer is consumed.
LEMMA NextKeeps ==
  ASSUME ExchangeInv, NEW r \in Ranks, next(r)
  PROVE  ExchangeInv'
<1>0. PICK x : x = Last(recv_buffer[r])
  OBVIOUS
<1>1. /\ StateOK /\ TypeOK /\ ExactlyOnePlace /\ CountsAgree /\ PhasesSeparate /\ TransitInv
  BY Invariants
<1>2. /\ pc[r] = "work" /\ recv_buffer[r] # <<>>
      /\ consumed' = [consumed EXCEPT ![r] = consumed[r] \cup {x}]
      /\ recv_buffer' = [recv_buffer EXCEPT ![r] = Front(recv_buffer[r])]
      /\ pc' = pc /\ phase' = phase /\ posted' = posted /\ send_buffer' = send_buffer
      /\ send_counts' = send_counts /\ recv_counts' = recv_counts /\ pushed_in' = pushed_in
  BY <1>0 DEF next
<1>3. /\ recv_buffer \in [Ranks -> Seq(Msgs)] /\ recv_buffer[r] \in Seq(Msgs)
      /\ consumed \in [Ranks -> SUBSET Msgs]
  BY <1>1 DEF StateOK, TypeOK
<1>4. /\ Front(recv_buffer[r]) \in Seq(Msgs) /\ x \in Msgs /\ x \in Range(recv_buffer[r])
      /\ Len(recv_buffer[r]) \in Where(recv_buffer[r], x)
      /\ \A m : Where(Front(recv_buffer[r]), m) =
                  Where(recv_buffer[r], m) \ {i \in {Len(recv_buffer[r])} : m = x}
      /\ Range(Front(recv_buffer[r])) \subseteq Range(recv_buffer[r])
  BY <1>0, <1>2, <1>3, FrontFacts
<1>5. /\ recv_buffer'[r] = Front(recv_buffer[r]) /\ consumed'[r] = consumed[r] \cup {x}
      /\ \A q \in Ranks \ {r} : recv_buffer'[q] = recv_buffer[q] /\ consumed'[q] = consumed[q]
  BY <1>2, <1>3
<1>6. /\ InStep' /\ Ahead' /\ CollectivesMatch' /\ LastCalls' /\ OnePhase' /\ BuffersInv'
      /\ ToSend(r) = send_buffer[r] /\ ToSend(r)' = send_buffer'[r]
      /\ \A q \in Ranks \ {r} : ToSend(q)' = ToSend(q)
      /\ \A q \in Ranks : /\ InTransit(q)' = InTransit(q) /\ (Delivered(q)' <=> Delivered(q))
                          /\ \A p \in Ranks : Arg(q, p)' = Arg(q, p)
      /\ phase[r] \in 0 .. MaxPhases - 1
  BY <1>2, <1>5, WorkKeeps
<1>7. \A q \in Ranks : ToSend(q)' = ToSend(q)
  BY <1>2, <1>6
<1>8. StateOK'
  <2>1. recv_buffer' \in [Ranks -> Seq(Msgs)]
    BY <1>2, <1>3, <1>4
  <2>2. consumed' \in [Ranks -> SUBSET Msgs]
    BY <1>2, <1>3, <1>4
  <2> QED BY <1>1, <1>2, <2>1, <2>2, StateWillBe DEF StateOK, TypeOK
<1>9. ExactlyOnePlace'
  <2>1. ASSUME NEW m \in Msgs, m # x
        PROVE  PlacedOnce(m)'
    <3>1. \A q \in Ranks : Where(recv_buffer'[q], m) = Where(recv_buffer[q], m)
      BY <1>4, <1>5, <2>1
    <3>2. \A q \in Ranks : m \in consumed[q] <=> m \in consumed'[q]
      BY <1>5, <2>1
    <3>3. Places(m)' = Places(m)
      BY <1>6, <1>7, <3>1, <3>2, PlacesSame
    <3>4. PlacedOnce(m)
      BY <1>1, PlacedOnceFacts
    <3> QED BY <1>2, <3>3, <3>4 DEF PlacedOnce
  <2>2. PlacedOnce(x)'
    <3> DEFINE o == <<"received", r, Len(recv_buffer[r])>>
               c == <<"consumed", r, x>>
    <3>1. o \in Places(x)
      <4>1. IsPlace(o, x, r, ToSend(r), InTransit(r), recv_buffer[r], consumed[r])
        BY <1>4 DEF IsPlace
      <4> QED BY <4>1, PlaceIs
    <3>2. \A p \in Places(x) : p = o
      BY <1>1, <1>4, <3>1, PlacedOnceFacts DEF PlacedOnce
    <3>3. \A q \in Ranks : /\ Where(ToSend(q), x) = {} /\ Where(InTransit(q), x) = {}
                           /\ x \notin consumed[q]
                           /\ \A i \in Where(recv_buffer[q], x) : q = r /\ i = Len(recv_buffer[r])
      <4> SUFFICES ASSUME NEW q \in Ranks
                   PROVE  /\ Where(ToSend(q), x) = {} /\ Where(InTransit(q), x) = {}
                          /\ x \notin consumed[q]
                          /\ \A i \in Where(recv_buffer[q], x) : q = r /\ i = Len(recv_buffer[r])
        OBVIOUS
      <4>1. ASSUME NEW p, IsPlace(p, x, q, ToSend(q), InTransit(q), recv_buffer[q], consumed[q])
            PROVE  p = o
        BY <3>2, <4>1, PlaceIs
      <4>2. ASSUME NEW i \in Where(ToSend(q), x) PROVE FALSE
        <5>1. <<"sent", q, i>> = o
          BY <4>1 DEF IsPlace
        <5> QED BY <5>1
      <4>3. ASSUME NEW i \in Where(InTransit(q), x) PROVE FALSE
        <5>1. <<"transit", q, i>> = o
          BY <4>1 DEF IsPlace
        <5> QED BY <5>1
      <4>4. ASSUME x \in consumed[q] PROVE FALSE
        <5>1. <<"consumed", q, x>> = o
          BY <4>1, <4>4 DEF IsPlace
        <5> QED BY <5>1
      <4>5. ASSUME NEW i \in Where(recv_buffer[q], x) PROVE q = r /\ i = Len(recv_buffer[r])
        <5>1. <<"received", q, i>> = o
          BY <4>1 DEF IsPlace
        <5> QED BY <5>1
      <4> QED BY <4>2, <4>3, <4>4, <4>5
    <3>4. \A q \in Ranks : Where(recv_buffer'[q], x) = {}
      BY <1>4, <1>5, <3>3
    <3>5. ASSUME NEW p, NEW q \in Ranks
          PROVE  IsPlace(p, x, q, ToSend(q)', InTransit(q)', recv_buffer'[q], consumed'[q])
                   <=> q = r /\ p = c
      <4>1. /\ Where(ToSend(q)', x) = {} /\ Where(InTransit(q)', x) = {}
            /\ Where(recv_buffer'[q], x) = {} /\ (x \in consumed'[q] <=> q = r)
        BY <1>5, <1>6, <1>7, <3>3, <3>4
      <4> QED BY <4>1 DEF IsPlace
    <3> HIDE DEF o, c
    <3>6. Places(x)' = {c}
      <4>1. ASSUME NEW p PROVE p \in Places(x)' <=> p = c
        BY <3>5, PlaceWillBe
      <4> QED BY <4>1
    <3>7. pushed_in'[x] # -1
      BY <1>1, <1>2, <1>4, <3>1, PlacedOnceFacts DEF PlacedOnce
    <3> QED BY <3>6, <3>7 DEF PlacedOnce
  <2>3. ASSUME NEW m \in Msgs, NEW q \in Ranks, m \in consumed'[q] \cup Range(recv_buffer'[q])
        PROVE  Dest[m] = q
    <3>1. m \in consumed[q] \cup Range(recv_buffer[q])
      BY <1>4, <1>5, <2>3
    <3> QED BY <1>1, <3>1 DEF ExactlyOnePlace
  <2> QED BY <2>1, <2>2, <2>3, PlacedOnceWill
<1>10. CountsAgree'
  <2>1. ASSUME NEW q \in Ranks, Delivered(q)', NEW p \in Ranks
        PROVE  recv_counts'[q][p] = Len(Arg(q, p)'[q])
    BY <1>1, <1>2, <1>6, <2>1 DEF CountsAgree
  <2> QED BY <1>1, <1>2, <2>1 DEF CountsAgree
<1>11. PhasesSeparate' /\ TransitInv'
  <2>1. ASSUME NEW q \in Ranks, NEW m \in Range(recv_buffer'[q]) PROVE pushed_in'[m] = phase'[q]
    <3>1. m \in Range(recv_buffer[q])
      BY <1>4, <1>5, <2>1
    <3> QED BY <1>1, <1>2, <3>1 DEF PhasesSeparate
  <2>2. ASSUME NEW q \in Ranks, NEW m \in Range(ToSend(q)') PROVE pushed_in'[m] = phase'[q]
    BY <1>1, <1>2, <1>7, <2>2 DEF TransitInv
  <2>3. ASSUME NEW q \in Ranks, Delivered(q)', NEW p \in Ranks, NEW m \in Range(Arg(q, p)'[q])
        PROVE  Dest[m] = q /\ pushed_in'[m] = phase'[q]
    BY <1>1, <1>2, <1>6, <2>3 DEF TransitInv
  <2> QED BY <2>1, <2>2, <2>3 DEF PhasesSeparate, TransitInv
<1> QED BY <1>6, <1>8, <1>9, <1>10, <1>11, Conclude
-----------------------------------------------------------------------------
(* Calls that deliver nothing                                              *)

\* A buffer is empty when its counts add up to zero.
LEMMA EmptyBuffer ==
  ASSUME NEW s \in Seq(Msgs), NEW counts \in [Ranks -> Nat],
         \A q \in Ranks : counts[q] = Cardinality(At(s, q))
  PROVE  Summed(counts) = 0 <=> s = <<>>
<1>1. Summed(counts) = 0 <=> \A q \in Ranks : counts[q] = 0
  BY SummedZero
<1>2. \A q : counts[q] = 0 /\ q \in Ranks => At(s, q) = {}
  BY SeqFacts, FS_EmptySet
<1>3. ASSUME \A q \in Ranks : counts[q] = 0 PROVE s = <<>>
  <2>1. \A i \in DOMAIN s : FALSE
    <3>1. ASSUME NEW i \in DOMAIN s PROVE FALSE
      <4>1. s[i] \in Msgs /\ Dest[s[i]] \in Ranks
        BY RankFacts
      <4> QED BY <1>2, <1>3, <4>1 DEF At
    <3> QED BY <3>1
  <2>2. Len(s) \in Nat /\ DOMAIN s = 1 .. Len(s)
    BY SeqFacts
  <2>3. Len(s) = 0
    BY <2>1, <2>2
  <2> QED BY <2>3
<1>4. ASSUME s = <<>> PROVE \A q \in Ranks : counts[q] = 0
  <2>1. \A q \in Ranks : At(s, q) = {}
    BY <1>4 DEF At
  <2> QED BY <2>1, FS_EmptySet
<1> QED BY <1>1, <1>3, <1>4

\* What r sends in an allreduce tells whether its buffer is empty.
LEMMA EmptyCounts ==
  ASSUME StateOK, CountsAgree, NEW r \in Ranks
  PROVE  Summed(send_counts[r]) \in Nat /\ (Summed(send_counts[r]) = 0 <=> send_buffer[r] = <<>>)
<1>1. send_counts[r] \in [Ranks -> Nat] /\ send_buffer[r] \in Seq(Msgs)
  BY DEF StateOK, TypeOK
<1>2. \A q \in Ranks : send_counts[r][q] = Cardinality(At(send_buffer[r], q))
  BY DEF CountsAgree, At
<1> QED BY <1>1, <1>2, EmptyBuffer, SummedZero

\* The arguments of a call that all ranks have made stay.
LEMMA ArgsStay ==
  ASSUME StateOK, InStep, NEW r, NEW c, Posts(r, c), NEW q \in Ranks \ {r}, Matched(q), Calls(q) > 0
  PROVE  /\ \A p \in Ranks : Arg(q, p)' = Arg(q, p)
         /\ Total(q)' = Total(q)
         /\ recv_counts'[q] = recv_counts[q] => Received(q)' = Received(q)
<1>1. /\ Calls(q)' = Calls(q) /\ Calls(q) \in Nat
      /\ \A p \in Ranks : Calls(p) \in Nat
      /\ \A p \in Ranks : \A i \in 1 .. Calls(p) : posted'[p][i] = posted[p][i]
  BY PostsFacts
<1>2. ASSUME NEW p \in Ranks PROVE Arg(q, p)' = Arg(q, p)
  <2>1. Calls(q) \in 1 .. Calls(p)
    BY <1>1 DEF Matched, Calls
  <2>2. Arg(q, p) = posted[p][Calls(q)].arg /\ Arg(q, p)' = posted'[p][Calls(q)'].arg
    BY DEF Arg, Calls
  <2> QED BY <1>1, <2>1, <2>2
<1>3. Total(q)' = Total(q)
  BY <1>2 DEF Total
<1>4. ASSUME recv_counts'[q] = recv_counts[q] PROVE Received(q)' = Received(q)
  <2>1. PICK counts : counts = recv_counts[q]
    OBVIOUS
  <2>2. counts \in [Ranks -> Nat]
    BY <2>1 DEF StateOK, TypeOK
  <2> DEFINE From(x) == CHOOSE p \in Ranks : displs(counts)[p] < x /\ x <= displs(counts)[p + 1]
  <2>3. ASSUME NEW x \in 1 .. Summed(counts) PROVE From(x) \in Ranks
    BY <2>2, OneSlice
  <2>4. Received(q) = [x \in 1 .. Summed(counts) |-> Arg(q, From(x))[q][x - displs(counts)[From(x)]]]
    BY <2>1 DEF Received, Gathered, Summed
  <2>5. Received(q)' = [x \in 1 .. Summed(counts) |-> Arg(q, From(x))'[q][x - displs(counts)[From(x)]]]
    BY <1>4, <2>1 DEF Received, Gathered, Summed
  <2> HIDE DEF From
  <2>6. \A x \in 1 .. Summed(counts) : Arg(q, From(x))' = Arg(q, From(x))
    BY <1>2, <2>3
  <2> QED BY <2>4, <2>5, <2>6
<1> QED BY <1>2, <1>3, <1>4

\* A call that delivers nothing leaves every message where it is.
LEMMA PostKeeps ==
  ASSUME ExchangeInv, NEW r, NEW c, Posts(r, c), Follows(r, c), c.op # "alltoallv",
         recv_buffer[r] = <<>>, \A q \in Ranks \ {r} : pc'[q] = pc[q],
         UNCHANGED <<phase, send_buffer, send_counts, recv_buffer, recv_counts, consumed, pushed_in>>
  PROVE  /\ InStep' /\ Ahead' /\ CollectivesMatch' /\ ExactlyOnePlace' /\ CountsAgree'
         /\ PhasesSeparate' /\ TransitInv' /\ BuffersInv'
         /\ \A q \in Ranks \ {r} : LastCall(q, Calls(q))'
         /\ \A q \in Ranks : ToSend(q)' = ToSend(q) /\ InTransit(q)' = InTransit(q)
         /\ \A q \in Ranks : Delivered(q)' <=> Delivered(q)
         /\ \A q \in Ranks \ {r} : Calls(q) = Calls(r) => (Stopped(q)' <=> Stopped(q))
<1>1. /\ StateOK /\ InStep /\ Ahead /\ CollectivesMatch /\ ExactlyOnePlace /\ CountsAgree
      /\ PhasesSeparate /\ TransitInv /\ BuffersInv /\ LastCalls
      /\ phase' = phase /\ send_buffer' = send_buffer /\ send_counts' = send_counts
      /\ recv_buffer' = recv_buffer /\ recv_counts' = recv_counts /\ consumed' = consumed
      /\ pushed_in' = pushed_in /\ r \in Ranks
  BY Invariants DEF Posts
<1>2. pc[r] \in {"work", "reduce"} /\ pc'[r] \in {"reduce", "counts"}
  BY DEF Follows
<1>3. InStep' /\ Ahead' /\ CollectivesMatch'
  BY <1>1, PostsKeep
<1>4. \A q \in Ranks \ {r} : LastCall(q, Calls(q))'
  BY <1>1, LastCallsStay
<1>5. /\ \A q \in Ranks : \A i \in 1 .. Calls(q) : posted'[q][i] = posted[q][i]
      /\ \A q \in Ranks : Calls(q) \in Nat /\ Calls(r) <= Calls(q) /\ Calls(q) <= Calls(r) + 1
      /\ \A q \in Ranks \ {r} : Calls(q)' = Calls(q)
  BY <1>1, PostsFacts
<1>6. ASSUME NEW q \in Ranks \ {r}, Matched(q), pc[q] \in InComm
      PROVE  /\ \A p \in Ranks : Arg(q, p)' = Arg(q, p)
             /\ Total(q)' = Total(q) /\ Received(q)' = Received(q)
  <2>1. Calls(q) > 0
    BY <1>1, <1>6, LastOp
  <2> QED BY <1>1, <1>6, <2>1, ArgsStay
<1>7. ASSUME NEW q \in Ranks PROVE Delivered(q)' <=> Delivered(q)
  <2>1. CASE q = r
    BY <1>2, <2>1 DEF Delivered
  <2>2. CASE q # r /\ pc[q] = "data" /\ Calls(q) = Calls(r)
    <3>1. Matched(q) /\ Matched(q)'
      BY <1>1, <2>2, MatchedAfter
    <3> QED BY <2>2, <3>1 DEF Delivered
  <2>3. CASE q # r /\ pc[q] = "data" /\ Calls(q) = Calls(r) + 1
    BY <1>1, <1>2, <2>3 DEF Ahead
  <2>4. CASE pc[q] # "data" /\ q # r
    BY <2>4 DEF Delivered
  <2>5. Calls(q) = Calls(r) \/ Calls(q) = Calls(r) + 1
    <3>1. Calls(r) \in Nat /\ Calls(q) \in Nat /\ Calls(r) <= Calls(q) /\ Calls(q) <= Calls(r) + 1
      BY <1>1, <1>5
    <3> QED BY <3>1
  <2> QED BY <2>1, <2>2, <2>3, <2>4, <2>5
<1>8. ASSUME NEW q \in Ranks PROVE ToSend(q)' = ToSend(q) /\ InTransit(q)' = InTransit(q)
  <2>1. Delivered(q) => q # r /\ Matched(q) /\ pc[q] \in InComm
    BY <1>2 DEF Delivered, InComm
  <2>2. Delivered(q) => Received(q)' = Received(q)
    BY <1>6, <2>1
  <2> QED BY <1>1, <1>7, <2>2 DEF ToSend, InTransit
<1>9. ASSUME NEW q \in Ranks \ {r}, Calls(q) = Calls(r) PROVE Stopped(q)' <=> Stopped(q)
  <2>1. Matched(q) /\ Matched(q)'
    BY <1>1, <1>9, MatchedAfter
  <2>2. CASE pc[q] = "reduce"
    <3>1. Total(q)' = Total(q)
      BY <1>6, <2>1, <2>2 DEF InComm
    <3> QED BY <2>1, <2>2, <3>1 DEF Stopped
  <2>3. CASE pc[q] # "reduce"
    BY <2>3 DEF Stopped
  <2> QED BY <2>2, <2>3
<1>10. ExactlyOnePlace'
  <2>1. ASSUME NEW m \in Msgs PROVE PlacedOnce(m)'
    <3>1. Places(m)' = Places(m)
      BY <1>1, <1>8, PlacesSame
    <3>2. PlacedOnce(m)
      BY <1>1, PlacedOnceFacts
    <3> QED BY <1>1, <3>1, <3>2 DEF PlacedOnce
  <2>2. \A m \in Msgs : \A q \in Ranks : m \in consumed'[q] \cup Range(recv_buffer'[q]) => Dest[m] = q
    BY <1>1 DEF ExactlyOnePlace
  <2> QED BY <2>1, <2>2, PlacedOnceWill
<1>11. ASSUME NEW q \in Ranks, Delivered(q)' PROVE Delivered(q) /\ \A p \in Ranks : Arg(q, p)' = Arg(q, p)
  <2>1. Delivered(q) /\ q # r /\ Matched(q) /\ pc[q] \in InComm
    BY <1>2, <1>7, <1>11 DEF Delivered, InComm
  <2> QED BY <1>6, <2>1
<1>12. CountsAgree'
  <2>1. ASSUME NEW q \in Ranks, Delivered(q)', NEW p \in Ranks
        PROVE  recv_counts'[q][p] = Len(Arg(q, p)'[q])
    BY <1>1, <1>11, <2>1 DEF CountsAgree
  <2> QED BY <1>1, <2>1 DEF CountsAgree
<1>13. PhasesSeparate'
  BY <1>1 DEF PhasesSeparate
<1>14. TransitInv'
  <2>1. ASSUME NEW q \in Ranks, NEW m \in Range(ToSend(q)') PROVE pushed_in'[m] = phase'[q]
    BY <1>1, <1>8, <2>1 DEF TransitInv
  <2>2. ASSUME NEW q \in Ranks, Delivered(q)', NEW p \in Ranks, NEW m \in Range(Arg(q, p)'[q])
        PROVE  Dest[m] = q /\ pushed_in'[m] = phase'[q]
    BY <1>1, <1>11, <2>2 DEF TransitInv
  <2> QED BY <2>1, <2>2 DEF TransitInv
<1>15. BuffersInv'
  <2> SUFFICES ASSUME NEW q \in Ranks
               PROVE  /\ pc'[q] # "work" => recv_buffer'[q] = <<>>
                      /\ pc'[q] = "data" =>
                         /\ \A i, j \in DOMAIN send_buffer'[q] :
                              i < j => Dest[send_buffer'[q][i]] <= Dest[send_buffer'[q][j]]
                         /\ \A p \in Ranks : recv_counts'[q][p] = posted'[p][Calls(q)' - 1].arg[q]
    BY DEF BuffersInv
  <2>1. CASE q = r
    BY <1>1, <1>2, <2>1
  <2>2. CASE q # r
    <3>1. pc'[q] = pc[q] /\ Calls(q)' = Calls(q)
      BY <1>5, <2>2
    <3>2. ASSUME pc[q] = "data", NEW p \in Ranks
          PROVE  posted'[p][Calls(q) - 1] = posted[p][Calls(q) - 1]
      <4>1. LastCall(q, Calls(q))
        BY <1>1 DEF LastCalls
      <4>2. Calls(q) > 2 /\ Calls(q) \in Nat /\ Calls(p) \in Nat /\ Calls(q) <= Calls(p) + 1
        BY <1>1, <1>5, <3>2, <4>1 DEF LastCall, InStep
      <4>3. Calls(q) - 1 \in 1 .. Calls(p)
        BY <4>2
      <4> QED BY <1>5, <4>3
    <3>3. /\ pc[q] # "work" => recv_buffer[q] = <<>>
          /\ pc[q] = "data" =>
               /\ \A i, j \in DOMAIN send_buffer[q] :
                    i < j => Dest[send_buffer[q][i]] <= Dest[send_buffer[q][j]]
               /\ \A p \in Ranks : recv_counts[q][p] = posted[p][Calls(q) - 1].arg[q]
      BY <1>1 DEF BuffersInv
    <3> QED BY <1>1, <3>1, <3>2, <3>3
  <2> QED BY <2>1, <2>2
<1> QED BY <1>3, <1>4, <1>7, <1>8, <1>9, <1>10, <1>12, <1>13, <1>14, <1>15

\* Calling allreduce may complete it, which stops all ranks or none.
LEMMA CommKeeps ==
  ASSUME ExchangeInv, NEW r \in Ranks, comm(r)
  PROVE  ExchangeInv' /\ \A q \in Ranks : /\ ToSend(q)' = ToSend(q) /\ InTransit(q)' = InTransit(q)
                                          /\ Delivered(q)' <=> Delivered(q)
<1>0. PICK c : c = Call("allreduce", Summed(send_counts[r]))
  OBVIOUS
<1>1. /\ StateOK /\ TypeOK /\ InStep /\ Ahead /\ LastCalls /\ CountsAgree /\ OnePhase
      /\ pc[r] = "work" /\ recv_buffer[r] = <<>>
      /\ pc' = [pc EXCEPT ![r] = "reduce"]
      /\ posted' = [posted EXCEPT ![r] = Append(@, c)]
      /\ phase' = phase /\ send_buffer' = send_buffer /\ send_counts' = send_counts
      /\ recv_buffer' = recv_buffer /\ recv_counts' = recv_counts /\ consumed' = consumed
      /\ pushed_in' = pushed_in
  BY <1>0, Invariants DEF comm
<1>2. pc \in [Ranks -> {"work", "reduce", "counts", "data", "returned"}]
  BY <1>1 DEF TypeOK
<1>3. /\ pc'[r] = "reduce" /\ \A q \in Ranks \ {r} : pc'[q] = pc[q]
      /\ pc' \in [Ranks -> {"work", "reduce", "counts", "data", "returned"}]
  BY <1>1, <1>2
<1>4. c \in CallSet /\ c.op = "allreduce"
  <2>1. Summed(send_counts[r]) \in Nat
    BY <1>1, EmptyCounts
  <2> QED BY <1>0, <2>1 DEF Call, CallSet
<1>5. Posts(r, c) /\ Follows(r, c)
  <2>1. Matched(r)
    BY <1>1 DEF InStep, InComm
  <2> QED BY <1>1, <1>3, <1>4, <2>1 DEF Posts, Follows
<1>6. /\ InStep' /\ Ahead' /\ CollectivesMatch' /\ ExactlyOnePlace' /\ CountsAgree'
      /\ PhasesSeparate' /\ TransitInv' /\ BuffersInv'
      /\ \A q \in Ranks \ {r} : LastCall(q, Calls(q))'
      /\ \A q \in Ranks : ToSend(q)' = ToSend(q) /\ InTransit(q)' = InTransit(q)
      /\ \A q \in Ranks : Delivered(q)' <=> Delivered(q)
      /\ \A q \in Ranks \ {r} : Calls(q) = Calls(r) => (Stopped(q)' <=> Stopped(q))
  BY <1>1, <1>3, <1>4, <1>5, PostKeeps
<1>7. /\ posted' \in [Ranks -> Seq(CallSet)]
      /\ Calls(r)' = Calls(r) + 1 /\ posted'[r][Calls(r) + 1] = c
      /\ \A q \in Ranks \ {r} : Calls(q)' = Calls(q)
      /\ \A q \in Ranks : Calls(q) \in Nat /\ Calls(r) <= Calls(q) /\ Calls(q) <= Calls(r) + 1
  BY <1>1, <1>5, PostsFacts
<1>8. StateOK'
  <2>1. \A q \in Ranks : pc'[q] = "returned" <=> phase'[q] = MaxPhases
    <3>1. \A q \in Ranks : pc[q] = "returned" <=> phase[q] = MaxPhases
      BY <1>1 DEF StateOK
    <3>2. pc[r] # "returned" /\ pc'[r] # "returned"
      BY <1>1, <1>3
    <3> QED BY <1>1, <1>3, <3>1, <3>2
  <2> QED BY <1>1, <1>3, <1>7, <2>1, StateWillBe DEF StateOK, TypeOK
<1>9. LastCalls'
  <2>1. /\ pc'[r] = "reduce" /\ Calls(r)' > 0
        /\ posted'[r][Calls(r)'] = Call("allreduce", Summed(send_counts'[r]))
    <3>1. Calls(r) \in Nat /\ Calls(r)' = Calls(r) + 1 /\ posted'[r][Calls(r) + 1] = c
      BY <1>7
    <3>2. Calls(r)' > 0
      BY <3>1
    <3>3. posted'[r][Calls(r)'] = Call("allreduce", Summed(send_counts'[r]))
      BY <1>0, <1>1, <3>1
    <3> QED BY <1>3, <3>2, <3>3
  <2>2. LastCall(r, Calls(r))'
    BY <2>1 DEF LastCall, InComm
  <2> QED BY <1>6, <2>2 DEF LastCalls
<1>10. OnePhase'
  <2>1. /\ ~ Stopped(r) /\ PhaseOf(r) = phase[r]
        /\ \A q \in Ranks : PhaseOf(q) = phase[r]
    <3>1. ~ Stopped(r)
      BY <1>1 DEF Stopped
    <3>2. PhaseOf(r) = phase[r]
      BY <1>1, <3>1, RankFacts DEF PhaseOf, TypeOK
    <3> QED BY <1>1, <3>1, <3>2 DEF OnePhase
  <2>2. ASSUME NEW q \in Ranks, q = r \/ Calls(q) = Calls(r) + 1
        PROVE  /\ ~ Stopped(q) /\ phase'[q] = phase[r] /\ pc'[q] = "reduce"
               /\ Calls(q)' = Calls(r) + 1
               /\ Matched(q)' <=> \A p \in Ranks \ {r} : Calls(p) = Calls(r) + 1
    <3>1. Matched(q)' <=> \A p \in Ranks \ {r} : Calls(p) = Calls(r) + 1
      BY <1>1, <1>5, <2>2, MatchedAfter
    <3>2. ~ Stopped(q) /\ pc'[q] = "reduce" /\ Calls(q)' = Calls(r) + 1
      <4>1. CASE q = r
        BY <1>3, <1>7, <2>1, <4>1
      <4>2. CASE q # r
        <5>1. Calls(q) = Calls(r) + 1
          BY <2>2, <4>2
        <5>2. ~ Matched(q)
          BY <1>1, <1>5, <5>1, MatchedAfter
        <5>3. pc[q] \in InComm
          BY <1>1, <5>2 DEF InStep
        <5>4. pc[q] = "reduce"
          BY <1>1, <5>1, <5>3 DEF Ahead, InComm
        <5> QED BY <1>3, <1>7, <4>2, <5>1, <5>2, <5>4 DEF Stopped
      <4> QED BY <4>1, <4>2
    <3>3. phase'[q] = phase[r]
      <4>1. PhaseOf(q) = phase[q]
        BY <1>1, <3>2, RankFacts DEF PhaseOf, TypeOK
      <4> QED BY <1>1, <2>1, <4>1
    <3> QED BY <3>1, <3>2, <3>3
  <2>3. CASE \A p \in Ranks \ {r} : Calls(p) = Calls(r) + 1
    <3>1. ASSUME NEW q \in Ranks PROVE Stopped(q)' <=> SumOf(posted', Calls(r) + 1) = 0
      <4>1. Matched(q)' /\ pc'[q] = "reduce" /\ Calls(q)' = Calls(r) + 1
        BY <2>2, <2>3
      <4>2. Total(q)' = SumOf(posted', Calls(r) + 1)
        BY <4>1 DEF Total, SumOf, Arg, Calls
      <4> QED BY <4>1, <4>2 DEF Stopped
    <3>2. \A q \in Ranks : phase'[q] = phase[r]
      BY <2>2, <2>3
    <3>3. \A q \in Ranks : PhaseOf(q)' = phase[r] + IF SumOf(posted', Calls(r) + 1) = 0 THEN 1 ELSE 0
      BY <3>1, <3>2 DEF PhaseOf
    <3> QED BY <3>3 DEF OnePhase
  <2>4. CASE ~ \A p \in Ranks \ {r} : Calls(p) = Calls(r) + 1
    <3>1. ASSUME NEW q \in Ranks PROVE PhaseOf(q)' = phase[r]
      <4>1. CASE q = r \/ Calls(q) = Calls(r) + 1
        <5>1. ~ Stopped(q)' /\ phase'[q] = phase[r]
          BY <2>2, <2>4, <4>1 DEF Stopped
        <5> QED BY <1>1, <5>1, RankFacts DEF PhaseOf, TypeOK
      <4>2. CASE q # r /\ Calls(q) = Calls(r)
        <5>1. Stopped(q)' <=> Stopped(q)
          BY <1>6, <4>2
        <5>2. PhaseOf(q)' = PhaseOf(q)
          BY <1>1, <5>1 DEF PhaseOf
        <5> QED BY <2>1, <5>2
      <4>3. Calls(q) = Calls(r) \/ Calls(q) = Calls(r) + 1
        <5>1. Calls(r) \in Nat /\ Calls(q) \in Nat /\ Calls(r) <= Calls(q) /\ Calls(q) <= Calls(r) + 1
          BY <1>7
        <5> QED BY <5>1
      <4> QED BY <4>1, <4>2, <4>3
    <3> QED BY <3>1 DEF OnePhase
  <2> QED BY <2>3, <2>4
<1> QED BY <1>6, <1>8, <1>9, <1>10, Conclude

\* Calling alltoall, the sum not being zero.
LEMMA CommCountsKeeps ==
  ASSUME ExchangeInv, NEW r \in Ranks, commCounts(r)
  PROVE  ExchangeInv' /\ \A q \in Ranks : /\ ToSend(q)' = ToSend(q) /\ InTransit(q)' = InTransit(q)
                                          /\ Delivered(q)' <=> Delivered(q)
                                          /\ PhaseOf(q)' = PhaseOf(q) /\ (Stopped(q)' <=> Stopped(q))
<1>0. PICK c : c = Call("alltoall", send_counts[r])
  OBVIOUS
<1>1. /\ StateOK /\ TypeOK /\ InStep /\ Ahead /\ LastCalls /\ CountsAgree /\ OnePhase /\ BuffersInv
      /\ pc[r] = "reduce" /\ Matched(r) /\ Total(r) # 0
      /\ pc' = [pc EXCEPT ![r] = "counts"]
      /\ posted' = [posted EXCEPT ![r] = Append(@, c)]
      /\ phase' = phase /\ send_buffer' = send_buffer /\ send_counts' = send_counts
      /\ recv_buffer' = recv_buffer /\ recv_counts' = recv_counts /\ consumed' = consumed
      /\ pushed_in' = pushed_in
  BY <1>0, Invariants DEF commCounts
<1>2. pc \in [Ranks -> {"work", "reduce", "counts", "data", "returned"}]
      /\ send_counts \in [Ranks -> [Ranks -> Nat]]
  BY <1>1 DEF TypeOK
<1>3. /\ pc'[r] = "counts" /\ \A q \in Ranks \ {r} : pc'[q] = pc[q]
      /\ pc' \in [Ranks -> {"work", "reduce", "counts", "data", "returned"}]
  BY <1>1, <1>2
<1>4. c \in CallSet /\ c.op = "alltoall"
  <2>1. send_counts[r] \in [Ranks -> Nat]
    BY <1>2
  <2> QED BY <1>0, <2>1 DEF Call, CallSet
<1>5. Total(r) = SumOf(posted, Calls(r)) /\ SumOf(posted, Calls(r)) # 0
  BY <1>1 DEF Total, SumOf, Arg, Calls
<1>6. Posts(r, c) /\ Follows(r, c)
  BY <1>1, <1>3, <1>4, <1>5 DEF Posts, Follows
<1>7. recv_buffer[r] = <<>>
  BY <1>1 DEF BuffersInv
<1>8. /\ InStep' /\ Ahead' /\ CollectivesMatch' /\ ExactlyOnePlace' /\ CountsAgree'
      /\ PhasesSeparate' /\ TransitInv' /\ BuffersInv'
      /\ \A q \in Ranks \ {r} : LastCall(q, Calls(q))'
      /\ \A q \in Ranks : ToSend(q)' = ToSend(q) /\ InTransit(q)' = InTransit(q)
      /\ \A q \in Ranks : Delivered(q)' <=> Delivered(q)
      /\ \A q \in Ranks \ {r} : Calls(q) = Calls(r) => (Stopped(q)' <=> Stopped(q))
  BY <1>1, <1>3, <1>4, <1>6, <1>7, PostKeeps
<1>9. /\ posted' \in [Ranks -> Seq(CallSet)]
      /\ Calls(r)' = Calls(r) + 1 /\ posted'[r][Calls(r) + 1] = c
      /\ \A q \in Ranks : \A i \in 1 .. Calls(q) : posted'[q][i] = posted[q][i]
      /\ \A q \in Ranks : Calls(q) \in Nat /\ Calls(r) <= Calls(q) /\ Calls(q) <= Calls(r) + 1
  BY <1>1, <1>6, PostsFacts
<1>10. StateOK'
  <2>1. \A q \in Ranks : pc'[q] = "returned" <=> phase'[q] = MaxPhases
    <3>1. \A q \in Ranks : pc[q] = "returned" <=> phase[q] = MaxPhases
      BY <1>1 DEF StateOK
    <3>2. pc[r] # "returned" /\ pc'[r] # "returned"
      BY <1>1, <1>3
    <3> QED BY <1>1, <1>3, <3>1, <3>2
  <2> QED BY <1>1, <1>3, <1>9, <2>1, StateWillBe DEF StateOK, TypeOK
<1>11. LastCalls'
  <2>1. LastCall(r, Calls(r)) /\ Calls(r) > 0 /\ Calls(r) \in Nat
    BY <1>1, <1>9, LastOp DEF LastCalls, InComm
  <2>2. SumOf(posted', Calls(r)) # 0
    <3>1. SumOf(posted', Calls(r)) = SumOf(posted, Calls(r))
      <4>1. Calls(r) \in Nat \ {0} /\ \A q \in Ranks : Calls(r) <= Calls(q)
        BY <1>9, <2>1
      <4> QED BY <1>1, <1>6, <4>1, SumsKept
    <3> QED BY <1>5, <3>1
  <2>3. posted'[r][Calls(r)] = Call("allreduce", Summed(send_counts[r]))
    <3>1. posted'[r][Calls(r)] = posted[r][Calls(r)]
      BY <1>9, <2>1
    <3> QED BY <1>1, <2>1, <3>1 DEF LastCall
  <2>4. Calls(r)' - 1 = Calls(r) /\ Calls(r)' > 1
    BY <1>9, <2>1
  <2>5. LastCall(r, Calls(r))'
    BY <1>0, <1>1, <1>3, <1>9, <2>2, <2>3, <2>4 DEF LastCall, InComm
  <2> QED BY <1>8, <2>5 DEF LastCalls
<1>12. ASSUME NEW q \in Ranks PROVE PhaseOf(q)' = PhaseOf(q) /\ (Stopped(q)' <=> Stopped(q))
  <2>1. Stopped(q)' <=> Stopped(q)
    <3>1. CASE q = r
      BY <1>1, <1>3, <3>1 DEF Stopped
    <3>2. CASE q # r /\ Calls(q) = Calls(r)
      BY <1>8, <3>2
    <3>3. CASE q # r /\ Calls(q) = Calls(r) + 1
      <4>1. pc[q] # "reduce"
        BY <1>1, <1>5, <3>3 DEF Ahead
      <4> QED BY <1>3, <3>3, <4>1 DEF Stopped
    <3>4. Calls(q) = Calls(r) \/ Calls(q) = Calls(r) + 1
      <4>1. Calls(r) \in Nat /\ Calls(q) \in Nat /\ Calls(r) <= Calls(q) /\ Calls(q) <= Calls(r) + 1
        BY <1>9
      <4> QED BY <4>1
    <3> QED BY <3>1, <3>2, <3>3, <3>4
  <2> QED BY <1>1, <2>1 DEF PhaseOf
<1>13. OnePhase'
  BY <1>1, <1>12 DEF OnePhase
<1> QED BY <1>8, <1>10, <1>11, <1>12, <1>13, Conclude

\* A rank that leaves for its next phase changes nothing for the others.
LEMMA CommFalseKeeps ==
  ASSUME ExchangeInv, NEW r \in Ranks, commFalse(r)
  PROVE  ExchangeInv' /\ \A q \in Ranks : /\ ToSend(q)' = ToSend(q) /\ InTransit(q)' = InTransit(q)
                                          /\ Delivered(q)' <=> Delivered(q)
                                          /\ PhaseOf(q)' = PhaseOf(q)
                                          /\ q # r => (Stopped(q)' <=> Stopped(q))
<1>1. /\ StateOK /\ TypeOK /\ InStep /\ Ahead /\ LastCalls /\ CountsAgree /\ OnePhase /\ BuffersInv
      /\ CollectivesMatch /\ PhasesSeparate /\ TransitInv /\ ExactlyOnePlace
      /\ pc[r] = "reduce" /\ Matched(r) /\ Total(r) = 0
      /\ phase' = [phase EXCEPT ![r] = phase[r] + 1]
      /\ pc' = [pc EXCEPT ![r] = IF phase[r] + 1 = MaxPhases THEN "returned" ELSE "work"]
      /\ posted' = posted /\ send_buffer' = send_buffer /\ send_counts' = send_counts
      /\ recv_buffer' = recv_buffer /\ recv_counts' = recv_counts /\ consumed' = consumed
      /\ pushed_in' = pushed_in
  BY Invariants DEF commFalse
<1>2. /\ pc \in [Ranks -> {"work", "reduce", "counts", "data", "returned"}]
      /\ phase \in [Ranks -> 0 .. MaxPhases] /\ MaxPhases \in Nat
      /\ pc[r] = "returned" <=> phase[r] = MaxPhases
  BY <1>1, RankFacts DEF TypeOK, StateOK
<1>3. /\ pc'[r] = (IF phase[r] + 1 = MaxPhases THEN "returned" ELSE "work")
      /\ pc'[r] \in {"work", "returned"}
      /\ phase'[r] = phase[r] + 1 /\ phase'[r] \in 0 .. MaxPhases
      /\ pc'[r] = "returned" <=> phase'[r] = MaxPhases
      /\ \A q \in Ranks \ {r} : pc'[q] = pc[q] /\ phase'[q] = phase[q]
      /\ pc' \in [Ranks -> {"work", "reduce", "counts", "data", "returned"}]
      /\ phase' \in [Ranks -> 0 .. MaxPhases]
  BY <1>1, <1>2
<1>4. InStep' /\ Ahead' /\ CollectivesMatch' /\ LastCalls'
  <2>1. Leaves(r)
    BY <1>1, <1>3 DEF Leaves
  <2> QED BY <1>1, <1>3, <2>1, QuietKeeps
<1>5. StateOK'
  <2>1. \A q \in Ranks : pc'[q] = "returned" <=> phase'[q] = MaxPhases
    BY <1>1, <1>3 DEF StateOK
  <2> QED BY <1>1, <1>3, <2>1, StateWillBe DEF StateOK, TypeOK
<1>6. send_buffer[r] = <<>>
  <2>1. Calls(r) \in Nat \ {0} /\ posted[r][Calls(r)] = Call("allreduce", Summed(send_counts[r]))
    <3>1. LastCall(r, Calls(r)) /\ Calls(r) \in Nat
      BY <1>1, CallFacts DEF LastCalls
    <3>2. Calls(r) > 0 /\ posted[r][Calls(r)] = Call("allreduce", Summed(send_counts[r]))
      BY <1>1, <3>1 DEF LastCall
    <3> QED BY <3>1, <3>2
  <2> DEFINE args == [q \in Ranks |-> Arg(r, q)]
  <2>2. args \in [Ranks -> Nat]
    <3>1. ASSUME NEW q \in Ranks PROVE Arg(r, q) \in Nat
      <4>1. Calls(r) \in DOMAIN posted[r] /\ Calls(r) \in DOMAIN posted[q] /\ Calls(r) \in 1 .. Calls(q)
        BY <1>1, <2>1, CallFacts DEF Matched, Calls
      <4>2. posted[q][Calls(r)].op = "allreduce"
        BY <1>1, <2>1, <4>1 DEF CollectivesMatch, Call
      <4> QED BY <1>1, <4>1, <4>2, CallFacts DEF Arg, Calls
    <3> QED BY <3>1
  <2>3. Summed(args) = 0
    BY <1>1 DEF Total
  <2>4. args[r] = 0
    <3> HIDE DEF args
    <3> QED BY <2>2, <2>3, SummedZero
  <2>5. Summed(send_counts[r]) = 0
    BY <2>1, <2>4 DEF Arg, Calls, Call
  <2> QED BY <1>1, <2>5, EmptyCounts
<1>7. recv_buffer[r] = <<>>
  BY <1>1 DEF BuffersInv
<1>8. ASSUME NEW q \in Ranks
      PROVE  /\ ToSend(q)' = ToSend(q) /\ InTransit(q)' = InTransit(q)
             /\ Delivered(q)' <=> Delivered(q)
             /\ PhaseOf(q)' = PhaseOf(q)
             /\ \A p \in Ranks : Arg(q, p)' = Arg(q, p)
             /\ q # r => (Stopped(q)' <=> Stopped(q))
             /\ q = r => ~ Delivered(q) /\ ToSend(q) = <<>>
  <2>1. \A p \in Ranks : Arg(q, p)' = Arg(q, p)
    BY <1>1, PostedSame
  <2>2. CASE q = r
    <3>1. ~ Delivered(q) /\ ~ Delivered(q)' /\ Stopped(q) /\ ~ Stopped(q)'
      BY <1>1, <1>3, <2>2 DEF Delivered, Stopped
    <3>2. PhaseOf(q)' = PhaseOf(q)
      BY <1>2, <1>3, <2>2, <3>1 DEF PhaseOf
    <3> QED BY <1>1, <1>6, <2>1, <2>2, <3>1, <3>2 DEF ToSend, InTransit
  <2>3. CASE q # r
    <3>1. pc'[q] = pc[q] /\ phase'[q] = phase[q]
      BY <1>3, <2>3
    <3>2. Delivered(q)' <=> Delivered(q)
      BY <1>1, <3>1, DeliverySame
    <3>3. ToSend(q)' = ToSend(q)
      BY <1>1, <3>1, DeliverySame
    <3>4. InTransit(q)' = InTransit(q) /\ PhaseOf(q)' = PhaseOf(q) /\ (Stopped(q)' <=> Stopped(q))
      BY <1>1, <3>1, DeliverySame
    <3> QED BY <2>1, <2>3, <3>2, <3>3, <3>4
  <2> QED BY <2>2, <2>3
<1>9. OnePhase'
  BY <1>1, <1>8 DEF OnePhase
<1>10. ExactlyOnePlace'
  <2>1. ASSUME NEW m \in Msgs PROVE PlacedOnce(m)'
    <3>1. Places(m)' = Places(m)
      BY <1>1, <1>8, PlacesSame
    <3>2. PlacedOnce(m)
      BY <1>1, PlacedOnceFacts
    <3> QED BY <1>1, <3>1, <3>2 DEF PlacedOnce
  <2>2. \A m \in Msgs : \A q \in Ranks : m \in consumed'[q] \cup Range(recv_buffer'[q]) => Dest[m] = q
    BY <1>1 DEF ExactlyOnePlace
  <2> QED BY <2>1, <2>2, PlacedOnceWill
<1>11. CountsAgree'
  <2>1. ASSUME NEW q \in Ranks, Delivered(q)', NEW p \in Ranks
        PROVE  recv_counts'[q][p] = Len(Arg(q, p)'[q])
    BY <1>1, <1>8, <2>1 DEF CountsAgree
  <2> QED BY <1>1, <2>1 DEF CountsAgree
<1>12. Range(<<>>) = {}
  BY DEF Range
<1>13. PhasesSeparate'
  <2>1. ASSUME NEW q \in Ranks, NEW m \in Range(recv_buffer'[q]) PROVE pushed_in'[m] = phase'[q]
    <3>1. q # r
      BY <1>1, <1>7, <1>12, <2>1
    <3> QED BY <1>1, <1>3, <2>1, <3>1 DEF PhasesSeparate
  <2> QED BY <2>1 DEF PhasesSeparate
<1>14. TransitInv'
  <2>1. ASSUME NEW q \in Ranks, NEW m \in Range(ToSend(q)') PROVE pushed_in'[m] = phase'[q]
    <3>1. q # r
      BY <1>8, <1>12, <2>1
    <3> QED BY <1>1, <1>3, <1>8, <2>1, <3>1 DEF TransitInv
  <2>2. ASSUME NEW q \in Ranks, Delivered(q)', NEW p \in Ranks, NEW m \in Range(Arg(q, p)'[q])
        PROVE  Dest[m] = q /\ pushed_in'[m] = phase'[q]
    <3>1. q # r /\ Delivered(q) /\ Arg(q, p)' = Arg(q, p)
      BY <1>8, <2>2
    <3> QED BY <1>1, <1>3, <2>2, <3>1 DEF TransitInv
  <2> QED BY <2>1, <2>2 DEF TransitInv
<1>15. BuffersInv'
  <2>1. \A q \in Ranks : Calls(q)' = Calls(q)
    BY <1>1 DEF Calls
  <2>2. ASSUME NEW q \in Ranks
        PROVE  /\ pc'[q] # "work" => recv_buffer'[q] = <<>>
               /\ pc'[q] = "data" =>
                  /\ \A i, j \in DOMAIN send_buffer'[q] :
                       i < j => Dest[send_buffer'[q][i]] <= Dest[send_buffer'[q][j]]
                  /\ \A p \in Ranks : recv_counts'[q][p] = posted'[p][Calls(q)' - 1].arg[q]
    <3>1. CASE q = r
      BY <1>1, <1>3, <1>7, <3>1
    <3>2. CASE q # r
      BY <1>1, <1>3, <2>1, <3>2 DEF BuffersInv
    <3> QED BY <3>1, <3>2
  <2> QED BY <2>2 DEF BuffersInv
<1> QED BY <1>4, <1>5, <1>8, <1>9, <1>10, <1>11, <1>13, <1>14, <1>15, Conclude
-----------------------------------------------------------------------------
(* The end of an exchange                                                  *)

\* Returning from alltoallv moves what was in transit to the receive buffer.
LEMMA CommTrueKeeps ==
  ASSUME ExchangeInv, NEW r \in Ranks, commTrue(r)
  PROVE  /\ ExchangeInv'
         /\ recv_buffer[r] = <<>> /\ recv_buffer'[r] = InTransit(r) /\ InTransit(r)' = <<>>
         /\ ToSend(r) = <<>> /\ Delivered(r) /\ ~ Delivered(r)'
         /\ \A q \in Ranks : ToSend(q)' = ToSend(q) /\ PhaseOf(q)' = PhaseOf(q)
         /\ \A q \in Ranks : Stopped(q)' <=> Stopped(q)
         /\ \A q \in Ranks \ {r} : /\ recv_buffer'[q] = recv_buffer[q]
                                   /\ InTransit(q)' = InTransit(q)
                                   /\ Delivered(q)' <=> Delivered(q)
<1>1. /\ StateOK /\ TypeOK /\ InStep /\ Ahead /\ LastCalls /\ CountsAgree /\ OnePhase /\ BuffersInv
      /\ CollectivesMatch /\ PhasesSeparate /\ TransitInv /\ ExactlyOnePlace
      /\ pc[r] = "data" /\ Matched(r)
      /\ recv_buffer' = [recv_buffer EXCEPT ![r] = recv_buffer[r] \o Received(r)]
      /\ send_buffer' = [send_buffer EXCEPT ![r] = <<>>]
      /\ send_counts' = [send_counts EXCEPT ![r] = Zero]
      /\ pc' = [pc EXCEPT ![r] = "work"]
      /\ phase' = phase /\ posted' = posted /\ recv_counts' = recv_counts
      /\ consumed' = consumed /\ pushed_in' = pushed_in
  BY Invariants DEF commTrue
<1>2. PICK g : g = Received(r)
  OBVIOUS
<1>3. /\ Delivered(r) /\ recv_buffer[r] = <<>> /\ g \in Seq(Msgs)
      /\ \A m \in Range(g) : Dest[m] = r /\ pushed_in[m] = phase[r]
  BY <1>1, <1>2, ReceivedFacts DEF Delivered, BuffersInv
<1>4. /\ pc \in [Ranks -> {"work", "reduce", "counts", "data", "returned"}]
      /\ recv_buffer \in [Ranks -> Seq(Msgs)] /\ send_buffer \in [Ranks -> Seq(Msgs)]
      /\ send_counts \in [Ranks -> [Ranks -> Nat]]
  BY <1>1 DEF TypeOK, StateOK
<1>5. recv_buffer[r] \o g = g
  BY <1>3
<1>6. /\ recv_buffer'[r] = g /\ send_buffer'[r] = <<>> /\ send_counts'[r] = Zero /\ pc'[r] = "work"
      /\ \A q \in Ranks \ {r} : /\ recv_buffer'[q] = recv_buffer[q] /\ pc'[q] = pc[q]
                                /\ send_buffer'[q] = send_buffer[q]
                                /\ send_counts'[q] = send_counts[q]
  BY <1>1, <1>2, <1>4, <1>5
<1>7. InStep' /\ Ahead' /\ CollectivesMatch' /\ LastCalls'
  <2>1. Leaves(r)
    BY <1>1, <1>6 DEF Leaves
  <2>2. \A q \in Ranks : pc'[q] \in InComm =>
           send_counts'[q] = send_counts[q] /\ send_buffer'[q] = send_buffer[q]
    BY <1>6 DEF InComm
  <2> QED BY <1>1, <1>6, <2>1, <2>2, QuietKeeps
<1>8. StateOK'
  <2>1. recv_buffer' \in [Ranks -> Seq(Msgs)]
    BY <1>1, <1>2, <1>3, <1>4, <1>5
  <2>2. send_buffer' \in [Ranks -> Seq(Msgs)]
    <3>1. <<>> \in Seq(Msgs)
      OBVIOUS
    <3> QED BY <1>1, <1>4, <3>1
  <2>3. send_counts' \in [Ranks -> [Ranks -> Nat]]
    <3>1. Zero \in [Ranks -> Nat]
      BY DEF Zero
    <3> QED BY <1>1, <1>4, <3>1
  <2>4. pc' \in [Ranks -> {"work", "reduce", "counts", "data", "returned"}]
    BY <1>1, <1>4
  <2>5. \A q \in Ranks : pc'[q] = "returned" <=> phase'[q] = MaxPhases
    <3>1. \A q \in Ranks : pc[q] = "returned" <=> phase[q] = MaxPhases
      BY <1>1 DEF StateOK
    <3>2. pc[r] # "returned" /\ pc'[r] # "returned"
      BY <1>1, <1>6
    <3> QED BY <1>1, <1>6, <3>1, <3>2
  <2> QED BY <1>1, <2>1, <2>2, <2>3, <2>4, <2>5, StateWillBe DEF StateOK, TypeOK
<1>9. /\ ToSend(r) = <<>> /\ ToSend(r)' = <<>> /\ InTransit(r) = g /\ InTransit(r)' = <<>>
      /\ ~ Delivered(r)' /\ ~ Stopped(r) /\ ~ Stopped(r)'
  BY <1>1, <1>2, <1>3, <1>6 DEF ToSend, InTransit, Delivered, Stopped
<1>10. ASSUME NEW q \in Ranks \ {r}
       PROVE  /\ ToSend(q)' = ToSend(q) /\ InTransit(q)' = InTransit(q)
              /\ Delivered(q)' <=> Delivered(q)
              /\ Stopped(q)' <=> Stopped(q)
              /\ \A p \in Ranks : Arg(q, p)' = Arg(q, p)
  <2>1. Delivered(q)' <=> Delivered(q)
    BY <1>1, <1>6, DeliverySame
  <2>2. ToSend(q)' = ToSend(q)
    BY <1>1, <1>6, DeliverySame
  <2>3. InTransit(q)' = InTransit(q) /\ (Stopped(q)' <=> Stopped(q))
    BY <1>1, <1>6, DeliverySame
  <2>4. \A p \in Ranks : Arg(q, p)' = Arg(q, p)
    BY <1>1, PostedSame
  <2> QED BY <2>1, <2>2, <2>3, <2>4
<1>11. \A q \in Ranks : (Stopped(q)' <=> Stopped(q)) /\ PhaseOf(q)' = PhaseOf(q)
  <2>1. \A q \in Ranks : Stopped(q)' <=> Stopped(q)
    BY <1>9, <1>10
  <2> QED BY <1>1, <2>1 DEF PhaseOf
<1>12. OnePhase'
  BY <1>1, <1>11 DEF OnePhase
<1>13. \A m : Where(<<>>, m) = {}
  BY DEF Where
<1>14. ExactlyOnePlace'
  <2>1. ASSUME NEW m \in Msgs PROVE PlacedOnce(m)'
    <3>1. PlacedOnce(m)
      BY <1>1, PlacedOnceFacts
    <3>2. ASSUME NEW p
          PROVE  p \in Places(m)' <=> \/ \E q \in Ranks \ {r} :
                                           IsPlace(p, m, q, ToSend(q), InTransit(q), recv_buffer[q], consumed[q])
                                      \/ \E i \in Where(g, m) : p = <<"received", r, i>>
                                      \/ m \in consumed[r] /\ p = <<"consumed", r, m>>
      <4>1. IsPlace(p, m, r, ToSend(r)', InTransit(r)', recv_buffer'[r], consumed'[r]) <=>
              \/ \E i \in Where(g, m) : p = <<"received", r, i>>
              \/ m \in consumed[r] /\ p = <<"consumed", r, m>>
        BY <1>1, <1>6, <1>9, <1>13 DEF IsPlace
      <4>2. \A q \in Ranks \ {r} :
              IsPlace(p, m, q, ToSend(q)', InTransit(q)', recv_buffer'[q], consumed'[q])
                <=> IsPlace(p, m, q, ToSend(q), InTransit(q), recv_buffer[q], consumed[q])
        BY <1>1, <1>6, <1>10 DEF IsPlace
      <4> QED BY <4>1, <4>2, PlaceWillBe
    <3>3. ASSUME NEW p
          PROVE  p \in Places(m) <=> \/ \E q \in Ranks \ {r} :
                                           IsPlace(p, m, q, ToSend(q), InTransit(q), recv_buffer[q], consumed[q])
                                     \/ \E i \in Where(g, m) : p = <<"transit", r, i>>
                                     \/ m \in consumed[r] /\ p = <<"consumed", r, m>>
      <4>1. IsPlace(p, m, r, ToSend(r), InTransit(r), recv_buffer[r], consumed[r]) <=>
              \/ \E i \in Where(g, m) : p = <<"transit", r, i>>
              \/ m \in consumed[r] /\ p = <<"consumed", r, m>>
        BY <1>1, <1>3, <1>9, <1>13 DEF IsPlace
      <4> QED BY <4>1, PlaceIs
    <3>4. ASSUME NEW p \in Places(m)'
          PROVE  \/ p \in Places(m) /\ ~ \E i \in Where(g, m) : p = <<"transit", r, i>>
                 \/ \E i \in Where(g, m) : p = <<"received", r, i>> /\ <<"transit", r, i>> \in Places(m)
      <4>1. CASE \E i \in Where(g, m) : p = <<"received", r, i>>
        <5>1. PICK i \in Where(g, m) : p = <<"received", r, i>>
          BY <4>1
        <5>2. <<"transit", r, i>> \in Places(m)
          BY <3>3
        <5> QED BY <5>1, <5>2
      <4>2. CASE m \in consumed[r] /\ p = <<"consumed", r, m>>
        <5>1. p \in Places(m)
          BY <3>3, <4>2
        <5>2. \A i : p # <<"transit", r, i>>
          BY <4>2
        <5> QED BY <5>1, <5>2
      <4>3. CASE \E q \in Ranks \ {r} :
                   IsPlace(p, m, q, ToSend(q), InTransit(q), recv_buffer[q], consumed[q])
        <5>1. PICK q \in Ranks \ {r} :
                IsPlace(p, m, q, ToSend(q), InTransit(q), recv_buffer[q], consumed[q])
          BY <4>3
        <5>2. p[2] = q
          BY <5>1 DEF IsPlace
        <5>3. \A i : p # <<"transit", r, i>>
          BY <5>2
        <5>4. p \in Places(m)
          BY <3>3, <4>3
        <5> QED BY <5>3, <5>4
      <4> QED BY <3>2, <4>1, <4>2, <4>3
    <3>5. \A p, o \in Places(m)' : p = o
      <4> SUFFICES ASSUME NEW p \in Places(m)', NEW o \in Places(m)' PROVE p = o
        OBVIOUS
      <4>1. \A a, b \in Places(m) : a = b
        BY <3>1 DEF PlacedOnce
      <4>2. CASE p \in Places(m) /\ ~ \E i \in Where(g, m) : p = <<"transit", r, i>>
        <5>1. ~ \E i \in Where(g, m) : <<"transit", r, i>> \in Places(m)
          BY <4>1, <4>2
        <5>2. o \in Places(m)
          BY <3>4, <5>1
        <5> QED BY <4>1, <4>2, <5>2
      <4>3. CASE \E i \in Where(g, m) : p = <<"received", r, i>> /\ <<"transit", r, i>> \in Places(m)
        <5>1. PICK i \in Where(g, m) : p = <<"received", r, i>> /\ <<"transit", r, i>> \in Places(m)
          BY <4>3
        <5>2. PICK j \in Where(g, m) : o = <<"received", r, j>> /\ <<"transit", r, j>> \in Places(m)
          BY <3>4, <4>1, <5>1
        <5>3. <<"transit", r, i>> = <<"transit", r, j>>
          BY <4>1, <5>1, <5>2
        <5>4. i = j
          BY <5>3
        <5> QED BY <5>1, <5>2, <5>4
      <4> QED BY <3>4, <4>2, <4>3
    <3>6. Places(m)' = {} <=> Places(m) = {}
      <4>1. ASSUME NEW p \in Places(m) PROVE Places(m)' # {}
        <5>1. CASE \E i \in Where(g, m) : p = <<"transit", r, i>>
          <6>1. PICK i \in Where(g, m) : p = <<"transit", r, i>>
            BY <5>1
          <6>2. <<"received", r, i>> \in Places(m)'
            BY <3>2
          <6> QED BY <6>2
        <5>2. CASE ~ \E i \in Where(g, m) : p = <<"transit", r, i>>
          <6>1. p \in Places(m)'
            BY <3>2, <3>3, <5>2
          <6> QED BY <6>1
        <5> QED BY <5>1, <5>2
      <4>2. ASSUME NEW p \in Places(m)' PROVE Places(m) # {}
        BY <3>4
      <4> QED BY <4>1, <4>2
    <3> QED BY <1>1, <3>1, <3>5, <3>6 DEF PlacedOnce
  <2>2. ASSUME NEW m \in Msgs, NEW q \in Ranks, m \in consumed'[q] \cup Range(recv_buffer'[q])
        PROVE  Dest[m] = q
    <3>1. CASE q = r
      BY <1>1, <1>3, <1>6, <2>2, <3>1 DEF ExactlyOnePlace
    <3>2. CASE q # r
      BY <1>1, <1>6, <2>2, <3>2 DEF ExactlyOnePlace
    <3> QED BY <3>1, <3>2
  <2> QED BY <2>1, <2>2, PlacedOnceWill
<1>15. CountsAgree'
  <2>1. ASSUME NEW q \in Ranks, Delivered(q)', NEW p \in Ranks
        PROVE  recv_counts'[q][p] = Len(Arg(q, p)'[q])
    <3>1. q # r /\ Delivered(q) /\ Arg(q, p)' = Arg(q, p)
      BY <1>9, <1>10, <2>1
    <3> QED BY <1>1, <3>1 DEF CountsAgree
  <2>2. ASSUME NEW q \in Ranks, NEW p \in Ranks
        PROVE  send_counts'[q][p] = Cardinality(At(send_buffer'[q], p))
    <3>1. CASE q = r
      <4>1. send_counts'[q][p] = 0
        BY <1>6, <3>1 DEF Zero
      <4>2. At(<<>>, p) = {} /\ send_buffer'[q] = <<>>
        BY <1>6, <3>1 DEF At
      <4> QED BY <4>1, <4>2, FS_EmptySet
    <3>2. CASE q # r
      BY <1>1, <1>6, <3>2 DEF CountsAgree, At
    <3> QED BY <3>1, <3>2
  <2> QED BY <2>1, <2>2 DEF CountsAgree, At
<1>16. Range(<<>>) = {}
  BY DEF Range
<1>17. PhasesSeparate'
  <2>1. ASSUME NEW q \in Ranks, NEW m \in Range(recv_buffer'[q]) PROVE pushed_in'[m] = phase'[q]
    <3>1. CASE q = r
      BY <1>1, <1>3, <1>6, <2>1, <3>1
    <3>2. CASE q # r
      BY <1>1, <1>6, <2>1, <3>2 DEF PhasesSeparate
    <3> QED BY <3>1, <3>2
  <2> QED BY <2>1 DEF PhasesSeparate
<1>18. TransitInv'
  <2>1. ASSUME NEW q \in Ranks, NEW m \in Range(ToSend(q)') PROVE pushed_in'[m] = phase'[q]
    <3>1. q # r
      BY <1>9, <1>16, <2>1
    <3> QED BY <1>1, <1>10, <2>1, <3>1 DEF TransitInv
  <2>2. ASSUME NEW q \in Ranks, Delivered(q)', NEW p \in Ranks, NEW m \in Range(Arg(q, p)'[q])
        PROVE  Dest[m] = q /\ pushed_in'[m] = phase'[q]
    <3>1. q # r /\ Delivered(q) /\ Arg(q, p)' = Arg(q, p)
      BY <1>9, <1>10, <2>2
    <3> QED BY <1>1, <2>2, <3>1 DEF TransitInv
  <2> QED BY <2>1, <2>2 DEF TransitInv
<1>19. BuffersInv'
  <2>1. \A q \in Ranks : Calls(q)' = Calls(q)
    BY <1>1 DEF Calls
  <2>2. ASSUME NEW q \in Ranks
        PROVE  /\ pc'[q] # "work" => recv_buffer'[q] = <<>>
               /\ pc'[q] = "data" =>
                  /\ \A i, j \in DOMAIN send_buffer'[q] :
                       i < j => Dest[send_buffer'[q][i]] <= Dest[send_buffer'[q][j]]
                  /\ \A p \in Ranks : recv_counts'[q][p] = posted'[p][Calls(q)' - 1].arg[q]
    <3>1. CASE q = r
      BY <1>6, <3>1
    <3>2. CASE q # r
      BY <1>1, <1>6, <2>1, <3>2 DEF BuffersInv
    <3> QED BY <3>1, <3>2
  <2> QED BY <2>2 DEF BuffersInv
<1>20. ExchangeInv'
  BY <1>7, <1>8, <1>12, <1>14, <1>15, <1>17, <1>18, <1>19, Conclude
<1> QED BY <1>3, <1>6, <1>9, <1>10, <1>11, <1>20
-----------------------------------------------------------------------------
(* The exchange                                                            *)

\* The slices of a grouped buffer.
LEMMA SliceFacts ==
  ASSUME NEW s \in Seq(Msgs), InOrder(s), NEW counts \in [Ranks -> Nat],
         \A q \in Ranks : counts[q] = Cardinality(At(s, q)), NEW q \in Ranks
  PROVE  /\ Slice(s, counts, q) \in Seq(Msgs) /\ Len(Slice(s, counts, q)) = counts[q]
         /\ \A k \in 1 .. counts[q] : /\ displs(counts)[q] + k \in At(s, q)
                                      /\ Slice(s, counts, q)[k] = s[displs(counts)[q] + k]
         /\ \A i \in At(s, q) : i - displs(counts)[q] \in 1 .. counts[q]
<1> DEFINE d == displs(counts)[q]
           t == Slice(s, counts, q)
<1>1. d \in Nat /\ counts[q] \in Nat /\ displs(counts)[q + 1] = d + counts[q]
  BY DisplsFacts, RankFacts
<1>2. At(s, q) = d + 1 .. d + counts[q]
  BY <1>1, GroupsAreSlices
<1>3. t = [k \in 1 .. counts[q] |-> s[d + k]]
  BY DEF Slice
<1> HIDE DEF d, t
<1>4. ASSUME NEW k \in 1 .. counts[q]
      PROVE  d + k \in At(s, q) /\ t[k] = s[d + k] /\ t[k] \in Msgs
  <2>1. d + k \in At(s, q)
    BY <1>1, <1>2
  <2>2. s[d + k] \in Msgs
    BY <2>1 DEF At
  <2> QED BY <1>3, <2>1, <2>2
<1>5. t \in Seq(Msgs) /\ Len(t) = counts[q]
  <2>1. t \in [1 .. counts[q] -> Msgs]
    BY <1>3, <1>4
  <2> QED BY <1>1, <2>1
<1>6. \A i \in At(s, q) : i - d \in 1 .. counts[q]
  BY <1>1, <1>2
<1> QED BY <1>4, <1>5, <1>6 DEF d, t

\* g is what q gathers from the grouped buffers B with the counts C.
IsGathered(B, C, q, counts, slices, g) ==
  /\ B \in [Ranks -> Seq(Msgs)] /\ C \in [Ranks -> [Ranks -> Nat]]
  /\ \A p \in Ranks : InOrder(B[p])
  /\ \A p, o \in Ranks : C[p][o] = Cardinality(At(B[p], o))
  /\ q \in Ranks /\ counts \in [Ranks -> Nat] /\ \A p \in Ranks : counts[p] = C[p][q]
  /\ \A p \in Ranks : slices[p] = Slice(B[p], C[p], q)
  /\ DOMAIN g = 1 .. Summed(counts)
  /\ \A x \in 1 .. Summed(counts) :
       g[x] = slices[SliceOf(counts, x)][x - displs(counts)[SliceOf(counts, x)]]

ExchangedRight(B, q, g, m) ==
  /\ Where(g, m) # {} => Dest[m] = q /\ \E p \in Ranks : Where(B[p], m) # {}
  /\ Dest[m] = q /\ (\E p \in Ranks : Where(B[p], m) # {}) => Where(g, m) # {}
  /\ (\A p, o \in Ranks : \A i \in Where(B[p], m), j \in Where(B[o], m) : p = o /\ i = j)
       => \A x, y \in Where(g, m) : x = y

(***************************************************************************)
(* Whatever the ranks' grouped buffers hold for q is what q gathers, each  *)
(* message once.                                                           *)
(***************************************************************************)
LEMMA Exchanged ==
  ASSUME NEW B, NEW C, NEW q, NEW counts, NEW slices, NEW g,
         IsGathered(B, C, q, counts, slices, g), NEW m
  PROVE  ExchangedRight(B, q, g, m)
<1>0. /\ B \in [Ranks -> Seq(Msgs)] /\ C \in [Ranks -> [Ranks -> Nat]]
      /\ \A p \in Ranks : InOrder(B[p])
      /\ \A p, o \in Ranks : C[p][o] = Cardinality(At(B[p], o))
      /\ q \in Ranks /\ counts \in [Ranks -> Nat] /\ \A p \in Ranks : counts[p] = C[p][q]
      /\ \A p \in Ranks : slices[p] = Slice(B[p], C[p], q)
      /\ DOMAIN g = 1 .. Summed(counts)
  BY DEF IsGathered
<1>9. \A x \in 1 .. Summed(counts) :
         g[x] = slices[SliceOf(counts, x)][x - displs(counts)[SliceOf(counts, x)]]
  BY DEF IsGathered
<1>1. ASSUME NEW p \in Ranks
      PROVE  /\ \A k \in 1 .. C[p][q] : /\ displs(C[p])[q] + k \in At(B[p], q)
                                        /\ Slice(B[p], C[p], q)[k] = B[p][displs(C[p])[q] + k]
             /\ \A i \in At(B[p], q) : i - displs(C[p])[q] \in 1 .. C[p][q]
             /\ displs(C[p])[q] \in Nat /\ displs(counts)[p] \in Nat /\ counts[p] = C[p][q]
             /\ C[p][q] \in Nat
  <2>1. B[p] \in Seq(Msgs) /\ C[p] \in [Ranks -> Nat] /\ InOrder(B[p])
        /\ \A o \in Ranks : C[p][o] = Cardinality(At(B[p], o))
    BY <1>0
  <2>2. displs(C[p])[q] \in Nat /\ displs(counts)[p] \in Nat
    BY <1>0, <2>1, DisplsFacts, RankFacts
  <2> QED BY <1>0, <2>1, <2>2, SliceFacts
<1>2. ASSUME NEW x \in Where(g, m)
      PROVE  \E p \in Ranks : /\ x - displs(counts)[p] \in 1 .. C[p][q]
                              /\ displs(C[p])[q] + (x - displs(counts)[p]) \in Where(B[p], m)
                              /\ Dest[m] = q /\ x \in Nat
  <2>1. x \in 1 .. Summed(counts) /\ g[x] = m
    BY <1>0 DEF Where
  <2>2. PICK p \in Ranks : /\ x - displs(counts)[p] \in 1 .. counts[p]
                           /\ g[x] = Slice(B[p], C[p], q)[x - displs(counts)[p]]
    BY <1>0, <1>9, <2>1, SliceOfFacts
  <2>3. /\ displs(C[p])[q] + (x - displs(counts)[p]) \in At(B[p], q)
        /\ B[p][displs(C[p])[q] + (x - displs(counts)[p])] = m
    BY <1>1, <2>1, <2>2
  <2>4. displs(C[p])[q] + (x - displs(counts)[p]) \in Where(B[p], m) /\ Dest[m] = q
    BY <2>3 DEF At, Where
  <2>5. x \in Nat
    BY <1>0, <2>1, SummedZero
  <2> QED BY <1>1, <2>2, <2>4, <2>5
<1>3. Where(g, m) # {} => Dest[m] = q /\ \E p \in Ranks : Where(B[p], m) # {}
  <2>1. ASSUME NEW x \in Where(g, m) PROVE Dest[m] = q /\ \E p \in Ranks : Where(B[p], m) # {}
    BY <1>2
  <2> QED BY <2>1
<1>4. ASSUME Dest[m] = q, NEW p \in Ranks, NEW i \in Where(B[p], m) PROVE Where(g, m) # {}
  <2>1. i \in At(B[p], q) /\ B[p][i] = m /\ i \in Nat
    <3>1. i \in DOMAIN B[p] /\ B[p][i] = m
      BY DEF Where
    <3>2. i \in Nat
      BY <1>0, <3>1
    <3> QED BY <1>4, <3>1, <3>2 DEF At
  <2> DEFINE k == i - displs(C[p])[q]
  <2>2. k \in 1 .. C[p][q] /\ displs(C[p])[q] + k = i
    BY <1>1, <2>1
  <2> HIDE DEF k
  <2>3. k \in 1 .. counts[p] /\ slices[p][k] = m
    BY <1>0, <1>1, <2>1, <2>2
  <2>4. g[displs(counts)[p] + k] = slices[p][k] /\ displs(counts)[p] + k \in 1 .. Summed(counts)
    <3>1. PICK x : x = displs(counts)[p] + k
      OBVIOUS
    <3>2. x \in 1 .. Summed(counts) /\ SliceOf(counts, x) = p /\ x - displs(counts)[p] = k
      BY <1>0, <2>3, <3>1, SliceOfIs
    <3>3. g[x] = slices[SliceOf(counts, x)][x - displs(counts)[SliceOf(counts, x)]]
      BY <1>9, <3>2
    <3>4. g[x] = slices[p][k]
      BY <3>2, <3>3
    <3> QED BY <3>1, <3>2, <3>4
  <2>5. displs(counts)[p] + k \in Where(g, m)
    BY <1>0, <2>3, <2>4 DEF Where
  <2> QED BY <2>5
<1>5. ASSUME \A p, o \in Ranks : \A i \in Where(B[p], m), j \in Where(B[o], m) : p = o /\ i = j,
             NEW x \in Where(g, m), NEW y \in Where(g, m)
      PROVE  x = y
  <2>1. PICK p \in Ranks : /\ x - displs(counts)[p] \in 1 .. C[p][q] /\ x \in Nat
                           /\ displs(C[p])[q] + (x - displs(counts)[p]) \in Where(B[p], m)
    BY <1>2
  <2>2. PICK o \in Ranks : /\ y - displs(counts)[o] \in 1 .. C[o][q] /\ y \in Nat
                           /\ displs(C[o])[q] + (y - displs(counts)[o]) \in Where(B[o], m)
    BY <1>2
  <2>3. PICK i, j : /\ i = displs(C[p])[q] + (x - displs(counts)[p])
                    /\ j = displs(C[o])[q] + (y - displs(counts)[o])
    OBVIOUS
  <2>4. i \in Where(B[p], m) /\ j \in Where(B[o], m)
    BY <2>1, <2>2, <2>3
  <2>5. p = o /\ i = j
    BY <1>5, <2>4
  <2>6. displs(C[p])[q] \in Nat /\ displs(counts)[p] \in Nat
    BY <1>1
  <2>7. x \in Nat /\ y \in Nat
    BY <2>1, <2>2
  <2>8. displs(C[p])[q] + (x - displs(counts)[p]) = displs(C[p])[q] + (y - displs(counts)[p])
    BY <2>3, <2>5
  <2>9. \A a, b \in Nat : a + (x - b) = a + (y - b) => x = y
    BY <2>7
  <2> QED BY <2>6, <2>8, <2>9
<1> QED BY <1>3, <1>4, <1>5 DEF ExchangedRight

\* Who is where when r joins an alltoallv.
LEMMA DataSplit ==
  ASSUME ExchangeInv, NEW r \in Ranks, pc[r] = "counts", Matched(r), NEW q \in Ranks
  PROVE  /\ \/ Calls(q) = Calls(r) /\ pc[q] = "counts"
            \/ Calls(q) = Calls(r) + 1 /\ pc[q] = "data" /\ q # r
         /\ ~ Delivered(q) /\ ~ Stopped(q) /\ recv_buffer[q] = <<>>
         /\ ToSend(q) = send_buffer[q] /\ InTransit(q) = <<>> /\ PhaseOf(q) = phase[q]
         /\ Calls(q) \in Nat /\ Calls(r) \in Nat
<1>1. StateOK /\ TypeOK /\ InStep /\ Ahead /\ LastCalls /\ CollectivesMatch /\ BuffersInv
  BY Invariants
<1>2. Calls(q) \in Nat /\ Calls(r) \in Nat /\ Calls(r) <= Calls(q) /\ Calls(q) <= Calls(r) + 1
  BY <1>1, CallFacts DEF Matched, Calls, InStep
<1>3. CASE Calls(q) = Calls(r)
  <2>1. pc[q] = "counts"
    BY <1>1, <1>3, SameCall
  <2>2. ~ Delivered(q) /\ ~ Stopped(q) /\ recv_buffer[q] = <<>>
    BY <1>1, <2>1 DEF Delivered, Stopped, BuffersInv
  <2>3. PhaseOf(q) = phase[q]
    BY <1>1, <2>2, RankFacts DEF PhaseOf, TypeOK
  <2> QED BY <1>2, <1>3, <2>1, <2>2, <2>3 DEF ToSend, InTransit
<1>4. CASE Calls(q) = Calls(r) + 1
  <2>1. ~ Matched(q)
    BY <1>2, <1>4 DEF Matched, Calls
  <2>2. pc[q] = "data"
    <3>1. pc[q] \in InComm
      BY <1>1, <2>1 DEF InStep
    <3> QED BY <1>1, <1>4, <3>1 DEF Ahead, InComm
  <2>3. ~ Delivered(q) /\ ~ Stopped(q) /\ recv_buffer[q] = <<>>
    BY <1>1, <2>1, <2>2 DEF Delivered, Stopped, BuffersInv
  <2>4. PhaseOf(q) = phase[q]
    BY <1>1, <2>3, RankFacts DEF PhaseOf, TypeOK
  <2> QED BY <1>2, <1>4, <2>2, <2>3, <2>4 DEF ToSend, InTransit
<1>5. Calls(q) = Calls(r) \/ Calls(q) = Calls(r) + 1
  BY <1>2
<1> QED BY <1>3, <1>4, <1>5

\* What is true however many have joined.
JoinedWith(r, s, c) ==
  /\ pc[r] = "counts" /\ Matched(r)
  /\ s \in Groupings(send_buffer[r])
  /\ c = Call("alltoallv", [q \in Ranks |-> Slice(s, send_counts[r], q)])
  /\ posted' = [posted EXCEPT ![r] = Append(posted[r], c)]
  /\ send_buffer' = [send_buffer EXCEPT ![r] = s]
  /\ recv_counts' = [recv_counts EXCEPT ![r] = [q \in Ranks |-> Arg(r, q)[r]]]
  /\ pc' = [pc EXCEPT ![r] = "data"]
  /\ phase' = phase /\ send_counts' = send_counts /\ recv_buffer' = recv_buffer
  /\ consumed' = consumed /\ pushed_in' = pushed_in

\* All others have made the call r is about to make.
LastToJoin(r) == \A q \in Ranks \ {r} : Calls(q) = Calls(r) + 1

\* Joining an alltoallv: the calls stay in step, and only the last rank delivers.
LEMMA JoinKeeps ==
  ASSUME ExchangeInv, NEW r \in Ranks, NEW s, NEW c, JoinedWith(r, s, c)
  PROVE  /\ StateOK' /\ InStep' /\ Ahead' /\ CollectivesMatch' /\ LastCalls' /\ BuffersInv' /\ OnePhase'
         /\ \A q \in Ranks : ~ Stopped(q)' /\ PhaseOf(q)' = PhaseOf(q)
         /\ \A q \in Ranks : Delivered(q)' <=> LastToJoin(r)
         /\ LastToJoin(r) => \A q \in Ranks : pc'[q] = "data" /\ Calls(q)' = Calls(r) + 1
         /\ send_buffer'[r] = s /\ \A q \in Ranks \ {r} : send_buffer'[q] = send_buffer[q]
         /\ \A q, p \in Ranks : send_counts'[q][p] = Cardinality(At(send_buffer'[q], p))
<1>1. /\ StateOK /\ TypeOK /\ InStep /\ Ahead /\ LastCalls /\ CountsAgree /\ OnePhase /\ BuffersInv
      /\ CollectivesMatch
  BY Invariants
<1>2. /\ pc[r] = "counts" /\ Matched(r) /\ s \in Groupings(send_buffer[r])
      /\ c = Call("alltoallv", [q \in Ranks |-> Slice(s, send_counts[r], q)])
      /\ posted' = [posted EXCEPT ![r] = Append(posted[r], c)]
      /\ send_buffer' = [send_buffer EXCEPT ![r] = s]
      /\ recv_counts' = [recv_counts EXCEPT ![r] = [q \in Ranks |-> Arg(r, q)[r]]]
      /\ pc' = [pc EXCEPT ![r] = "data"]
      /\ phase' = phase /\ send_counts' = send_counts /\ recv_buffer' = recv_buffer
      /\ consumed' = consumed /\ pushed_in' = pushed_in
  BY DEF JoinedWith
<1>3. /\ pc \in [Ranks -> {"work", "reduce", "counts", "data", "returned"}]
      /\ send_buffer \in [Ranks -> Seq(Msgs)] /\ send_buffer[r] \in Seq(Msgs)
      /\ send_counts \in [Ranks -> [Ranks -> Nat]] /\ send_counts[r] \in [Ranks -> Nat]
      /\ recv_counts \in [Ranks -> [Ranks -> Nat]]
      /\ posted \in [Ranks -> Seq(CallSet)]
  BY <1>1 DEF TypeOK, StateOK
<1>4. /\ pc'[r] = "data" /\ \A q \in Ranks \ {r} : pc'[q] = pc[q]
      /\ pc' \in [Ranks -> {"work", "reduce", "counts", "data", "returned"}]
      /\ send_buffer'[r] = s /\ \A q \in Ranks \ {r} : send_buffer'[q] = send_buffer[q]
  BY <1>2, <1>3
<1>5. /\ s \in Seq(Msgs) /\ InOrder(s)
      /\ \A q \in Ranks : Cardinality(At(s, q)) = Cardinality(At(send_buffer[r], q))
  BY <1>2, <1>3, GroupingFacts
<1>6. \A q, p \in Ranks : send_counts[q][p] = Cardinality(At(send_buffer[q], p))
  BY <1>1 DEF CountsAgree, At
<1>7. \A q, p \in Ranks : send_counts'[q][p] = Cardinality(At(send_buffer'[q], p))
  <2>1. ASSUME NEW q \in Ranks, NEW p \in Ranks
        PROVE  send_counts'[q][p] = Cardinality(At(send_buffer'[q], p))
    <3>1. send_counts[q][p] = Cardinality(At(send_buffer[q], p))
      BY <1>6
    <3>2. CASE q = r
      BY <1>2, <1>4, <1>5, <3>1, <3>2
    <3>3. CASE q # r
      BY <1>2, <1>4, <3>1, <3>3
    <3> QED BY <3>2, <3>3
  <2> QED BY <2>1
<1>8. c \in CallSet /\ c.op = "alltoallv"
  <2>1. \A q \in Ranks : send_counts[r][q] = Cardinality(At(s, q))
    BY <1>5, <1>6
  <2>2. \A q \in Ranks : Slice(s, send_counts[r], q) \in Seq(Msgs)
    BY <1>3, <1>5, <2>1, SliceFacts
  <2>3. [q \in Ranks |-> Slice(s, send_counts[r], q)] \in [Ranks -> Seq(Msgs)]
    BY <2>2
  <2> QED BY <1>2, <2>3 DEF Call, CallSet
<1>9. Posts(r, c) /\ Follows(r, c)
  BY <1>2, <1>4, <1>8 DEF Posts, Follows
<1>10. InStep' /\ Ahead' /\ CollectivesMatch'
  BY <1>1, <1>4, <1>9, PostsKeep
<1>11. /\ posted' \in [Ranks -> Seq(CallSet)]
       /\ Calls(r)' = Calls(r) + 1 /\ posted'[r][Calls(r) + 1] = c
       /\ \A q \in Ranks \ {r} : Calls(q)' = Calls(q)
       /\ \A q \in Ranks : \A i \in 1 .. Calls(q) : posted'[q][i] = posted[q][i]
       /\ \A q \in Ranks : Calls(q) \in Nat /\ Calls(r) <= Calls(q) /\ Calls(q) <= Calls(r) + 1
  BY <1>1, <1>9, PostsFacts
<1>12. LastCall(r, Calls(r)) /\ Calls(r) > 1 /\ Calls(r) \in Nat
  <2>1. LastCall(r, Calls(r))
    BY <1>1 DEF LastCalls
  <2> QED BY <1>2, <1>11, <2>1 DEF LastCall
<1>13. \A q \in Ranks : Arg(r, q) \in [Ranks -> Nat]
  <2>1. ASSUME NEW q \in Ranks PROVE Arg(r, q) \in [Ranks -> Nat]
    <3>1. Calls(r) \in DOMAIN posted[r] /\ Calls(r) \in DOMAIN posted[q] /\ Calls(r) \in 1 .. Calls(q)
      BY <1>1, <1>11, <1>12, CallFacts
    <3>2. posted[r][Calls(r)].op = "alltoall"
      BY <1>1, <1>2, LastOp
    <3>3. posted[q][Calls(r)].op = "alltoall"
      BY <1>1, <3>1, <3>2 DEF CollectivesMatch
    <3> QED BY <1>1, <3>1, <3>3, CallFacts DEF Arg, Calls
  <2> QED BY <2>1
<1>14. StateOK'
  <2>1. send_buffer' \in [Ranks -> Seq(Msgs)]
    BY <1>2, <1>3, <1>5
  <2>2. recv_counts' \in [Ranks -> [Ranks -> Nat]]
    <3>1. [q \in Ranks |-> Arg(r, q)[r]] \in [Ranks -> Nat]
      BY <1>13
    <3> QED BY <1>2, <1>3, <3>1
  <2>3. \A q \in Ranks : pc'[q] = "returned" <=> phase'[q] = MaxPhases
    <3>1. \A q \in Ranks : pc[q] = "returned" <=> phase[q] = MaxPhases
      BY <1>1 DEF StateOK
    <3>2. pc[r] # "returned" /\ pc'[r] # "returned"
      BY <1>2, <1>4
    <3> QED BY <1>2, <1>4, <3>1, <3>2
  <2> QED BY <1>1, <1>2, <1>4, <1>11, <2>1, <2>2, <2>3, StateWillBe DEF StateOK, TypeOK
<1>15. LastCalls'
  <2>1. ASSUME NEW q \in Ranks \ {r} PROVE LastCall(q, Calls(q))'
    BY <1>1, <1>2, <1>4, <1>9, LastCallsStay
  <2>2. /\ posted[r][Calls(r)] = Call("alltoall", send_counts[r])
        /\ posted[r][Calls(r) - 1] = Call("allreduce", Summed(send_counts[r]))
        /\ SumOf(posted, Calls(r) - 1) # 0
    BY <1>2, <1>12 DEF LastCall
  <2>3. SumOf(posted', Calls(r) - 1) = SumOf(posted, Calls(r) - 1)
    <3>1. Calls(r) - 1 \in Nat \ {0} /\ \A q \in Ranks : Calls(r) - 1 <= Calls(q)
      BY <1>11, <1>12
    <3> QED BY <1>1, <1>9, <3>1, SumsKept
  <2>4. /\ posted'[r][Calls(r)] = posted[r][Calls(r)]
        /\ posted'[r][Calls(r) - 1] = posted[r][Calls(r) - 1]
    <3>1. Calls(r) \in 1 .. Calls(r) /\ Calls(r) - 1 \in 1 .. Calls(r)
      BY <1>12
    <3> QED BY <1>11, <3>1
  <2>5. Calls(r)' - 1 = Calls(r) /\ Calls(r)' - 2 = Calls(r) - 1 /\ Calls(r)' > 2
    BY <1>11, <1>12
  <2>6. posted'[r][Calls(r)'] =
          Call("alltoallv", [q \in Ranks |-> Slice(send_buffer'[r], send_counts'[r], q)])
    BY <1>2, <1>4, <1>11
  <2>7. LastCall(r, Calls(r))'
    BY <1>2, <1>4, <2>2, <2>3, <2>4, <2>5, <2>6 DEF LastCall, InComm
  <2> QED BY <2>1, <2>7 DEF LastCalls
<1>16. BuffersInv'
  <2> SUFFICES ASSUME NEW q \in Ranks
               PROVE  /\ pc'[q] # "work" => recv_buffer'[q] = <<>>
                      /\ pc'[q] = "data" =>
                         /\ \A i, j \in DOMAIN send_buffer'[q] :
                              i < j => Dest[send_buffer'[q][i]] <= Dest[send_buffer'[q][j]]
                         /\ \A p \in Ranks : recv_counts'[q][p] = posted'[p][Calls(q)' - 1].arg[q]
    BY DEF BuffersInv
  <2>1. recv_buffer'[q] = <<>>
    BY <1>2, DataSplit
  <2>2. CASE q = r
    <3>1. \A i, j \in DOMAIN send_buffer'[q] :
            i < j => Dest[send_buffer'[q][i]] <= Dest[send_buffer'[q][j]]
      BY <1>4, <1>5, <2>2 DEF InOrder
    <3>2. ASSUME NEW p \in Ranks PROVE recv_counts'[q][p] = posted'[p][Calls(q)' - 1].arg[q]
      <4>1. recv_counts'[r][p] = Arg(r, p)[r]
        BY <1>2, <1>3
      <4>2. Calls(r)' - 1 = Calls(r) /\ Calls(r) \in 1 .. Calls(p)
        <5>1. Calls(r)' = Calls(r) + 1 /\ Calls(p) \in Nat /\ Calls(r) <= Calls(p)
          BY <1>11
        <5> QED BY <1>12, <5>1
      <4>3. Arg(r, p) = posted[p][Calls(r)].arg
        BY DEF Arg, Calls
      <4> QED BY <1>11, <2>2, <4>1, <4>2, <4>3
    <3> QED BY <2>1, <3>1, <3>2
  <2>3. CASE q # r
    <3>1. pc'[q] = pc[q] /\ Calls(q)' = Calls(q) /\ send_buffer'[q] = send_buffer[q]
          /\ recv_counts'[q] = recv_counts[q]
      BY <1>2, <1>3, <1>4, <1>11, <2>3
    <3>2. ASSUME pc[q] = "data", NEW p \in Ranks
          PROVE  posted'[p][Calls(q) - 1] = posted[p][Calls(q) - 1]
      <4>1. LastCall(q, Calls(q))
        BY <1>1 DEF LastCalls
      <4>2. Calls(q) > 2 /\ Calls(q) \in Nat /\ Calls(p) \in Nat /\ Calls(q) <= Calls(p) + 1
        BY <1>1, <1>11, <3>2, <4>1 DEF LastCall, InStep
      <4>3. Calls(q) - 1 \in 1 .. Calls(p)
        BY <4>2
      <4> QED BY <1>11, <4>3
    <3>3. /\ pc[q] = "data" =>
               /\ \A i, j \in DOMAIN send_buffer[q] :
                    i < j => Dest[send_buffer[q][i]] <= Dest[send_buffer[q][j]]
               /\ \A p \in Ranks : recv_counts[q][p] = posted[p][Calls(q) - 1].arg[q]
      BY <1>1 DEF BuffersInv
    <3> QED BY <2>1, <3>1, <3>2, <3>3
  <2> QED BY <2>2, <2>3
<1>17. ASSUME NEW q \in Ranks
       PROVE  /\ ~ Stopped(q)' /\ PhaseOf(q)' = PhaseOf(q)
              /\ Delivered(q)' <=> LastToJoin(r)
              /\ LastToJoin(r) => pc'[q] = "data" /\ Calls(q)' = Calls(r) + 1
  <2>1. /\ \/ Calls(q) = Calls(r) /\ pc[q] = "counts"
           \/ Calls(q) = Calls(r) + 1 /\ pc[q] = "data" /\ q # r
        /\ PhaseOf(q) = phase[q]
    BY <1>2, DataSplit
  <2>2. pc'[q] # "reduce"
    BY <1>4, <2>1
  <2>3. ~ Stopped(q)' /\ PhaseOf(q)' = PhaseOf(q)
    <3>1. ~ Stopped(q)'
      BY <2>2 DEF Stopped
    <3>2. phase[q] + 0 = phase[q]
      BY <1>1, RankFacts DEF TypeOK
    <3> QED BY <1>2, <2>1, <3>1, <3>2 DEF PhaseOf
  <2>4. CASE q # r /\ Calls(q) = Calls(r)
    <3>1. ~ LastToJoin(r)
      BY <1>12, <2>4 DEF LastToJoin
    <3>2. ~ Delivered(q)'
      BY <1>4, <1>12, <2>1, <2>4 DEF Delivered
    <3> QED BY <2>3, <3>1, <3>2
  <2>5. CASE q = r \/ Calls(q) = Calls(r) + 1
    <3>1. Matched(q)' <=> LastToJoin(r)
      BY <1>1, <1>9, <2>5, MatchedAfter DEF LastToJoin
    <3>2. pc'[q] = "data" /\ Calls(q)' = Calls(r) + 1
      BY <1>4, <1>11, <1>12, <2>1, <2>5
    <3> QED BY <2>3, <3>1, <3>2 DEF Delivered
  <2> QED BY <2>1, <2>4, <2>5
<1>18. OnePhase'
  BY <1>1, <1>17 DEF OnePhase
<1> QED BY <1>4, <1>7, <1>10, <1>14, <1>15, <1>16, <1>17, <1>18

\* A message that one rank is about to send has no other place.
LEMMA SentOnce ==
  ASSUME ExchangeInv, NEW m \in Msgs, \A q \in Ranks : ToSend(q) = send_buffer[q]
  PROVE  /\ \A p, o \in Ranks : \A i \in Where(send_buffer[p], m), j \in Where(send_buffer[o], m) :
              p = o /\ i = j
         /\ (\E p \in Ranks : Where(send_buffer[p], m) # {}) =>
              /\ \A q \in Ranks : m \notin consumed[q]
              /\ pushed_in[m] # -1
<1>1. PlacedOnce(m)
  BY Invariants, PlacedOnceFacts
<1>2. ASSUME NEW p \in Ranks, NEW i \in Where(send_buffer[p], m) PROVE <<"sent", p, i>> \in Places(m)
  <2>1. IsPlace(<<"sent", p, i>>, m, p, ToSend(p), InTransit(p), recv_buffer[p], consumed[p])
    BY DEF IsPlace
  <2> QED BY <2>1, PlaceIs
<1>3. ASSUME NEW p \in Ranks, NEW o \in Ranks,
             NEW i \in Where(send_buffer[p], m), NEW j \in Where(send_buffer[o], m)
      PROVE  p = o /\ i = j
  <2>1. <<"sent", p, i>> = <<"sent", o, j>>
    BY <1>1, <1>2 DEF PlacedOnce
  <2> QED BY <2>1
<1>4. ASSUME NEW p \in Ranks, NEW i \in Where(send_buffer[p], m), NEW q \in Ranks, m \in consumed[q]
      PROVE  FALSE
  <2>1. IsPlace(<<"consumed", q, m>>, m, q, ToSend(q), InTransit(q), recv_buffer[q], consumed[q])
    BY <1>4 DEF IsPlace
  <2>2. <<"consumed", q, m>> \in Places(m)
    BY <2>1, PlaceIs
  <2>3. <<"consumed", q, m>> = <<"sent", p, i>>
    BY <1>1, <1>2, <2>2 DEF PlacedOnce
  <2> QED BY <2>3
<1>5. ASSUME NEW p \in Ranks, NEW i \in Where(send_buffer[p], m) PROVE pushed_in[m] # -1
  BY <1>1, <1>2 DEF PlacedOnce
<1> QED BY <1>3, <1>4, <1>5

\* Grouping a buffer loses no message and doubles none.
LEMMA JoinedFacts ==
  ASSUME ExchangeInv, NEW r \in Ranks, NEW s, NEW c, JoinedWith(r, s, c)
  PROVE  /\ \A q \in Ranks : Range(send_buffer'[q]) = Range(send_buffer[q])
         /\ \A m \in Msgs : /\ \A q \in Ranks : Where(send_buffer'[q], m) = {} <=> Where(send_buffer[q], m) = {}
                            /\ \A p, o \in Ranks : \A i \in Where(send_buffer'[p], m),
                                                      j \in Where(send_buffer'[o], m) : p = o /\ i = j
<1>1. /\ send_buffer'[r] = s /\ \A q \in Ranks \ {r} : send_buffer'[q] = send_buffer[q]
  BY JoinKeeps
<1>2. /\ send_buffer \in [Ranks -> Seq(Msgs)] /\ s \in Groupings(send_buffer[r])
  BY Invariants DEF StateOK, JoinedWith
<1>3. /\ s \in Seq(Msgs) /\ Range(s) = Range(send_buffer[r])
      /\ \A m : (\A i, j \in Where(send_buffer[r], m) : i = j) => \A i, j \in Where(s, m) : i = j
  BY <1>2, GroupingFacts
<1>4. \A q \in Ranks : Range(send_buffer'[q]) = Range(send_buffer[q])
  BY <1>1, <1>3
<1>5. ASSUME NEW m \in Msgs, NEW q \in Ranks
      PROVE  Where(send_buffer'[q], m) = {} <=> Where(send_buffer[q], m) = {}
  <2>1. CASE q = r
    <3>1. m \in Range(s) <=> Where(s, m) # {}
      BY <1>3, SeqFacts
    <3>2. m \in Range(send_buffer[r]) <=> Where(send_buffer[r], m) # {}
      BY <1>2, SeqFacts
    <3> QED BY <1>1, <1>3, <2>1, <3>1, <3>2
  <2>2. CASE q # r
    BY <1>1, <2>2
  <2> QED BY <2>1, <2>2
<1>6. ASSUME NEW m \in Msgs, NEW p \in Ranks, NEW o \in Ranks,
             NEW i \in Where(send_buffer'[p], m), NEW j \in Where(send_buffer'[o], m)
      PROVE  p = o /\ i = j
  <2>1. \A q \in Ranks : ToSend(q) = send_buffer[q]
    BY DataSplit DEF JoinedWith
  <2>2. \A a, b \in Ranks : \A x \in Where(send_buffer[a], m), y \in Where(send_buffer[b], m) :
          a = b /\ x = y
    BY <2>1, SentOnce
  <2>3. p = o
    <3>1. Where(send_buffer[p], m) # {} /\ Where(send_buffer[o], m) # {}
      BY <1>5
    <3> QED BY <2>2, <3>1
  <2>4. CASE p = r
    BY <1>1, <1>3, <2>2, <2>3, <2>4
  <2>5. CASE p # r
    BY <1>1, <2>2, <2>3, <2>5
  <2> QED BY <2>3, <2>4, <2>5
<1> QED BY <1>4, <1>5, <1>6

\* r is not the last to join: its buffer is grouped and that is all.
LEMMA JoinWaits ==
  ASSUME ExchangeInv, NEW r \in Ranks, NEW s, NEW c, JoinedWith(r, s, c), ~ LastToJoin(r)
  PROVE  /\ ExchangeInv'
         /\ \A q \in Ranks : /\ ToSend(q)' = send_buffer'[q] /\ InTransit(q)' = <<>>
                             /\ ~ Delivered(q)'
<1>1. /\ StateOK' /\ InStep' /\ Ahead' /\ CollectivesMatch' /\ LastCalls' /\ BuffersInv' /\ OnePhase'
      /\ \A q \in Ranks : ~ Delivered(q)'
      /\ \A q, p \in Ranks : send_counts'[q][p] = Cardinality(At(send_buffer'[q], p))
  BY JoinKeeps
<1>2. \A q \in Ranks : ToSend(q)' = send_buffer'[q] /\ InTransit(q)' = <<>>
  BY <1>1 DEF ToSend, InTransit
<1>3. \A q \in Ranks : ToSend(q) = send_buffer[q] /\ InTransit(q) = <<>> /\ recv_buffer[q] = <<>>
  BY DataSplit DEF JoinedWith
<1>4. phase' = phase /\ recv_buffer' = recv_buffer /\ consumed' = consumed /\ pushed_in' = pushed_in
  BY DEF JoinedWith
<1>5. /\ \A q \in Ranks : Range(send_buffer'[q]) = Range(send_buffer[q])
      /\ \A m \in Msgs : /\ \A q \in Ranks : Where(send_buffer'[q], m) = {} <=> Where(send_buffer[q], m) = {}
                         /\ \A p, o \in Ranks : \A i \in Where(send_buffer'[p], m),
                                                   j \in Where(send_buffer'[o], m) : p = o /\ i = j
  BY JoinedFacts
<1>6. ExactlyOnePlace /\ PhasesSeparate /\ TransitInv
  BY Invariants
<1>7. \A m : Where(<<>>, m) = {}
  BY DEF Where
<1>8. ExactlyOnePlace'
  <2>1. ASSUME NEW m \in Msgs PROVE PlacedOnce(m)'
    <3>1. PlacedOnce(m)
      BY <1>6, PlacedOnceFacts
    <3>2. ASSUME NEW p
          PROVE  p \in Places(m)' <=> \E q \in Ranks :
                   \/ \E i \in Where(send_buffer'[q], m) : p = <<"sent", q, i>>
                   \/ m \in consumed[q] /\ p = <<"consumed", q, m>>
      <4>1. ASSUME NEW q \in Ranks
            PROVE  IsPlace(p, m, q, ToSend(q)', InTransit(q)', recv_buffer'[q], consumed'[q]) <=>
                     \/ \E i \in Where(send_buffer'[q], m) : p = <<"sent", q, i>>
                     \/ m \in consumed[q] /\ p = <<"consumed", q, m>>
        BY <1>2, <1>3, <1>4, <1>7 DEF IsPlace
      <4> QED BY <4>1, PlaceWillBe
    <3>3. ASSUME NEW p
          PROVE  p \in Places(m) <=> \E q \in Ranks :
                   \/ \E i \in Where(send_buffer[q], m) : p = <<"sent", q, i>>
                   \/ m \in consumed[q] /\ p = <<"consumed", q, m>>
      <4>1. ASSUME NEW q \in Ranks
            PROVE  IsPlace(p, m, q, ToSend(q), InTransit(q), recv_buffer[q], consumed[q]) <=>
                     \/ \E i \in Where(send_buffer[q], m) : p = <<"sent", q, i>>
                     \/ m \in consumed[q] /\ p = <<"consumed", q, m>>
        BY <1>3, <1>7 DEF IsPlace
      <4> QED BY <4>1, PlaceIs
    <3>4. CASE \A q \in Ranks : Where(send_buffer[q], m) = {}
      <4>1. \A q \in Ranks : Where(send_buffer'[q], m) = {}
        BY <1>5, <3>4
      <4>2. Places(m)' = Places(m)
        <5>1. ASSUME NEW p PROVE p \in Places(m)' <=> p \in Places(m)
          BY <3>2, <3>3, <3>4, <4>1
        <5> QED BY <5>1
      <4> QED BY <1>4, <3>1, <4>2 DEF PlacedOnce
    <3>5. CASE \E q \in Ranks : Where(send_buffer[q], m) # {}
      <4>1. /\ \A q \in Ranks : m \notin consumed[q]
            /\ pushed_in[m] # -1
        BY <1>3, <3>5, SentOnce
      <4>2. PICK q \in Ranks : Where(send_buffer'[q], m) # {}
        BY <1>5, <3>5
      <4>3. Places(m)' # {}
        <5>1. PICK i \in Where(send_buffer'[q], m) : TRUE
          BY <4>2
        <5>2. <<"sent", q, i>> \in Places(m)'
          BY <3>2
        <5> QED BY <5>2
      <4>4. ASSUME NEW p \in Places(m)', NEW o \in Places(m)' PROVE p = o
        <5>1. PICK a \in Ranks : \E i \in Where(send_buffer'[a], m) : p = <<"sent", a, i>>
          BY <3>2, <4>1
        <5>2. PICK b \in Ranks : \E i \in Where(send_buffer'[b], m) : o = <<"sent", b, i>>
          BY <3>2, <4>1
        <5> QED BY <1>5, <5>1, <5>2
      <4> QED BY <1>4, <4>1, <4>3, <4>4 DEF PlacedOnce
    <3> QED BY <3>4, <3>5
  <2>2. \A m \in Msgs : \A q \in Ranks : m \in consumed'[q] \cup Range(recv_buffer'[q]) => Dest[m] = q
    BY <1>4, <1>6 DEF ExactlyOnePlace
  <2> QED BY <2>1, <2>2, PlacedOnceWill
<1>9. CountsAgree'
  BY <1>1 DEF CountsAgree, At
<1>10. PhasesSeparate'
  BY <1>4, <1>6 DEF PhasesSeparate
<1>11. TransitInv'
  <2>1. ASSUME NEW q \in Ranks, NEW m \in Range(ToSend(q)') PROVE pushed_in'[m] = phase'[q]
    <3>1. m \in Range(ToSend(q))
      BY <1>2, <1>3, <1>5, <2>1
    <3> QED BY <1>4, <1>6, <3>1 DEF TransitInv
  <2> QED BY <1>1, <2>1 DEF TransitInv
<1>12. ExchangeInv'
  BY <1>1, <1>8, <1>9, <1>10, <1>11, Conclude
<1> QED BY <1>1, <1>2, <1>12

\* What everyone will receive once r has joined, if r is the last.
LEMMA ReceivedByAll ==
  ASSUME ExchangeInv, NEW r \in Ranks, NEW s, NEW c, JoinedWith(r, s, c), LastToJoin(r),
         NEW q \in Ranks
  PROVE  /\ \A m \in Msgs :
              /\ Where(Received(q)', m) # {} <=>
                   Dest[m] = q /\ \E p \in Ranks : Where(send_buffer'[p], m) # {}
              /\ \A x, y \in Where(Received(q)', m) : x = y
         /\ \A p \in Ranks :
              /\ recv_counts'[q][p] = Len(Arg(q, p)'[q])
              /\ \A m \in Range(Arg(q, p)'[q]) : Dest[m] = q /\ m \in Range(send_buffer'[p])
         /\ Received(q)' \in Seq(Msgs)
<1>0. PICK g, B, C : g = Received(q)' /\ B = send_buffer' /\ C = send_counts'
  OBVIOUS
<1>1. /\ StateOK' /\ BuffersInv' /\ LastCalls'
      /\ \A p \in Ranks : pc'[p] = "data" /\ Calls(p)' = Calls(r) + 1
      /\ \A p, o \in Ranks : C[p][o] = Cardinality(At(B[p], o))
  BY <1>0, JoinKeeps
<1>2. /\ B \in [Ranks -> Seq(Msgs)] /\ C \in [Ranks -> [Ranks -> Nat]]
      /\ recv_counts' \in [Ranks -> [Ranks -> Nat]]
  BY <1>0, <1>1 DEF StateOK, TypeOK
<1>3. PICK counts : counts = recv_counts'[q]
  OBVIOUS
<1>4. counts \in [Ranks -> Nat]
  BY <1>2, <1>3
<1>5. \A p \in Ranks : InOrder(B[p])
  BY <1>0, <1>1 DEF BuffersInv, InOrder
<1>6. ASSUME NEW p \in Ranks
      PROVE  /\ Arg(q, p)'[q] = Slice(B[p], C[p], q)
             /\ counts[p] = C[p][q]
  <2>1. LastCall(p, Calls(p))'
    BY <1>1 DEF LastCalls
  <2>2. /\ posted'[p][Calls(p)'] = Call("alltoallv", [o \in Ranks |-> Slice(B[p], C[p], o)])
        /\ posted'[p][Calls(p)' - 1] = Call("alltoall", C[p])
    BY <1>0, <1>1, <2>1 DEF LastCall
  <2>3. Calls(p)' = Calls(q)'
    BY <1>1
  <2>4. Arg(q, p)' = posted'[p][Calls(q)'].arg
    BY DEF Arg, Calls
  <2>5. Arg(q, p)'[q] = Slice(B[p], C[p], q)
    BY <2>2, <2>3, <2>4 DEF Call
  <2>6. recv_counts'[q][p] = posted'[p][Calls(q)' - 1].arg[q]
    BY <1>1 DEF BuffersInv
  <2>7. counts[p] = C[p][q]
    BY <1>3, <2>2, <2>3, <2>6 DEF Call
  <2> QED BY <2>5, <2>7
<1>7. ASSUME NEW p \in Ranks
      PROVE  /\ B[p] \in Seq(Msgs) /\ Slice(B[p], C[p], q) \in Seq(Msgs)
             /\ Len(Slice(B[p], C[p], q)) = C[p][q]
             /\ \A k \in 1 .. C[p][q] : /\ displs(C[p])[q] + k \in At(B[p], q)
                                        /\ Slice(B[p], C[p], q)[k] = B[p][displs(C[p])[q] + k]
  <2>1. B[p] \in Seq(Msgs) /\ C[p] \in [Ranks -> Nat] /\ InOrder(B[p])
        /\ \A o \in Ranks : C[p][o] = Cardinality(At(B[p], o))
    BY <1>1, <1>2, <1>5
  <2> QED BY <2>1, SliceFacts
<1>8. ASSUME NEW p \in Ranks
      PROVE  /\ recv_counts'[q][p] = Len(Arg(q, p)'[q])
             /\ \A m \in Range(Arg(q, p)'[q]) : Dest[m] = q /\ m \in Range(B[p])
  <2>1. recv_counts'[q][p] = Len(Arg(q, p)'[q])
    BY <1>3, <1>6, <1>7
  <2>2. ASSUME NEW m \in Range(Slice(B[p], C[p], q)) PROVE Dest[m] = q /\ m \in Range(B[p])
    <3>1. DOMAIN Slice(B[p], C[p], q) = 1 .. C[p][q]
      BY <1>7
    <3>2. PICK k \in 1 .. C[p][q] : m = Slice(B[p], C[p], q)[k]
      BY <3>1 DEF Range
    <3>3. displs(C[p])[q] + k \in At(B[p], q) /\ m = B[p][displs(C[p])[q] + k]
      BY <1>7, <3>2
    <3> QED BY <3>3 DEF At, Range
  <2> QED BY <1>6, <2>1, <2>2
<1> DEFINE slices == [p \in Ranks |-> Slice(B[p], C[p], q)]
<1>9. \A p \in Ranks : Arg(q, p)'[q] = slices[p] /\ slices[p] = Slice(B[p], C[p], q)
  BY <1>6
<1> HIDE DEF slices
<1>10. \A p \in Ranks : Arg(q, p)'[q] = slices[p]
  BY <1>9
<1>11. g = [x \in 1 .. Summed(counts) |-> g[x]] /\ DOMAIN g = 1 .. Summed(counts)
  <2>1. g = [x \in 1 .. Summed(counts) |-> g[x]]
    BY <1>0, <1>3, <1>4, <1>10, ReceivedWillBe
  <2> QED BY <2>1
<1>12. \A x \in 1 .. Summed(counts) :
         g[x] = slices[SliceOf(counts, x)][x - displs(counts)[SliceOf(counts, x)]]
  BY <1>0, <1>3, <1>4, <1>10, ReceivedWillBe
<1>13. \A p \in Ranks : counts[p] = C[p][q]
  BY <1>6
<1>14. ASSUME NEW m \in Msgs
       PROVE  /\ Where(g, m) # {} <=> Dest[m] = q /\ \E p \in Ranks : Where(B[p], m) # {}
              /\ \A x, y \in Where(g, m) : x = y
  <2>1. /\ Where(g, m) # {} => Dest[m] = q /\ \E p \in Ranks : Where(B[p], m) # {}
        /\ Dest[m] = q /\ (\E p \in Ranks : Where(B[p], m) # {}) => Where(g, m) # {}
        /\ (\A p, o \in Ranks : \A i \in Where(B[p], m), j \in Where(B[o], m) : p = o /\ i = j)
              => \A x, y \in Where(g, m) : x = y
    <3>1. IsGathered(B, C, q, counts, slices, g)
      BY <1>1, <1>2, <1>4, <1>5, <1>9, <1>11, <1>12, <1>13 DEF IsGathered
    <3>2. ExchangedRight(B, q, g, m)
      BY <3>1, Exchanged
    <3> QED BY <3>2 DEF ExchangedRight
  <2>2. \A p, o \in Ranks : \A i \in Where(B[p], m), j \in Where(B[o], m) : p = o /\ i = j
    BY <1>0, JoinedFacts
  <2> QED BY <2>1, <2>2
<1>15. g \in Seq(Msgs)
  <2>1. \A x \in 1 .. Summed(counts) : g[x] \in Msgs
    <3>1. ASSUME NEW x \in 1 .. Summed(counts) PROVE g[x] \in Msgs
      <4>1. PICK p \in Ranks : /\ x - displs(counts)[p] \in 1 .. counts[p]
                               /\ g[x] = Slice(B[p], C[p], q)[x - displs(counts)[p]]
        BY <1>4, <1>9, <1>12, SliceOfFacts
      <4>2. /\ Slice(B[p], C[p], q) \in Seq(Msgs)
            /\ x - displs(counts)[p] \in 1 .. Len(Slice(B[p], C[p], q))
        BY <1>7, <1>13, <4>1
      <4> QED BY <4>1, <4>2
    <3> QED BY <3>1
  <2>2. Summed(counts) \in Nat
    BY <1>4, SummedZero
  <2> QED BY <1>11, <2>1, <2>2
<1> QED BY <1>0, <1>8, <1>14, <1>15

\* The last rank to join delivers everything that was to be sent, each to its rank.
LEMMA JoinCompletes ==
  ASSUME ExchangeInv, NEW r \in Ranks, NEW s, NEW c, JoinedWith(r, s, c), LastToJoin(r)
  PROVE  /\ ExchangeInv'
         /\ \A q \in Ranks : ToSend(q)' = <<>> /\ Delivered(q)' /\ InTransit(q)' \in Seq(Msgs)
         /\ \A q \in Ranks, m \in Msgs :
              Where(InTransit(q)', m) # {} <=>
                Dest[m] = q /\ \E p \in Ranks : Where(send_buffer[p], m) # {}
<1>0. PICK B : B = send_buffer'
  OBVIOUS
<1>1. /\ StateOK' /\ InStep' /\ Ahead' /\ CollectivesMatch' /\ LastCalls' /\ BuffersInv' /\ OnePhase'
      /\ \A q \in Ranks : Delivered(q)'
      /\ \A q, p \in Ranks : send_counts'[q][p] = Cardinality(At(send_buffer'[q], p))
  BY JoinKeeps
<1>2. PICK G : G = [q \in Ranks |-> Received(q)']
  OBVIOUS
<1>3. \A q \in Ranks : ToSend(q)' = <<>> /\ InTransit(q)' = G[q] /\ G[q] = Received(q)'
  BY <1>1, <1>2 DEF ToSend, InTransit
<1>4. \A q \in Ranks : /\ ToSend(q) = send_buffer[q] /\ InTransit(q) = <<>> /\ recv_buffer[q] = <<>>
                       /\ PhaseOf(q) = phase[q]
  BY DataSplit DEF JoinedWith
<1>5. phase' = phase /\ recv_buffer' = recv_buffer /\ consumed' = consumed /\ pushed_in' = pushed_in
  BY DEF JoinedWith
<1>6. ExactlyOnePlace /\ PhasesSeparate /\ TransitInv /\ OnePhase
  BY Invariants
<1>7. ASSUME NEW q \in Ranks
      PROVE  /\ \A m \in Msgs :
                  /\ Where(G[q], m) # {} <=> Dest[m] = q /\ \E p \in Ranks : Where(B[p], m) # {}
                  /\ \A x, y \in Where(G[q], m) : x = y
             /\ \A p \in Ranks : /\ recv_counts'[q][p] = Len(Arg(q, p)'[q])
                                 /\ \A m \in Range(Arg(q, p)'[q]) : Dest[m] = q /\ m \in Range(B[p])
             /\ G[q] \in Seq(Msgs)
  <2>1. G[q] = Received(q)'
    BY <1>3
  <2>2. /\ \A m \in Msgs :
             /\ Where(Received(q)', m) # {} <=>
                  Dest[m] = q /\ \E p \in Ranks : Where(send_buffer'[p], m) # {}
             /\ \A x, y \in Where(Received(q)', m) : x = y
        /\ \A p \in Ranks :
             /\ recv_counts'[q][p] = Len(Arg(q, p)'[q])
             /\ \A m \in Range(Arg(q, p)'[q]) : Dest[m] = q /\ m \in Range(send_buffer'[p])
        /\ Received(q)' \in Seq(Msgs)
    BY ReceivedByAll
  <2> QED BY <1>0, <2>1, <2>2
<1>8. \A m \in Msgs : \A p \in Ranks : Where(B[p], m) = {} <=> Where(send_buffer[p], m) = {}
  BY <1>0, JoinedFacts
<1>9. ASSUME NEW q \in Ranks, NEW m \in Msgs
      PROVE  Where(G[q], m) # {} <=> Dest[m] = q /\ \E p \in Ranks : Where(send_buffer[p], m) # {}
  BY <1>7, <1>8
<1>10. \A m : Where(<<>>, m) = {}
  BY DEF Where
<1>11. ExactlyOnePlace'
  <2>1. ASSUME NEW m \in Msgs PROVE PlacedOnce(m)'
    <3>1. PlacedOnce(m)
      BY <1>6, PlacedOnceFacts
    <3>2. ASSUME NEW p
          PROVE  p \in Places(m)' <=> \E q \in Ranks :
                   \/ \E i \in Where(G[q], m) : p = <<"transit", q, i>>
                   \/ m \in consumed[q] /\ p = <<"consumed", q, m>>
      <4>1. ASSUME NEW q \in Ranks
            PROVE  IsPlace(p, m, q, ToSend(q)', InTransit(q)', recv_buffer'[q], consumed'[q]) <=>
                     \/ \E i \in Where(G[q], m) : p = <<"transit", q, i>>
                     \/ m \in consumed[q] /\ p = <<"consumed", q, m>>
        BY <1>3, <1>4, <1>5, <1>10 DEF IsPlace
      <4> QED BY <4>1, PlaceWillBe
    <3>3. ASSUME NEW p
          PROVE  p \in Places(m) <=> \E q \in Ranks :
                   \/ \E i \in Where(send_buffer[q], m) : p = <<"sent", q, i>>
                   \/ m \in consumed[q] /\ p = <<"consumed", q, m>>
      <4>1. ASSUME NEW q \in Ranks
            PROVE  IsPlace(p, m, q, ToSend(q), InTransit(q), recv_buffer[q], consumed[q]) <=>
                     \/ \E i \in Where(send_buffer[q], m) : p = <<"sent", q, i>>
                     \/ m \in consumed[q] /\ p = <<"consumed", q, m>>
        BY <1>4, <1>10 DEF IsPlace
      <4> QED BY <4>1, PlaceIs
    <3>4. CASE \A q \in Ranks : Where(send_buffer[q], m) = {}
      <4>1. \A q \in Ranks : Where(G[q], m) = {}
        BY <1>9, <3>4
      <4>2. Places(m)' = Places(m)
        <5>1. ASSUME NEW p PROVE p \in Places(m)' <=> p \in Places(m)
          BY <3>2, <3>3, <3>4, <4>1
        <5> QED BY <5>1
      <4> QED BY <1>5, <3>1, <4>2 DEF PlacedOnce
    <3>5. CASE \E q \in Ranks : Where(send_buffer[q], m) # {}
      <4>1. /\ \A q \in Ranks : m \notin consumed[q]
            /\ pushed_in[m] # -1
        BY <1>4, <3>5, SentOnce
      <4>2. Dest[m] \in Ranks
        BY RankFacts
      <4>3. Places(m)' # {}
        <5>1. PICK i : i \in Where(G[Dest[m]], m)
          BY <1>9, <3>5, <4>2
        <5>2. <<"transit", Dest[m], i>> \in Places(m)'
          BY <3>2, <4>2, <5>1
        <5> QED BY <5>2
      <4>4. ASSUME NEW p \in Places(m)', NEW o \in Places(m)' PROVE p = o
        <5>1. PICK a \in Ranks : \E i \in Where(G[a], m) : p = <<"transit", a, i>>
          BY <3>2, <4>1
        <5>2. PICK b \in Ranks : \E i \in Where(G[b], m) : o = <<"transit", b, i>>
          BY <3>2, <4>1
        <5>3. a = Dest[m] /\ b = Dest[m]
          <6>1. Where(G[a], m) # {} /\ Where(G[b], m) # {}
            BY <5>1, <5>2
          <6> QED BY <1>9, <6>1
        <5>4. \A x, y \in Where(G[a], m) : x = y
          BY <1>7
        <5> QED BY <5>1, <5>2, <5>3, <5>4
      <4> QED BY <1>5, <4>1, <4>3, <4>4 DEF PlacedOnce
    <3> QED BY <3>4, <3>5
  <2>2. \A m \in Msgs : \A q \in Ranks : m \in consumed'[q] \cup Range(recv_buffer'[q]) => Dest[m] = q
    BY <1>5, <1>6 DEF ExactlyOnePlace
  <2> QED BY <2>1, <2>2, PlacedOnceWill
<1>12. CountsAgree'
  <2>1. \A q \in Ranks : Delivered(q)' => \A p \in Ranks : recv_counts'[q][p] = Len(Arg(q, p)'[q])
    BY <1>7
  <2> QED BY <1>1, <2>1 DEF CountsAgree, At
<1>13. PhasesSeparate'
  BY <1>5, <1>6 DEF PhasesSeparate
<1>14. TransitInv'
  <2>1. Range(<<>>) = {}
    BY DEF Range
  <2>2. ASSUME NEW q \in Ranks, NEW p \in Ranks, NEW m \in Range(Arg(q, p)'[q])
        PROVE  Dest[m] = q /\ pushed_in'[m] = phase'[q]
    <3>1. Dest[m] = q /\ m \in Range(send_buffer[p])
      <4>1. Dest[m] = q /\ m \in Range(B[p])
        BY <1>7
      <4>2. Range(B[p]) = Range(send_buffer[p])
        BY <1>0, JoinedFacts
      <4> QED BY <4>1, <4>2
    <3>2. pushed_in[m] = phase[p]
      BY <1>4, <1>6, <3>1 DEF TransitInv
    <3>3. phase[p] = phase[q]
      BY <1>4, <1>6 DEF OnePhase
    <3> QED BY <1>5, <3>1, <3>2, <3>3
  <2> QED BY <1>3, <2>1, <2>2 DEF TransitInv
<1>15. ExchangeInv'
  BY <1>1, <1>11, <1>12, <1>13, <1>14, Conclude
<1>16. /\ \A q \in Ranks : ToSend(q)' = <<>> /\ Delivered(q)' /\ InTransit(q)' \in Seq(Msgs)
       /\ \A q \in Ranks, m \in Msgs :
            Where(InTransit(q)', m) # {} <=>
              Dest[m] = q /\ \E p \in Ranks : Where(send_buffer[p], m) # {}
  <2>1. \A q \in Ranks : ToSend(q)' = <<>> /\ Delivered(q)' /\ InTransit(q)' \in Seq(Msgs)
    BY <1>1, <1>3, <1>7
  <2>2. ASSUME NEW q \in Ranks, NEW m \in Msgs
        PROVE  Where(InTransit(q)', m) # {} <=>
                 Dest[m] = q /\ \E p \in Ranks : Where(send_buffer[p], m) # {}
    <3>1. InTransit(q)' = G[q]
      BY <1>3
    <3>2. Where(G[q], m) # {} <=> Dest[m] = q /\ \E p \in Ranks : Where(send_buffer[p], m) # {}
      BY <1>9
    <3> QED BY <3>1, <3>2
  <2> QED BY <2>1, <2>2
<1> QED BY <1>15, <1>16
-----------------------------------------------------------------------------
(* The theorem                                                             *)

\* What commData does, with its choice named.
LEMMA JoinedAs ==
  ASSUME ExchangeInv, NEW r \in Ranks, commData(r)
  PROVE  \E s, c : JoinedWith(r, s, c)
<1>1. PICK s \in Groupings(send_buffer[r]) :
        /\ send_buffer' = [send_buffer EXCEPT ![r] = s]
        /\ posted' = [posted EXCEPT ![r] =
             Append(@, Call("alltoallv", [q \in Ranks |-> Slice(s, send_counts[r], q)]))]
  BY DEF commData
<1>2. PICK c : c = Call("alltoallv", [q \in Ranks |-> Slice(s, send_counts[r], q)])
  OBVIOUS
<1>3. JoinedWith(r, s, c)
  BY <1>1, <1>2 DEF JoinedWith, commData
<1> QED BY <1>3

\* Joining an alltoallv, as the last rank or not.
LEMMA CommDataKeeps ==
  ASSUME ExchangeInv, NEW r \in Ranks, commData(r)
  PROVE  ExchangeInv'
<1>1. PICK s, c : JoinedWith(r, s, c)
  BY JoinedAs
<1> QED BY <1>1, JoinWaits, JoinCompletes

\* Nothing happens.
LEMMA StutterKeeps ==
  ASSUME ExchangeInv, UNCHANGED vars
  PROVE  ExchangeInv'
<1>1. /\ StateOK /\ TypeOK /\ InStep /\ Ahead /\ LastCalls /\ CountsAgree /\ OnePhase /\ BuffersInv
      /\ CollectivesMatch /\ PhasesSeparate /\ TransitInv /\ ExactlyOnePlace
      /\ pc' = pc /\ phase' = phase /\ posted' = posted /\ send_buffer' = send_buffer
      /\ send_counts' = send_counts /\ recv_buffer' = recv_buffer /\ recv_counts' = recv_counts
      /\ consumed' = consumed /\ pushed_in' = pushed_in
  BY Invariants DEF vars
<1>2. InStep' /\ Ahead' /\ CollectivesMatch' /\ LastCalls'
  <2>1. 0 \in Ranks
    BY RankFacts
  <2> QED BY <1>1, <2>1, QuietKeeps
<1>3. StateOK'
  BY <1>1 DEF StateOK, TypeOK
<1>4. ASSUME NEW q \in Ranks
      PROVE  /\ ToSend(q)' = ToSend(q) /\ InTransit(q)' = InTransit(q) /\ PhaseOf(q)' = PhaseOf(q)
             /\ Delivered(q)' <=> Delivered(q)
             /\ \A p \in Ranks : Arg(q, p)' = Arg(q, p)
  <2>1. InTransit(q)' = InTransit(q) /\ PhaseOf(q)' = PhaseOf(q)
    BY <1>1, DeliverySame
  <2>2. Delivered(q)' <=> Delivered(q)
    BY <1>1, DeliverySame
  <2>3. \A p \in Ranks : Arg(q, p)' = Arg(q, p)
    BY <1>1, DeliverySame
  <2> QED BY <1>1, <2>1, <2>2, <2>3 DEF ToSend
<1>5. OnePhase'
  BY <1>1, <1>4 DEF OnePhase
<1>6. ExactlyOnePlace'
  <2>1. ASSUME NEW m \in Msgs PROVE PlacedOnce(m)'
    <3>1. Places(m)' = Places(m) /\ PlacedOnce(m)
      BY <1>1, <1>4, PlacesSame, PlacedOnceFacts
    <3> QED BY <1>1, <3>1 DEF PlacedOnce
  <2> QED BY <1>1, <2>1, PlacedOnceWill DEF ExactlyOnePlace
<1>7. CountsAgree'
  <2>1. ASSUME NEW q \in Ranks, Delivered(q)', NEW p \in Ranks
        PROVE  recv_counts'[q][p] = Len(Arg(q, p)'[q])
    BY <1>1, <1>4, <2>1 DEF CountsAgree
  <2> QED BY <1>1, <2>1 DEF CountsAgree
<1>8. PhasesSeparate'
  BY <1>1 DEF PhasesSeparate
<1>9. TransitInv'
  <2>1. ASSUME NEW q \in Ranks, NEW m \in Range(ToSend(q)') PROVE pushed_in'[m] = phase'[q]
    BY <1>1, <1>4, <2>1 DEF TransitInv
  <2>2. ASSUME NEW q \in Ranks, Delivered(q)', NEW p \in Ranks, NEW m \in Range(Arg(q, p)'[q])
        PROVE  Dest[m] = q /\ pushed_in'[m] = phase'[q]
    BY <1>1, <1>4, <2>2 DEF TransitInv
  <2> QED BY <2>1, <2>2 DEF TransitInv
<1>10. BuffersInv'
  <2>1. \A q \in Ranks : Calls(q)' = Calls(q)
    BY <1>1 DEF Calls
  <2> QED BY <1>1, <2>1 DEF BuffersInv
<1> QED BY <1>2, <1>3, <1>5, <1>6, <1>7, <1>8, <1>9, <1>10, Conclude

\* The invariant holds at first.
LEMMA InitExchange == Init => ExchangeInv
<1> SUFFICES ASSUME Init PROVE ExchangeInv
  OBVIOUS
<1>1. /\ pc = [r \in Ranks |-> "work"] /\ phase = Zero /\ posted = [r \in Ranks |-> <<>>]
      /\ send_buffer = [r \in Ranks |-> <<>>] /\ send_counts = [r \in Ranks |-> Zero]
      /\ recv_buffer = [r \in Ranks |-> <<>>] /\ recv_counts = [r \in Ranks |-> Zero]
      /\ consumed = [r \in Ranks |-> {}] /\ pushed_in = [m \in Msgs |-> -1]
  BY DEF Init
<1>2. MaxPhases \in Nat \ {0} /\ Zero \in [Ranks -> Nat] /\ Zero \in [Ranks -> 0 .. MaxPhases]
      /\ \A S : <<>> \in Seq(S)
  BY RankFacts DEF Zero
<1>3. TypeOK /\ StateOK
  <2>1. TypeOK
    BY <1>1, <1>2 DEF TypeOK
  <2> QED BY <1>1, <1>2, <2>1 DEF StateOK, Zero
<1>4. \A r \in Ranks : /\ Calls(r) = 0 /\ Matched(r) /\ pc[r] = "work" /\ ~ Delivered(r) /\ ~ Stopped(r)
                       /\ ToSend(r) = <<>> /\ InTransit(r) = <<>> /\ recv_buffer[r] = <<>>
  BY <1>1 DEF Calls, Matched, Delivered, Stopped, ToSend, InTransit
<1>5. InStep /\ Ahead /\ LastCalls
  BY <1>4 DEF InStep, Ahead, LastCalls, LastCall, InComm
<1>6. \A m : Where(<<>>, m) = {} /\ Range(<<>>) = {} /\ At(<<>>, m) = {}
  BY DEF Where, Range, At
<1>7. ExactlyOnePlace
  <2>1. ASSUME NEW m \in Msgs PROVE PlacedOnce(m)
    <3>1. \A p : p \notin Places(m)
      BY <1>1, <1>4, <1>6, PlaceIs DEF IsPlace
    <3> QED BY <1>1, <3>1 DEF PlacedOnce
  <2> QED BY <1>1, <1>4, <1>6, <2>1 DEF ExactlyOnePlace, PlacedOnce
<1>8. CountsAgree
  BY <1>1, <1>4, <1>6, FS_EmptySet DEF CountsAgree, At, Zero
<1>9. CollectivesMatch
  BY <1>1 DEF CollectivesMatch
<1>10. PhasesSeparate /\ TransitInv /\ BuffersInv
  BY <1>4, <1>6 DEF PhasesSeparate, TransitInv, BuffersInv
<1>11. OnePhase
  BY <1>1, <1>4 DEF OnePhase, PhaseOf, Zero
<1> QED BY <1>3, <1>5, <1>7, <1>8, <1>9, <1>10, <1>11 DEF ExchangeInv, FrontierInv

\* Every step keeps the invariant.
LEMMA NextExchange ==
  ASSUME ExchangeInv, [Next]_vars
  PROVE  ExchangeInv'
<1>1. CASE UNCHANGED vars
  BY <1>1, StutterKeeps
<1>2. ASSUME NEW r \in Ranks, NEW m \in Msgs, push(r, m) PROVE ExchangeInv'
  BY <1>2, PushKeeps
<1>3. ASSUME NEW r \in Ranks, NEW m \in Msgs, local_push(r, m) PROVE ExchangeInv'
  BY <1>3, LocalPushKeeps
<1>4. ASSUME NEW r \in Ranks, next(r) PROVE ExchangeInv'
  BY <1>4, NextKeeps
<1>5. ASSUME NEW r \in Ranks, comm(r) PROVE ExchangeInv'
  BY <1>5, CommKeeps
<1>6. ASSUME NEW r \in Ranks, commFalse(r) PROVE ExchangeInv'
  BY <1>6, CommFalseKeeps
<1>7. ASSUME NEW r \in Ranks, commCounts(r) PROVE ExchangeInv'
  BY <1>7, CommCountsKeeps
<1>8. ASSUME NEW r \in Ranks, commData(r) PROVE ExchangeInv'
  BY <1>8, CommDataKeeps
<1>9. ASSUME NEW r \in Ranks, commTrue(r) PROVE ExchangeInv'
  BY <1>9, CommTrueKeeps
<1>10. CASE AllReturned
  BY <1>1, <1>10 DEF AllReturned
<1> QED BY <1>1, <1>2, <1>3, <1>4, <1>5, <1>6, <1>7, <1>8, <1>9, <1>10 DEF Next

(***************************************************************************)
(* In every state a pushed message is in exactly one place until its       *)
(* destination has consumed it, the counts describe the buffers on both    *)
(* sides of an exchange, no two ranks are in different collectives, and a  *)
(* message is received in the phase it was pushed in.                      *)
(***************************************************************************)
THEOREM ExchangeIsSafe == Spec => []FrontierInv
<1>1. ExchangeInv /\ [Next]_vars => ExchangeInv'
  BY NextExchange
<1>2. ExchangeInv => FrontierInv
  BY DEF ExchangeInv
<1> QED BY InitExchange, <1>1, <1>2, PTL DEF Spec
-----------------------------------------------------------------------------
(* The rounds that comm implements                                         *)

\* What BspRounds sees of the state.
Waiting == {r \in Ranks : pc[r] \in {"reduce", "counts", "data"} /\ ~Delivered(r) /\ ~Stopped(r)}
Outbox  == UNION {Range(ToSend(r)) : r \in Ranks}
Inbox   == UNION {Range(InTransit(r) \o recv_buffer[r]) : r \in Ranks}
Taken   == UNION {consumed[r] : r \in Ranks}
Ended   == phase[0] + IF Stopped(0) THEN 1 ELSE 0

\* What is in one of two sequences is in both of them put together.
LEMMA ConcatRange ==
  ASSUME NEW s \in Seq(Msgs), NEW t \in Seq(Msgs)
  PROVE  Range(s \o t) = Range(s) \cup Range(t)
<1>1. /\ Len(s) \in Nat /\ Len(t) \in Nat /\ DOMAIN s = 1 .. Len(s) /\ DOMAIN t = 1 .. Len(t)
      /\ DOMAIN (s \o t) = 1 .. Len(s) + Len(t)
      /\ \A i \in 1 .. Len(s) + Len(t) : (s \o t)[i] = IF i <= Len(s) THEN s[i] ELSE t[i - Len(s)]
  OBVIOUS
<1>2. ASSUME NEW x \in Range(s \o t) PROVE x \in Range(s) \cup Range(t)
  <2>1. PICK i \in 1 .. Len(s) + Len(t) : x = (s \o t)[i]
    BY <1>1 DEF Range
  <2>2. CASE i <= Len(s)
    <3>1. i \in DOMAIN s /\ x = s[i]
      BY <1>1, <2>1, <2>2
    <3> QED BY <3>1 DEF Range
  <2>3. CASE ~ (i <= Len(s))
    <3>1. i - Len(s) \in DOMAIN t /\ x = t[i - Len(s)]
      BY <1>1, <2>1, <2>3
    <3> QED BY <3>1 DEF Range
  <2> QED BY <2>2, <2>3
<1>3. ASSUME NEW x \in Range(s) PROVE x \in Range(s \o t)
  <2>1. PICK i \in 1 .. Len(s) : x = s[i]
    BY <1>1 DEF Range
  <2>2. i \in DOMAIN (s \o t) /\ x = (s \o t)[i]
    BY <1>1, <2>1
  <2> QED BY <2>2 DEF Range
<1>4. ASSUME NEW x \in Range(t) PROVE x \in Range(s \o t)
  <2>1. PICK i \in 1 .. Len(t) : x = t[i]
    BY <1>1 DEF Range
  <2>2. PICK j : j = Len(s) + i
    OBVIOUS
  <2>3. j \in 1 .. Len(s) + Len(t) /\ ~ (j <= Len(s)) /\ j - Len(s) = i
    BY <1>1, <2>2
  <2>4. j \in DOMAIN (s \o t) /\ x = (s \o t)[j]
    BY <1>1, <2>1, <2>3
  <2> QED BY <2>4 DEF Range
<1> QED BY <1>2, <1>3, <1>4

\* Which messages are in the boxes of BspRounds.
LEMMA BoxesAre ==
  ASSUME \A r \in Ranks : InTransit(r) \in Seq(Msgs) /\ recv_buffer[r] \in Seq(Msgs)
  PROVE  /\ \A m : m \in Outbox <=> \E r \in Ranks : m \in Range(ToSend(r))
         /\ \A m : m \in Inbox <=> \E r \in Ranks : m \in Range(InTransit(r)) \/ m \in Range(recv_buffer[r])
         /\ \A m : m \in Taken <=> \E r \in Ranks : m \in consumed[r]
<1>1. \A r \in Ranks : Range(InTransit(r) \o recv_buffer[r]) = Range(InTransit(r)) \cup Range(recv_buffer[r])
  BY ConcatRange
<1>2. \A m : m \in Inbox <=> \E r \in Ranks : m \in Range(InTransit(r) \o recv_buffer[r])
  BY DEF Inbox
<1>3. \A m : m \in Outbox <=> \E r \in Ranks : m \in Range(ToSend(r))
  BY DEF Outbox
<1>4. \A m : m \in Taken <=> \E r \in Ranks : m \in consumed[r]
  BY DEF Taken
<1> QED BY <1>1, <1>2, <1>3, <1>4

\* Which messages a step leaves in the boxes of BspRounds.
LEMMA BoxesWillBe ==
  ASSUME \A r \in Ranks : InTransit(r)' \in Seq(Msgs) /\ recv_buffer'[r] \in Seq(Msgs)
  PROVE  /\ \A m : m \in Outbox' <=> \E r \in Ranks : m \in Range(ToSend(r)')
         /\ \A m : m \in Inbox' <=> \E r \in Ranks : m \in Range(InTransit(r)') \/ m \in Range(recv_buffer'[r])
         /\ \A m : m \in Taken' <=> \E r \in Ranks : m \in consumed'[r]
<1>1. \A r \in Ranks : Range(InTransit(r)' \o recv_buffer'[r]) = Range(InTransit(r)') \cup Range(recv_buffer'[r])
  BY ConcatRange
<1>2. \A m : m \in Inbox' <=> \E r \in Ranks : m \in Range(InTransit(r)' \o recv_buffer'[r])
  BY DEF Inbox
<1>3. \A m : m \in Outbox' <=> \E r \in Ranks : m \in Range(ToSend(r)')
  BY DEF Outbox
<1>4. \A m : m \in Taken' <=> \E r \in Ranks : m \in consumed'[r]
  BY DEF Taken
<1> QED BY <1>1, <1>2, <1>3, <1>4

\* What the invariant says of the boxes.
LEMMA BoxFacts ==
  ASSUME ExchangeInv
  PROVE  /\ \A r \in Ranks : /\ InTransit(r) \in Seq(Msgs) /\ recv_buffer[r] \in Seq(Msgs)
                             /\ ToSend(r) \in Seq(Msgs)
         /\ \A m : m \in Outbox <=> \E r \in Ranks : m \in Range(ToSend(r))
         /\ \A m : m \in Inbox <=> \E r \in Ranks : m \in Range(InTransit(r)) \/ m \in Range(recv_buffer[r])
         /\ \A m : m \in Taken <=> \E r \in Ranks : m \in consumed[r]
         /\ \A m \in Inbox : m \in Msgs /\ (m \in Range(InTransit(Dest[m])) \/ m \in Range(recv_buffer[Dest[m]]))
<1>1. /\ recv_buffer \in [Ranks -> Seq(Msgs)] /\ send_buffer \in [Ranks -> Seq(Msgs)]
      /\ ExactlyOnePlace
  BY Invariants DEF StateOK
<1>2. <<>> \in Seq(Msgs) /\ Range(<<>>) = {}
  BY DEF Range
<1>3. ASSUME NEW r \in Ranks
      PROVE  /\ InTransit(r) \in Seq(Msgs) /\ ToSend(r) \in Seq(Msgs)
             /\ \A m \in Range(InTransit(r)) : Dest[m] = r
  <2>1. CASE Delivered(r)
    BY <1>2, <2>1, ReceivedFacts DEF InTransit, ToSend
  <2>2. CASE ~ Delivered(r)
    BY <1>1, <1>2, <2>2 DEF InTransit, ToSend
  <2> QED BY <2>1, <2>2
<1>4. \A r \in Ranks : recv_buffer[r] \in Seq(Msgs)
  BY <1>1
<1>5. /\ \A m : m \in Outbox <=> \E r \in Ranks : m \in Range(ToSend(r))
      /\ \A m : m \in Inbox <=> \E r \in Ranks : m \in Range(InTransit(r)) \/ m \in Range(recv_buffer[r])
      /\ \A m : m \in Taken <=> \E r \in Ranks : m \in consumed[r]
  BY <1>3, <1>4, BoxesAre
<1>6. ASSUME NEW m \in Inbox
      PROVE  m \in Msgs /\ (m \in Range(InTransit(Dest[m])) \/ m \in Range(recv_buffer[Dest[m]]))
  <2>1. PICK r \in Ranks : m \in Range(InTransit(r)) \/ m \in Range(recv_buffer[r])
    BY <1>5
  <2>2. m \in Msgs
    <3>1. \A s \in Seq(Msgs) : \A x \in Range(s) : x \in Msgs
      BY DEF Range
    <3> QED BY <1>3, <1>4, <2>1, <3>1
  <2>3. Dest[m] = r
    BY <1>1, <1>3, <2>1, <2>2 DEF ExactlyOnePlace
  <2> QED BY <2>1, <2>2, <2>3
<1> QED BY <1>3, <1>4, <1>5, <1>6

\* The ranks that wait are those in a collective that is not complete.
LEMMA WaitingSame ==
  ASSUME \A q \in Ranks : \/ /\ pc[q] \in InComm <=> pc'[q] \in InComm
                             /\ Delivered(q)' <=> Delivered(q)
                             /\ Stopped(q)' <=> Stopped(q)
                          \/ /\ pc[q] \notin InComm \/ Delivered(q) \/ Stopped(q)
                             /\ pc'[q] \notin InComm \/ Delivered(q)' \/ Stopped(q)'
  PROVE  Waiting' = Waiting
<1>1. ASSUME NEW q \in Ranks PROVE q \in Waiting' <=> q \in Waiting
  BY DEF Waiting, InComm
<1>2. Waiting \subseteq Ranks /\ Waiting' \subseteq Ranks
  BY DEF Waiting
<1> QED BY <1>1, <1>2

\* A step that BspRounds does not see.
LEMMA UnseenStep ==
  ASSUME Waiting' = Waiting, Ended' = Ended, Outbox' = Outbox, Inbox' = Inbox, Taken' = Taken
  PROVE  [Rounds!Next]_(Rounds!roundVars)
BY DEF Rounds!roundVars, Waiting, Ended, Outbox, Inbox, Taken

\* A step that BspRounds sees as a push.
LEMMA PushStep ==
  ASSUME NEW r \in Ranks, NEW m \in Msgs, r \notin Waiting,
         m \notin Outbox, m \notin Inbox, m \notin Taken, Outbox' = Outbox \cup {m},
         Waiting' = Waiting, Ended' = Ended, Inbox' = Inbox, Taken' = Taken
  PROVE  Rounds!Next
<1>1. Rounds!Push(r, m)
  BY DEF Rounds!Push, Rounds!Unused, Waiting, Ended, Outbox, Inbox, Taken
<1> QED BY <1>1 DEF Rounds!Next

\* A step that BspRounds sees as a message kept.
LEMMA KeepStep ==
  ASSUME NEW r \in Ranks, NEW m \in Msgs, r \notin Waiting, Dest[m] = r,
         m \notin Outbox, m \notin Inbox, m \notin Taken, Inbox' = Inbox \cup {m},
         Waiting' = Waiting, Ended' = Ended, Outbox' = Outbox, Taken' = Taken
  PROVE  Rounds!Next
<1>1. Rounds!Keep(r, m)
  BY DEF Rounds!Keep, Rounds!Unused, Waiting, Ended, Outbox, Inbox, Taken
<1> QED BY <1>1 DEF Rounds!Next

\* A step that BspRounds sees as a message consumed.
LEMMA ConsumeStep ==
  ASSUME NEW m \in Msgs, m \in Inbox, Dest[m] \notin Waiting,
         Inbox' = Inbox \ {m}, Taken' = Taken \cup {m},
         Waiting' = Waiting, Ended' = Ended, Outbox' = Outbox
  PROVE  Rounds!Next
<1>1. Rounds!Consume(m)
  BY DEF Rounds!Consume, Waiting, Ended, Outbox, Inbox, Taken
<1> QED BY <1>1 DEF Rounds!Next

\* A step that BspRounds sees as a rank beginning to wait.
LEMMA WaitStep ==
  ASSUME NEW r \in Ranks, \A m \in Inbox : Dest[m] # r, Waiting' = Waiting \cup {r},
         Ended' = Ended, Outbox' = Outbox, Inbox' = Inbox, Taken' = Taken
  PROVE  Rounds!Next
<1>1. Rounds!Wait(r)
  BY DEF Rounds!Wait, Waiting, Ended, Outbox, Inbox, Taken
<1> QED BY <1>1 DEF Rounds!Next

\* A step that BspRounds sees as the exchange.
LEMMA ExchangeStep ==
  ASSUME NEW r \in Ranks, Inbox = {}, Outbox # {}, Ranks \ Waiting \subseteq {r},
         Inbox' = Outbox, Outbox' = {}, Waiting' = {}, Ended' = Ended, Taken' = Taken
  PROVE  Rounds!Next
<1>1. Rounds!Exchange(r)
  BY DEF Rounds!Exchange, Waiting, Ended, Outbox, Inbox, Taken
<1> QED BY <1>1 DEF Rounds!Next

\* A step that BspRounds sees as the end of a phase.
LEMMA NextPhaseStep ==
  ASSUME NEW r \in Ranks, Inbox = {}, Outbox = {}, Ranks \ Waiting \subseteq {r},
         Inbox' = Inbox, Outbox' = Outbox, Waiting' = {}, Ended' = Ended + 1, Taken' = Taken
  PROVE  Rounds!Next
<1>1. Rounds!NextPhase(r)
  BY DEF Rounds!NextPhase, Waiting, Ended, Outbox, Inbox, Taken
<1> QED BY <1>1 DEF Rounds!Next

\* The initial states are those of BspRounds.
LEMMA InitRounds == Init => Rounds!Init
<1> SUFFICES ASSUME Init PROVE Rounds!Init
  OBVIOUS
<1>1. \A r \in Ranks : /\ pc[r] = "work" /\ phase[r] = 0 /\ send_buffer[r] = <<>>
                       /\ recv_buffer[r] = <<>> /\ consumed[r] = {}
  BY DEF Init, Zero
<1>2. \A r \in Ranks : ~ Delivered(r) /\ ~ Stopped(r)
  BY <1>1 DEF Delivered, Stopped
<1>3. \A r \in Ranks : ToSend(r) = <<>> /\ InTransit(r) = <<>>
  BY <1>1, <1>2 DEF ToSend, InTransit
<1>4. <<>> \in Seq(Msgs) /\ Range(<<>>) = {}
  BY DEF Range
<1>5. \A r \in Ranks : InTransit(r) \in Seq(Msgs) /\ recv_buffer[r] \in Seq(Msgs)
  BY <1>1, <1>3, <1>4
<1>6. Outbox = {} /\ Inbox = {} /\ Taken = {}
  BY <1>1, <1>3, <1>4, <1>5, BoxesAre
<1>7. Waiting = {}
  BY <1>1 DEF Waiting
<1>8. Ended = 0
  BY <1>1, <1>2, RankFacts DEF Ended
<1> QED BY <1>6, <1>7, <1>8 DEF Rounds!Init, Waiting, Ended, Outbox, Inbox, Taken

\* Between two calls of comm nobody begins or stops waiting.
LEMMA WorkUnseen ==
  ASSUME ExchangeInv, NEW r \in Ranks, pc[r] = "work",
         UNCHANGED <<pc, phase, posted, recv_counts>>
  PROVE  Waiting' = Waiting /\ Ended' = Ended /\ r \notin Waiting
<1>1. \A q \in Ranks : (Delivered(q)' <=> Delivered(q)) /\ (Stopped(q)' <=> Stopped(q))
  BY DeliverySame
<1>2. Waiting' = Waiting
  BY <1>1, WaitingSame
<1>3. Ended' = Ended
  BY <1>1, RankFacts DEF Ended
<1> QED BY <1>2, <1>3 DEF Waiting

\* A message that has not been pushed is nowhere.
LEMMA UnpushedIsNowhere ==
  ASSUME ExchangeInv, NEW m \in Msgs, pushed_in[m] = -1
  PROVE  m \notin Outbox /\ m \notin Inbox /\ m \notin Taken
<1>1. Places(m) = {}
  BY Invariants DEF ExactlyOnePlace
<1>2. ASSUME NEW q \in Ranks
      PROVE  /\ m \notin Range(ToSend(q)) /\ m \notin Range(InTransit(q))
             /\ m \notin Range(recv_buffer[q]) /\ m \notin consumed[q]
  <2>1. /\ Where(ToSend(q), m) = {} /\ Where(InTransit(q), m) = {}
        /\ Where(recv_buffer[q], m) = {} /\ m \notin consumed[q]
    BY <1>1, NoPlace
  <2>2. /\ InTransit(q) \in Seq(Msgs) /\ recv_buffer[q] \in Seq(Msgs) /\ ToSend(q) \in Seq(Msgs)
    BY BoxFacts
  <2> QED BY <2>1, <2>2, SeqFacts
<1> QED BY <1>2, BoxFacts

\* What is in a sequence that has become longer by one.
LEMMA AppendRange ==
  ASSUME NEW s \in Seq(Msgs), NEW x \in Msgs
  PROVE  /\ Append(s, x) \in Seq(Msgs)
         /\ \A m : m \in Range(Append(s, x)) <=> m \in Range(s) \/ m = x
<1>1. /\ Append(s, x) \in Seq(Msgs)
      /\ \A m : Where(Append(s, x), m) = IF m = x THEN Where(s, m) \cup {Len(s) + 1}
                                         ELSE Where(s, m)
  BY AppendFacts
<1>2. ASSUME NEW m PROVE m \in Range(Append(s, x)) <=> m \in Range(s) \/ m = x
  <2>1. m \in Range(Append(s, x)) <=> Where(Append(s, x), m) # {}
    BY <1>1, SeqFacts
  <2>2. m \in Range(s) <=> Where(s, m) # {}
    BY SeqFacts
  <2>3. CASE m = x
    <3>1. Where(Append(s, x), m) # {}
      BY <1>1, <2>3
    <3> QED BY <2>1, <2>3, <3>1
  <2>4. CASE m # x
    <3>1. Where(Append(s, x), m) = Where(s, m)
      BY <1>1, <2>4
    <3> QED BY <2>1, <2>2, <2>4, <3>1
  <2> QED BY <2>3, <2>4
<1> QED BY <1>1, <1>2

\* push is Push.
LEMMA PushRefines ==
  ASSUME ExchangeInv, NEW r \in Ranks, NEW x \in Msgs, push(r, x)
  PROVE  [Rounds!Next]_(Rounds!roundVars)
<1>1. /\ pc[r] = "work" /\ pushed_in[x] = -1
      /\ send_buffer' = [send_buffer EXCEPT ![r] = Append(@, x)]
      /\ UNCHANGED <<pc, phase, posted, recv_buffer, recv_counts, consumed>>
      /\ send_counts' = [send_counts EXCEPT ![r][Dest[x]] = @ + 1]
  BY DEF push
<1>2. /\ send_buffer \in [Ranks -> Seq(Msgs)] /\ send_counts \in [Ranks -> [Ranks -> Nat]]
  BY Invariants DEF StateOK, TypeOK
<1>3. /\ send_buffer'[r] = Append(send_buffer[r], x)
      /\ \A q \in Ranks \ {r} : /\ send_buffer'[q] = send_buffer[q]
                                /\ send_counts'[q] = send_counts[q]
                                /\ recv_buffer'[q] = recv_buffer[q]
  BY <1>1, <1>2
<1>4. /\ ToSend(r) = send_buffer[r] /\ ToSend(r)' = send_buffer'[r]
      /\ \A q \in Ranks \ {r} : ToSend(q)' = ToSend(q)
      /\ \A q \in Ranks : InTransit(q)' = InTransit(q)
  BY <1>1, <1>3, WorkKeeps
<1>5. \A m : m \in Range(ToSend(r)') <=> m \in Range(ToSend(r)) \/ m = x
  BY <1>2, <1>3, <1>4, AppendRange
<1>6. /\ \A q \in Ranks : InTransit(q) \in Seq(Msgs) /\ recv_buffer[q] \in Seq(Msgs)
      /\ \A m : m \in Outbox <=> \E q \in Ranks : m \in Range(ToSend(q))
      /\ \A m : m \in Inbox <=> \E q \in Ranks : m \in Range(InTransit(q)) \/ m \in Range(recv_buffer[q])
      /\ \A m : m \in Taken <=> \E q \in Ranks : m \in consumed[q]
  BY BoxFacts
<1>7. /\ \A m : m \in Outbox' <=> \E q \in Ranks : m \in Range(ToSend(q)')
      /\ \A m : m \in Inbox' <=> \E q \in Ranks : m \in Range(InTransit(q)') \/ m \in Range(recv_buffer'[q])
      /\ \A m : m \in Taken' <=> \E q \in Ranks : m \in consumed'[q]
  BY <1>1, <1>4, <1>6, BoxesWillBe
<1>8. Outbox' = Outbox \cup {x}
  <2>1. ASSUME NEW m PROVE m \in Outbox' <=> m \in Outbox \/ m = x
    BY <1>4, <1>5, <1>6, <1>7
  <2> QED BY <2>1
<1>9. Inbox' = Inbox
  <2>1. ASSUME NEW m PROVE m \in Inbox' <=> m \in Inbox
    BY <1>1, <1>4, <1>6, <1>7
  <2> QED BY <2>1
<1>10. Taken' = Taken
  BY <1>1, <1>6, <1>7
<1>11. x \notin Outbox /\ x \notin Inbox /\ x \notin Taken
  BY <1>1, UnpushedIsNowhere
<1>12. Waiting' = Waiting /\ Ended' = Ended /\ r \notin Waiting
  BY <1>1, WorkUnseen
<1> QED BY <1>8, <1>9, <1>10, <1>11, <1>12, PushStep

\* local_push is Keep.
LEMMA LocalPushRefines ==
  ASSUME ExchangeInv, NEW r \in Ranks, NEW x \in Msgs, local_push(r, x)
  PROVE  [Rounds!Next]_(Rounds!roundVars)
<1>1. /\ pc[r] = "work" /\ pushed_in[x] = -1 /\ Dest[x] = r
      /\ recv_buffer' = [recv_buffer EXCEPT ![r] = Append(@, x)]
      /\ UNCHANGED <<pc, phase, posted, send_buffer, send_counts, recv_counts, consumed>>
  BY DEF local_push
<1>2. recv_buffer \in [Ranks -> Seq(Msgs)]
  BY Invariants DEF StateOK
<1>3. /\ recv_buffer'[r] = Append(recv_buffer[r], x)
      /\ \A q \in Ranks \ {r} : recv_buffer'[q] = recv_buffer[q]
  BY <1>1, <1>2
<1>4. /\ \A q \in Ranks \ {r} : ToSend(q)' = ToSend(q)
      /\ ToSend(r) = send_buffer[r] /\ ToSend(r)' = send_buffer'[r]
      /\ \A q \in Ranks : InTransit(q)' = InTransit(q)
  BY <1>1, <1>3, WorkKeeps
<1>5. /\ recv_buffer'[r] \in Seq(Msgs)
      /\ \A m : m \in Range(recv_buffer'[r]) <=> m \in Range(recv_buffer[r]) \/ m = x
  BY <1>2, <1>3, AppendRange
<1>6. /\ \A q \in Ranks : InTransit(q) \in Seq(Msgs) /\ recv_buffer[q] \in Seq(Msgs)
      /\ \A m : m \in Outbox <=> \E q \in Ranks : m \in Range(ToSend(q))
      /\ \A m : m \in Inbox <=> \E q \in Ranks : m \in Range(InTransit(q)) \/ m \in Range(recv_buffer[q])
      /\ \A m : m \in Taken <=> \E q \in Ranks : m \in consumed[q]
  BY BoxFacts
<1>7. /\ \A m : m \in Outbox' <=> \E q \in Ranks : m \in Range(ToSend(q)')
      /\ \A m : m \in Inbox' <=> \E q \in Ranks : m \in Range(InTransit(q)') \/ m \in Range(recv_buffer'[q])
      /\ \A m : m \in Taken' <=> \E q \in Ranks : m \in consumed'[q]
  <2>1. \A q \in Ranks : InTransit(q)' \in Seq(Msgs) /\ recv_buffer'[q] \in Seq(Msgs)
    BY <1>3, <1>4, <1>5, <1>6
  <2> QED BY <2>1, BoxesWillBe
<1>8. Outbox' = Outbox
  <2>1. ASSUME NEW m PROVE m \in Outbox' <=> m \in Outbox
    BY <1>1, <1>4, <1>6, <1>7
  <2> QED BY <2>1
<1>9. Inbox' = Inbox \cup {x}
  <2>1. ASSUME NEW m PROVE m \in Inbox' <=> m \in Inbox \/ m = x
    BY <1>3, <1>4, <1>5, <1>6, <1>7
  <2> QED BY <2>1
<1>10. Taken' = Taken
  BY <1>1, <1>6, <1>7
<1>11. x \notin Outbox /\ x \notin Inbox /\ x \notin Taken
  BY <1>1, UnpushedIsNowhere
<1>12. Waiting' = Waiting /\ Ended' = Ended /\ r \notin Waiting
  BY <1>1, WorkUnseen
<1> QED BY <1>1, <1>8, <1>9, <1>10, <1>11, <1>12, KeepStep

\* next is Consume.
LEMMA NextRefines ==
  ASSUME ExchangeInv, NEW r \in Ranks, next(r)
  PROVE  [Rounds!Next]_(Rounds!roundVars)
<1>0. PICK x : x = Last(recv_buffer[r])
  OBVIOUS
<1>1. /\ pc[r] = "work" /\ recv_buffer[r] # <<>>
      /\ consumed' = [consumed EXCEPT ![r] = @ \cup {x}]
      /\ recv_buffer' = [recv_buffer EXCEPT ![r] = Front(@)]
      /\ UNCHANGED <<pc, phase, posted, send_buffer, send_counts, recv_counts, pushed_in>>
  BY <1>0 DEF next
<1>2. /\ recv_buffer \in [Ranks -> Seq(Msgs)] /\ consumed \in [Ranks -> SUBSET Msgs]
      /\ ExactlyOnePlace
  BY Invariants DEF StateOK, TypeOK
<1>3. /\ recv_buffer'[r] = Front(recv_buffer[r]) /\ consumed'[r] = consumed[r] \cup {x}
      /\ \A q \in Ranks \ {r} : recv_buffer'[q] = recv_buffer[q] /\ consumed'[q] = consumed[q]
  BY <1>1, <1>2
<1>4. /\ \A q \in Ranks \ {r} : ToSend(q)' = ToSend(q)
      /\ ToSend(r) = send_buffer[r] /\ ToSend(r)' = send_buffer'[r]
      /\ \A q \in Ranks : InTransit(q)' = InTransit(q)
  BY <1>1, <1>3, WorkKeeps
<1>5. /\ Front(recv_buffer[r]) \in Seq(Msgs) /\ x \in Msgs /\ x \in Range(recv_buffer[r])
      /\ Len(recv_buffer[r]) \in Where(recv_buffer[r], x)
      /\ \A m : Where(Front(recv_buffer[r]), m) =
                  Where(recv_buffer[r], m) \ {i \in {Len(recv_buffer[r])} : m = x}
  BY <1>0, <1>1, <1>2, FrontFacts
<1>6. /\ \A q \in Ranks : InTransit(q) \in Seq(Msgs) /\ recv_buffer[q] \in Seq(Msgs)
      /\ \A m : m \in Outbox <=> \E q \in Ranks : m \in Range(ToSend(q))
      /\ \A m : m \in Inbox <=> \E q \in Ranks : m \in Range(InTransit(q)) \/ m \in Range(recv_buffer[q])
      /\ \A m : m \in Taken <=> \E q \in Ranks : m \in consumed[q]
  BY BoxFacts
<1>7. /\ \A m : m \in Outbox' <=> \E q \in Ranks : m \in Range(ToSend(q)')
      /\ \A m : m \in Inbox' <=> \E q \in Ranks : m \in Range(InTransit(q)') \/ m \in Range(recv_buffer'[q])
      /\ \A m : m \in Taken' <=> \E q \in Ranks : m \in consumed'[q]
  <2>1. \A q \in Ranks : InTransit(q)' \in Seq(Msgs) /\ recv_buffer'[q] \in Seq(Msgs)
    BY <1>3, <1>4, <1>5, <1>6
  <2> QED BY <2>1, BoxesWillBe
<1>8. \A p, o \in Places(x) : p = o
  BY <1>2, <1>5, PlacedOnceFacts DEF PlacedOnce
<1>9. <<"received", r, Len(recv_buffer[r])>> \in Places(x)
  <2>1. IsPlace(<<"received", r, Len(recv_buffer[r])>>, x, r, ToSend(r), InTransit(r), recv_buffer[r], consumed[r])
    BY <1>5 DEF IsPlace
  <2> QED BY <2>1, PlaceIs
<1>10. \A q \in Ranks : x \notin Range(InTransit(q))
  <2>1. ASSUME NEW q \in Ranks, x \in Range(InTransit(q)) PROVE FALSE
    <3>1. PICK i : i \in Where(InTransit(q), x)
      BY <1>6, <2>1, SeqFacts
    <3>2. IsPlace(<<"transit", q, i>>, x, q, ToSend(q), InTransit(q), recv_buffer[q], consumed[q])
      BY <3>1 DEF IsPlace
    <3>3. <<"transit", q, i>> \in Places(x)
      BY <3>2, PlaceIs
    <3>4. <<"transit", q, i>> = <<"received", r, Len(recv_buffer[r])>>
      BY <1>8, <1>9, <3>3
    <3> QED BY <3>4
  <2> QED BY <2>1
<1>11. \A q \in Ranks : \A i \in Where(recv_buffer[q], x) : q = r /\ i = Len(recv_buffer[r])
  <2>1. ASSUME NEW q \in Ranks, NEW i \in Where(recv_buffer[q], x)
        PROVE  q = r /\ i = Len(recv_buffer[r])
    <3>1. IsPlace(<<"received", q, i>>, x, q, ToSend(q), InTransit(q), recv_buffer[q], consumed[q])
      BY DEF IsPlace
    <3>2. <<"received", q, i>> \in Places(x)
      BY <3>1, PlaceIs
    <3>3. <<"received", q, i>> = <<"received", r, Len(recv_buffer[r])>>
      BY <1>8, <1>9, <3>2
    <3> QED BY <3>3
  <2> QED BY <2>1
<1>12. ASSUME NEW q \in Ranks, NEW m
       PROVE  m \in Range(recv_buffer'[q]) <=> m \in Range(recv_buffer[q]) /\ m # x
  <2>1. /\ m \in Range(recv_buffer'[q]) <=> Where(recv_buffer'[q], m) # {}
        /\ m \in Range(recv_buffer[q]) <=> Where(recv_buffer[q], m) # {}
    <3>1. recv_buffer'[q] \in Seq(Msgs) /\ recv_buffer[q] \in Seq(Msgs)
      BY <1>3, <1>5, <1>6
    <3> QED BY <3>1, SeqFacts
  <2>2. CASE q = r /\ m # x
    <3>1. Where(recv_buffer'[q], m) = Where(recv_buffer[q], m)
      BY <1>3, <1>5, <2>2
    <3> QED BY <2>1, <2>2, <3>1
  <2>3. CASE q = r /\ m = x
    <3>1. Where(recv_buffer'[q], m) = {}
      BY <1>3, <1>5, <1>11, <2>3
    <3> QED BY <2>1, <2>3, <3>1
  <2>4. CASE q # r
    <3>1. recv_buffer'[q] = recv_buffer[q] /\ Where(recv_buffer[q], x) = {}
      BY <1>3, <1>11, <2>4
    <3> QED BY <2>1, <3>1
  <2> QED BY <2>2, <2>3, <2>4
<1>13. Inbox' = Inbox \ {x} /\ x \in Inbox
  <2>1. ASSUME NEW m PROVE m \in Inbox' <=> m \in Inbox /\ m # x
    BY <1>4, <1>6, <1>7, <1>10, <1>12
  <2>2. x \in Inbox
    BY <1>5, <1>6
  <2> QED BY <2>1, <2>2
<1>14. Taken' = Taken \cup {x}
  <2>1. ASSUME NEW m PROVE m \in Taken' <=> m \in Taken \/ m = x
    BY <1>3, <1>6, <1>7
  <2> QED BY <2>1
<1>15. Outbox' = Outbox
  <2>1. ASSUME NEW m PROVE m \in Outbox' <=> m \in Outbox
    BY <1>1, <1>4, <1>6, <1>7
  <2> QED BY <2>1
<1>16. Waiting' = Waiting /\ Ended' = Ended /\ r \notin Waiting
  BY <1>1, WorkUnseen
<1>17. Dest[x] = r
  BY <1>2, <1>5 DEF ExactlyOnePlace
<1> QED BY <1>5, <1>13, <1>14, <1>15, <1>16, <1>17, ConsumeStep

\* Steps that move nothing from one box to another.
LEMMA BoxesSame ==
  ASSUME ExchangeInv,
         \A q \in Ranks : /\ Range(ToSend(q)') = Range(ToSend(q))
                          /\ InTransit(q)' = InTransit(q)
                          /\ recv_buffer'[q] = recv_buffer[q] /\ consumed'[q] = consumed[q]
  PROVE  Outbox' = Outbox /\ Inbox' = Inbox /\ Taken' = Taken
<1>1. /\ \A q \in Ranks : InTransit(q) \in Seq(Msgs) /\ recv_buffer[q] \in Seq(Msgs)
      /\ \A m : m \in Outbox <=> \E q \in Ranks : m \in Range(ToSend(q))
      /\ \A m : m \in Inbox <=> \E q \in Ranks : m \in Range(InTransit(q)) \/ m \in Range(recv_buffer[q])
      /\ \A m : m \in Taken <=> \E q \in Ranks : m \in consumed[q]
  BY BoxFacts
<1>2. /\ \A m : m \in Outbox' <=> \E q \in Ranks : m \in Range(ToSend(q)')
      /\ \A m : m \in Inbox' <=> \E q \in Ranks : m \in Range(InTransit(q)') \/ m \in Range(recv_buffer'[q])
      /\ \A m : m \in Taken' <=> \E q \in Ranks : m \in consumed'[q]
  <2>1. \A q \in Ranks : InTransit(q)' \in Seq(Msgs) /\ recv_buffer'[q] \in Seq(Msgs)
    BY <1>1
  <2> QED BY <2>1, BoxesWillBe
<1>3. \A m : m \in Outbox' <=> m \in Outbox
  BY <1>1, <1>2
<1>4. \A m : m \in Inbox' <=> m \in Inbox
  BY <1>1, <1>2
<1>5. \A m : m \in Taken' <=> m \in Taken
  BY <1>1, <1>2
<1> QED BY <1>3, <1>4, <1>5

\* The phase of BspRounds is the one rank 0 is in, or will be in.
LEMMA EndedIs ==
  /\ Ended = PhaseOf(0) /\ Ended' = PhaseOf(0)'
BY DEF Ended, PhaseOf

\* Nothing happens in BspRounds either.
LEMMA StutterRefines ==
  ASSUME ExchangeInv, UNCHANGED vars
  PROVE  [Rounds!Next]_(Rounds!roundVars)
<1>1. /\ pc' = pc /\ phase' = phase /\ posted' = posted /\ send_buffer' = send_buffer
      /\ recv_buffer' = recv_buffer /\ recv_counts' = recv_counts /\ consumed' = consumed
  BY DEF vars
<1>2. \A q \in Ranks : /\ (Delivered(q)' <=> Delivered(q)) /\ (Stopped(q)' <=> Stopped(q))
                       /\ ToSend(q)' = ToSend(q) /\ InTransit(q)' = InTransit(q)
                       /\ PhaseOf(q)' = PhaseOf(q)
  <2>1. ASSUME NEW q \in Ranks
        PROVE  /\ (Delivered(q)' <=> Delivered(q)) /\ (Stopped(q)' <=> Stopped(q))
               /\ ToSend(q)' = ToSend(q) /\ InTransit(q)' = InTransit(q)
               /\ PhaseOf(q)' = PhaseOf(q)
    BY <1>1, DeliverySame
  <2> QED BY <2>1
<1>3. Waiting' = Waiting
  BY <1>1, <1>2, WaitingSame
<1>4. Ended' = Ended
  BY <1>2, EndedIs, RankFacts
<1>5. Outbox' = Outbox /\ Inbox' = Inbox /\ Taken' = Taken
  BY <1>1, <1>2, BoxesSame
<1> QED BY <1>3, <1>4, <1>5, UnseenStep

\* Noticing the end of a phase is not seen.
LEMMA CommFalseRefines ==
  ASSUME ExchangeInv, NEW r \in Ranks, commFalse(r)
  PROVE  [Rounds!Next]_(Rounds!roundVars)
<1>1. /\ Stopped(r) /\ recv_buffer' = recv_buffer /\ consumed' = consumed
      /\ pc' = [pc EXCEPT ![r] = IF phase[r] + 1 = MaxPhases THEN "returned" ELSE "work"]
  BY DEF commFalse, Stopped
<1>2. \A q \in Ranks : /\ ToSend(q)' = ToSend(q) /\ InTransit(q)' = InTransit(q)
                       /\ Delivered(q)' <=> Delivered(q)
                       /\ PhaseOf(q)' = PhaseOf(q)
                       /\ q # r => (Stopped(q)' <=> Stopped(q))
  BY CommFalseKeeps
<1>3. pc'[r] \notin InComm /\ \A q \in Ranks \ {r} : pc'[q] = pc[q]
  <2>1. pc \in [Ranks -> {"work", "reduce", "counts", "data", "returned"}]
    BY Invariants DEF TypeOK
  <2> QED BY <1>1, <2>1 DEF InComm
<1>4. Waiting' = Waiting
  BY <1>1, <1>2, <1>3, WaitingSame
<1>5. Ended' = Ended
  BY <1>2, EndedIs, RankFacts
<1>6. Outbox' = Outbox /\ Inbox' = Inbox /\ Taken' = Taken
  BY <1>1, <1>2, BoxesSame
<1> QED BY <1>4, <1>5, <1>6, UnseenStep

\* Exchanging the counts is not seen.
LEMMA CommCountsRefines ==
  ASSUME ExchangeInv, NEW r \in Ranks, commCounts(r)
  PROVE  [Rounds!Next]_(Rounds!roundVars)
<1>1. /\ recv_buffer' = recv_buffer /\ consumed' = consumed
      /\ pc[r] = "reduce" /\ pc' = [pc EXCEPT ![r] = "counts"]
  BY DEF commCounts
<1>2. \A q \in Ranks : /\ ToSend(q)' = ToSend(q) /\ InTransit(q)' = InTransit(q)
                       /\ Delivered(q)' <=> Delivered(q)
                       /\ PhaseOf(q)' = PhaseOf(q) /\ (Stopped(q)' <=> Stopped(q))
  BY CommCountsKeeps
<1>3. pc'[r] = "counts" /\ \A q \in Ranks \ {r} : pc'[q] = pc[q]
  <2>1. pc \in [Ranks -> {"work", "reduce", "counts", "data", "returned"}]
    BY Invariants DEF TypeOK
  <2> QED BY <1>1, <2>1
<1>4. Waiting' = Waiting
  <2>1. \A q \in Ranks : pc[q] \in InComm <=> pc'[q] \in InComm
    BY <1>1, <1>3 DEF InComm
  <2> QED BY <1>2, <2>1, WaitingSame
<1>5. Ended' = Ended
  BY <1>2, EndedIs, RankFacts
<1>6. Outbox' = Outbox /\ Inbox' = Inbox /\ Taken' = Taken
  BY <1>1, <1>2, BoxesSame
<1> QED BY <1>4, <1>5, <1>6, UnseenStep

\* Returning from alltoallv is not seen.
LEMMA CommTrueRefines ==
  ASSUME ExchangeInv, NEW r \in Ranks, commTrue(r)
  PROVE  [Rounds!Next]_(Rounds!roundVars)
<1>1. /\ consumed' = consumed /\ pc[r] = "data" /\ pc' = [pc EXCEPT ![r] = "work"]
  BY DEF commTrue
<1>2. /\ recv_buffer[r] = <<>> /\ recv_buffer'[r] = InTransit(r) /\ InTransit(r)' = <<>>
      /\ Delivered(r) /\ ~ Delivered(r)'
      /\ \A q \in Ranks : ToSend(q)' = ToSend(q) /\ PhaseOf(q)' = PhaseOf(q)
      /\ \A q \in Ranks : Stopped(q)' <=> Stopped(q)
      /\ \A q \in Ranks \ {r} : /\ recv_buffer'[q] = recv_buffer[q]
                                /\ InTransit(q)' = InTransit(q)
                                /\ Delivered(q)' <=> Delivered(q)
  BY CommTrueKeeps
<1>3. pc'[r] \notin InComm /\ \A q \in Ranks \ {r} : pc'[q] = pc[q]
  <2>1. pc \in [Ranks -> {"work", "reduce", "counts", "data", "returned"}]
    BY Invariants DEF TypeOK
  <2> QED BY <1>1, <2>1 DEF InComm
<1>4. Waiting' = Waiting
  BY <1>2, <1>3, WaitingSame
<1>5. Ended' = Ended
  BY <1>2, EndedIs, RankFacts
<1>6. /\ \A q \in Ranks : InTransit(q) \in Seq(Msgs) /\ recv_buffer[q] \in Seq(Msgs)
      /\ \A m : m \in Outbox <=> \E q \in Ranks : m \in Range(ToSend(q))
      /\ \A m : m \in Inbox <=> \E q \in Ranks : m \in Range(InTransit(q)) \/ m \in Range(recv_buffer[q])
      /\ \A m : m \in Taken <=> \E q \in Ranks : m \in consumed[q]
  BY BoxFacts
<1>7. <<>> \in Seq(Msgs) /\ Range(<<>>) = {}
  BY DEF Range
<1>8. /\ \A m : m \in Outbox' <=> \E q \in Ranks : m \in Range(ToSend(q)')
      /\ \A m : m \in Inbox' <=> \E q \in Ranks : m \in Range(InTransit(q)') \/ m \in Range(recv_buffer'[q])
      /\ \A m : m \in Taken' <=> \E q \in Ranks : m \in consumed'[q]
  <2>1. \A q \in Ranks : InTransit(q)' \in Seq(Msgs) /\ recv_buffer'[q] \in Seq(Msgs)
    BY <1>2, <1>6, <1>7
  <2> QED BY <2>1, BoxesWillBe
<1>9. Outbox' = Outbox
  <2>1. \A m : m \in Outbox' <=> m \in Outbox
    BY <1>2, <1>6, <1>8
  <2> QED BY <2>1
<1>10. Inbox' = Inbox
  <2>1. ASSUME NEW m, NEW q \in Ranks
        PROVE  m \in Range(InTransit(q)') \/ m \in Range(recv_buffer'[q])
                 <=> m \in Range(InTransit(q)) \/ m \in Range(recv_buffer[q])
    BY <1>2, <1>7
  <2>2. \A m : m \in Inbox' <=> m \in Inbox
    BY <1>6, <1>8, <2>1
  <2> QED BY <2>2
<1>11. Taken' = Taken
  <2>1. \A m : m \in Taken' <=> m \in Taken
    BY <1>1, <1>6, <1>8
  <2> QED BY <2>1
<1> QED BY <1>4, <1>5, <1>9, <1>10, <1>11, UnseenStep

\* The sum that sent everyone into the exchange was not zero.
LEMMA SomethingToSend ==
  ASSUME ExchangeInv, NEW r \in Ranks, pc[r] = "counts", Matched(r)
  PROVE  \E q \in Ranks : send_buffer[q] # <<>>
<1>1. StateOK /\ CountsAgree /\ LastCalls
  BY Invariants
<1>2. PICK k : k = Calls(r) - 1
  OBVIOUS
<1>3. SumOf(posted, k) # 0
  BY <1>1, <1>2 DEF LastCalls, LastCall
<1>4. ASSUME NEW q \in Ranks PROVE posted[q][k].arg = Summed(send_counts[q])
  <2>1. \/ Calls(q) = Calls(r) /\ pc[q] = "counts"
        \/ Calls(q) = Calls(r) + 1 /\ pc[q] = "data"
    BY DataSplit
  <2>2. LastCall(q, Calls(q)) /\ Calls(q) \in Nat /\ Calls(r) \in Nat
    BY <1>1, DataSplit DEF LastCalls
  <2>3. posted[q][k] = Call("allreduce", Summed(send_counts[q]))
    <3>1. CASE Calls(q) = Calls(r) /\ pc[q] = "counts"
      BY <1>2, <2>2, <3>1 DEF LastCall
    <3>2. CASE Calls(q) = Calls(r) + 1 /\ pc[q] = "data"
      <4>1. Calls(q) - 2 = k
        BY <1>2, <2>2, <3>2
      <4> QED BY <2>2, <3>2, <4>1 DEF LastCall
    <3> QED BY <2>1, <3>1, <3>2
  <2> QED BY <2>3 DEF Call
<1>5. SUFFICES ASSUME \A q \in Ranks : send_buffer[q] = <<>> PROVE FALSE
  OBVIOUS
<1>6. \A q \in Ranks : posted[q][k].arg = 0
  BY <1>1, <1>4, <1>5, EmptyCounts
<1>7. PICK f : f = [q \in Ranks |-> posted[q][k].arg]
  OBVIOUS
<1>8. f \in [Ranks -> Nat] /\ \A q \in Ranks : f[q] = 0
  BY <1>6, <1>7
<1>9. Summed(f) = 0
  BY <1>8, SummedZero
<1> QED BY <1>3, <1>7, <1>9 DEF SumOf

\* Joining alltoallv is seen when the last rank does it: that is Exchange.
LEMMA CommDataRefines ==
  ASSUME ExchangeInv, NEW r \in Ranks, commData(r)
  PROVE  [Rounds!Next]_(Rounds!roundVars)
<1>1. PICK s, c : JoinedWith(r, s, c)
  BY JoinedAs
<1>2. /\ pc[r] = "counts" /\ Matched(r)
      /\ phase' = phase /\ recv_buffer' = recv_buffer /\ consumed' = consumed
  BY <1>1 DEF JoinedWith
<1>3. \A q \in Ranks : /\ pc[q] \in InComm
                       /\ ~ Delivered(q) /\ ~ Stopped(q) /\ recv_buffer[q] = <<>>
                       /\ ToSend(q) = send_buffer[q] /\ InTransit(q) = <<>>
  BY <1>2, DataSplit DEF InComm
<1>4. \A q \in Ranks : ~ Stopped(q)' /\ PhaseOf(q)' = PhaseOf(q)
  BY <1>1, JoinKeeps
<1>5. \A q \in Ranks : pc'[q] \in InComm
  <2>1. pc \in [Ranks -> {"work", "reduce", "counts", "data", "returned"}]
    BY Invariants DEF TypeOK
  <2>2. pc' = [pc EXCEPT ![r] = "data"]
    BY <1>1 DEF JoinedWith
  <2> QED BY <1>3, <2>1, <2>2 DEF InComm
<1>6. Waiting = Ranks
  BY <1>3 DEF Waiting, InComm
<1>7. Ended' = Ended
  BY <1>4, EndedIs, RankFacts
<1>8. CASE ~ LastToJoin(r)
  <2>1. \A q \in Ranks : /\ ToSend(q)' = send_buffer'[q] /\ InTransit(q)' = <<>>
                         /\ ~ Delivered(q)'
    BY <1>1, <1>8, JoinWaits
  <2>2. \A q \in Ranks : Range(send_buffer'[q]) = Range(send_buffer[q])
    BY <1>1, JoinedFacts
  <2>3. Outbox' = Outbox /\ Inbox' = Inbox /\ Taken' = Taken
    <3>1. \A q \in Ranks : /\ Range(ToSend(q)') = Range(ToSend(q))
                           /\ InTransit(q)' = InTransit(q)
                           /\ recv_buffer'[q] = recv_buffer[q] /\ consumed'[q] = consumed[q]
      BY <1>2, <1>3, <2>1, <2>2
    <3> QED BY <3>1, BoxesSame
  <2>4. Waiting' = Waiting
    BY <1>3, <1>4, <1>5, <2>1, WaitingSame
  <2> QED BY <1>7, <2>3, <2>4, UnseenStep
<1>9. CASE LastToJoin(r)
  <2>1. /\ \A q \in Ranks : ToSend(q)' = <<>> /\ Delivered(q)' /\ InTransit(q)' \in Seq(Msgs)
        /\ \A q \in Ranks, m \in Msgs :
             Where(InTransit(q)', m) # {} <=>
               Dest[m] = q /\ \E p \in Ranks : Where(send_buffer[p], m) # {}
    BY <1>1, <1>9, JoinCompletes
  <2>2. /\ \A q \in Ranks : ToSend(q) \in Seq(Msgs)
        /\ \A m : m \in Outbox <=> \E q \in Ranks : m \in Range(ToSend(q))
        /\ \A m : m \in Inbox <=> \E q \in Ranks : m \in Range(InTransit(q)) \/ m \in Range(recv_buffer[q])
        /\ \A m : m \in Taken <=> \E q \in Ranks : m \in consumed[q]
    BY BoxFacts
  <2>3. <<>> \in Seq(Msgs) /\ Range(<<>>) = {}
    BY DEF Range
  <2>4. /\ \A m : m \in Outbox' <=> \E q \in Ranks : m \in Range(ToSend(q)')
        /\ \A m : m \in Inbox' <=> \E q \in Ranks : m \in Range(InTransit(q)') \/ m \in Range(recv_buffer'[q])
        /\ \A m : m \in Taken' <=> \E q \in Ranks : m \in consumed'[q]
    <3>1. \A q \in Ranks : InTransit(q)' \in Seq(Msgs) /\ recv_buffer'[q] \in Seq(Msgs)
      BY <1>2, <1>3, <2>1, <2>3
    <3> QED BY <3>1, BoxesWillBe
  <2>5. Inbox = {} /\ Outbox' = {}
    BY <1>3, <2>1, <2>2, <2>3, <2>4
  <2>6. Taken' = Taken
    BY <1>2, <2>2, <2>4
  <2>7. Waiting' = {}
    BY <2>1 DEF Waiting
  <2>8. Outbox # {}
    <3>1. PICK q \in Ranks : send_buffer[q] # <<>>
      BY <1>2, SomethingToSend
    <3>2. PICK s1 : s1 = send_buffer[q]
      OBVIOUS
    <3>3. s1 \in Seq(Msgs) /\ s1 # <<>> /\ s1 = ToSend(q)
      BY <1>3, <2>2, <3>1, <3>2
    <3>4. 1 \in DOMAIN s1
      BY <3>3
    <3>5. s1[1] \in Range(ToSend(q))
      BY <3>3, <3>4 DEF Range
    <3> QED BY <2>2, <3>5
  <2>9. ASSUME NEW m PROVE m \in Inbox' <=> m \in Outbox
    <3>1. m \in Inbox' <=> \E q \in Ranks : m \in Range(InTransit(q)')
      BY <1>2, <1>3, <2>3, <2>4
    <3>2. \A q \in Ranks : m \in Range(InTransit(q)') <=> Where(InTransit(q)', m) # {}
      BY <2>1, SeqFacts
    <3>3. \A q \in Ranks : m \in Range(ToSend(q)) <=> Where(send_buffer[q], m) # {}
      BY <1>3, <2>2, SeqFacts
    <3>4. CASE m \in Msgs
      <4>1. Dest[m] \in Ranks
        BY <3>4, RankFacts
      <4>2. m \in Inbox' <=> \E p \in Ranks : Where(send_buffer[p], m) # {}
        <5>1. \A q \in Ranks : m \in Range(InTransit(q)') <=>
                Dest[m] = q /\ \E p \in Ranks : Where(send_buffer[p], m) # {}
          <6>1. ASSUME NEW q \in Ranks
                PROVE  m \in Range(InTransit(q)') <=>
                         Dest[m] = q /\ \E p \in Ranks : Where(send_buffer[p], m) # {}
            <7>1. Where(InTransit(q)', m) # {} <=>
                    Dest[m] = q /\ \E p \in Ranks : Where(send_buffer[p], m) # {}
              BY <2>1, <3>4
            <7> QED BY <3>2, <7>1
          <6> QED BY <6>1
        <5> QED BY <3>1, <4>1, <5>1
      <4>3. m \in Outbox <=> \E p \in Ranks : Where(send_buffer[p], m) # {}
        BY <2>2, <3>3
      <4> QED BY <4>2, <4>3
    <3>5. CASE m \notin Msgs
      <4>1. \A t \in Seq(Msgs) : m \notin Range(t)
        BY <3>5 DEF Range
      <4> QED BY <2>1, <2>2, <3>1, <4>1
    <3> QED BY <3>4, <3>5
  <2>10. Inbox' = Outbox
    BY <2>9
  <2>11. Rounds!Next
    BY <1>6, <1>7, <2>5, <2>6, <2>7, <2>8, <2>10, ExchangeStep
  <2> QED BY <2>11
<1> QED BY <1>8, <1>9

\* All others have made the call that r is about to make.
LEMMA CommSplit ==
  ASSUME ExchangeInv, NEW r \in Ranks, comm(r)
  PROVE  /\ \A q \in Ranks : /\ Calls(q) \in Nat
                             /\ Calls(q) = Calls(r) \/ Calls(q) = Calls(r) + 1
         /\ \A q \in Ranks \ {r} : Calls(q) = Calls(r) => (Stopped(q)' <=> Stopped(q))
         /\ \A q \in Ranks : Calls(q) = Calls(r) + 1 => pc[q] = "reduce" /\ ~ Matched(q)
         /\ \A q \in Ranks : q = r \/ Calls(q) = Calls(r) + 1 => (Matched(q)' <=> LastToJoin(r))
         /\ LastToJoin(r) => \A q \in Ranks :
              /\ Calls(q)' = Calls(r) + 1
              /\ posted'[q][Calls(r) + 1] = Call("allreduce", Summed(send_counts[q]))
         /\ pc'[r] = "reduce" /\ \A q \in Ranks \ {r} : pc'[q] = pc[q]
<1>0. PICK c : c = Call("allreduce", Summed(send_counts[r]))
  OBVIOUS
<1>1. /\ StateOK /\ TypeOK /\ InStep /\ Ahead /\ LastCalls /\ CountsAgree
      /\ pc[r] = "work" /\ recv_buffer[r] = <<>>
      /\ pc' = [pc EXCEPT ![r] = "reduce"]
      /\ posted' = [posted EXCEPT ![r] = Append(@, c)]
      /\ UNCHANGED <<phase, send_buffer, send_counts, recv_buffer, recv_counts, consumed, pushed_in>>
  BY <1>0, Invariants DEF comm
<1>2. pc'[r] = "reduce" /\ \A q \in Ranks \ {r} : pc'[q] = pc[q]
  BY <1>1 DEF TypeOK
<1>3. c \in CallSet /\ c.op = "allreduce"
  <2>1. Summed(send_counts[r]) \in Nat
    BY <1>1, EmptyCounts
  <2> QED BY <1>0, <2>1 DEF Call, CallSet
<1>4. Posts(r, c) /\ Follows(r, c)
  <2>1. Matched(r)
    BY <1>1 DEF InStep, InComm
  <2> QED BY <1>1, <1>2, <1>3, <2>1 DEF Posts, Follows
<1>5. \A q \in Ranks \ {r} : Calls(q) = Calls(r) => (Stopped(q)' <=> Stopped(q))
  BY <1>1, <1>2, <1>3, <1>4, PostKeeps
<1>6. /\ Calls(r)' = Calls(r) + 1 /\ posted'[r][Calls(r) + 1] = c
      /\ \A q \in Ranks \ {r} : Calls(q)' = Calls(q) /\ posted'[q] = posted[q]
      /\ \A q \in Ranks : Calls(q) \in Nat /\ Calls(r) <= Calls(q) /\ Calls(q) <= Calls(r) + 1
  BY <1>1, <1>4, PostsFacts
<1>7. \A q \in Ranks : Calls(q) = Calls(r) \/ Calls(q) = Calls(r) + 1
  BY <1>6
<1>8. ASSUME NEW q \in Ranks, Calls(q) = Calls(r) + 1 PROVE pc[q] = "reduce" /\ ~ Matched(q)
  <2>1. ~ Matched(q)
    BY <1>1, <1>4, <1>8, MatchedAfter
  <2>2. pc[q] \in InComm
    BY <1>1, <2>1 DEF InStep
  <2> QED BY <1>1, <1>8, <2>1, <2>2 DEF Ahead, InComm
<1>9. ASSUME NEW q \in Ranks, q = r \/ Calls(q) = Calls(r) + 1 PROVE Matched(q)' <=> LastToJoin(r)
  BY <1>1, <1>4, <1>9, MatchedAfter DEF LastToJoin
<1>10. ASSUME LastToJoin(r), NEW q \in Ranks
       PROVE  /\ Calls(q)' = Calls(r) + 1
              /\ posted'[q][Calls(r) + 1] = Call("allreduce", Summed(send_counts[q]))
  <2>1. CASE q = r
    BY <1>0, <1>6, <2>1
  <2>2. CASE q # r
    <3>1. Calls(q) = Calls(r) + 1
      BY <1>10, <2>2 DEF LastToJoin
    <3>2. LastCall(q, Calls(q)) /\ pc[q] = "reduce"
      BY <1>1, <1>8, <3>1 DEF LastCalls
    <3>3. posted[q][Calls(r) + 1] = Call("allreduce", Summed(send_counts[q]))
      BY <3>1, <3>2 DEF LastCall
    <3> QED BY <1>6, <2>2, <3>1, <3>3
  <2> QED BY <2>1, <2>2
<1> QED BY <1>2, <1>5, <1>6, <1>7, <1>8, <1>9, <1>10

\* comm is Wait; the vote that makes the sum zero for all is NextPhase.
LEMMA CommRefines ==
  ASSUME ExchangeInv, NEW r \in Ranks, comm(r)
  PROVE  [Rounds!Next]_(Rounds!roundVars)
<1>1. /\ pc[r] = "work" /\ recv_buffer[r] = <<>>
      /\ recv_buffer' = recv_buffer /\ consumed' = consumed /\ phase' = phase
      /\ send_counts' = send_counts /\ send_buffer' = send_buffer
  BY DEF comm
<1>2. \A q \in Ranks : /\ ToSend(q)' = ToSend(q) /\ InTransit(q)' = InTransit(q)
                       /\ Delivered(q)' <=> Delivered(q)
  BY CommKeeps
<1>3. /\ \A q \in Ranks : /\ Calls(q) \in Nat
                          /\ Calls(q) = Calls(r) \/ Calls(q) = Calls(r) + 1
      /\ \A q \in Ranks \ {r} : Calls(q) = Calls(r) => (Stopped(q)' <=> Stopped(q))
      /\ \A q \in Ranks : Calls(q) = Calls(r) + 1 => pc[q] = "reduce" /\ ~ Matched(q)
      /\ \A q \in Ranks : q = r \/ Calls(q) = Calls(r) + 1 => (Matched(q)' <=> LastToJoin(r))
      /\ LastToJoin(r) => \A q \in Ranks :
           /\ Calls(q)' = Calls(r) + 1
           /\ posted'[q][Calls(r) + 1] = Call("allreduce", Summed(send_counts[q]))
      /\ pc'[r] = "reduce" /\ \A q \in Ranks \ {r} : pc'[q] = pc[q]
  BY CommSplit
<1>4. Outbox' = Outbox /\ Inbox' = Inbox /\ Taken' = Taken
  BY <1>1, <1>2, BoxesSame
<1>5. ~ Delivered(r) /\ ~ Stopped(r) /\ InTransit(r) = <<>>
  BY <1>1 DEF Delivered, Stopped, InTransit
<1>6. \A m \in Inbox : Dest[m] # r
  <2>1. Range(<<>>) = {}
    BY DEF Range
  <2>2. ASSUME NEW m \in Inbox, Dest[m] = r PROVE FALSE
    <3>1. m \in Range(InTransit(Dest[m])) \/ m \in Range(recv_buffer[Dest[m]])
      BY BoxFacts
    <3> QED BY <1>1, <1>5, <2>1, <2>2, <3>1
  <2> QED BY <2>2
<1>7. \A q \in Ranks \ {r} : Calls(q) = Calls(r) + 1 => q \in Waiting /\ ~ Stopped(q) /\ ~ Delivered(q)
  BY <1>3 DEF Waiting, Stopped, Delivered
<1>8. \A q \in Ranks : q = r \/ Calls(q) = Calls(r) + 1 =>
        (Stopped(q)' <=> LastToJoin(r) /\ Total(q)' = 0)
  BY <1>3 DEF Stopped
<1>9. CASE \A q \in Ranks : q = r \/ Calls(q) = Calls(r) + 1 => ~ Stopped(q)'
  <2>1. \A q \in Ranks : Stopped(q)' <=> Stopped(q)
    BY <1>3, <1>5, <1>7, <1>9
  <2>2. Ended' = Ended
    <3>1. PhaseOf(0)' = PhaseOf(0)
      BY <1>1, <2>1, RankFacts DEF PhaseOf
    <3> QED BY <3>1, EndedIs
  <2>3. Waiting' = Waiting \cup {r}
    <3>1. r \in Waiting'
      BY <1>2, <1>3, <1>5, <2>1 DEF Waiting
    <3>2. \A q \in Ranks \ {r} : q \in Waiting' <=> q \in Waiting
      BY <1>2, <1>3, <2>1 DEF Waiting
    <3>3. Waiting \subseteq Ranks /\ Waiting' \subseteq Ranks
      BY DEF Waiting
    <3> QED BY <3>1, <3>2, <3>3
  <2> QED BY <1>4, <1>6, <2>2, <2>3, WaitStep
<1>10. CASE \E q \in Ranks : (q = r \/ Calls(q) = Calls(r) + 1) /\ Stopped(q)'
  <2>1. PICK p \in Ranks : (p = r \/ Calls(p) = Calls(r) + 1) /\ LastToJoin(r) /\ Total(p)' = 0
    BY <1>8, <1>10
  <2>2. \A q \in Ranks : q = r \/ Calls(q) = Calls(r) + 1
    BY <2>1 DEF LastToJoin
  <2>3. PICK f : f = [q \in Ranks |-> Summed(send_counts[q])]
    OBVIOUS
  <2>4. \A q \in Ranks : Total(q)' = Summed(f)
    <3>1. ASSUME NEW q \in Ranks PROVE Total(q)' = Summed(f)
      <4>1. \A o \in Ranks : Arg(q, o)' = Summed(send_counts[o])
        <5>1. ASSUME NEW o \in Ranks PROVE Arg(q, o)' = Summed(send_counts[o])
          <6>1. Arg(q, o)' = posted'[o][Calls(q)'].arg
            BY DEF Arg, Calls
          <6>2. Calls(q)' = Calls(r) + 1
                /\ posted'[o][Calls(r) + 1] = Call("allreduce", Summed(send_counts[o]))
            BY <1>3, <2>1
          <6> QED BY <6>1, <6>2 DEF Call
        <5> QED BY <5>1
      <4>2. Total(q)' = Summed([o \in Ranks |-> Arg(q, o)'])
        BY DEF Total
      <4>3. [o \in Ranks |-> Arg(q, o)'] = f
        BY <2>3, <4>1
      <4> QED BY <4>2, <4>3
    <3> QED BY <3>1
  <2>5. StateOK /\ CountsAgree /\ BuffersInv
    BY Invariants
  <2>6. \A q \in Ranks : Stopped(q)'
    BY <1>8, <2>1, <2>2, <2>4
  <2>7. \A q \in Ranks : send_buffer[q] = <<>>
    <3>1. f \in [Ranks -> Nat]
      BY <2>3, <2>5, EmptyCounts
    <3>2. \A q \in Ranks : f[q] = 0
      BY <2>1, <2>4, <3>1, SummedZero
    <3> QED BY <2>3, <2>5, <3>2, EmptyCounts
  <2>8. \A q \in Ranks : /\ ToSend(q) = <<>> /\ InTransit(q) = <<>> /\ recv_buffer[q] = <<>>
                         /\ ~ Stopped(q)
    <3>1. ASSUME NEW q \in Ranks \ {r}
          PROVE  /\ ~ Delivered(q) /\ ~ Stopped(q) /\ recv_buffer[q] = <<>>
      <4>1. Calls(q) = Calls(r) + 1
        BY <2>2
      <4>2. pc[q] = "reduce"
        BY <1>3, <4>1
      <4> QED BY <1>7, <2>5, <4>1, <4>2 DEF BuffersInv
    <3> QED BY <1>1, <1>5, <2>7, <3>1 DEF ToSend, InTransit
  <2>9. Inbox = {} /\ Outbox = {}
    <3>1. Range(<<>>) = {}
      BY DEF Range
    <3>2. /\ \A m : m \in Outbox <=> \E q \in Ranks : m \in Range(ToSend(q))
          /\ \A m : m \in Inbox <=> \E q \in Ranks : m \in Range(InTransit(q)) \/ m \in Range(recv_buffer[q])
      BY BoxFacts
    <3> QED BY <2>8, <3>1, <3>2
  <2>10. Waiting' = {}
    BY <2>6 DEF Waiting
  <2>11. Ranks \ Waiting \subseteq {r}
    BY <1>7, <2>2
  <2>12. Ended' = Ended + 1
    <3>1. phase[0] \in Nat /\ 0 \in Ranks
      BY <2>5, RankFacts DEF StateOK, TypeOK
    <3>2. Stopped(0)' /\ ~ Stopped(0)
      BY <2>6, <2>8, <3>1
    <3> QED BY <1>1, <3>1, <3>2 DEF Ended
  <2>13. Rounds!Next
    BY <1>4, <2>9, <2>10, <2>11, <2>12, NextPhaseStep
  <2> QED BY <2>13
<1> QED BY <1>9, <1>10

\* Every step is one of BspRounds or unseen.
LEMMA NextRefinesRounds ==
  ASSUME ExchangeInv, [Next]_vars
  PROVE  [Rounds!Next]_(Rounds!roundVars)
<1>1. CASE UNCHANGED vars
  BY <1>1, StutterRefines
<1>2. ASSUME NEW r \in Ranks, NEW m \in Msgs, push(r, m) PROVE [Rounds!Next]_(Rounds!roundVars)
  BY <1>2, PushRefines
<1>3. ASSUME NEW r \in Ranks, NEW m \in Msgs, local_push(r, m)
      PROVE  [Rounds!Next]_(Rounds!roundVars)
  BY <1>3, LocalPushRefines
<1>4. ASSUME NEW r \in Ranks, next(r) PROVE [Rounds!Next]_(Rounds!roundVars)
  BY <1>4, NextRefines
<1>5. ASSUME NEW r \in Ranks, comm(r) PROVE [Rounds!Next]_(Rounds!roundVars)
  BY <1>5, CommRefines
<1>6. ASSUME NEW r \in Ranks, commFalse(r) PROVE [Rounds!Next]_(Rounds!roundVars)
  BY <1>6, CommFalseRefines
<1>7. ASSUME NEW r \in Ranks, commCounts(r) PROVE [Rounds!Next]_(Rounds!roundVars)
  BY <1>7, CommCountsRefines
<1>8. ASSUME NEW r \in Ranks, commData(r) PROVE [Rounds!Next]_(Rounds!roundVars)
  BY <1>8, CommDataRefines
<1>9. ASSUME NEW r \in Ranks, commTrue(r) PROVE [Rounds!Next]_(Rounds!roundVars)
  BY <1>9, CommTrueRefines
<1>10. CASE AllReturned
  BY <1>1, <1>10 DEF AllReturned
<1> QED BY <1>1, <1>2, <1>3, <1>4, <1>5, <1>6, <1>7, <1>8, <1>9, <1>10 DEF Next

(***************************************************************************)
(* comm implements the atomic exchange of BspRounds, for any number of     *)
(* ranks, messages and phases: whatever the ranks see of the collectives   *)
(* and when they see it, all messages change hands at one stroke, when the *)
(* last rank joins alltoallv, and a phase ends for all when the last votes.*)
(***************************************************************************)
THEOREM ExchangeRefinement == Spec => ImplementsRounds
<1>1. ExchangeInv /\ [Next]_vars => ExchangeInv'
  BY NextExchange
<1>2. ExchangeInv /\ [Next]_vars => [Rounds!Next]_(Rounds!roundVars)
  BY NextRefinesRounds
<1> QED BY InitExchange, InitRounds, <1>1, <1>2, PTL DEF Spec, ImplementsRounds, Rounds!Spec
=============================================================================
