--------------------------- MODULE PivotReduction ---------------------------
(***************************************************************************)
(* select_pivot_from_degree and select_pivot_from_head (scc/pivot.hpp):    *)
(* every rank scans its undecided vertices for the largest product of the  *)
(* two degrees, and a reduction over the ranks with degree_max_reduce      *)
(* (graph/base.hpp) makes one pivot of their candidates.                   *)
(*                                                                         *)
(* MPI may combine the contributions in any order and grouping, and on     *)
(* each rank in another one, as the operation is declared commutative.  So *)
(* each rank has the partial results it has still to combine, as records   *)
(* of the ranks a result stands for and of its value.                      *)
(*                                                                         *)
(* A product is computed in index_t, where it may wrap.                    *)
(***************************************************************************)
EXTENDS Integers, FiniteSets

CONSTANTS Vertices,     \* global ids, natural numbers; 0 is one of them
          Ranks,
          Limit,        \* 2^w for a w-bit index_t
          Inputs        \* [owner, is_undecided: not empty, outdegree, indegree: per vertex]

VARIABLES
  input,         \* never changed
  todo,          \* undecided vertices not scanned yet
  local_max,     \* per rank, [degree_product, u]
  partial,       \* per rank, the results to combine: [of, max]
  pivot          \* per rank, the result of the call: a set of one vertex

vars == <<input, todo, local_max, partial, pivot>>

Local(r) == {v \in Vertices : input.owner[v] = r}

degree_product(u) == (input.outdegree[u] * input.indegree[u]) % Limit

Init ==
  /\ input \in Inputs
  /\ todo = input.is_undecided
  /\ local_max = [r \in Ranks |-> [degree_product |-> 0, u |-> 0]]
  /\ partial = [r \in Ranks |-> {}]
  /\ pivot = [r \in Ranks |-> {}]

\* The body of is_undecided.each, which visits vertices in ascending order.
Scan(k) ==
  LET r == input.owner[k]
      larger == degree_product(k) > local_max[r].degree_product
  IN  /\ k \in todo
      /\ \A v \in todo \cap Local(r) : k <= v
      /\ todo' = todo \ {k}
      /\ local_max' = IF larger
                        THEN [local_max EXCEPT ![r] =
                                [degree_product |-> degree_product(k), u |-> k]]
                        ELSE local_max
      /\ UNCHANGED <<input, partial, pivot>>

\* All ranks have called allreduce_single.
Allreduce ==
  /\ todo = {}
  /\ \A r \in Ranks : partial[r] = {} /\ pivot[r] = {}
  /\ partial' = [r \in Ranks |-> {[of |-> {s}, max |-> local_max[s]] : s \in Ranks}]
  /\ UNCHANGED <<input, todo, local_max, pivot>>

\* Mutant of degree_max_reduce: of two equal products the one in place stays.
degree_max_reduceProduct(a, b) == IF b.degree_product > a.degree_product THEN b ELSE a

\* One call of the operation, for inout = a and in = b.
degree_max_reduce(a, b) ==
  IF \/ b.degree_product > a.degree_product
     \/ b.degree_product = a.degree_product /\ b.u > a.u
    THEN b
    ELSE a

Combine(r) ==
  /\ \E a, b \in partial[r] :
       /\ a # b
       /\ partial' = [partial EXCEPT ![r] = (@ \ {a, b}) \cup
            {[of |-> a.of \cup b.of, max |-> degree_max_reduce(a.max, b.max)]}]
  /\ UNCHANGED <<input, todo, local_max, pivot>>

Return(r) ==
  /\ \E a \in partial[r] :
       /\ partial[r] = {a}
       /\ pivot' = [pivot EXCEPT ![r] = {a.max.u}]
  /\ partial' = [partial EXCEPT ![r] = {}]
  /\ UNCHANGED <<input, todo, local_max>>

AllReturned == (\A r \in Ranks : pivot[r] # {}) /\ UNCHANGED vars

Next ==
  \/ \E k \in Vertices : Scan(k)
  \/ Allreduce
  \/ \E r \in Ranks : Combine(r) \/ Return(r)
  \/ AllReturned

Spec == Init /\ [][Next]_vars
-----------------------------------------------------------------------------
(* Properties                                                              *)

degree_t == [degree_product : 0 .. Limit - 1, u : Vertices]

\* Types of the state; each contribution is in exactly one partial result.
TypeOK ==
  /\ todo \subseteq input.is_undecided
  /\ local_max \in [Ranks -> degree_t]
  /\ \A r \in Ranks : \A a \in partial[r] : a.max \in degree_t
  /\ \A r \in Ranks : \A a, b \in partial[r] : a # b => a.of \cap b.of = {}
  /\ \A r \in Ranks : Cardinality(pivot[r]) <= 1

\* Whatever the order in which the contributions are combined, ranks do not
\* search from different pivots.
PivotsAgree == \A r, s \in Ranks : pivot[r] = {} \/ pivot[s] = {} \/ pivot[r] = pivot[s]

\* The assertion at the end of both functions: the search that follows
\* decides the pivot without asking whether it is undecided.
PivotUndecided == \A r \in Ranks : pivot[r] \subseteq input.is_undecided

\* The vertex the comment promises, when the products are exact.
PivotLargest ==
  \A r \in Ranks : \A u \in pivot[r] : \A v \in input.is_undecided :
    input.outdegree[v] * input.indegree[v] <= input.outdegree[u] * input.indegree[u]

\* All of it, for products that are exact.
PivotInv == TypeOK /\ PivotsAgree /\ PivotUndecided /\ PivotLargest
=============================================================================
