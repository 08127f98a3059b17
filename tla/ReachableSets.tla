---------------------------- MODULE ReachableSets ----------------------------
(***************************************************************************)
(* The mathematics the searches are measured against: reachability and     *)
(* strongly connected components of a directed graph over Vertices, given  *)
(* as its edge relation E (a set of pairs).                                *)
(*                                                                         *)
(* Reachability is defined by closed sets, not by paths or recursion: v is *)
(* reachable from u when every set that contains u and is closed under E   *)
(* contains v.  TLC evaluates this for a handful of vertices, and a proof  *)
(* that v is not reachable is the choice of one closed set.                *)
(***************************************************************************)
EXTENDS FiniteSets, Integers

CONSTANT Vertices     \* all global vertex ids 0 .. n-1, or model values

ASSUME VerticesAssumption == IsFiniteSet(Vertices)

Graphs == SUBSET (Vertices \X Vertices)

Succ(E, u) == {v \in Vertices : <<u, v>> \in E}
Pred(E, u) == {v \in Vertices : <<v, u>> \in E}

IsClosed(E, C) == \A u, v \in Vertices : u \in C /\ <<u, v>> \in E => v \in C

Reach(E, u) == {v \in Vertices :
                  \A C \in SUBSET Vertices : u \in C /\ IsClosed(E, C) => v \in C}

SCC(E, u) == {v \in Reach(E, u) : u \in Reach(E, v)}

(***************************************************************************)
(* What trimming leaves undecided.  trim_1_first removes the vertices      *)
(* without a predecessor or without a successor; the exhaustive trim       *)
(* removes them until every remaining vertex has a remaining predecessor,  *)
(* then until every remaining vertex has a remaining successor.            *)
(***************************************************************************)
HasBothDegrees(E) == {v \in Vertices : Succ(E, v) # {} /\ Pred(E, v) # {}}

\* What is left of S when each vertex must keep a successor along E.
Core(E, S) == UNION {C \in SUBSET S : \A v \in C : Succ(E, v) \cap C # {}}

Reversed(E) == {<<e[2], e[1]>> : e \in E}

TwoWayCore(E) == Core(E, Core(Reversed(E), Vertices))

(***************************************************************************)
(* The allreduce with MPI_SUM (allreduce_single in util/mpi_basic.hpp) by  *)
(* which the drivers learn how many vertices are decided: the sum of the   *)
(* counters of the ranks, as the number of pairs of a rank and a number up *)
(* to its counter.                                                         *)
(***************************************************************************)
SumOverRanks(count) ==
  Cardinality(UNION {{r} \X (1 .. count[r]) : r \in DOMAIN count})
=============================================================================
