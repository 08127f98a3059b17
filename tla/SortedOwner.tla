---------------------------- MODULE SortedOwner ----------------------------
(***************************************************************************)
(* explicit_sorted_part::world_rank_of (graph/explicit_sorted_part.hpp):   *)
(* the rank that owns a vertex, where rank r owns those from part[r-1] (0  *)
(* for the first rank) up to, but not with, part[r].  It guesses the rank  *)
(* as if all slices were of one size, in the arithmetic of vertex_t, which *)
(* may wrap, and corrects the guess step by step in the direction that the *)
(* first comparison has shown.                                             *)
(***************************************************************************)
EXTENDS Partitions

CONSTANT Calls      \* [ws: the ranks, n: the vertices, part: see above, j: the vertex]

\* The ends grow from rank to rank, and the last one is n.
Sorted(c) ==
  /\ \A r \in 0 .. c.ws - 1, q \in 0 .. c.ws - 1 : r <= q => c.part[r] <= c.part[q]
  /\ c.part[c.ws - 1] = c.n

ASSUME CallsAssumption ==
  \A c \in Calls : /\ c.ws \in Nat \ {0} /\ c.n \in 1 .. Size - 1
                   /\ c.part \in [0 .. c.ws - 1 -> 0 .. c.n]
                   /\ c.j \in 0 .. c.n - 1
                   /\ Sorted(c)

VARIABLES call,     \* never changed
          r,        \* the rank in hand
          pc        \* "guess", "down", "up" or "done"

vars == <<call, r, pc>>

part == call.part
j == call.j

guess(c) == Wrap(c.j * c.ws) \div c.n

Init ==
  /\ call \in Calls
  /\ r = guess(call)
  /\ pc = "guess"

\* The vertex lies before the slice of r, or behind it.
Before == r > 0 /\ j < part[r - 1]
Behind == r < call.ws - 1 /\ j >= part[r]

Down ==
  /\ pc \in {"guess", "down"} /\ Before
  /\ r' = r - 1
  /\ pc' = "down"
  /\ UNCHANGED call

Up ==
  /\ pc = "up" \/ (pc = "guess" /\ ~Before)
  /\ Behind
  /\ r' = r + 1
  /\ pc' = "up"
  /\ UNCHANGED call

\* Mutant of Return: a corrected guess is taken for right after one step.
ReturnEarly ==
  /\ pc \in {"down", "up"} \/ (pc = "guess" /\ ~Before /\ ~Behind)
  /\ pc' = "done"
  /\ UNCHANGED <<call, r>>

Return ==
  /\ \/ pc = "guess" /\ ~Before /\ ~Behind
     \/ pc = "down" /\ ~Before
     \/ pc = "up" /\ ~Behind
  /\ pc' = "done"
  /\ UNCHANGED <<call, r>>

Returned == pc = "done" /\ UNCHANGED vars

Next == Down \/ Up \/ Return \/ Returned

Spec == Init /\ [][Next]_vars

\* The loops run on.
FairSpec == Spec /\ WF_vars(Next)
-----------------------------------------------------------------------------
(* Properties                                                              *)

Owns(c, q, v) == (q = 0 \/ c.part[q - 1] <= v) /\ v < c.part[q]

(***************************************************************************)
(* Why the correction is right from any guess: the rank never leaves the   *)
(* array, and having gone one way the other end needs no second look.      *)
(***************************************************************************)
GuessInv ==
  /\ call \in Calls
  /\ r \in 0 .. call.ws - 1
  /\ pc \in {"guess", "down", "up", "done"}
  /\ pc = "down" => j < part[r]
  /\ pc = "up" => r = 0 \/ part[r - 1] <= j

(***************************************************************************)
(* The rank returned owns the vertex, however far off the guess is: with   *)
(* slices of very different sizes, empty ones, and a product that wraps.   *)
(* Messages and edges are sent to the rank it names.                       *)
(***************************************************************************)
OwnerFound == pc = "done" => Owns(call, r, j)

\* Both together.
OwnerInv == GuessInv /\ OwnerFound

\* The correction ends.
Terminates == <>(pc = "done")
=============================================================================
