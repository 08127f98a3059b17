--------------------------- MODULE PartitionByRank ---------------------------
(***************************************************************************)
(* inplace_partition_by_rank (util/mpi_basic.hpp): frontier.comm groups    *)
(* the send buffer by destination rank without a second buffer, swapping   *)
(* every item that is in the slice of another rank to the first place of   *)
(* its own slice not yet visited.  send_displs serves as the cursors of    *)
(* the slices and must hold their first places again at the end.           *)
(*                                                                         *)
(* An item is its index in the buffer at the call.  Arrays start at 0.     *)
(***************************************************************************)
EXTENDS FiniteSetsExt, Integers

CONSTANTS WorldSize,  \* at least 1
          MaxItems    \* bound: the longest buffer

Ranks == 0 .. WorldSize - 1

VARIABLES
  rank_of,         \* the destination of every item; never changed
  send_buffer,
  send_displs,
  pc,              \* "rank": at the outer loop, "items": inside, "done"
  rank,
  rank_end,
  ordered_items

vars == <<rank_of, send_buffer, send_displs, pc, rank, rank_end, ordered_items>>

Items == DOMAIN rank_of
send_counts == [r \in Ranks |-> Cardinality({i \in Items : rank_of[i] = r})]

\* The slice of rank r begins after the items of the ranks before it.
Begin(r) == Cardinality({i \in Items : rank_of[i] < r})
End(r)   == Begin(r) + send_counts[r]

Init ==
  /\ rank_of \in UNION {[0 .. n - 1 -> Ranks] : n \in 0 .. MaxItems}
  /\ send_buffer = [p \in Items |-> p]
  /\ send_displs = [r \in Ranks |-> Begin(r)]
  /\ pc = "rank"
  /\ rank = 0
  /\ rank_end = 0
  /\ ordered_items = 0

\* Mutant of EnterRank: the end of the slice is computed from the cursor.
EnterRankFromCursor ==
  /\ pc = "rank" /\ rank < WorldSize
  /\ pc' = "items"
  /\ rank_end' = send_displs[rank] + send_counts[rank]
  /\ ordered_items' = send_displs[rank]
  /\ send_displs' = [send_displs EXCEPT ![rank] = ordered_items]
  /\ UNCHANGED <<rank_of, send_buffer, rank>>

EnterRank ==
  /\ pc = "rank" /\ rank < WorldSize
  /\ pc' = "items"
  /\ rank_end' = ordered_items + send_counts[rank]
  /\ ordered_items' = send_displs[rank]
  /\ send_displs' = [send_displs EXCEPT ![rank] = ordered_items]
  /\ UNCHANGED <<rank_of, send_buffer, rank>>

Here == send_buffer[ordered_items]
Target == rank_of[Here]

KeepItem ==
  /\ pc = "items" /\ ordered_items < rank_end
  /\ Target = rank
  /\ ordered_items' = ordered_items + 1
  /\ UNCHANGED <<rank_of, send_buffer, send_displs, pc, rank, rank_end>>

\* Mutant of SwapItem: the cursor of the target stays.
SwapItemAgain ==
  /\ pc = "items" /\ ordered_items < rank_end
  /\ Target # rank
  /\ LET there == send_displs[Target]
     IN  send_buffer' = [send_buffer EXCEPT ![there] = Here,
                                            ![ordered_items] = send_buffer[there]]
  /\ UNCHANGED <<rank_of, send_displs, pc, rank, rank_end, ordered_items>>

SwapItem ==
  /\ pc = "items" /\ ordered_items < rank_end
  /\ Target # rank
  /\ LET there == send_displs[Target]
     IN  /\ send_displs' = [send_displs EXCEPT ![Target] = @ + 1]
         /\ send_buffer' = [send_buffer EXCEPT ![there] = Here,
                                               ![ordered_items] = send_buffer[there]]
  /\ UNCHANGED <<rank_of, pc, rank, rank_end, ordered_items>>

LeaveRank ==
  /\ pc = "items" /\ ordered_items >= rank_end
  /\ pc' = IF rank + 1 = WorldSize THEN "done" ELSE "rank"
  /\ rank' = rank + 1
  /\ UNCHANGED <<rank_of, send_buffer, send_displs, rank_end, ordered_items>>

Returned == pc = "done" /\ UNCHANGED vars

Next == EnterRank \/ KeepItem \/ SwapItem \/ LeaveRank \/ Returned

Spec == Init /\ [][Next]_vars

\* The loop runs on.
FairSpec == Spec /\ WF_vars(Next)
-----------------------------------------------------------------------------
(* Properties                                                              *)

TypeOK ==
  /\ \E n \in 0 .. MaxItems : rank_of \in [0 .. n - 1 -> Ranks]
  /\ send_buffer \in [Items -> Items]
  /\ send_displs \in [Ranks -> 0 .. MaxItems]
  /\ pc \in {"rank", "items", "done"}
  /\ rank \in 0 .. WorldSize
  /\ rank_end \in 0 .. MaxItems
  /\ ordered_items \in 0 .. MaxItems

\* No item is lost or duplicated by the swaps: comm sends each exactly once.
NothingLost == \A p, q \in Items : send_buffer[p] = send_buffer[q] => p = q

(***************************************************************************)
(* A swap never touches a slice that is finished (the assertion in the     *)
(* loop) nor leaves the slice of its target: the cursor of a rank stays in *)
(* front of a place that an item of the rank is missing from.              *)
(***************************************************************************)
SwapsStayInSlice ==
  pc = "items" /\ ordered_items < rank_end =>
    /\ ordered_items \in Items
    /\ Target >= rank
    /\ Target > rank => send_displs[Target] \in Begin(Target) .. End(Target) - 1

\* alltoallv reads the slices where send_displs says they begin.
PartitionedAtEnd ==
  pc = "done" =>
    \A r \in Ranks : /\ send_displs[r] = Begin(r)
                     /\ \A p \in Begin(r) .. End(r) - 1 : rank_of[send_buffer[p]] = r

\* What the loop keeps to at every iteration, and has achieved in the end.
PartitionInv == TypeOK /\ NothingLost /\ SwapsStayInSlice /\ PartitionedAtEnd

\* The loop ends.
Terminates == <>(pc = "done")
=============================================================================
