------------------------------ MODULE Frontier ------------------------------
(***************************************************************************)
(* scc/frontier.hpp: the message buffers every search exchanges vertices   *)
(* and labelled edges with, and comm, the exchange, as the sequence of MPI *)
(* collectives each rank goes through on its own.                          *)
(*                                                                         *)
(* MPI matches collectives by their order on the communicator: the i-th    *)
(* call of one rank belongs with the i-th call of every other.  posted     *)
(* keeps what each rank passed to each call; a call returns once all ranks *)
(* have made theirs, so a rank may be pushing messages of the next round   *)
(* while another has still to leave the present one.                       *)
(*                                                                         *)
(* A message is an opaque value with a destination and is pushed once.     *)
(* inplace_partition_by_rank is represented by its result, the messages    *)
(* grouped by destination, in any order within their groups; how it gets   *)
(* there is PartitionByRank.                                               *)
(***************************************************************************)
EXTENDS FiniteSets, Integers, SequencesExt

CONSTANTS WorldSize, Msgs, Dest, MaxPhases

Ranks == 0 .. WorldSize - 1

ASSUME FrontierAssumption ==
  /\ WorldSize \in Nat \ {0}
  /\ Dest \in [Msgs -> Ranks]
  /\ MaxPhases \in Nat \ {0}

VARIABLES
  pc,            \* "work", inside comm: "reduce", "counts", "data"; "returned"
  phase,         \* how often comm has returned false to the rank
  posted,        \* the arguments of the rank's collective calls so far
  send_buffer,
  send_counts,
  recv_buffer,
  recv_counts,
  consumed,      \* messages the rank has taken with next
  pushed_in      \* the phase a message was pushed in, -1 before that

vars == <<pc, phase, posted, send_buffer, send_counts, recv_buffer,
          recv_counts, consumed, pushed_in>>

Zero == [q \in Ranks |-> 0]

Init ==
  /\ pc = [r \in Ranks |-> "work"]
  /\ phase = Zero
  /\ posted = [r \in Ranks |-> <<>>]
  /\ send_buffer = [r \in Ranks |-> <<>>]
  /\ send_counts = [r \in Ranks |-> Zero]
  /\ recv_buffer = [r \in Ranks |-> <<>>]
  /\ recv_counts = [r \in Ranks |-> Zero]
  /\ consumed = [r \in Ranks |-> {}]
  /\ pushed_in = [m \in Msgs |-> -1]
-----------------------------------------------------------------------------
(* What a rank does between two calls of comm                              *)

push(r, m) ==
  /\ pc[r] = "work" /\ pushed_in[m] = -1
  /\ send_buffer' = [send_buffer EXCEPT ![r] = Append(@, m)]
  /\ send_counts' = [send_counts EXCEPT ![r][Dest[m]] = @ + 1]
  /\ pushed_in' = [pushed_in EXCEPT ![m] = phase[r]]
  /\ UNCHANGED <<pc, phase, posted, recv_buffer, recv_counts, consumed>>

\* relaxed_push of a message for the rank itself.
local_push(r, m) ==
  /\ pc[r] = "work" /\ pushed_in[m] = -1
  /\ Dest[m] = r
  /\ recv_buffer' = [recv_buffer EXCEPT ![r] = Append(@, m)]
  /\ pushed_in' = [pushed_in EXCEPT ![m] = phase[r]]
  /\ UNCHANGED <<pc, phase, posted, send_buffer, send_counts, recv_counts, consumed>>

\* Mutant of next: the message stays in the buffer.
nextKeeping(r) ==
  /\ pc[r] = "work" /\ recv_buffer[r] # <<>>
  /\ consumed' = [consumed EXCEPT ![r] = @ \cup {Last(recv_buffer[r])}]
  /\ UNCHANGED <<pc, phase, posted, send_buffer, send_counts, recv_buffer,
                 recv_counts, pushed_in>>

next(r) ==
  /\ pc[r] = "work" /\ recv_buffer[r] # <<>>
  /\ consumed' = [consumed EXCEPT ![r] = @ \cup {Last(recv_buffer[r])}]
  /\ recv_buffer' = [recv_buffer EXCEPT ![r] = Front(@)]
  /\ UNCHANGED <<pc, phase, posted, send_buffer, send_counts, recv_counts, pushed_in>>
-----------------------------------------------------------------------------
(* comm                                                                    *)

\* The exclusive prefix sums; behind the last rank, the total that displs returns.
displs(counts) ==
  LET before[q \in 0 .. WorldSize] == IF q = 0 THEN 0 ELSE before[q - 1] + counts[q - 1]
  IN  before

Summed(counts) == displs(counts)[WorldSize]

\* inplace_partition_by_rank: what it may make of a buffer.
Groupings(s) ==
  {t \in [DOMAIN s -> Range(s)] :
     /\ \E p \in Bijection(DOMAIN s, DOMAIN s) : t = [i \in DOMAIN s |-> s[p[i]]]
     /\ \A i, j \in DOMAIN s : i < j => Dest[t[i]] <= Dest[t[j]]}

Call(op, arg) == [op |-> op, arg |-> arg]

\* Every rank has made the call that r waits for; what q passed to it.
Matched(r) == \A q \in Ranks : Len(posted[q]) >= Len(posted[r])
Arg(r, q)  == posted[q][Len(posted[r])].arg

\* Mutant of Total: the rank tests its own count, not the sum of all.
TotalLocal(r) == Arg(r, r)

Total(r) == Summed([q \in Ranks |-> Arg(r, q)])

\* The loops around comm consume everything first.
comm(r) ==
  /\ pc[r] = "work" /\ recv_buffer[r] = <<>>
  /\ pc' = [pc EXCEPT ![r] = "reduce"]
  /\ posted' = [posted EXCEPT ![r] =
       Append(@, Call("allreduce", Summed(send_counts[r])))]
  /\ UNCHANGED <<phase, send_buffer, send_counts, recv_buffer, recv_counts,
                 consumed, pushed_in>>

\* The sum is zero: comm returns false and the caller begins its next phase.
commFalse(r) ==
  /\ pc[r] = "reduce" /\ Matched(r) /\ Total(r) = 0
  /\ phase' = [phase EXCEPT ![r] = @ + 1]
  /\ pc' = [pc EXCEPT ![r] = IF phase[r] + 1 = MaxPhases THEN "returned" ELSE "work"]
  /\ UNCHANGED <<posted, send_buffer, send_counts, recv_buffer, recv_counts,
                 consumed, pushed_in>>

commCounts(r) ==
  /\ pc[r] = "reduce" /\ Matched(r) /\ Total(r) # 0
  /\ pc' = [pc EXCEPT ![r] = "counts"]
  /\ posted' = [posted EXCEPT ![r] = Append(@, Call("alltoall", send_counts[r]))]
  /\ UNCHANGED <<phase, send_buffer, send_counts, recv_buffer, recv_counts,
                 consumed, pushed_in>>

\* The slice of the partitioned buffer that send_displs and send_counts give q.
Slice(s, counts, q) ==
  [k \in 1 .. counts[q] |-> s[displs(counts)[q] + k]]

commData(r) ==
  /\ pc[r] = "counts" /\ Matched(r)
  /\ recv_counts' = [recv_counts EXCEPT ![r] = [q \in Ranks |-> Arg(r, q)[r]]]
  /\ \E s \in Groupings(send_buffer[r]) :
       /\ send_buffer' = [send_buffer EXCEPT ![r] = s]
       /\ posted' = [posted EXCEPT ![r] =
            Append(@, Call("alltoallv", [q \in Ranks |-> Slice(s, send_counts[r], q)]))]
  /\ pc' = [pc EXCEPT ![r] = "data"]
  /\ UNCHANGED <<phase, send_counts, recv_buffer, consumed, pushed_in>>

\* What r finds in its buffer if it has room for counts[q] messages from q.
Gathered(r, counts) ==
  LET recv_displs == displs(counts)
      From(x)     == CHOOSE q \in Ranks : recv_displs[q] < x /\ x <= recv_displs[q + 1]
  IN  [x \in 1 .. recv_displs[WorldSize] |-> Arg(r, From(x))[r][x - recv_displs[From(x)]]]

\* Mutant of Received: the rank's own slice is not copied.
ReceivedRemote(r) == Gathered(r, [recv_counts[r] EXCEPT ![r] = 0])

\* What alltoallv appends, in the order of recv_displs.
Received(r) == Gathered(r, recv_counts[r])

commTrue(r) ==
  /\ pc[r] = "data" /\ Matched(r)
  /\ recv_buffer' = [recv_buffer EXCEPT ![r] = @ \o Received(r)]
  /\ send_buffer' = [send_buffer EXCEPT ![r] = <<>>]
  /\ send_counts' = [send_counts EXCEPT ![r] = Zero]
  /\ pc' = [pc EXCEPT ![r] = "work"]
  /\ UNCHANGED <<phase, posted, recv_counts, consumed, pushed_in>>

AllReturned == (\A r \in Ranks : pc[r] = "returned") /\ UNCHANGED vars

Next ==
  \/ \E r \in Ranks, m \in Msgs : push(r, m) \/ local_push(r, m)
  \/ \E r \in Ranks : \/ next(r) \/ comm(r) \/ commFalse(r)
                      \/ commCounts(r) \/ commData(r) \/ commTrue(r)
  \/ AllReturned

Spec == Init /\ [][Next]_vars

\* Every rank keeps running: MPI completes a collective all ranks are in.
FairSpec == Spec /\ WF_vars(Next)
-----------------------------------------------------------------------------
(* Properties                                                              *)

TypeOK ==
  /\ pc \in [Ranks -> {"work", "reduce", "counts", "data", "returned"}]
  /\ phase \in [Ranks -> 0 .. MaxPhases]
  /\ \A r \in Ranks :
       /\ \A i \in DOMAIN posted[r] : posted[r][i].op \in {"allreduce", "alltoall", "alltoallv"}
       /\ send_buffer[r] \in Seq(Msgs)
       /\ recv_buffer[r] \in Seq(Msgs)
  /\ send_counts \in [Ranks -> [Ranks -> Nat]]
  /\ recv_counts \in [Ranks -> [Ranks -> Nat]]
  /\ consumed \in [Ranks -> SUBSET Msgs]
  /\ pushed_in \in [Msgs -> {-1} \cup (0 .. MaxPhases - 1)]

\* The alltoallv the rank is in, once all ranks have joined it, has its
\* messages; until it returns, the send buffer still holds them too.
Delivered(r) == pc[r] = "data" /\ Matched(r)

InTransit(r) == IF Delivered(r) THEN Received(r) ELSE <<>>
ToSend(r)    == IF Delivered(r) THEN <<>> ELSE send_buffer[r]

Where(s, m) == {i \in DOMAIN s : s[i] = m}

\* The places a message is in.
Places(m) ==
  UNION {({"sent"} \X {r} \X Where(ToSend(r), m))
         \cup ({"transit"} \X {r} \X Where(InTransit(r), m))
         \cup ({"received"} \X {r} \X Where(recv_buffer[r], m))
         \cup ({"consumed"} \X {r} \X ({m} \cap consumed[r])) : r \in Ranks}

(***************************************************************************)
(* A pushed message is in exactly one place until its destination has      *)
(* consumed it: no round loses one, delivers one twice, or delivers one to *)
(* another rank, although ranks leave the collectives at different times   *)
(* and the buffers are partitioned in place and reused.                    *)
(***************************************************************************)
ExactlyOnePlace ==
  \A m \in Msgs :
    /\ pushed_in[m] = -1 => Places(m) = {}
    /\ pushed_in[m] # -1 => \E p \in Places(m) : Places(m) = {p}
    /\ \A r \in Ranks : m \in consumed[r] \cup Range(recv_buffer[r]) => Dest[m] = r

(***************************************************************************)
(* comm asserts that the counters and the buffer agree; alltoallv relies   *)
(* on both sides having the same count for every pair of ranks, each time. *)
(***************************************************************************)
CountsAgree ==
  \A r \in Ranks :
    /\ \A q \in Ranks :
         send_counts[r][q] = Cardinality({i \in DOMAIN send_buffer[r] :
                                            Dest[send_buffer[r][i]] = q})
    /\ Delivered(r) => \A q \in Ranks : recv_counts[r][q] = Len(Arg(r, q)[r])

(***************************************************************************)
(* No two ranks are ever in different collectives: were one to leave its   *)
(* loop a round before another, the program would deadlock or mix a vote   *)
(* to stop with an exchange.                                               *)
(***************************************************************************)
CollectivesMatch ==
  \A r, q \in Ranks : \A i \in DOMAIN posted[r] \cap DOMAIN posted[q] :
    posted[r][i].op = posted[q][i].op

(***************************************************************************)
(* A message is received in the phase it was pushed in.  The searches      *)
(* depend on it: the same frontier carries forward messages and then       *)
(* backward ones, with different handlers.                                 *)
(***************************************************************************)
PhasesSeparate ==
  \A r \in Ranks : \A m \in Range(recv_buffer[r]) : pushed_in[m] = phase[r]

\* What the buffers and the collectives of all ranks keep to at every moment.
FrontierInv == TypeOK /\ ExactlyOnePlace /\ CountsAgree /\ CollectivesMatch /\ PhasesSeparate

(***************************************************************************)
(* comm implements the atomic exchange of BspRounds.  The exchange happens *)
(* when the last rank joins alltoallv, the end of a phase when the last    *)
(* rank votes; ranks that have still to leave the call already work.       *)
(***************************************************************************)
Stopped(r) == pc[r] = "reduce" /\ Matched(r) /\ Total(r) = 0

Rounds == INSTANCE BspRounds WITH
  waiting  <- {r \in Ranks : /\ pc[r] \in {"reduce", "counts", "data"}
                             /\ ~Delivered(r) /\ ~Stopped(r)},
  outbox   <- UNION {Range(ToSend(r)) : r \in Ranks},
  inbox    <- UNION {Range(InTransit(r) \o recv_buffer[r]) : r \in Ranks},
  consumed <- UNION {consumed[r] : r \in Ranks},
  phase    <- phase[0] + IF Stopped(0) THEN 1 ELSE 0

ImplementsRounds == Rounds!Spec

\* Every phase ends on every rank.
AllPhasesEnd == <>(\A r \in Ranks : pc[r] = "returned")
=============================================================================
