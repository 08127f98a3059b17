------------------------------ MODULE BspRounds ------------------------------
(***************************************************************************)
(* The abstract specification of a frontier: bulk-synchronous rounds.      *)
(*                                                                         *)
(* A rank works on what it has received, which may make it push messages,  *)
(* and then waits.  When all ranks wait, either the pushed messages change *)
(* hands at one stroke and a new round begins, or, when there are none,    *)
(* all ranks begin the next phase.  The searches are modelled on top of    *)
(* these steps.                                                            *)
(***************************************************************************)
EXTENDS Integers

CONSTANTS Ranks,
          Msgs,      \* the messages that may be pushed, each once
          Dest       \* part.world_rank_of the vertex a message is for

VARIABLES waiting,   \* the ranks that have called comm
          outbox,    \* messages pushed and not yet exchanged
          inbox,     \* messages their destination has not yet consumed
          consumed,
          phase      \* how many phases have ended

roundVars == <<waiting, outbox, inbox, consumed, phase>>

Unused == Msgs \ (outbox \cup inbox \cup consumed)

Init ==
  /\ waiting = {} /\ outbox = {} /\ inbox = {} /\ consumed = {} /\ phase = 0

Push(r, m) ==
  /\ r \notin waiting /\ m \in Unused
  /\ outbox' = outbox \cup {m}
  /\ UNCHANGED <<waiting, inbox, consumed, phase>>

Keep(r, m) ==
  /\ r \notin waiting /\ m \in Unused /\ Dest[m] = r
  /\ inbox' = inbox \cup {m}
  /\ UNCHANGED <<waiting, outbox, consumed, phase>>

Consume(m) ==
  /\ m \in inbox /\ Dest[m] \notin waiting
  /\ inbox' = inbox \ {m}
  /\ consumed' = consumed \cup {m}
  /\ UNCHANGED <<waiting, outbox, phase>>

Wait(r) ==
  /\ \A m \in inbox : Dest[m] # r
  /\ waiting' = waiting \cup {r}
  /\ UNCHANGED <<outbox, inbox, consumed, phase>>

\* The last rank to wait lets all of them go on.
Exchange(r) ==
  /\ inbox = {} /\ outbox # {}
  /\ Ranks \ waiting \subseteq {r}
  /\ inbox' = outbox /\ outbox' = {} /\ waiting' = {}
  /\ UNCHANGED <<consumed, phase>>

NextPhase(r) ==
  /\ inbox = {} /\ outbox = {}
  /\ Ranks \ waiting \subseteq {r}
  /\ phase' = phase + 1 /\ waiting' = {}
  /\ UNCHANGED <<outbox, inbox, consumed>>

Next ==
  \/ \E r \in Ranks, m \in Msgs : Push(r, m) \/ Keep(r, m)
  \/ \E m \in Msgs : Consume(m)
  \/ \E r \in Ranks : Wait(r) \/ Exchange(r) \/ NextPhase(r)

Spec == Init /\ [][Next]_roundVars
=============================================================================
