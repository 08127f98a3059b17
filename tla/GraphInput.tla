----------------------------- MODULE GraphInput -----------------------------
(***************************************************************************)
(* The ways by which the programs of KaSpan come by a graph: ranks that    *)
(* build it and gather copies of it (Construction), and files that a       *)
(* converter writes and a program reads (StoredGraph).  One of the two     *)
(* runs in a behaviour, and the other stays in an initial state.           *)
(***************************************************************************)
EXTENDS Construction

CONSTANTS Byte, Word, Lists, Readers, Runs

ASSUME GraphInputAssumption ==
  /\ Byte \in Nat \ {0, 1} /\ Word \in Nat \ {0} /\ Runs \in Nat
  /\ \A b \in Builds : /\ b.use = "sub" => b.wanted # {}
                       /\ b.source = "kagen" /\ b.ws = 1 => b.n > 0
  /\ \A l \in Lists : \A x \in DOMAIN l.edges : \A v \in {l.edges[x][1], l.edges[x][2]} :
       v < Byte ^ Word

VARIABLES
  running,                                    \* never changed
  files, manifest, runs, run, reader, load

storedVars == <<files, manifest, runs, run, reader, load>>

Stored == INSTANCE StoredGraph

InputInit ==
  /\ running \in {"build", "store"}
  /\ running = "build" \/ build = CHOOSE b \in Builds : TRUE
  /\ running = "store" \/ reader = CHOOSE d \in Readers : TRUE
  /\ Init /\ Stored!Init

BuildStep == running = "build" /\ Next
StoreStep == running = "store" /\ Stored!Next

InputNext ==
  /\ \/ BuildStep /\ UNCHANGED storedVars
     \/ StoreStep /\ UNCHANGED vars
  /\ UNCHANGED running

inputVars == <<running, vars, storedVars>>

\* A rank that is not in a collective, or in one that all ranks have come to, can
\* go on; so can a converter that runs, and a reader that has a manifest.
CanGoOn ==
  \/ running = "build" /\ \E r \in Ranks :
       at[r] \in {"start", "built"} \/ (at[r] # "done" /\ In(r, at[r]))
  \/ running = "store" /\ (run.at \notin Stored!Stopped \/ load.at = "mapping")

\* Weak fairness of all steps together, with ENABLED written out (for TLC) and a
\* change for a step.
InputSpec ==
  /\ InputInit /\ [][InputNext]_inputVars
  /\ []<> ~ CanGoOn \/ []<><<TRUE>>_inputVars
-----------------------------------------------------------------------------
(* Properties: StoredGraph's, and an end                                   *)

\* A stored graph is read back as it is, or not at all.
StoredInv == running = "store" => Stored!StoredInv

\* A part of a stored graph ends within the edges.
EndsWithinEdges == running = "store" => Stored!EndsWithinEdges

(***************************************************************************)
(* No rank waits for ever for a collective that another one never comes    *)
(* to, and the loops of converter and reader end.                          *)
(***************************************************************************)
InputEnds ==
  /\ running = "build" ~> \A r \in Ranks : at[r] = "done"
  /\ running = "store" /\ run.at \notin Stored!Stopped ~> run.at \in Stored!Stopped
  /\ load.at = "mapping" ~> load.at \in {"loaded", "aborted"}
=============================================================================
