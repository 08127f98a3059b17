----------------------------- MODULE IndexSets -----------------------------
(***************************************************************************)
(* What the bit arrays promise: sets of indices below a size, calls that   *)
(* change those below an end and no other, and a traversal that calls with *)
(* every index there was at its beginning, in ascending order, although    *)
(* the callee may take out the one it is called with.                      *)
(***************************************************************************)
EXTENDS FiniteSetsExt, Functions, Integers

CONSTANTS Names, None

VARIABLES size,     \* never changed
          sets,     \* per name
          visiting, \* the set traversed, or None
          rest,     \* what its traversal has still to visit
          answer    \* the last call, with what it returned

Init ==
  /\ sets \in [Names -> SUBSET (0 .. size - 1)]
  /\ visiting = None /\ rest = {} /\ answer = None

Idle == visiting = None /\ UNCHANGED <<size, visiting, rest>>

Becomes(a, S, x) == answer' = x /\ sets' = [sets EXCEPT ![a] = S]

Change ==
  /\ Idle
  /\ \E a \in Names :
       \/ \E end \in 0 .. size :
            \/ Becomes(a, sets[a] \ (0 .. end - 1), <<"clear", end>>)
            \/ Becomes(a, sets[a] \cup 0 .. end - 1, <<"fill", end>>)
            \/ \E S \in SUBSET (0 .. end - 1) :
                 Becomes(a, (sets[a] \ (0 .. end - 1)) \cup S, <<"set_each", end, S>>)
       \/ \E T \in {{}} \cup Range(sets) : Becomes(a, T, None)
       \/ \E i \in 0 .. size - 1 :
            \/ Becomes(a, sets[a], <<"get", i, i \in sets[a]>>)
            \/ \E f \in BOOLEAN :
                 LET S == IF f THEN sets[a] \cup {i} ELSE sets[a] \ {i}
                 IN  \/ Becomes(a, S, <<"set", i, f>>)
                     \/ Becomes(a, S, <<"get", i, i \in sets[a]>>)

Traverse ==
  /\ visiting = None
  /\ \E a \in Names, end \in 0 .. size :
       visiting' = a /\ rest' = sets[a] \cap 0 .. end - 1
  /\ answer' = None
  /\ UNCHANGED <<size, sets>>

Visit ==
  /\ rest # {}
  /\ answer' = <<"fn", Min(rest)>>
  /\ rest' = rest \ {Min(rest)}
  /\ \/ UNCHANGED sets
     \/ sets' = [sets EXCEPT ![visiting] = @ \ {Min(rest)}]
  /\ UNCHANGED <<size, visiting>>

Leave ==
  /\ visiting # None /\ rest = {}
  /\ visiting' = None /\ answer' = None
  /\ UNCHANGED <<size, sets, rest>>

Next == Change \/ Traverse \/ Visit \/ Leave

Spec == Init /\ [][Next]_<<size, sets, visiting, rest, answer>>
=============================================================================
