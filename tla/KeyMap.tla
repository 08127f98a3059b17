------------------------------- MODULE KeyMap -------------------------------
(***************************************************************************)
(* What hash_set and hash_map promise: a finite map from keys to values    *)
(* (a set is the map to one value) and what each call returns.             *)
(***************************************************************************)
CONSTANTS Keys, Vals, None

VARIABLES map,      \* a function from the keys held to their values
          result    \* of the last call, None when it returns nothing

With(k, v)  == [x \in DOMAIN map \cup {k} |-> IF x = k THEN v ELSE map[x]]
Without(k)  == [x \in DOMAIN map \ {k} |-> map[x]]
Held(k)     == k \in DOMAIN map
Got(k, d)   == IF Held(k) THEN map[k] ELSE d

Init == map = [k \in {} |-> None] /\ result = None

InsertOrAssign(k, v) == map' = With(k, v) /\ result' = None
Assign(k, v)         == Held(k) /\ map' = With(k, v) /\ result' = None
TryInsert(k, v)      == /\ map' = (IF Held(k) THEN map ELSE With(k, v))
                        /\ result' = ~Held(k)
GetOrInsert(k, v)    == /\ map' = (IF Held(k) THEN map ELSE With(k, v))
                        /\ result' = Got(k, v)
SwapOrInsert(k, v)   == map' = With(k, v) /\ result' = Got(k, None)
GetDefault(k, d)     == map' = map /\ result' = Got(k, d)
TryInvalidate(k)     == map' = Without(k) /\ result' = Held(k)
Clear                == map' = [k \in {} |-> None] /\ result' = None

Next ==
  \/ \E k \in Keys, v \in Vals :
       \/ InsertOrAssign(k, v) \/ Assign(k, v) \/ TryInsert(k, v)
       \/ GetOrInsert(k, v) \/ SwapOrInsert(k, v) \/ GetDefault(k, v)
  \/ \E k \in Keys : TryInvalidate(k)
  \/ Clear

Spec == Init /\ [][Next]_<<map, result>>
=============================================================================
