------------------------------ MODULE BitWords ------------------------------
(***************************************************************************)
(* Arrays of bits (memory/bits_ops.hpp), as their owner bits and their     *)
(* view bits_accessor use them: words of WordBits bits, of which the last  *)
(* one may have more bits than the array has elements.  Nothing clears     *)
(* these, and some calls change them, as memory is allocated and copied by *)
(* words.  A word is the set of its bits that are 1.                       *)
(***************************************************************************)
EXTENDS FiniteSetsExt, Integers

CONSTANTS WordBits, Sizes, None

VARIABLES
  size,     \* never changed
  words,    \* per array
  visit,    \* the traversal: of which array, up to which end, where it is
  answer    \* the last call, with what it returned

vars == <<size, words, visit, answer>>

Arrays == {"is_undecided", "in_active"}
Bits   == 0 .. WordBits - 1
All    == 0 .. size - 1

\* ceildiv<64>
Count(n) == (n + WordBits - 1) \div WordBits

NoVisit == [of |-> None]
-----------------------------------------------------------------------------
(* bits_ops: masks on words                                                *)

\* (1 << rem) - 1
Mask(rem) == 0 .. rem - 1

\* The bits of word w that are below end: all, none or those of the mask.
Below(w, end) ==
  IF w < end \div WordBits THEN Bits
  ELSE IF w = end \div WordBits THEN Mask(end % WordBits) ELSE {}

clear(data, end) == [w \in DOMAIN data |-> data[w] \ Below(w, end)]
fill(data, end)  == [w \in DOMAIN data |-> data[w] \cup Below(w, end)]

get(data, i) == i % WordBits \in data[i \div WordBits]

set(data, i)   == [data EXCEPT ![i \div WordBits] = @ \cup {i % WordBits}]
unset(data, i) == [data EXCEPT ![i \div WordBits] = @ \ {i % WordBits}]
set_to(data, i, f) == IF f THEN set(data, i) ELSE unset(data, i)

\* Mutant of set_each: the last word is replaced, like the others.
set_eachWhole(data, end, S) ==
  [w \in DOMAIN data |->
     IF Below(w, end) = {} THEN data[w]
     ELSE {b \in Below(w, end) : w * WordBits + b \in S}]

\* fn returns true for the indices in S.
set_each(data, end, S) ==
  [w \in DOMAIN data |->
     (data[w] \ Below(w, end)) \cup {b \in Below(w, end) : w * WordBits + b \in S}]
-----------------------------------------------------------------------------
(* Calls                                                                   *)

Init ==
  /\ size \in Sizes
  /\ words \in [Arrays -> [0 .. Count(size) - 1 -> SUBSET Bits]]
  /\ visit = NoVisit
  /\ answer = None

Becomes(a, data, x) ==
  /\ visit = NoVisit
  /\ words' = [words EXCEPT ![a] = data]
  /\ answer' = x
  /\ UNCHANGED <<size, visit>>

Clear(a, end)      == Becomes(a, clear(words[a], end), <<"clear", end>>)
Fill(a, end)       == Becomes(a, fill(words[a], end), <<"fill", end>>)
SetEach(a, end, S) == Becomes(a, set_each(words[a], end, S), <<"set_each", end, S>>)

Got(a, i)       == <<"get", i, get(words[a], i)>>
Get(a, i)       == Becomes(a, words[a], Got(a, i))
Set(a, i)       == Becomes(a, set(words[a], i), <<"set", i, TRUE>>)
SetTo(a, i, f)  == Becomes(a, set_to(words[a], i, f), <<"set", i, f>>)
Unset(a, i)     == Becomes(a, unset(words[a], i), <<"set", i, FALSE>>)
GetSet(a, i, f) == Becomes(a, set_to(words[a], i, f), Got(a, i))

\* memset and memcpy of the words by the label searches.
Zero(a)    == Becomes(a, [w \in DOMAIN words[a] |-> {}], None)
Copy(a, b) == Becomes(a, words[b], None)

\* A traversal reads a word once, before it calls fn for its bits.
Load(a, end, w) ==
  [of |-> a, end |-> end, w |-> w,
   word |-> IF w < Count(end) THEN words[a][w] \cap Below(w, end) ELSE {}]

Each(a, end) ==
  /\ visit = NoVisit
  /\ visit' = Load(a, end, 0)
  /\ answer' = None
  /\ UNCHANGED <<size, words>>

\* fn may unset the index it is called with (a trim, a decision) and no other.
CallFn ==
  /\ visit # NoVisit /\ visit.word # {}
  /\ LET b == Min(visit.word)
         i == visit.w * WordBits + b
     IN  /\ answer' = <<"fn", i>>
         /\ visit' = [visit EXCEPT !.word = @ \ {b}]
         /\ \/ UNCHANGED words
            \/ words' = [words EXCEPT ![visit.of] = unset(@, i)]
  /\ UNCHANGED size

NextWord ==
  /\ visit # NoVisit /\ visit.word = {} /\ visit.w + 1 < Count(visit.end)
  /\ visit' = Load(visit.of, visit.end, visit.w + 1)
  /\ UNCHANGED <<size, words, answer>>

EachEnd ==
  /\ visit # NoVisit /\ visit.word = {} /\ visit.w + 1 >= Count(visit.end)
  /\ visit' = NoVisit
  /\ answer' = None
  /\ UNCHANGED <<size, words>>

Next ==
  \/ \E a \in Arrays, end \in 0 .. size :
       \/ Clear(a, end) \/ Fill(a, end) \/ Each(a, end)
       \/ \E S \in SUBSET (0 .. end - 1) : SetEach(a, end, S)
  \/ \E a \in Arrays, i \in All :
       \/ Get(a, i) \/ Set(a, i) \/ Unset(a, i)
       \/ \E f \in BOOLEAN : SetTo(a, i, f) \/ GetSet(a, i, f)
  \/ \E a, b \in Arrays : Zero(a) \/ Copy(a, b)
  \/ CallFn \/ NextWord \/ EachEnd
-----------------------------------------------------------------------------
(* Properties                                                              *)

\* The indices a traversal has still to call fn with.
ToVisit ==
  IF visit = NoVisit THEN {}
  ELSE {i \in 0 .. visit.end - 1 :
          \/ i \div WordBits = visit.w /\ i % WordBits \in visit.word
          \/ i \div WordBits > visit.w /\ get(words[visit.of], i)}

Sets == INSTANCE IndexSets WITH
  Names    <- Arrays,
  sets     <- [a \in Arrays |-> {i \in All : get(words[a], i)}],
  visiting <- visit.of,
  rest     <- ToVisit

(***************************************************************************)
(* Whatever the bits beyond the size are, and wherever an end lies in a    *)
(* word, the arrays are sets of indices: a call changes what is below its  *)
(* end and nothing else, and a traversal calls fn once with each index,    *)
(* never with one beyond the end or one that has been taken out of a word  *)
(* it has not yet read.                                                    *)
(***************************************************************************)
ImplementsSets == Sets!Spec
=============================================================================
