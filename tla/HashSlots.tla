----------------------------- MODULE HashSlots -----------------------------
(***************************************************************************)
(* hash_set and hash_map (memory/hash_set.hpp, memory/hash_map.hpp): open  *)
(* addressing over cache lines.  A search begins with the line the hash    *)
(* selects, looks at all keys of a line at once, and goes on with the next *)
(* line, around the end of the table, until it meets the key or a null.    *)
(* There is no test for having come around: a search in a table without a  *)
(* null does not end.                                                      *)
(*                                                                         *)
(* A set has no values; here it is a map to one value.  A key taken out of *)
(* a set by try_invalidate leaves an invalid slot that no search stops at. *)
(***************************************************************************)
EXTENDS FiniteSetsExt, Integers

CONSTANTS Keys, Vals,
          Width,        \* keys per cache line
          TableSize,    \* the size the table was made for
          Hashes,       \* possible hash functions, [Keys -> Nat]
          Null,         \* static_cast<T>(-1)
          Invalid,      \* the second argument of try_invalidate
          None          \* neither a value nor a truth value

\* The least power of two that is not below x.
bit_ceil(x) == CHOOSE p \in {2^i : i \in 0 .. x} : p >= x /\ (p = 1 \/ p \div 2 < x)

ceildiv(d, x) == (x + d - 1) \div d

\* A line holds Width keys, and the table is made one and a half times as
\* large as asked for: 3 * sizeof(T) / 2 bytes per key.
cache_lines == bit_ceil(ceildiv(2 * Width, 3 * TableSize))

Slots == (0 .. cache_lines - 1) \X (0 .. Width - 1)

VARIABLES
  hash,       \* never changed
  keys, vals, \* per slot
  result      \* what the last call returned

slotVars == <<hash, keys, vals, result>>

SlotsInit ==
  /\ hash \in Hashes
  /\ keys = [s \in Slots |-> Null]
  /\ vals = [s \in Slots |-> None]
  /\ result = None
-----------------------------------------------------------------------------
(* The probe sequence                                                      *)

Line(key, j) == (hash[key] + j) % cache_lines

\* avx_cmpeq_keys: the slots of a line with a key of S.
Match(line, S) == {i \in 0 .. Width - 1 : keys[<<line, i>>] \in S}

\* How many lines a search goes on before it meets one of S.
Probes(key, S) == {j \in 0 .. cache_lines - 1 : Match(Line(key, j), S) # {}}

First(key, S) ==
  LET line == Line(key, Min(Probes(key, S)))
  IN  <<line, Min(Match(line, S))>>

\* find_key_or_null: in the line the search stops at, the key comes first.
find_key_or_null(key) ==
  LET line == Line(key, Min(Probes(key, {key, Null})))
  IN  IF Match(line, {key}) # {}
        THEN <<line, Min(Match(line, {key}))>>
        ELSE <<line, Min(Match(line, {Null}))>>

find_slot(key) == First(key, {key, Null})
find_key(key)  == First(key, {key})

Found(key) == keys[find_key_or_null(key)] = key

\* Slots that are no longer null, which count counts.
Used == {s \in Slots : keys[s] # Null}

\* What every caller keeps to: the table is made for all keys that are put
\* into it before it is cleared, the ones taken out again included.
MayWrite(slot) == keys[slot] # Null \/ Cardinality(Used) < TableSize

Write(slot, key, val) ==
  /\ MayWrite(slot)
  /\ keys' = [keys EXCEPT ![slot] = key]
  /\ vals' = [vals EXCEPT ![slot] = val]

Returns(x) == result' = x /\ UNCHANGED hash
-----------------------------------------------------------------------------
(* Calls of either container                                               *)

\* hash_set::insert, hash_map::insert_or_assign
insert_or_assign(key, val) == Write(find_slot(key), key, val) /\ Returns(None)

\* Mutant of try_insert: the next null, whether the key is there or not.
try_insertNull(key, val) ==
  /\ Write(First(key, {Null}), key, val)
  /\ Returns(~Found(key))

try_insert(key, val) ==
  /\ IF Found(key) THEN UNCHANGED <<keys, vals>>
     ELSE Write(find_key_or_null(key), key, val)
  /\ Returns(~Found(key))

get_or_insert(key, val) ==
  /\ IF Found(key) THEN UNCHANGED <<keys, vals>>
     ELSE Write(find_key_or_null(key), key, val)
  /\ Returns(IF Found(key) THEN vals[find_key_or_null(key)] ELSE val)

swap_or_insert(key, val) ==
  /\ Write(find_key_or_null(key), key, val)
  /\ Returns(IF Found(key) THEN vals[find_key_or_null(key)] ELSE None)

\* hash_map::assign, which is called for keys that are there only.
assign(key, val) ==
  /\ Found(key)
  /\ vals' = [vals EXCEPT ![find_key(key)] = val]
  /\ Returns(None)
  /\ UNCHANGED keys

\* get_default, get_optional and contains: no call but a search.
get_default(key, val) ==
  /\ Returns(IF Found(key) THEN vals[find_key_or_null(key)] ELSE val)
  /\ UNCHANGED <<keys, vals>>

\* Mutant of try_invalidate: the slot is made null again.
try_invalidateNull(key) ==
  /\ keys' = IF Found(key) THEN [keys EXCEPT ![find_key_or_null(key)] = Null] ELSE keys
  /\ Returns(Found(key))
  /\ UNCHANGED vals

try_invalidate(key) ==
  /\ keys' = IF Found(key) THEN [keys EXCEPT ![find_key_or_null(key)] = Invalid] ELSE keys
  /\ Returns(Found(key))
  /\ UNCHANGED vals

\* memset with 0xff: values become -1 as well.
clear ==
  /\ keys' = [s \in Slots |-> Null]
  /\ vals' = [s \in Slots |-> None]
  /\ Returns(None)

SlotsNext ==
  \/ \E k \in Keys, v \in Vals :
       \/ insert_or_assign(k, v) \/ assign(k, v) \/ try_insert(k, v)
       \/ get_or_insert(k, v) \/ swap_or_insert(k, v) \/ get_default(k, v)
  \/ \E k \in Keys : try_invalidate(k)
  \/ clear

SlotsSpec == SlotsInit /\ [][SlotsNext]_slotVars
-----------------------------------------------------------------------------
(* Properties                                                              *)

SlotsTypeOK ==
  /\ hash \in Hashes
  /\ keys \in [Slots -> Keys \cup {Null, Invalid}]
  /\ vals \in [Slots -> Vals \cup {None}]
  /\ result \in Vals \cup BOOLEAN \cup {None}

(***************************************************************************)
(* Every search ends, for a key that is there and for one that is not, as  *)
(* no number of calls fills the table: the assertion that a search has not *)
(* come around to its first line.                                          *)
(***************************************************************************)
SearchesEnd ==
  /\ Cardinality(Used) <= TableSize
  /\ \A k \in Keys : Probes(k, {k, Null}) # {}

(***************************************************************************)
(* A key is in one slot at most, and the search for it stops there and not *)
(* at a null before it, whatever has been taken out of the lines between.  *)
(***************************************************************************)
KeysAreFound ==
  \A s \in Slots : keys[s] \in Keys => find_key_or_null(keys[s]) = s

\* Looking for the key in a line before looking for a null, as with AVX, or
\* for whichever comes first, as without, is the same.
SameSlot == \A k \in Keys : find_key_or_null(k) = find_slot(k)

HashInv == SlotsTypeOK /\ SearchesEnd /\ KeysAreFound /\ SameSlot

\* The table behaves as a map, and every call returns what it would.
map ==
  [k \in {keys[s] : s \in Slots} \cap Keys |->
     vals[CHOOSE s \in Slots : keys[s] = k]]

Promised == INSTANCE KeyMap
ImplementsMap == Promised!Spec
=============================================================================
