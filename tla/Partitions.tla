----------------------------- MODULE Partitions -----------------------------
(***************************************************************************)
(* The partitions of the vertices 0 .. n - 1 over ws ranks (graph/         *)
(* *_part.hpp).  Every class exists as an owner, which its rank makes for  *)
(* itself, and as a view, which any rank can make for any rank (world_     *)
(* part_of).  Both are a record of what a rank r can ask: the vertices it  *)
(* has, and the rank and the local number of a vertex.  The arithmetic is  *)
(* that of vertex_t, which is unsigned.                                    *)
(*                                                                         *)
(* The mappings are given as functions over the vertices (the local        *)
(* vertices for to_global), so asking one about anything else is an error. *)
(***************************************************************************)
EXTENDS Integers

CONSTANT Size       \* the number of values of vertex_t

ASSUME SizeAssumption == Size \in Nat \ {0}

Wrap(x) == x % Size

\* What the continuous partitions have in common.
Slice(n, begin, end, world_rank_of) ==
  LET local_n == Wrap(end - begin)
  IN  [n             |-> n,
       local_n       |-> local_n,
       begin         |-> begin,
       end           |-> end,
       to_local      |-> [i \in 0 .. n - 1 |-> Wrap(i - begin)],
       to_global     |-> [k \in 0 .. local_n - 1 |-> Wrap(k + begin)],
       has_local     |-> [i \in 0 .. n - 1 |-> i >= begin /\ i < end],
       world_rank_of |-> world_rank_of]

\* The first n % ws ranks have one vertex more.
balanced_slice_part_view(n, ws, r) ==
  LET base  == n \div ws
      rem   == n % ws
      split == rem * (base + 1)
      begin == IF r < rem THEN r * (base + 1) ELSE split + (r - rem) * base
      end   == begin + (IF r < rem THEN base + 1 ELSE base)
  IN  Slice(n, begin, end,
            [j \in 0 .. n - 1 |-> IF j < split THEN j \div (base + 1)
                                               ELSE rem + (j - split) \div base])

balanced_slice_part(n, ws, r) == balanced_slice_part_view(n, ws, r)

\* Mutant of trivial_slice_part_view: no clamp, the remainder has no owner.
trivial_slice_part_viewUnclamped(n, ws, r) ==
  LET base  == n \div ws
      begin == r * base
      end   == IF r + 1 = ws THEN n ELSE begin + base
  IN  Slice(n, begin, end,
            [i \in 0 .. n - 1 |-> IF base = 0 THEN ws - 1 ELSE i \div base])

\* The last rank has the remainder as well.
trivial_slice_part_view(n, ws, r) ==
  LET base  == n \div ws
      begin == r * base
      end   == IF r + 1 = ws THEN n ELSE begin + base
  IN  Slice(n, begin, end,
            [i \in 0 .. n - 1 |-> IF base = 0 \/ i \div base >= ws THEN ws - 1
                                                                   ELSE i \div base])

trivial_slice_part(n, ws, r) == trivial_slice_part_view(n, ws, r)

\* part[2r] .. part[2r + 1] - 1 are the vertices of rank r, in no set order.
explicit_continuous_part_view(n, ws, r, part) ==
  Slice(n, part[2 * r], part[2 * r + 1],
        [j \in 0 .. n - 1 |->
           LET owners == {q \in 0 .. ws - 1 : part[2 * q] <= j /\ j < part[2 * q + 1]}
           IN  IF owners = {} THEN -1
               ELSE CHOOSE q \in owners : \A p \in owners : q <= p])

\* The ranks exchange their ends (all of them hold the same array).
explicit_continuous_part(n, ws, r, b, e) ==
  LET part == [x \in 0 .. 2 * ws - 1 |-> IF x % 2 = 0 THEN b[x \div 2] ELSE e[x \div 2]]
  IN  explicit_continuous_part_view(n, ws, r, part)

(***************************************************************************)
(* part[r] is where the vertices of rank r end and those of r + 1 begin.   *)
(* world_rank_of searches for the owner step by step: module SortedOwner   *)
(* has the loops, and the proof that they find the rank named here.        *)
(***************************************************************************)
explicit_sorted_part_view(n, ws, r, part) ==
  LET begin(q) == IF q = 0 THEN 0 ELSE part[q - 1]
  IN  Slice(n, begin(r), part[r],
            [j \in 0 .. n - 1 |-> CHOOSE q \in 0 .. ws - 1 : begin(q) <= j /\ j < part[q]])

explicit_sorted_part(n, ws, r, e) ==
  explicit_sorted_part_view(n, ws, r, [q \in 0 .. ws - 1 |-> e[q]])

\* Every rank has every vertex, and takes itself for the only one.
single_part_view(n) == Slice(n, 0, n, [i \in 0 .. n - 1 |-> 0])

single_part(n) == single_part_view(n)

\* Vertex i is on rank i % ws.
cyclic_part_view(n, ws, r) ==
  LET local_n == IF ws = 1 THEN n ELSE IF r >= n THEN 0 ELSE Wrap(n - r + ws - 1) \div ws
  IN  [n             |-> n,
       local_n       |-> local_n,
       to_local      |-> [j \in 0 .. n - 1 |-> Wrap(j - r) \div ws],
       to_global     |-> [l \in 0 .. local_n - 1 |-> Wrap(r + l * ws)],
       has_local     |-> [j \in 0 .. n - 1 |-> j % ws = r],
       world_rank_of |-> [j \in 0 .. n - 1 |-> j % ws]]

cyclic_part(n, ws, r) == cyclic_part_view(n, ws, r)

\* How many vertices the blocks r, r + ws, ... have: only the last may be short.
BlockCyclicLocalN(n, ws, r, b) ==
  LET num_blocks       == Wrap(n + b - 1) \div b
      owned_blocks     == Wrap(num_blocks - r + ws - 1) \div ws
      last_owned_block == r + (owned_blocks - 1) * ws
      last_block_size  == IF last_owned_block = num_blocks - 1
                          THEN n - last_owned_block * b ELSE b
  IN  CASE ws = 1                       -> n
        [] ws # 1 /\ num_blocks <= r    -> 0
        [] ws # 1 /\ num_blocks > r     -> (owned_blocks - 1) * b + last_block_size

\* Blocks of b vertices are dealt out to the ranks in turn.
block_cyclic_part_view(n, ws, r, b) ==
  LET local_n == BlockCyclicLocalN(n, ws, r, b)
  IN  [n             |-> n,
       local_n       |-> local_n,
       to_local      |-> [j \in 0 .. n - 1 |-> IF ws = 1 THEN j
                                               ELSE (j \div Wrap(b * ws)) * b + (j % b)],
       to_global     |-> [l \in 0 .. local_n - 1 |->
                            IF ws = 1 THEN l
                            ELSE Wrap((l \div b) * Wrap(b * ws) + r * b + (l % b))],
       has_local     |-> [j \in 0 .. n - 1 |-> (j \div b) % ws = r],
       world_rank_of |-> [j \in 0 .. n - 1 |-> (j \div b) % ws]]

block_cyclic_part(n, ws, r, b) == block_cyclic_part_view(n, ws, r, b)
-----------------------------------------------------------------------------
(* Properties                                                              *)

(***************************************************************************)
(* What the algorithms take for granted of the parts of all ranks          *)
(* together (test_mpi/test_part.cpp): every vertex is on exactly one *)
(* rank, the one that every rank sends its messages to, and its number     *)
(* there is a place of that rank's arrays that leads back to the vertex;   *)
(* local order is the order of the vertices.                               *)
(***************************************************************************)
PartsAgree(parts) ==
  \A r \in DOMAIN parts :
    LET p == parts[r]
    IN  /\ \A i \in 0 .. p.n - 1 :
             /\ p.has_local[i] <=> p.world_rank_of[i] = r
             /\ \A q \in DOMAIN parts : parts[q].world_rank_of[i] = p.world_rank_of[i]
             /\ p.has_local[i] => /\ p.to_local[i] \in 0 .. p.local_n - 1
                                  /\ p.to_global[p.to_local[i]] = i
        /\ \A k \in 0 .. p.local_n - 1 : /\ p.to_global[k] \in 0 .. p.n - 1
                                         /\ p.has_local[p.to_global[k]]
                                         /\ k > 0 => p.to_global[k - 1] < p.to_global[k]
=============================================================================
