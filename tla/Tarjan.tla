------------------------------- MODULE Tarjan -------------------------------
(***************************************************************************)
(* tarjan (scc/tarjan.hpp): the strongly connected components of the local *)
(* part of a graph, by an iterative depth-first search.  It decides what   *)
(* the distributed stages leave over, and is what the tests compare them   *)
(* with.  Both stacks are made for the vertices not yet decided and are    *)
(* not checked for space.                                                  *)
(*                                                                         *)
(* Stacks are sequences whose last element is their top; a frame is        *)
(* <<local_u, it>>, with `it` counted from 1 in the neighbours of local_u. *)
(***************************************************************************)
EXTENDS FiniteSets, Integers, SequencesExt

CONSTANT Inputs     \* [n: local_n, csr_range: [0 .. n-1 -> Seq(Nat)], filter: SUBSET 0 .. n-1]

VARIABLES input,        \* never changed; vertices from n on are not local
          local_root,
          index, low, on_stack,
          st, dfs,
          components    \* what callback was given

vars == <<input, local_root, index, low, on_stack, st, dfs, components>>

n == input.n
csr_range(u) == input.csr_range[u]

\* index_undecided is above every index.
index_undecided == n

index_count == Cardinality({u \in 0 .. n - 1 : index[u] # index_undecided})

\* What the caller says is decided is what the filter leaves out.
decided_count == n - Cardinality(input.filter)
undecided_count == n - decided_count

Init ==
  /\ input \in Inputs
  /\ local_root = 0
  /\ index = [u \in 0 .. n - 1 |-> index_undecided]
  /\ low = [u \in 0 .. n - 1 |-> 0]
  /\ on_stack = {}
  /\ st = <<>>
  /\ dfs = <<>>
  /\ components = <<>>

\* The vertex gets the next index and goes onto both stacks.
Enter(u, frames) ==
  /\ index' = [index EXCEPT ![u] = index_count]
  /\ low' = [low EXCEPT ![u] = index_count]
  /\ st' = Append(st, u)
  /\ on_stack' = on_stack \cup {u}
  /\ dfs' = Append(frames, <<u, 1>>)

SkipRoot ==
  /\ dfs = <<>> /\ local_root < n
  /\ local_root \notin input.filter \/ index[local_root] # index_undecided
  /\ local_root' = local_root + 1
  /\ UNCHANGED <<input, index, low, on_stack, st, dfs, components>>

EnterRoot ==
  /\ dfs = <<>> /\ local_root < n
  /\ local_root \in input.filter /\ index[local_root] = index_undecided
  /\ Enter(local_root, dfs)
  /\ UNCHANGED <<input, local_root, components>>

local_u == Last(dfs)[1]
it == Last(dfs)[2]
AtEdge == dfs # <<>> /\ it <= Len(csr_range(local_u))
local_v == csr_range(local_u)[it]

\* `it` of the top frame is moved on before the neighbour is looked at.
Advanced == [dfs EXCEPT ![Len(dfs)] = <<local_u, it + 1>>]

EnterNeighbor ==
  /\ AtEdge
  /\ local_v \in input.filter /\ index[local_v] = index_undecided
  /\ Enter(local_v, Advanced)
  /\ UNCHANGED <<input, local_root, components>>

\* Mutant of LowerNeighbor: the vertices of finished components count as well.
LowerAnyNeighbor ==
  /\ AtEdge
  /\ local_v \in input.filter /\ index[local_v] # index_undecided
  /\ index[local_v] < low[local_u]
  /\ low' = [low EXCEPT ![local_u] = index[local_v]]
  /\ dfs' = Advanced
  /\ UNCHANGED <<input, local_root, index, on_stack, st, components>>

LowerNeighbor ==
  /\ AtEdge
  /\ local_v \in input.filter /\ index[local_v] # index_undecided
  /\ local_v \in on_stack /\ index[local_v] < low[local_u]
  /\ low' = [low EXCEPT ![local_u] = index[local_v]]
  /\ dfs' = Advanced
  /\ UNCHANGED <<input, local_root, index, on_stack, st, components>>

\* A vertex that is not local, not wanted, or teaches nothing.
PassNeighbor ==
  /\ AtEdge
  /\ \/ local_v \notin input.filter
     \/ /\ local_v \in input.filter /\ index[local_v] # index_undecided
        /\ local_v \notin on_stack \/ index[local_v] >= low[local_u]
  /\ dfs' = Advanced
  /\ UNCHANGED <<input, local_root, index, low, on_stack, st, components>>

\* The component of local_u is what lies on st from local_u on.
EmitComponent ==
  LET begin == CHOOSE i \in 1 .. Len(st) : st[i] = local_u
      Popped == {st[i] : i \in begin .. Len(st)}
  IN  /\ st' = SubSeq(st, 1, begin - 1)
      /\ on_stack' = on_stack \ Popped
      /\ components' = Append(components, Popped)

Leave ==
  /\ dfs # <<>> /\ ~AtEdge
  /\ IF low[local_u] = index[local_u] THEN EmitComponent
                                      ELSE UNCHANGED <<st, on_stack, components>>
  /\ dfs' = Front(dfs)
  /\ IF Len(dfs) = 1 THEN UNCHANGED low
     ELSE LET local_p == dfs[Len(dfs) - 1][1]
              lower   == IF low[local_u] < low[local_p] THEN low[local_u] ELSE low[local_p]
          IN  low' = [low EXCEPT ![local_p] = lower]
  /\ UNCHANGED <<input, local_root, index>>

Returned == dfs = <<>> /\ local_root = n /\ UNCHANGED vars

Next ==
  \/ SkipRoot \/ EnterRoot
  \/ EnterNeighbor \/ LowerNeighbor \/ PassNeighbor \/ Leave
  \/ Returned

Spec == Init /\ [][Next]_vars
-----------------------------------------------------------------------------
(* Properties                                                              *)

TypeOK ==
  /\ local_root \in 0 .. n
  /\ index \in [0 .. n - 1 -> 0 .. n]
  /\ low \in [0 .. n - 1 -> 0 .. n - 1]
  /\ on_stack \subseteq input.filter

Edges == {e \in input.filter \X input.filter : Contains(csr_range(e[1]), e[2])}
Sets == INSTANCE ReachableSets WITH Vertices <- input.filter

\* No push goes beyond the end of a stack, and the bits mirror what is on st.
StacksFit ==
  /\ Len(st) <= undecided_count /\ Len(dfs) <= undecided_count
  /\ IsInjective(st) /\ on_stack = ToSet(st)

(***************************************************************************)
(* What callback is given is a whole component of the graph between the    *)
(* vertices wanted, never a part of one or two in one, and never twice;    *)
(* the components it leads to have been given before.                      *)
(***************************************************************************)
ComponentsAreRight ==
  \A i \in 1 .. Len(components) :
    /\ \A u \in components[i] : components[i] = Sets!SCC(Edges, u)
    /\ \A k \in 1 .. i - 1 : components[k] # components[i]
    /\ \A u \in components[i], v \in input.filter :
         <<u, v>> \in Edges => \E k \in 1 .. i : v \in components[k]

\* At the end no vertex wanted is left out.
AllEmitted ==
  dfs = <<>> /\ local_root = n => UNION ToSet(components) = input.filter

TarjanInv == TypeOK /\ StacksFit /\ ComponentsAreRight /\ AllEmitted
=============================================================================
