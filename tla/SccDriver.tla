----------------------------- MODULE SccDriver -----------------------------
(***************************************************************************)
(* The drivers (scc/scc.hpp, scc/async/scc.hpp and scc/variant/*.hpp): a   *)
(* sequence of stages, each of which decides components and is followed by *)
(* a sum of the counters over all ranks, on which every rank decides alone *)
(* what it calls next.                                                     *)
(*                                                                         *)
(* A rank is somewhere in a stage.  A search, an exhaustive trim and the   *)
(* residual stage begin when every rank has called them and are one step   *)
(* here, with the outcome their own modules show (PivotSearch, LabelSearch *)
(* and their variants, TrimExhaustive, PivotReduction); the trims that     *)
(* look at local vertices only are steps of one rank.                      *)
(***************************************************************************)
EXTENDS ReachableSets, FiniteSetsExt

CONSTANTS Ranks,
          Undecided,    \* scc_id_undecided
          IndexLimit,   \* 2^w for a w-bit index_t
          ProductLimit, \* 2^64, for a u64
          Inputs        \* [edges, owner, driver]

ASSUME UndecidedAssumption == Undecided \notin Vertices

\* Vertices are numbered from 0, so that their number n is none of them.
ASSUME NumbersAssumption == Vertices = 0 .. Cardinality(Vertices) - 1

ASSUME RanksAssumption == Ranks \subseteq Nat /\ Ranks # {} /\ IsFiniteSet(Ranks)

ASSUME LimitsAssumption == IndexLimit \in Nat \ {0} /\ ProductLimit \in Nat \ {0}

n == Cardinality(Vertices)

decided_threshold == n - (n \div Cardinality(Ranks))

(***************************************************************************)
(* What follows a stage, when fewer than decided_threshold vertices are    *)
(* decided and when more, but not all.                                     *)
(***************************************************************************)
Then(s) == [below |-> s, above |-> s]
Split(s, t) == [below |-> s, above |-> t]

\* The same for the asynchronous driver.
scc ==
  [trim_1_first |-> Then("search"), search |-> Then("trim_1_normal"),
   trim_1_normal |-> Then("color"), color |-> Then("color")]

scc_hpc_like ==
  [trim_1_first |-> Then("search"), search |-> Then("color"), color |-> Then("color")]

scc_hpc_trim_ex ==
  [trim_ex_first |-> Then("select"), search |-> Then("color"), color |-> Then("color")]

scc_ispan_like ==
  [trim_1_first |-> Then("search"), search |-> Then("trim_1_twice"),
   trim_1_normal |-> Then("residual")]

scc_trim_ex ==
  [trim_ex_first |-> Then("select"), search |-> Then("trim_ex"),
   trim_ex |-> Then("color"), color |-> Then("trim_ex")]

scc_trim_ex_residual ==
  [trim_ex_first |-> Split("select", "residual"), search |-> Then("trim_ex"),
   trim_ex |-> Split("color", "residual"), color |-> Then("trim_ex")]

scc_trim_ex_light_residual ==
  [trim_ex_first |-> Split("select", "trim_ex"), search |-> Split("color", "trim_ex"),
   color |-> Split("color", "trim_ex"), trim_ex |-> Then("residual")]

Drivers ==
  [scc |-> scc, scc_hpc_like |-> scc_hpc_like, scc_hpc_trim_ex |-> scc_hpc_trim_ex,
   scc_ispan_like |-> scc_ispan_like, scc_trim_ex |-> scc_trim_ex,
   scc_trim_ex_residual |-> scc_trim_ex_residual,
   scc_trim_ex_light_residual |-> scc_trim_ex_light_residual]

ASSUME InputsAssumption ==
  Inputs \subseteq [edges : Graphs, owner : [Vertices -> Ranks], driver : DOMAIN Drivers]

\* A driver chooses its pivot in trim_1_first, which multiplies degrees in u64,
\* or in select_pivot_from_degree, which does in index_t.
Limit(driver) ==
  IF "trim_1_first" \in DOMAIN Drivers[driver] THEN ProductLimit ELSE IndexLimit

exact_prod(E, v) == Cardinality(Succ(E, v)) * Cardinality(Pred(E, v))

(***************************************************************************)
(* The products fit.  A u64 holds those of any two 32-bit degrees, but     *)
(* nothing in the code sees to it that an index_t does: where products     *)
(* wrap, select_pivot_from_degree may return a vertex that is not          *)
(* undecided (PivotReduction), and the drivers do not ask.                 *)
(***************************************************************************)
ASSUME ProductsAssumption ==
  \A i \in Inputs : \A v \in Vertices : exact_prod(i.edges, v) < Limit(i.driver)
-----------------------------------------------------------------------------
VARIABLES
  input,            \* never changed
  stage,            \* per rank
  at,               \* per rank, where in the stage
  todo,             \* vertices trim_1_normal has still to visit
  is_undecided,
  scc_id,
  local_decided,
  global_decided,   \* the same on all ranks: only reductions assign it
  pivot,            \* per rank; n is none
  present,          \* the vertices that outdegree and indegree count
  decided_stack

vars == <<input, stage, at, todo, is_undecided, scc_id, local_decided,
          global_decided, pivot, present, decided_stack>>

edges    == input.edges
Local(r) == {v \in Vertices : input.owner[v] = r}
Program  == Drivers[input.driver]

\* The edges between vertices of U, which is all that the stages look at.
Induced(U) == {e \in edges : e[1] \in U /\ e[2] \in U}

Init ==
  /\ input \in Inputs
  /\ stage = [r \in Ranks |->
                IF "trim_1_first" \in DOMAIN Program THEN "trim_1_first" ELSE "trim_ex_first"]
  /\ at = [r \in Ranks |-> "work"]
  /\ todo = {}
  /\ is_undecided = Vertices
  /\ scc_id = [v \in Vertices |-> Undecided]
  /\ local_decided = [r \in Ranks |-> 0]
  /\ global_decided = 0
  /\ pivot = [r \in Ranks |-> n]
  /\ present = Vertices
  /\ decided_stack = {}

\* is_undecided.unset and on_decision for the vertices of D.
Decide(D, id) ==
  /\ is_undecided' = is_undecided \ D
  /\ scc_id' = [v \in Vertices |-> IF v \in D THEN id[v] ELSE scc_id[v]]
  /\ local_decided' = [r \in Ranks |-> local_decided[r] + Cardinality(Local(r) \cap D)]

Itself == [v \in Vertices |-> v]

\* Every rank is at this place of this stage, and all go on.
Together(s, from, to) ==
  /\ \A r \in Ranks : stage[r] \in s /\ at[r] = from
  /\ at' = [r \in Ranks |-> to]
-----------------------------------------------------------------------------
(* trim_1_first and trim_1_normal                                          *)

\* In the width of its type; both pivot selections compute it.
degree_prod(U, v) == exact_prod(Induced(U), v) % Limit(input.driver)

\* The first vertex of S with the largest product above 0, or n.
Candidate(U, S) ==
  IF \A v \in S : degree_prod(U, v) = 0 THEN n
  ELSE CHOOSE u \in S : \A v \in S : \/ degree_prod(U, v) < degree_prod(U, u)
                                     \/ degree_prod(U, v) = degree_prod(U, u) /\ u <= v

\* The loop of trim_1_first over the vertices of a rank.
TrimFirst(r) ==
  /\ stage[r] = "trim_1_first" /\ at[r] = "work"
  /\ Decide(Local(r) \ HasBothDegrees(edges), Itself)
  /\ pivot' = [pivot EXCEPT ![r] = Candidate(Vertices, Local(r) \cap HasBothDegrees(edges))]
  /\ at' = [at EXCEPT ![r] = "max"]
  /\ UNCHANGED <<input, stage, todo, global_decided, present, decided_stack>>

max_degree_prod(r) == IF pivot[r] = n THEN 0 ELSE degree_prod(Vertices, pivot[r])

\* The two reductions; a rank below the maximum withdraws its candidate.
AllreduceMax ==
  /\ Together({"trim_1_first"}, "max", "min")
  /\ LET global == Max({max_degree_prod(r) : r \in Ranks})
     IN  pivot' = [r \in Ranks |-> IF max_degree_prod(r) # global THEN n ELSE pivot[r]]
  /\ UNCHANGED <<input, stage, todo, is_undecided, scc_id, local_decided,
                 global_decided, present, decided_stack>>

AllreduceMin ==
  /\ Together({"trim_1_first"}, "min", "count")
  /\ pivot' = [r \in Ranks |-> Min({pivot[s] : s \in Ranks})]
  /\ UNCHANGED <<input, stage, todo, is_undecided, scc_id, local_decided,
                 global_decided, present, decided_stack>>

\* Mutant of HasDegree: a neighbour on another rank is overlooked.
HasDegreeLocal(k) ==
  \E v \in Succ(edges, k) \cup Pred(edges, k) :
    input.owner[v] = input.owner[k] /\ v \in is_undecided

\* A neighbour that is decided on another rank is not known to be.
HasDegree(k) ==
  \E v \in Succ(edges, k) \cup Pred(edges, k) :
    input.owner[v] # input.owner[k] \/ v \in is_undecided

\* The body of is_undecided.each in trim_1_normal.
TrimVisit(k) ==
  LET r == input.owner[k]
  IN  /\ stage[r] \in {"trim_1_normal", "trim_1_twice"} /\ at[r] = "work"
      /\ k \in todo /\ \A v \in todo \cap Local(r) : k <= v
      /\ todo' = todo \ {k}
      /\ Decide(IF HasDegree(k) THEN {} ELSE {k}, Itself)
      /\ UNCHANGED <<input, stage, at, global_decided, pivot, present, decided_stack>>

\* trim_1_normal returns; scc_ispan_like calls it twice in a row.
TrimReturn(r) ==
  /\ stage[r] \in {"trim_1_normal", "trim_1_twice"} /\ at[r] = "work"
  /\ todo \cap Local(r) = {}
  /\ stage' = [stage EXCEPT ![r] = "trim_1_normal"]
  /\ IF stage[r] = "trim_1_twice"
       THEN todo' = todo \cup (is_undecided \cap Local(r)) /\ UNCHANGED at
       ELSE at' = [at EXCEPT ![r] = "count"] /\ UNCHANGED todo
  /\ UNCHANGED <<input, is_undecided, scc_id, local_decided, global_decided,
                 pivot, present, decided_stack>>
-----------------------------------------------------------------------------
(* The stages of all ranks                                                 *)

\* What a rank finds in select_pivot_from_degree: its candidate with the
\* product, or vertex 0 with none.
local_max(r) ==
  LET u == Candidate(present, Local(r) \cap is_undecided)
  IN  IF u = n THEN [degree_product |-> 0, u |-> 0]
      ELSE [degree_product |-> degree_prod(present, u), u |-> u]

\* select_pivot_from_degree; of several with the largest product the last.
Select ==
  /\ Together({"select"}, "work", "work")
  /\ stage' = [r \in Ranks |-> "search"]
  /\ LET found == {local_max(r) : r \in Ranks}
         max   == CHOOSE a \in found : \A b \in found :
                    \/ b.degree_product < a.degree_product
                    \/ b.degree_product = a.degree_product /\ b.u <= a.u
     IN  pivot' = [r \in Ranks |-> max.u]
  /\ UNCHANGED <<input, todo, is_undecided, scc_id, local_decided,
                 global_decided, present, decided_stack>>

\* decided_stack.push, in the drivers whose on_decision does it.
PushDecided(D) ==
  decided_stack' = IF "trim_ex" \in DOMAIN Program THEN decided_stack \cup D ELSE {}

\* The searches decide in the graph that is left.
Search ==
  /\ Together({"search"}, "work", "count")
  /\ \E root \in {pivot[r] : r \in Ranks} :
       LET D == SCC(Induced(is_undecided), root)
       IN  Decide(D, [v \in D |-> root]) /\ PushDecided(D)
  /\ UNCHANGED <<input, stage, todo, global_decided, pivot, present>>

\* One call of rot_label_search: components, each with the id of a member.
Color ==
  /\ Together({"color"}, "work", "count")
  /\ \E ids \in (SUBSET is_undecided) \ {{}} :
       LET D == UNION {SCC(Induced(is_undecided), u) : u \in ids}
       IN  /\ \A u, v \in ids : u # v => v \notin SCC(Induced(is_undecided), u)
           /\ Decide(D, [v \in D |-> CHOOSE u \in ids : v \in SCC(Induced(is_undecided), u)])
           /\ PushDecided(D)
  /\ UNCHANGED <<input, stage, todo, global_decided, pivot, present>>

\* Mutant of Left: the search before the trim is forgotten.
LeftBefore == Core(edges, Core(Reversed(edges), present))

\* What the degrees say is left, once those of decided_stack are subtracted.
Left == Core(edges, Core(Reversed(edges), present \ decided_stack))

\* trim_1_exhaustive_first, or trim_1_exhaustive and decided_stack.clear.
TrimEx ==
  /\ Together({"trim_ex_first", "trim_ex"}, "work", "count")
  /\ Decide(is_undecided \ Left, Itself)
  /\ present' = Left
  /\ decided_stack' = {}
  /\ UNCHANGED <<input, stage, todo, global_decided, pivot>>

\* The order of the vertices in the gathered sub-graph: rank after rank.
Before(u, v) ==
  \/ input.owner[u] < input.owner[v]
  \/ input.owner[u] = input.owner[v] /\ u <= v

\* allgather_fw_sub_graph and tarjan: the ids are written, nothing is counted.
Residual ==
  /\ Together({"residual"}, "work", "branch")
  /\ scc_id' = [v \in Vertices |->
       IF v \notin is_undecided THEN scc_id[v]
       ELSE LET C == SCC(Induced(is_undecided), v)
            IN  CHOOSE u \in C : \A w \in C : Before(u, w)]
  /\ UNCHANGED <<input, stage, todo, is_undecided, local_decided,
                 global_decided, pivot, present, decided_stack>>

\* allreduce_single(local_decided, sum)
Count ==
  /\ Together(DOMAIN Program, "count", "branch")
  /\ global_decided' = SumOverRanks(local_decided)
  /\ UNCHANGED <<input, stage, todo, is_undecided, scc_id, local_decided,
                 pivot, present, decided_stack>>

\* Mutant of NextStage: returns with one vertex left.
NextStageEarly(s) ==
  IF s = "residual" \/ global_decided >= n - 1 THEN "done"
  ELSE IF global_decided < decided_threshold THEN Program[s].below ELSE Program[s].above

NextStage(s) ==
  IF s = "residual" \/ global_decided = n THEN "done"
  ELSE IF global_decided < decided_threshold THEN Program[s].below ELSE Program[s].above

Branch(r) ==
  /\ at[r] = "branch" /\ stage[r] # "done"
  /\ stage' = [stage EXCEPT ![r] = NextStage(stage[r])]
  /\ at' = [at EXCEPT ![r] = IF stage'[r] = "done" THEN "branch" ELSE "work"]
  /\ todo' = IF stage'[r] \in {"trim_1_normal", "trim_1_twice"}
               THEN todo \cup (is_undecided \cap Local(r)) ELSE todo
  /\ UNCHANGED <<input, is_undecided, scc_id, local_decided, global_decided,
                 pivot, present, decided_stack>>

Returned == (\A r \in Ranks : stage[r] = "done") /\ UNCHANGED vars

Next ==
  \/ \E r \in Ranks : TrimFirst(r) \/ TrimReturn(r) \/ Branch(r)
  \/ \E k \in Vertices : TrimVisit(k)
  \/ AllreduceMax \/ AllreduceMin
  \/ Select \/ Search \/ Color \/ TrimEx \/ Residual
  \/ Count
  \/ Returned

Spec == Init /\ [][Next]_vars /\ WF_vars(Next)
-----------------------------------------------------------------------------
(* Properties                                                              *)

Stages == {"trim_1_first", "trim_ex_first", "select", "search", "trim_1_normal",
           "trim_1_twice", "trim_ex", "color", "residual", "done"}

TypeOK ==
  /\ input \in Inputs
  /\ stage \in [Ranks -> Stages]
  /\ at \in [Ranks -> {"work", "max", "min", "count", "branch"}]
  /\ todo \subseteq is_undecided
  /\ is_undecided \subseteq Vertices
  /\ scc_id \in [Vertices -> Vertices \cup {Undecided}]
  /\ local_decided \in [Ranks -> 0 .. n]
  /\ global_decided \in 0 .. n
  /\ pivot \in [Ranks -> Vertices \cup {n}]
  /\ present \subseteq Vertices /\ decided_stack \subseteq Vertices

Calls(s) == \A r \in Ranks : stage[r] = s /\ at[r] = "work"

(***************************************************************************)
(* What forward_backward_search relies on, and PivotSearch assumes: the    *)
(* ranks agree on the pivot, it is undecided, and whatever has been        *)
(* decided is a component of its own.  No undecided vertex has a larger    *)
(* product of its degrees, as numbers of any size, in the whole graph or   *)
(* in what a trim has left.                                                *)
(***************************************************************************)
SearchReady ==
  Calls("search") =>
    /\ \A v \in Vertices \ is_undecided : SCC(edges, v) = {v}
    /\ \E u \in is_undecided :
         /\ \A r \in Ranks : pivot[r] = u
         /\ LET U == IF "trim_1_first" \in DOMAIN Program THEN Vertices ELSE is_undecided
            IN  \A v \in is_undecided :
                  exact_prod(Induced(U), v) <= exact_prod(Induced(U), u)

\* What the label search, the sub-graph and the trims rely on: components
\* are decided as a whole, and there is one left when they are called.
ComponentsWhole ==
  /\ \A v \in is_undecided : SCC(edges, v) \subseteq is_undecided
  /\ \A s \in {"color", "residual", "trim_ex"} : Calls(s) => is_undecided # {}

\* The trim subtracts every decided vertex from the degrees exactly once,
\* and where a pivot is selected the degrees are up to date.
DegreesReady ==
  /\ Calls("trim_ex") => /\ decided_stack \subseteq present
                         /\ present \ decided_stack = is_undecided
  /\ Calls("select") => present = is_undecided

\* The stack that gathers the sub-graph has local_n - local_decided entries.
CountersAgree ==
  /\ \A r \in Ranks : local_decided[r] = Cardinality(Local(r) \ is_undecided)
  /\ "residual" \notin {stage[r] : r \in Ranks} /\ "done" \notin {stage[r] : r \in Ranks}
       => is_undecided = {v \in Vertices : scc_id[v] = Undecided}

\* No rank returns while another goes on to call a collective.
LeaveTogether ==
  \A r, s \in Ranks : stage[r] = "done" => at[s] = "branch"

-----------------------------------------------------------------------------
(* Why: what holds between the stages                                      *)

\* All ranks have the same undecided pivot, of the largest degree product.
OnePivot(U) ==
  \E u \in is_undecided :
    /\ \A r \in Ranks : pivot[r] = u
    /\ \A v \in is_undecided : degree_prod(U, v) <= degree_prod(U, u)

NamesAgree == is_undecided = {v \in Vertices : scc_id[v] = Undecided}

Trimmed == \A v \in Vertices \ is_undecided : SCC(edges, v) = {v}

\* trim_1_first before the reductions: each rank has trimmed its own vertices,
\* or has not yet ...
TrimmingFirst ==
  /\ "trim_1_first" \in DOMAIN Program /\ NamesAgree
  /\ \A r \in Ranks :
       /\ stage[r] = "trim_1_first" /\ at[r] \in {"work", "max"}
       /\ Local(r) \cap is_undecided =
            IF at[r] = "work" THEN Local(r) ELSE Local(r) \cap HasBothDegrees(edges)
       /\ at[r] = "max" => pivot[r] = Candidate(Vertices, Local(r) \cap is_undecided)

\* ... and between them: only the best candidates are left, at least one.
Reducing ==
  /\ "trim_1_first" \in DOMAIN Program /\ NamesAgree /\ Trimmed
  /\ \A r \in Ranks : stage[r] = "trim_1_first" /\ at[r] = "min"
  /\ is_undecided # {} => \E r \in Ranks : pivot[r] # n
  /\ \A r \in Ranks : pivot[r] # n =>
       /\ pivot[r] \in is_undecided
       /\ \A v \in is_undecided : degree_prod(Vertices, v) <= degree_prod(Vertices, pivot[r])

\* What a stage leaves, until all ranks call the one that follows.
LeftBy(s) ==
  IF s = "residual" THEN \A v \in Vertices : scc_id[v] # Undecided
  ELSE /\ NamesAgree
       /\ s = "trim_1_first" => Trimmed /\ (is_undecided # {} => OnePivot(Vertices))
       /\ s = "trim_ex_first" =>
            /\ Trimmed /\ present = is_undecided /\ decided_stack = {}
            /\ \A v \in present : degree_prod(present, v) > 0

Counting(s) == (\A r \in Ranks : stage[r] = s /\ at[r] = "count") /\ LeftBy(s)

Trims == {"trim_1_normal", "trim_1_twice"}

\* A rank has still to leave stage s, or has gone on to the next one, which
\* needs no other rank if it is a trim of the rank's own vertices.
Passing(s, r) ==
  LET t == NextStage(s)
  IN  \/ stage[r] = s /\ at[r] = "branch"
      \/ stage[r] = t /\ at[r] = (IF t = "done" THEN "branch" ELSE "work")
      \/ t \in Trims /\ stage[r] \in Trims /\ at[r] = "work"
      \/ t \in Trims /\ stage[r] = "trim_1_normal" /\ at[r] = "count"

BetweenStages(s) ==
  /\ \A r \in Ranks : Passing(s, r)
  /\ s = "residual" \/ NextStage(s) \in Trims
       \/ global_decided = Cardinality(Vertices \ is_undecided)
  /\ LeftBy(s)

CallingTrimEx ==
  /\ Calls("trim_ex_first") /\ "trim_ex_first" \in DOMAIN Program /\ NamesAgree
  /\ is_undecided = Vertices /\ present = Vertices /\ decided_stack = {}

CallingSearch ==
  /\ Calls("search") /\ "trim_ex_first" \in DOMAIN Program /\ NamesAgree /\ Trimmed
  /\ present = is_undecided /\ OnePivot(present)

\* The ranks are in one stage, or on their way from one to the next.
StagesInOrder ==
  \/ TrimmingFirst
  \/ Reducing
  \/ \E s \in DOMAIN Program : Counting(s)
  \/ \E s \in DOMAIN Program \cup {"residual"} : BetweenStages(s)
  \/ CallingTrimEx
  \/ CallingSearch

\* A rank has vertices to visit only while it trims, and a trim has to know
\* of all that was decided since the last one.
StagesInv ==
  /\ \A v \in todo : stage[input.owner[v]] \in Trims /\ at[input.owner[v]] = "work"
  /\ "trim_ex" \in DOMAIN Program =>
       decided_stack \subseteq present /\ present \ decided_stack = is_undecided
  /\ StagesInOrder

DriverInv == /\ TypeOK /\ SearchReady /\ ComponentsWhole /\ DegreesReady
             /\ CountersAgree /\ LeaveTogether /\ StagesInv

\* Every driver only ever adds ids, and those of components.
Labelling == INSTANCE SccLabelling
ImplementsLabelling == Labelling!Spec

\* All ranks return, and every vertex has an id.
Terminates ==
  <>(/\ \A r \in Ranks : stage[r] = "done"
     /\ \A v \in Vertices : scc_id[v] # Undecided)
=============================================================================
