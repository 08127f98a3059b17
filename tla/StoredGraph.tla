---------------------------- MODULE StoredGraph ----------------------------
(***************************************************************************)
(* Graphs in files.  The converter (scc/adapter/external_edgelist.hpp)     *)
(* sorts a list of edges twice, for forward and for backward rows, writes  *)
(* heads and rows as numbers of as few bytes as do, and then a manifest    *)
(* that names the files.  A program that wants the graph reads the         *)
(* manifest and maps the files (scc/adapter/manifest.hpp), all of them or  *)
(* the part of its rank, maybe on a machine with another byte order.       *)
(*                                                                         *)
(* The converter may crash at any step; what it wrote stays, as it writes  *)
(* through shared mappings.  It may be run again, with a list whose name   *)
(* begins alike, and a program may read at any time.  A failed ASSERT      *)
(* aborts.  A file is a function from 0 up to bytes; it is empty until it  *)
(* gets its size, and none is created for no bytes.  The bound is Runs.    *)
(***************************************************************************)
EXTENDS Csr

CONSTANTS
  Byte, Word,   \* the values of a byte, and the bytes of u64
  Lists,        \* the inputs: [edges: in the order of the lines, native: the byte order]
  Readers,      \* [native: its byte order, whole: all of the graph, or ws and r]
  Runs          \* how often the converter is started

VARIABLES
  files,        \* those there are, by name
  manifest,     \* the lines of the manifest, by key
  runs,         \* how often the converter was started
  run,          \* the converter: its locals and where it is
  reader,       \* never changed
  load          \* the reader: where it is, the manifest it read, the graph

vars == <<files, manifest, runs, run, reader, load>>
-----------------------------------------------------------------------------
(* Numbers in bytes                                                        *)

representing_bytes(max_val) ==
  Min({b \in 1 .. Word : max_val < Byte ^ b \/ b = Word})

\* The bytes of val in the memory of a machine.
Memory(native, val) ==
  LET little == [b \in 1 .. Word |-> (val \div Byte ^ (b - 1)) % Byte]
  IN  IF native = "little" THEN little ELSE Reverse(little)

Value(native, bytes) ==
  LET little == IF native = "little" THEN bytes ELSE Reverse(bytes)
      sum[b \in 0 .. Word] == IF b = 0 THEN 0 ELSE sum[b - 1] + little[b] * Byte ^ (b - 1)
  IN  sum[Word]

\* dense_unsigned_ops::set: the low bytes of val, turned around where needed.
set_bytes(native, endian, element_bytes, val) ==
  LET low == IF native = "little" THEN SubSeq(Memory(native, val), 1, element_bytes)
             ELSE SubSeq(Memory(native, val), Word - element_bytes + 1, Word)
  IN  IF endian = native THEN low ELSE Reverse(low)

\* dense_unsigned_ops::get: what is not stored is zero.
get_bytes(native, endian, element_bytes, data) ==
  LET zeros  == [b \in 1 .. Word - element_bytes |-> 0]
      result == IF endian = native THEN data ELSE Reverse(data)
  IN  Value(native, IF native = "little" THEN result \o zeros ELSE zeros \o result)

\* The accessor's: the elements of a file from index on, up to end.
set(file, native, index, end, element_bytes, val) ==
  LET data == set_bytes(native, native, element_bytes, val)
  IN  [x \in index * element_bytes .. end * element_bytes - 1 |->
         data[(x % element_bytes) + 1]] @@ file

get(file, native, endian, element_bytes, index) ==
  get_bytes(native, endian, element_bytes,
            [b \in 1 .. element_bytes |-> file[index * element_bytes + b - 1]])
-----------------------------------------------------------------------------
(* The converter                                                           *)

Names  == {"fw.head", "fw.csr", "bw.head", "bw.csr"}
head_f == [fw |-> "fw.head", bw |-> "bw.head"]
csr_f  == [fw |-> "fw.csr", bw |-> "bw.csr"]

Stopped == {"idle", "done", "aborted", "crashed"}

Init ==
  /\ files = [f \in {} |-> <<>>]
  /\ manifest = [key \in {} |-> ""]
  /\ runs = 0
  /\ run = [at |-> "idle"]
  /\ reader \in Readers
  /\ load = [at |-> "idle"]

Start ==
  /\ run.at \in Stopped /\ runs < Runs
  /\ runs' = runs + 1
  /\ \E l \in Lists : run' = [at |-> "read", list |-> l, dir |-> "fw"]
  /\ UNCHANGED <<files, manifest, reader, load>>

Abort == run' = [at |-> "aborted"] /\ UNCHANGED files

\* The sorter of both passes; sorted by extern_sort_adapter.
Sorted(edgelist) == SortSeq(edgelist, edge_less)

\* The first pass over the lines.
ReadForward ==
  /\ run.at = "read" /\ run.dir = "fw"
  /\ LET E        == run.list.edges
         max_node == Max({0} \cup {Max({E[x][1], E[x][2]}) : x \in DOMAIN E})
         m        == Len(E)
     IN  run' = [at |-> "head", list |-> run.list, dir |-> "fw",
                 sort |-> Sorted(E), m |-> m, n |-> IF m = 0 THEN 0 ELSE max_node + 1,
                 head_bytes |-> representing_bytes(m),
                 csr_bytes |-> representing_bytes(max_node),
                 self_loops |-> \E x \in DOMAIN E : E[x][1] = E[x][2],
                 duplicates |-> FALSE, last |-> <<>>,
                 i |-> 0, j |-> 0, current_node |-> 0, current_off |-> 0]
  /\ UNCHANGED <<files, manifest, runs, reader, load>>

\* The second pass, from the first line again, with the edges turned around.
ReadBackward ==
  /\ run.at = "read" /\ run.dir = "bw"
  /\ LET E == run.list.edges
     IN  run' = [run EXCEPT !.at = "head",
                            !.sort = Sorted([x \in DOMAIN E |-> <<E[x][2], E[x][1]>>]),
                            !.i = 0, !.j = 0, !.current_node = 0, !.current_off = 0]
  /\ UNCHANGED <<files, manifest, runs, reader, load>>

\* Mutant of create_w: a file that is there is taken.
create_wAnyway(file, size, opened, next) ==
  IF size = 0 THEN run' = next /\ UNCHANGED files
  ELSE /\ files' = IF file \in DOMAIN files THEN files ELSE (file :> <<>>) @@ files
       /\ run' = opened

\* Mutant of create_w: it is tried again until the file is gone.
create_wAgain(file, size, opened, next) ==
  IF size = 0 THEN run' = next /\ UNCHANGED files
  ELSE IF file \in DOMAIN files THEN run' = [run EXCEPT !.at = "read"] /\ UNCHANGED files
  ELSE files' = (file :> <<>>) @@ files /\ run' = opened

\* O_CREAT | O_EXCL; nothing is opened for no bytes.
create_w(file, size, opened, next) ==
  IF size = 0 THEN run' = next /\ UNCHANGED files
  ELSE IF file \in DOMAIN files THEN Abort
  ELSE files' = (file :> <<>>) @@ files /\ run' = opened

\* What is not in the file yet is zero.
ftruncate(file, size) ==
  files' = [files EXCEPT ![file] =
              [x \in 0 .. size - 1 |-> IF x \in DOMAIN files[file] THEN files[file][x] ELSE 0]]

head_size == (run.n + 1) * run.head_bytes
csr_size  == run.m * run.csr_bytes

CreateHead ==
  /\ run.at = "head"
  /\ create_w(head_f[run.dir], head_size, [run EXCEPT !.at = "head_opened"],
              [run EXCEPT !.at = "csr"])
  /\ UNCHANGED <<manifest, runs, reader, load>>

ResizeHead ==
  /\ run.at = "head_opened"
  /\ ftruncate(head_f[run.dir], head_size)
  /\ run' = [run EXCEPT !.at = "csr"]
  /\ UNCHANGED <<manifest, runs, reader, load>>

\* head.set(i++, 0) comes after both files are there.
CreateCsr ==
  /\ run.at = "csr"
  /\ create_w(csr_f[run.dir], csr_size, [run EXCEPT !.at = "csr_opened"],
              [run EXCEPT !.at = "fill", !.i = 1])
  /\ UNCHANGED <<manifest, runs, reader, load>>

ResizeCsr ==
  /\ run.at = "csr_opened"
  /\ ftruncate(csr_f[run.dir], csr_size)
  /\ run' = [run EXCEPT !.at = "fill", !.i = 1]
  /\ UNCHANGED <<manifest, runs, reader, load>>

\* The heads of the rows from the current one up to that of u.
HeadsUpTo(u) ==
  set(files[head_f[run.dir]], run.list.native, run.i, run.i + (u - run.current_node),
      run.head_bytes, run.current_off)

\* sort.next()
Fill ==
  /\ run.at = "fill" /\ run.sort # <<>>
  /\ LET e == Head(run.sort)
         u == e[1]
         csr == set(files[csr_f[run.dir]], run.list.native, run.j, run.j + 1,
                    run.csr_bytes, e[2])
     IN  /\ files' = [files EXCEPT ![head_f[run.dir]] = HeadsUpTo(u),
                                   ![csr_f[run.dir]] = csr]
         /\ run' = [run EXCEPT !.sort = Tail(@),
                               !.duplicates = @ \/ (run.dir = "fw" /\ e = run.last),
                               !.last = e,
                               !.i = @ + (u - run.current_node), !.j = @ + 1,
                               !.current_node = u, !.current_off = @ + 1]
  /\ UNCHANGED <<manifest, runs, reader, load>>

\* The remaining heads, and the other direction or the manifest.
Close ==
  /\ run.at = "fill" /\ run.sort = <<>>
  /\ files' = [files EXCEPT ![head_f[run.dir]] = HeadsUpTo(run.n)]
  /\ run' = IF run.dir = "fw" THEN [run EXCEPT !.at = "read", !.dir = "bw"]
                              ELSE [run EXCEPT !.at = "manifest"]
  /\ UNCHANGED <<manifest, runs, reader, load>>

Keys == <<"endian", "node_count", "edge_count", "self_loops", "duplicates",
          "head_bytes", "csr_bytes", "fw.head", "fw.csr", "bw.head", "bw.csr">>

Lines(c) ==
  [endian |-> c.list.native, node_count |-> c.n, edge_count |-> c.m,
   self_loops |-> c.self_loops, duplicates |-> c.duplicates,
   head_bytes |-> c.head_bytes, csr_bytes |-> c.csr_bytes]
    @@ [f \in Names |-> f]

\* std::ofstream empties a manifest that is there.
OpenManifest ==
  /\ run.at = "manifest"
  /\ manifest' = [key \in {} |-> ""]
  /\ run' = [run EXCEPT !.at = "lines"]
  /\ UNCHANGED <<files, runs, reader, load>>

\* The lines get into the file in order.
WriteLine ==
  /\ run.at = "lines"
  /\ LET key  == Keys[Cardinality(DOMAIN manifest) + 1]
         next == (key :> Lines(run)[key]) @@ manifest
     IN  /\ manifest' = next
         /\ run' = IF DOMAIN next = Range(Keys) THEN [at |-> "done"] ELSE run
  /\ UNCHANGED <<files, runs, reader, load>>

Crash ==
  /\ run.at \notin Stopped
  /\ run' = [at |-> "crashed"]
  /\ UNCHANGED <<files, manifest, runs, reader, load>>
-----------------------------------------------------------------------------
(* The reader                                                              *)

\* manifest::load: every key has to be there, or the program aborts, and may be
\* run again; and every path has to exist.
LoadManifest ==
  /\ load.at = "idle" /\ DOMAIN manifest = Range(Keys)
  /\ load' = [at |-> IF Names \subseteq DOMAIN files THEN "mapping" ELSE "aborted",
              manifest |-> manifest]
  /\ UNCHANGED <<files, manifest, runs, run, reader>>

reader_part(n) ==
  IF reader.whole THEN single_part(n) ELSE balanced_slice_part(n, reader.ws, reader.r)

\* The numbers in the files of one direction.
StoredIn(dir, mf) ==
  [n    |-> mf.node_count,
   m    |-> mf.edge_count,
   head |-> [k \in 0 .. mf.node_count |->
               get(files[head_f[dir]], reader.native, mf.endian, mf.head_bytes, k)],
   csr  |-> [i \in 0 .. mf.edge_count - 1 |->
               get(files[csr_f[dir]], reader.native, mf.endian, mf.csr_bytes, i)]]

SizesMatch(mf) ==
  \A dir \in {"fw", "bw"} :
    /\ Cardinality(DOMAIN files[head_f[dir]]) = (mf.node_count + 1) * mf.head_bytes
    /\ Cardinality(DOMAIN files[csr_f[dir]]) = mf.edge_count * mf.csr_bytes

\* load_graph_from_manifest
LoadGraph ==
  /\ load.at = "mapping" /\ reader.whole
  /\ LET mf == load.manifest
     IN  load' = IF SizesMatch(mf)
                 THEN [at |-> "loaded", manifest |-> mf,
                       graph |-> [fw |-> StoredIn("fw", mf), bw |-> StoredIn("bw", mf)]]
                 ELSE [load EXCEPT !.at = "aborted"]
  /\ UNCHANGED <<files, manifest, runs, run, reader>>

\* load_graph_part_from_manifest asserts that the part ends within the edges.
LoadGraphPart ==
  /\ load.at = "mapping" /\ ~ reader.whole
  /\ LET mf   == load.manifest
         part == reader_part(mf.node_count)
     IN  load' = IF part.end <= mf.edge_count /\ SizesMatch(mf)
                 THEN [at |-> "loaded", manifest |-> mf,
                       graph |-> [fw |-> partition(StoredIn("fw", mf), part),
                                  bw |-> partition(StoredIn("bw", mf), part)]]
                 ELSE [load EXCEPT !.at = "aborted"]
  /\ UNCHANGED <<files, manifest, runs, run, reader>>

Convert ==
  \/ ReadForward \/ ReadBackward \/ CreateHead \/ ResizeHead \/ CreateCsr \/ ResizeCsr
  \/ Fill \/ Close
  \/ OpenManifest \/ WriteLine

Load == LoadGraph \/ LoadGraphPart

\* Nobody has to start a converter or a reader.
Quiet == run.at \in Stopped /\ load.at # "mapping" /\ UNCHANGED vars

Next == Start \/ Convert \/ Crash \/ LoadManifest \/ Load \/ Quiet
-----------------------------------------------------------------------------
(* Properties                                                              *)

NodesOf(edgelist) ==
  Max({0} \cup {Max({edgelist[x][1], edgelist[x][2]}) + 1 : x \in DOMAIN edgelist})

\* The neighbours of u in ascending order, and those whose neighbour u is.
Out(E, u) == LET row == Sorted(SelectSeq(E, LAMBDA e : e[1] = u))
             IN  [x \in DOMAIN row |-> row[x][2]]
Into(E, u) == LET row == Sorted(SelectSeq(E, LAMBDA e : e[2] = u))
              IN  [x \in DOMAIN row |-> row[x][1]]

\* What the flags and the sizes in a manifest tell of a list.
Describes(mf, l) ==
  LET E == l.edges
  IN  /\ mf.node_count = NodesOf(E) /\ mf.edge_count = Len(E)
      /\ mf.self_loops <=> \E x \in DOMAIN E : E[x][1] = E[x][2]
      /\ mf.duplicates <=> \E x, y \in DOMAIN E : x # y /\ E[x] = E[y]

(***************************************************************************)
(* What a reader gets is the graph, or its part of it, of one list that    *)
(* the manifest describes: never of a conversion that was cut off, or of   *)
(* two that met in the same files, or in the byte order of another         *)
(* machine.                                                                *)
(***************************************************************************)
LoadedRight ==
  load.at = "loaded" =>
    \E l \in Lists :
      LET part == reader_part(NodesOf(l.edges))
          u(k) == part.to_global[k]
          g    == load.graph
      IN  /\ Describes(load.manifest, l)
          /\ g.fw.n = part.local_n /\ debug_validate(g.fw, NodesOf(l.edges))
          /\ g.bw.n = part.local_n /\ debug_validate(g.bw, NodesOf(l.edges))
          /\ \A k \in 0 .. part.local_n - 1 : /\ csr_range(g.fw, k) = Out(l.edges, u(k))
                                              /\ csr_range(g.bw, k) = Into(l.edges, u(k))

(***************************************************************************)
(* A reader that finds a whole manifest gets the graph, as the manifest is *)
(* written last and no other conversion touches the files any more; but    *)
(* not a graph without edges, which has no rows to map, nor a part that    *)
(* reaches past the number of edges (manifest.hpp:278).                    *)
(***************************************************************************)
LoadsIfComplete ==
  load.at = "aborted" =>
    \/ load.manifest.edge_count = 0
    \/ ~ reader.whole /\ reader_part(load.manifest.node_count).end > load.manifest.edge_count

\* What is read is right, and can be read once it is written.
StoredInv == LoadedRight /\ LoadsIfComplete

(***************************************************************************)
(* What load_graph_part_from_manifest asserts of a part of a graph that    *)
(* the converter has written (ASSERT_LE(part.end(), m), manifest.hpp:278). *)
(***************************************************************************)
EndsWithinEdges ==
  load.at = "mapping" /\ ~ reader.whole =>
    reader_part(load.manifest.node_count).end <= load.manifest.edge_count
=============================================================================
