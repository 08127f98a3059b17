---------------------------- MODULE MCGraphInput ----------------------------
(* GraphInput on three and four vertices, and on short lists of edges.     *)
EXTENDS GraphInput

\* Rows without, with ascending, with descending and with equal neighbours.
RowsOf == {(0 :> a) @@ (1 :> b) @@ (2 :> c) :
             a \in {<<>>, <<1>>, <<2, 0>>}, b \in {<<>>, <<2>>, <<0, 0>>},
             c \in {<<>>, <<0>>, <<1, 0>>}}

\* Four vertices, on which components of two lie between each other.
FourRows == {(0 :> a) @@ (1 :> b) @@ (2 :> c) @@ (3 :> d) :
               a \in {<<2>>, <<3, 2>>}, b \in {<<>>, <<3, 3>>}, c \in {<<0>>, <<1, 0>>},
               d \in {<<1, 1>>}}

SccsOf(rows) ==
  LET V == DOMAIN rows
      E == UNION {{<<u, v>> : v \in Range(rows[u])} : u \in V}
  IN  {Of(V)!SCC(E, u) : u \in V}

Slices(ends) == [q \in 0 .. Len(ends) - 1 |-> ends[q + 1]]

Build(source, ends, rows, use, wanted) ==
  [ws |-> Len(ends), n |-> Cardinality(DOMAIN rows), rows |-> rows, ends |-> Slices(ends),
   source |-> source, use |-> use, wanted |-> wanted]

\* The ranks of a generator have vertices, and one an edge if there are several;
\* some of a partition have none, but then not rank 0 for the whole graph.
Sources == {<<"kagen", <<3>>>>, <<"kagen", <<1, 3>>>>, <<"kagen", <<2, 3>>>>,
            <<"kagen", <<1, 2, 3>>>>, <<"partition", <<3>>>>, <<"partition", <<2, 3>>>>,
            <<"partition", <<1, 1, 3>>>>, <<"partition", <<0, 3>>>>}

NoEdges == [u \in 0 .. 2 |-> <<>>]

BuildSet ==
  {Build(s[1], s[2], rows, "whole", {}) :
     s \in {t \in Sources : t[2][1] > 0}, rows \in RowsOf \ {NoEdges}}
  \cup {Build(s[1], s[2], rows, "sub", w) : s \in Sources, rows \in RowsOf \ {NoEdges},
                                            w \in {{2}, {0, 2}, {1, 2}}}
  \cup {b \in {Build(s[1], s[2], rows, "residual", w) :
                 s \in Sources, rows \in RowsOf \ {NoEdges},
                 w \in {{}, {1}, {2}, {0, 2}, {1, 2}, {0, 1, 2}}} :
          b.wanted = UNION {c \in SccsOf(b.rows) : c \subseteq b.wanted}}
  \cup {b \in {Build(s[1], s[2], rows, "residual", w) :
                 s \in {<<"kagen", <<1, 4>>>>, <<"kagen", <<1, 3, 4>>>>,
                        <<"partition", <<2, 2, 4>>>>},
                 rows \in FourRows, w \in {{0, 2}, {1, 3}, 0 .. 3}} :
          b.wanted = UNION {c \in SccsOf(b.rows) : c \subseteq b.wanted}}
  \cup {Build("kagen", <<1, 3, 4>>, rows, use, {1, 2}) : rows \in FourRows, use \in {"whole", "sub"}}
  \cup {Build("partition", ends, NoEdges, "whole", {}) : ends \in {<<3>>, <<1, 3>>}}
  \cup {Build("kagen", <<3>>, NoEdges, "residual", 0 .. 2)}
  \cup {Build("kagen", <<0, 0>>, [u \in {} |-> <<>>], "residual", {})}

\* Nothing; loops and edges twice; more edges than vertices and fewer.
EdgeLists == {<<>>, <<<<0, 0>>>>, <<<<1, 0>>, <<0, 1>>, <<1, 0>>>>,
              <<<<3, 0>>, <<1, 3>>, <<3, 0>>, <<2, 2>>>>, <<<<2, 1>>, <<0, 2>>>>}

ListSet == {[edges |-> E, native |-> o] : E \in EdgeLists, o \in {"little", "big"}}

ReaderSet ==
  {[native |-> o, whole |-> TRUE] : o \in {"little", "big"}}
  \cup {[native |-> o, whole |-> FALSE, ws |-> 2, r |-> r] : o \in {"little", "big"}, r \in 0 .. 1}

MCBuilds  == BuildSet
MCLists   == ListSet
MCReaders == ReaderSet

\* A generator that makes no edge, on two ranks.
EdgelessBuilds == {Build("kagen", <<2, 3>>, NoEdges, "whole", {})}

\* Rank 0 has no vertex.
EmptyRankBuilds == {Build("partition", <<0, 3>>, (0 :> <<1>>) @@ (1 :> <<2>>) @@ (2 :> <<0>>),
                          "whole", {})}

\* Any one, where only the files are of interest.
OneBuild == {Build("kagen", <<3>>, NoEdges, "residual", {})}
=============================================================================
