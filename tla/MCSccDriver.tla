---------------------------- MODULE MCSccDriver ----------------------------
(* SccDriver on all digraphs over three vertices, with vertex 0 on rank 0; *)
(* a self-loop on all vertices or on none, or on vertex 0 only.            *)
EXTENDS SccDriver

MCVertices == 0 .. 2
MCRanks == 0 .. 1

Loops == {{}, {<<0, 0>>}, {<<v, v>> : v \in Vertices}}
NoLoops == {E \in Graphs : \A v \in Vertices : <<v, v>> \notin E}

MCInputs ==
  [edges : {E \cup L : E \in NoLoops, L \in Loops},
   owner : {o \in [Vertices -> Ranks] : o[0] = 0},
   driver : DOMAIN Drivers]
=============================================================================
