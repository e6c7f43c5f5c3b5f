--------------------------- MODULE MCSqliteGraphs ---------------------------
(* Small instances of SqliteGraphs: a root graph with node n, a subgraph s  *)
(* of n holding node m, and a subgraph t of m.                              *)
EXTENDS SqliteGraphs

CONSTANTS root, s, t, n, m, e, h1, h2

MCGraphs == {root, s, t}
MCRank   == [g \in MCGraphs |-> CASE g = root -> 0 [] g = s -> 1 [] g = t -> 2]
MCHome   == [x \in Nodes |-> IF x = n THEN root ELSE s]
MCBelow  == [x \in Nodes |-> IF x = n THEN {s, t} ELSE {t}]
MCEdges  == [x \in Nodes |-> IF x = n THEN {e} ELSE {}]

\* Writers of the subgraph and of the graph nested in it.
MCOpens  == [h \in Handles |-> IF h = h1 THEN s ELSE t]
=============================================================================
