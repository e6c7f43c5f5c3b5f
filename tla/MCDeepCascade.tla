---------------------------- MODULE MCDeepCascade ----------------------------
(***************************************************************************)
(* A node n with an edge e in the root graph; below it the graph s with    *)
(* node m and edge x, and u, which the registry does not know; below m the *)
(* graph t with node k and edge y.  n and m are both cascade-deleted.      *)
(***************************************************************************)
EXTENDS DeepCascade

CONSTANTS n, m, k, e, x, y, z, root, s, t, u

MCHome == [d \in Docs |-> CASE d \in {n, e} -> root
                           [] d \in {m, x} -> s
                           [] d \in {k, y} -> t
                           [] d = z -> u]
MCOwner    == [g \in Graphs |-> IF g = t THEN m ELSE n]
MCBelow    == [d \in Nodes |-> CASE d = n -> Graphs [] d = m -> {t} [] d = k -> {}]
MCTouching == [d \in Nodes |-> CASE d = n -> {e} [] d = m -> {x} [] d = k -> {y}]

\* All documents; or m was removed before and left its graph behind.
MCInitial  == {Docs, Docs \ {m}}
=============================================================================
