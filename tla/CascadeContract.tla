--------------------------- MODULE CascadeContract ---------------------------
(***************************************************************************)
(* What removeNodeCascade promises, whatever the store is made of.         *)
(*                                                                         *)
(* A call owes its caller the documents it found when it began.  It        *)
(* deletes nothing but the node's own documents and, unless it was told to *)
(* preserve them, documents below it, and it reports no error only when    *)
(* all it owes is gone.  A document that goes releases everybody else from *)
(* what was below it, which nobody finds any more, and a document written  *)
(* again is a new one, which no earlier call owes.                         *)
(***************************************************************************)

CONSTANTS
    Docs,      \* documents
    Deleted,   \* the nodes that callers cascade-delete
    Own,       \* Own[n]: the node and its edges
    Lower      \* Lower[d]: the documents in the subgraphs below document d

VARIABLES
    stored,    \* the documents that exist
    status,    \* status[n]: where the removeNodeCascade of n has got to
    deep,      \* deep[n]: options.deleteSubcollections
    owed       \* owed[n]: what the call is to remove

vars == <<stored, status, deep, owed>>

Init ==
    /\ stored \subseteq Docs
    /\ status = [n \in Deleted |-> "idle"]
    /\ deep = [n \in Deleted |-> TRUE]
    /\ owed = [n \in Deleted |-> {}]

Mine(n, isDeep) == Own[n] \cup IF isDeep THEN Lower[n] ELSE {}

Write(d) ==
    /\ d \notin stored
    /\ stored' = stored \cup {d}
    /\ owed' = [x \in Deleted |-> owed[x] \ {d}]
    /\ UNCHANGED <<status, deep>>

\* Documents D go, at the hands of the calls for the nodes N.
Gone(D, N) ==
    /\ stored' = stored \ D
    /\ owed' = [x \in Deleted |->
                  IF x \in N THEN owed[x] ELSE owed[x] \ UNION {Lower[d] : d \in D \cap stored}]

Remove(d) ==
    /\ d \in stored
    /\ Gone({d}, {})
    /\ UNCHANGED <<status, deep>>

\* A call, or another one after errors: it owes the node's own documents and
\* what it finds below.
Call(n) ==
    /\ status[n] \in {"idle", "errors", "rejected"}
    /\ \E isDeep \in BOOLEAN, D \in SUBSET stored :
         /\ Own[n] \cap stored \subseteq D
         /\ D \subseteq Mine(n, isDeep)
         /\ deep' = [deep EXCEPT ![n] = isDeep]
         /\ owed' = [owed EXCEPT ![n] = D]
    /\ status' = [status EXCEPT ![n] = "running"]
    /\ UNCHANGED stored

\* The call deletes some of what it may, and goes on or comes to an end.
Work(n) ==
    /\ status[n] = "running"
    /\ \E D \in SUBSET Mine(n, deep[n]) : Gone(D, {n})
    /\ \E s \in {"running", "clean", "errors", "rejected"} :
         /\ status' = [status EXCEPT ![n] = s]
         /\ s = "clean" => owed[n] \cap stored' = {}
    /\ UNCHANGED deep

Next ==
    \/ \E d \in Docs : Write(d) \/ Remove(d)
    \/ \E n \in Deleted : Call(n) \/ Work(n)

Spec == Init /\ [][Next]_vars
=============================================================================
