----------------------------- MODULE DeepCascade -----------------------------
(***************************************************************************)
(* removeNodeCascade where every subgraph is a store of its own: Firestore *)
(* subcollections (src/bulk.ts) and Durable Objects (src/cloudflare).      *)
(* Both walk the subgraphs below a node depth first.  Firestore finds them *)
(* by listing and deletes documents in chunks, noting the chunks that fail *)
(* and going on; the Durable Object backend finds them through the         *)
(* registry's topology and the nodes it reads, wipes each object after the *)
(* ones below it, and rejects as soon as a call fails.                     *)
(*                                                                         *)
(* A document is a node or an edge; the recursion is a stack of frames.    *)
(***************************************************************************)
EXTENDS Naturals, Sequences, FiniteSets

CONSTANTS
    Nodes, Edges,  \* documents: nodes, and edges or whatever has no subgraphs
    Root,          \* the root graph
    Graphs,        \* the subgraphs
    Home,          \* Home[d]: the graph that holds document d
    Owner,         \* Owner[g]: the node that subgraph g belongs to
    Below,         \* Below[m]: the subgraphs of m, and those of nodes in them
    Touching,      \* Touching[n]: the edges of n, in n's graph
    Known,         \* subgraphs in the topology of the client's registry
    Deleted,       \* the nodes that callers cascade-delete
    Deep,          \* values of options.deleteSubcollections
    Backends,      \* "firestore", "objects", or both
    Initial,       \* sets of documents to begin with
    BatchSize,     \* documents per Firestore batch
    MaxFailures,   \* bound: calls and batches that fail
    MaxWrites      \* bound: other callers' writes

Docs == Nodes \cup Edges

ASSUME DocumentsAssumption ==
    /\ Nodes \cap Edges = {}
    /\ Root \notin Graphs
    /\ Home \in [Docs -> Graphs \cup {Root}]
    /\ Owner \in [Graphs -> Nodes]
    /\ Below \in [Nodes -> SUBSET Graphs]
    /\ \A m \in Nodes, g \in Graphs :
         g \in Below[m] <=> Owner[g] = m \/ Home[Owner[g]] \in Below[m]
    /\ \A m \in Nodes : Home[m] \notin Below[m]
    /\ Touching \in [Nodes -> SUBSET Edges]
    /\ \A m \in Nodes : \A e \in Touching[m] : Home[e] = Home[m]
\* Owners form a tree: what is below a node is one of its subgraphs or below
\* a node in one, whatever is below that is below the node, and of two nodes
\* with something below them in common one is below the other.
ASSUME TreeAssumption ==
    /\ \A m, p \in Nodes : Home[p] \in Below[m] => Below[p] \subseteq Below[m]
    /\ \A m \in Nodes : \A g \in Below[m] : \E h \in Graphs :
         /\ Owner[h] = m
         /\ g = h \/ \E p \in Nodes : Home[p] = h /\ g \in Below[p]
    /\ \A m, p \in Nodes : m # p /\ Below[m] \cap Below[p] # {} =>
         Home[m] \in Below[p] \/ Home[p] \in Below[m]
ASSUME OptionsAssumption ==
    /\ Known \subseteq Graphs
    /\ Deleted \subseteq Nodes
    /\ Deep \subseteq BOOLEAN
    /\ Backends \subseteq {"firestore", "objects"}
    /\ Initial \subseteq SUBSET Docs
    /\ BatchSize \in Nat \ {0}   \* no batch: the documents would never be cut up
    /\ MaxFailures \in Nat /\ MaxWrites \in Nat

VARIABLES
    backend,   \* where the graph is
    stored,    \* the documents that exist
    cascade,   \* the removeNodeCascade of each node
    due,       \* due[n]: what the running attempt is to remove
    promised,  \* promised[n]: what the first attempt was to remove
    failures, writes

vars == <<backend, stored, cascade, due, promised, failures, writes>>

Idle == [pc |-> "idle", deep |-> TRUE, stack |-> << >>, errors |-> FALSE, nodeKept |-> FALSE]

Init ==
    /\ backend \in Backends
    /\ stored \in Initial
    /\ cascade = [n \in Deleted |-> Idle]
    /\ due = [n \in Deleted |-> {}]
    /\ promised = [n \in Deleted |-> {}]
    /\ failures = 0
    /\ writes = 0

In(g) == {d \in stored : Home[d] = g}

(***************************************************************************)
(* Who owes what.  A cascade is to remove the node, its edges and all that *)
(* it can find below when it begins.  A node that somebody else deletes    *)
(* takes its subgraphs out of everybody else's reach, and a document that  *)
(* is written again is a new one.                                          *)
(***************************************************************************)

OnTheWay(n, g) == {m \in Nodes : Home[m] \in Below[n] /\ g \in Below[m]}

Findable(n, g) ==
    /\ g \in Below[n]
    /\ OnTheWay(n, g) \subseteq stored
    /\ backend = "objects" =>
         /\ n \in stored
         /\ {g} \cup {Home[m] : m \in OnTheWay(n, g)} \subseteq Known

Reach(n, deep) ==
    {d \in stored : \/ d = n \/ d \in Touching[n]
                    \/ deep /\ Findable(n, Home[d])}

\* Documents D go, by the hand of the cascades of N, or of another caller.
Beneath(D) == {d \in Docs : \E m \in D \cap Nodes : Home[d] \in Below[m]}
Delete(N, D) ==
    /\ stored' = stored \ D
    /\ due' = [x \in Deleted |-> IF x \in N THEN due[x] ELSE due[x] \ Beneath(D \cap stored)]
    /\ promised' = [x \in Deleted |-> IF x \in N THEN promised[x] ELSE promised[x] \ Beneath(D \cap stored)]

(***************************************************************************)
(* Other callers.                                                          *)
(***************************************************************************)

\* putNode and putEdge check nothing above them: a subgraph needs no node.
Put(d) ==
    /\ d \notin stored
    /\ writes < MaxWrites
    /\ writes' = writes + 1
    /\ stored' = stored \cup {d}
    /\ due' = [x \in Deleted |-> due[x] \ {d}]
    /\ promised' = [x \in Deleted |-> promised[x] \ {d}]
    /\ UNCHANGED <<backend, cascade, failures>>

\* removeNode and removeEdge leave the subgraphs alone.
Remove(d) ==
    /\ d \in stored
    /\ writes < MaxWrites
    /\ writes' = writes + 1
    /\ Delete({}, {d})
    /\ UNCHANGED <<backend, cascade, failures>>

(***************************************************************************)
(* The walk.                                                               *)
(***************************************************************************)

Goto(n, pc) == cascade' = [cascade EXCEPT ![n].pc = pc, ![n].stack = << >>]
Stack(n, s) == cascade' = [cascade EXCEPT ![n].stack = s]

Running(n) == cascade[n].pc = "running"
Top(n)     == Head(cascade[n].stack)
Outer(n)   == Tail(cascade[n].stack)
AtRoot(n)  == Len(cascade[n].stack) = 1

\* The stack with another frame at its top.
WithTop(n, f) == <<f>> \o Outer(n)

\* The frame of a graph: the documents to delete there, the ones whose
\* subgraphs are still to be visited, and the subgraphs of the one at hand.
Frame(g, ids, docs) == [graph |-> g, ids |-> ids, docs |-> docs, colls |-> {}]

\* Where the walk starts: at n, if subgraphs are to go and n is there to be
\* found.  Firestore lists the collections below n even if n is gone.
\* Mutant: deleteSubcollections: false is not looked at.
WalksAlways(n, deep) == IF backend = "firestore" \/ n \in stored THEN {n} ELSE {}
Walk(n, deep) == IF deep /\ (backend = "firestore" \/ n \in stored) THEN {n} ELSE {}

\* Firestore reads the edges first, and deletes the node's own document
\* whether it exists or not.
OwnIds(n) == IF backend = "firestore" THEN {n} \cup (Touching[n] \cap stored) ELSE {}

Begin(n, deep) ==
    /\ cascade' = [cascade EXCEPT ![n] =
                     [Idle EXCEPT !.pc = "running", !.deep = deep,
                                  !.stack = << Frame(Home[n], OwnIds(n), Walk(n, deep)) >>]]
    /\ due' = [due EXCEPT ![n] = Reach(n, deep)]

First(n) ==
    /\ cascade[n].pc = "idle"
    /\ \E deep \in Deep :
         /\ Begin(n, deep)
         /\ promised' = [promised EXCEPT ![n] = Reach(n, deep)]
    /\ UNCHANGED <<backend, stored, failures, writes>>

\* The caller saw errors or a rejection, and calls again.
Retry(n) ==
    /\ cascade[n].pc \in {"errors", "rejected"}
    /\ Begin(n, cascade[n].deep)
    /\ UNCHANGED <<backend, stored, promised, failures, writes>>

\* listCollections(), or the entries of getSubgraphTopology.
Subgraphs(m) ==
    {g \in Graphs : /\ Owner[g] = m
                    /\ IF backend = "firestore" THEN In(g) # {} ELSE g \in Known}

List(n) ==
    /\ Running(n)
    /\ Top(n).colls = {}
    /\ \E m \in Top(n).docs :
         Stack(n, WithTop(n, [Top(n) EXCEPT !.docs = @ \ {m}, !.colls = Subgraphs(m)]))
    /\ UNCHANGED <<backend, stored, due, promised, failures, writes>>

\* The documents of a subcollection, or the nodes of an object, are read.
Ids(g) == IF backend = "firestore" THEN In(g) ELSE {}

\* Mutant: the query forgets its condition axbType = "is".
ParentsAndEdges(g) == In(g)
Parents(g) == In(g) \cap Nodes

Enter(n, g) ==
    Stack(n, << Frame(g, Ids(g), Parents(g)) >> \o WithTop(n, [Top(n) EXCEPT !.colls = @ \ {g}]))

\* Mutant: an object is wiped as it is entered, before the ones below it.
DescendWiping(n) ==
    /\ Running(n)
    /\ \E g \in Top(n).colls :
         /\ Enter(n, g)
         /\ Delete({n}, IF backend = "objects" THEN In(g) ELSE {})
    /\ UNCHANGED <<backend, failures, writes>>
Descend(n) ==
    /\ Running(n)
    /\ \E g \in Top(n).colls : Enter(n, g)
    /\ UNCHANGED <<backend, stored, due, promised, failures, writes>>

\* A call that only reads fails: listCollections, a snapshot, a query.
ReadFails(n) ==
    /\ Running(n)
    /\ Top(n).colls \cup Top(n).docs # {}
    /\ failures < MaxFailures
    /\ failures' = failures + 1
    /\ Goto(n, "rejected")
    /\ UNCHANGED <<backend, stored, due, promised, writes>>

\* Everything below the graph of the top frame has been seen to.
Visited(n) == Running(n) /\ Top(n).colls = {} /\ Top(n).docs = {}

(***************************************************************************)
(* Firestore: chunks of documents.                                         *)
(***************************************************************************)

\* The next chunk: the node itself comes last in its own graph.
Chunk(n, C) ==
    /\ C \subseteq Top(n).ids
    /\ C # {}
    /\ C # Top(n).ids => Cardinality(C) = BatchSize
    /\ Cardinality(C) <= BatchSize
    /\ AtRoot(n) /\ n \in C => C = Top(n).ids

\* Mutant: the loop over the chunks does not advance, as with a batchSize of 0.
CutsNothing(n, C) == cascade[n].stack
CutChunk(n, C) == WithTop(n, [Top(n) EXCEPT !.ids = @ \ C])

Commit(n) ==
    /\ backend = "firestore"
    /\ Visited(n)
    /\ \E C \in SUBSET Top(n).ids :
         /\ Chunk(n, C)
         /\ Delete({n}, C)
         /\ Stack(n, CutChunk(n, C))
    /\ UNCHANGED <<backend, failures, writes>>

\* Whether a failed chunk C is the one with the node's document: the last.
\* Mutant: the index is one too small.
KeepsNodeOffByOne(n, C) == AtRoot(n) /\ C # Top(n).ids
KeepsNode(n, C) == AtRoot(n) /\ n \in C

\* No attempt was acknowledged; the last one may have had its effect.
ChunkFails(n) ==
    /\ backend = "firestore"
    /\ Visited(n)
    /\ failures < MaxFailures
    /\ failures' = failures + 1
    /\ \E C \in SUBSET Top(n).ids :
         /\ Chunk(n, C)
         /\ Delete({n}, C) \/ UNCHANGED <<stored, due, promised>>
         /\ cascade' = [cascade EXCEPT ![n].stack    = CutChunk(n, C),
                                       ![n].errors   = TRUE,
                                       ![n].nodeKept = KeepsNode(n, C)]
    /\ UNCHANGED <<backend, writes>>

Ascend(n) ==
    /\ backend = "firestore"
    /\ Visited(n)
    /\ Top(n).ids = {}
    /\ ~AtRoot(n)
    /\ Stack(n, Outer(n))
    /\ UNCHANGED <<backend, stored, due, promised, failures, writes>>

\* Mutant: the errors of subcollections are not merged into the result.
VerdictOfNode(n) == IF cascade[n].nodeKept THEN "errors" ELSE "clean"
Verdict(n) == IF cascade[n].errors THEN "errors" ELSE "clean"

Resolve(n) ==
    /\ backend = "firestore"
    /\ Visited(n)
    /\ Top(n).ids = {}
    /\ AtRoot(n)
    /\ Goto(n, Verdict(n))
    /\ UNCHANGED <<backend, stored, due, promised, failures, writes>>

(***************************************************************************)
(* Durable Objects: one call wipes an object, one deletes the node.        *)
(***************************************************************************)

\* _fgDestroy: whatever is in the object by now.
Destroy(n) ==
    /\ backend = "objects"
    /\ Visited(n)
    /\ ~AtRoot(n)
    /\ Delete({n}, In(Top(n).graph))
    /\ Stack(n, Outer(n))
    /\ UNCHANGED <<backend, failures, writes>>

\* _fgRemoveNodeCascade: the node and its edges in one transaction.
RemoveLocally(n) ==
    /\ backend = "objects"
    /\ Visited(n)
    /\ AtRoot(n)
    /\ Delete({n}, {n} \cup Touching[n])
    /\ Goto(n, "clean")
    /\ UNCHANGED <<backend, failures, writes>>

\* ... which reports a transaction that failed instead of rejecting.
LocalError(n) ==
    /\ backend = "objects"
    /\ Visited(n)
    /\ AtRoot(n)
    /\ failures < MaxFailures
    /\ failures' = failures + 1
    /\ cascade' = [cascade EXCEPT ![n].pc = "errors", ![n].stack = << >>,
                                  ![n].errors = TRUE, ![n].nodeKept = TRUE]
    /\ UNCHANGED <<backend, stored, due, promised, writes>>

\* The call is lost, or its answer is.
CallFails(n) ==
    /\ backend = "objects"
    /\ Visited(n)
    /\ failures < MaxFailures
    /\ failures' = failures + 1
    /\ \/ Delete({n}, IF AtRoot(n) THEN {n} \cup Touching[n] ELSE In(Top(n).graph))
       \/ UNCHANGED <<stored, due, promised>>
    /\ Goto(n, "rejected")
    /\ UNCHANGED <<backend, writes>>

(***************************************************************************)

Proceed(n) ==
    \/ List(n) \/ Descend(n)
    \/ Commit(n) \/ Ascend(n) \/ Resolve(n)
    \/ Destroy(n) \/ RemoveLocally(n)

Next ==
    \/ \E d \in Docs : Put(d) \/ Remove(d)
    \/ \E n \in Deleted :
         \/ First(n) \/ Retry(n) \/ Proceed(n)
         \/ ReadFails(n) \/ ChunkFails(n) \/ LocalError(n) \/ CallFails(n)

Spec == Init /\ [][Next]_vars

\* A cascade that was begun is carried on, and tried again until it is clean.
FairSpec == Spec /\ \A n \in Deleted : WF_vars(Proceed(n) \/ Retry(n))

(***************************************************************************)
(* Properties.                                                             *)
(***************************************************************************)

Frames == [graph : Graphs \cup {Root}, ids : SUBSET Docs, docs : SUBSET Nodes, colls : SUBSET Graphs]

Cascades == [pc : {"idle", "running", "clean", "errors", "rejected"}, deep : BOOLEAN,
             stack : Seq(Frames), errors : BOOLEAN, nodeKept : BOOLEAN]

TypeOK ==
    /\ backend \in Backends
    /\ stored \subseteq Docs
    /\ cascade \in [Deleted -> Cascades]
    /\ due \in [Deleted -> SUBSET Docs]
    /\ promised \in [Deleted -> SUBSET Docs]
    /\ failures \in 0..MaxFailures
    /\ writes \in 0..MaxWrites

\* A cascade that resolves without errors has removed the node, its edges and
\* every document it could find below when the call was made, whoever writes
\* and whatever other cascades run meanwhile.
CleanRemovesAll ==
    \A n \in Deleted : cascade[n].pc = "clean" => due[n] \cap stored = {}

\* nodeDeleted: the chunk with the node's document did not fail.
NodeDeletedIsTrue ==
    \A n \in Deleted :
      cascade[n].pc \in {"clean", "errors"} /\ ~cascade[n].nodeKept => n \notin due[n] \cap stored

\* An object is wiped after the ones below it, "so that a partial failure
\* leaves the caller's reader able to discover what's still present": wherever
\* a cascade over objects is interrupted, what is left of the hierarchy is in
\* reach of the next call, and a clean one has left nothing.
InterruptedStaysReachable ==
    backend = "objects" => \A n \in Deleted :
      promised[n] \cap stored \subseteq
        IF cascade[n].pc = "clean" THEN {} ELSE Reach(n, cascade[n].deep)

\* A cascade that reports no error removed all that was there below its node
\* when it began, and one that was interrupted between Durable Objects leaves
\* what is left in reach of the next call.
CascadesAreHonest == TypeOK /\ CleanRemovesAll /\ InterruptedStaysReachable

\* A call deletes nothing but the node, its edges and, unless it was told to
\* preserve them, documents in graphs below it.
OthersAreKept ==
    [][\A d \in stored \ stored' :
         \/ writes' > writes
         \/ \E n \in Deleted :
              /\ cascade[n].pc = "running" /\ cascade[n] # cascade'[n]
              /\ \/ d \in {n} \cup Touching[n]
                 \/ cascade[n].deep /\ Home[d] \in Below[n]]_vars

\* The cascade keeps the contract of removeNodeCascade: whatever the chunks,
\* objects, failures, other writers and other cascades, it deletes what it may
\* and reports no error only when what it found at the beginning is gone.
Contract ==
    INSTANCE CascadeContract WITH
      Own     <- [n \in Deleted |-> {n} \cup Touching[n]],
      Lower   <- [d \in Docs |-> Beneath({d})],
      status  <- [n \in Deleted |-> cascade[n].pc],
      deep    <- [n \in Deleted |-> cascade[n].deep],
      owed    <- due

KeepsContract == Contract!Spec

\* "Retry failed batches": once a cascade is clean, be it after retries, what
\* its first call was to remove is gone.
RetriesRemoveAll ==
    \A n \in Deleted : cascade[n].pc = "clean" => promised[n] \cap stored = {}

\* A cascade that its caller retries ends clean.
CascadesFinish ==
    \A n \in Deleted : cascade[n].pc = "running" ~> cascade[n].pc = "clean"

=============================================================================
