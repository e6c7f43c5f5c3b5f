---------------------------- MODULE SqliteGraphs ----------------------------
(***************************************************************************)
(* The life of graph tables in one SQLite database: sqlite/backend.ts and   *)
(* sqlite/catalog.ts.  Every graph has a table and a row in the catalog.    *)
(* A handle creates both when it is first used and remembers that it did;   *)
(* removeNodeCascade finds the graphs below a node in the catalog, drops    *)
(* their tables and deletes their catalog rows, under the feet of the       *)
(* handles that are still open.                                             *)
(*                                                                          *)
(* A driver that caps batches (D1), or a caller's batchSize, cuts a         *)
(* cascade into chunks that commit or fail one by one.                      *)
(***************************************************************************)
EXTENDS Naturals, FiniteSets

CONSTANTS
  Graphs,       \* the storage scopes of this database
  Nodes,        \* the nodes that callers cascade-delete
  Home,         \* Home[n]: the graph that holds n
  Below,        \* Below[n]: the graphs whose scope starts with n's
  Rank,         \* Rank[g]: position of g's scope in ORDER BY storage_scope
  Edges,        \* Edges[n]: ids of the edges that touch n, stored in Home[n]
  Handles,      \* backend instances in use by writers
  Opens,        \* Opens[h]: the graph h was derived for
  Kinds,        \* the writes issued: "single" (setDoc) and "batch" (commit)
  BatchSize,    \* statements per chunk of a cascade, 0 without any cap
  SplitSchema,  \* whether the driver's cap splits the bootstrap as well
  MaxOps,       \* bound: writes per handle
  MaxCascades,  \* bound: cascades begun per node, retries not counted
  MaxFailures   \* bound: driver failures

ASSUME GraphsAssumption ==
  /\ Home \in [Nodes -> Graphs]
  /\ Below \in [Nodes -> SUBSET Graphs]
  /\ \A n \in Nodes : Home[n] \notin Below[n]
  /\ Rank \in [Graphs -> Nat]
  /\ Opens \in [Handles -> Graphs]
  /\ Kinds \subseteq {"single", "batch"}
  /\ BatchSize \in Nat
  /\ SplitSchema \in BOOLEAN
  /\ MaxOps \in Nat
  /\ MaxCascades \in Nat
  /\ MaxFailures \in Nat

VARIABLES
  tables,    \* the graphs whose table exists
  rows,      \* rows[g]: the rows of g's table, {} while there is none
  catalog,   \* the graphs with a catalog row
  ensured,   \* ensured[h]: h has cached a finished schema bootstrap
  op,        \* op[h]: the write h is executing
  ops,       \* ops[h]: writes h has begun
  cascade,   \* cascade[n]: the removeNodeCascade of n
  failures   \* driver failures so far

schema == <<tables, rows, catalog>>
vars   == <<tables, rows, catalog, ensured, op, ops, cascade, failures>>

\* Rows: the node documents, their edges, and one row per write of a handle.
NodeRow(n)    == [of |-> "node", id |-> n, nth |-> 0]
EdgeRow(e)    == [of |-> "edge", id |-> e, nth |-> 0]
WrittenRow(h) == [of |-> "write", id |-> h, nth |-> ops[h]]
NoRow         == [of |-> "none", id |-> 0, nth |-> 0]

EdgeRows(n) == { EdgeRow(e) : e \in Edges[n] }

Row == [of  : {"node", "edge", "write", "none"},
        id  : {0} \cup Nodes \cup Handles \cup UNION { Edges[n] : n \in Nodes },
        nth : 0..MaxOps]

\* What is where: pairs of a graph and a row in its table.
Stored == { p \in Graphs \X Row : p[2] \in rows[p[1]] }

-----------------------------------------------------------------------------
(* A write through a handle.                                                *)

\* Mutant: a derived handle keeps its parent's table.
RootTable(h) == CHOOSE g \in Graphs : \A x \in Graphs : Rank[g] <= Rank[x]

\* subgraph() derives the table from the storage scope.
Table(h) == Opens[h]

Idle == [pc |-> "idle", kind |-> "single", retried |-> FALSE]

\* ensureSchema comes first; a cached bootstrap is not repeated.
Begin(h, kind) ==
  /\ op[h].pc \in {"idle", "missing"}
  /\ ops[h] < MaxOps
  /\ ops' = [ops EXCEPT ![h] = @ + 1]
  /\ op' = [op EXCEPT ![h] = [pc      |-> IF ensured[h] THEN "run" ELSE "ensure",
                              kind    |-> kind,
                              retried |-> FALSE]]
  /\ UNCHANGED <<schema, ensured, cascade, failures>>

Goto(h, pc) == op' = [op EXCEPT ![h].pc = pc]

\* Mutant: the bootstrap forgets to register the graph.
OnlyCreates(g) == tables' = tables \cup {g} /\ UNCHANGED catalog

\* CREATE TABLE IF NOT EXISTS and INSERT OR IGNORE in one atomic batch.
Bootstraps(g) == tables' = tables \cup {g} /\ catalog' = catalog \cup {g}

Bootstrap(h) ==
  /\ op[h].pc = "ensure"
  /\ ~SplitSchema
  /\ Bootstraps(Table(h))
  /\ ensured' = [ensured EXCEPT ![h] = TRUE]
  /\ Goto(h, "run")
  /\ UNCHANGED <<rows, ops, cascade, failures>>

\* ... or in two: the catalog row comes in the last chunk.
CreateTable(h) ==
  /\ op[h].pc = "ensure"
  /\ SplitSchema
  /\ tables' = tables \cup {Table(h)}
  /\ Goto(h, "register")
  /\ UNCHANGED <<rows, catalog, ensured, ops, cascade, failures>>

Register(h) ==
  /\ op[h].pc = "register"
  /\ catalog' = catalog \cup {Table(h)}
  /\ ensured' = [ensured EXCEPT ![h] = TRUE]
  /\ Goto(h, "run")
  /\ UNCHANGED <<tables, rows, ops, cascade, failures>>

\* A failed bootstrap is not cached; the write throws.
BootstrapFails(h) ==
  /\ op[h].pc \in {"ensure", "register"}
  /\ failures < MaxFailures
  /\ failures' = failures + 1
  /\ Goto(h, "idle")
  /\ UNCHANGED <<schema, ensured, ops, cascade>>

Run(h) ==
  /\ op[h].pc = "run"
  /\ Table(h) \in tables
  /\ rows' = [rows EXCEPT ![Table(h)] = @ \cup {WrittenRow(h)}]
  /\ Goto(h, "idle")
  /\ UNCHANGED <<tables, catalog, ensured, ops, cascade, failures>>

\* Mutant: nothing heals.
NeverHeals(h) == FALSE

\* withSchema wraps the single operations, not BatchBackend.commit.
Heals(h) == op[h].kind = "single" /\ ~op[h].retried

\* "no such table": the cached bootstrap is dropped and the write runs again.
Heal(h) ==
  /\ op[h].pc = "run"
  /\ Table(h) \notin tables
  /\ Heals(h)
  /\ ensured' = [ensured EXCEPT ![h] = FALSE]
  /\ op' = [op EXCEPT ![h] = [@ EXCEPT !.pc = "ensure", !.retried = TRUE]]
  /\ UNCHANGED <<schema, ops, cascade, failures>>

\* "no such table" reaches the caller.
Miss(h) ==
  /\ op[h].pc = "run"
  /\ Table(h) \notin tables
  /\ ~Heals(h)
  /\ Goto(h, "missing")
  /\ UNCHANGED <<schema, ensured, ops, cascade, failures>>

Write(h) ==
  \/ \E kind \in Kinds : Begin(h, kind)
  \/ Bootstrap(h) \/ CreateTable(h) \/ Register(h) \/ BootstrapFails(h)
  \/ Run(h) \/ Heal(h) \/ Miss(h)

-----------------------------------------------------------------------------
(* removeNodeCascade.                                                       *)

Resting == [pc |-> "idle", edges |-> {}, found |-> {}, left |-> {},
            todo |-> {}, old |-> {}, failed |-> FALSE, begun |-> 0]

\* What the cascade of n is to remove, as of now.
Doomed(n) ==
  { p \in Stored : \/ p[1] = Home[n] /\ p[2] \in {NodeRow(n)} \cup EdgeRows(n)
                   \/ p[1] \in Below[n] }

\* The edges are read through the reader, which heals a missing home table.
Start(n, nth) ==
  /\ Bootstraps(Home[n])
  /\ cascade' = [cascade EXCEPT ![n] =
                   [Resting EXCEPT !.pc    = "list",
                                   !.edges = EdgeRows(n) \cap rows[Home[n]],
                                   !.old   = Doomed(n),
                                   !.begun = nth]]
  /\ UNCHANGED <<rows, ensured, op, ops, failures>>

First(n) ==
  /\ cascade[n].pc \in {"idle", "done"}
  /\ cascade[n].begun < MaxCascades
  /\ Start(n, cascade[n].begun + 1)

\* The same caller tries again after a partial failure or a rejection.
Retry(n) ==
  /\ cascade[n].pc \in {"partial", "rejected"}
  /\ Start(n, cascade[n].begun)

\* Mutant: the prefix matches only the graphs of the first one's level.
ListsOne(n) == { g \in Below[n] \cap catalog :
                   \A x \in Below[n] \cap catalog : Rank[g] <= Rank[x] }

\* compileCatalogDescendants.
Descendants(n) == Below[n] \cap catalog

List(n) ==
  /\ cascade[n].pc = "list"
  /\ cascade' = [cascade EXCEPT ![n] = [@ EXCEPT !.pc    = "count",
                                                 !.found = Descendants(n),
                                                 !.left  = Descendants(n)]]
  /\ UNCHANGED <<schema, ensured, op, ops, failures>>

CountsNext(n, g) ==
  /\ cascade[n].pc = "count"
  /\ g \in cascade[n].left
  /\ \A x \in cascade[n].left : Rank[g] <= Rank[x]

\* SELECT COUNT(*) on each table in turn.
Count(n) ==
  \E g \in tables :
    /\ CountsNext(n, g)
    /\ cascade' = [cascade EXCEPT ![n].left = @ \ {g}]
    /\ UNCHANGED <<schema, ensured, op, ops, failures>>

\* A table that is gone by now rejects the cascade before it wrote anything.
CountMisses(n) ==
  \E g \in Graphs \ tables :
    /\ CountsNext(n, g)
    /\ cascade' = [cascade EXCEPT ![n].pc = "rejected"]
    /\ UNCHANGED <<schema, ensured, op, ops, failures>>

\* The statements in order: edges, node, then DROP and catalog row per graph.
Statements(n) ==
  { [kind |-> "delete", graph |-> Home[n], row |-> r] :
      r \in cascade[n].edges \cup {NodeRow(n)} }
  \cup { [kind |-> k, graph |-> g, row |-> NoRow] :
           k \in {"drop", "unlist"}, g \in cascade[n].found }

Position(s) ==
  CASE s.kind = "delete" /\ s.row.of = "edge" -> 0
    [] s.kind = "delete" /\ s.row.of # "edge" -> 1
    [] s.kind = "drop"   -> 2 + 2 * Rank[s.graph]
    [] s.kind = "unlist" -> 3 + 2 * Rank[s.graph]

Build(n) ==
  /\ cascade[n].pc = "count"
  /\ cascade[n].left = {}
  /\ cascade' = [cascade EXCEPT ![n] = [@ EXCEPT !.pc   = "write",
                                                 !.todo = Statements(n)]]
  /\ UNCHANGED <<schema, ensured, op, ops, failures>>

\* chunkStatements: the next statements, as many as fit.
Chunk(C, todo) ==
  /\ C # {}
  /\ \A s \in C, t \in todo \ C : Position(s) <= Position(t)
  /\ IF BatchSize = 0
       THEN C = todo
       ELSE \/ Cardinality(C) = BatchSize
            \/ C = todo /\ Cardinality(C) < BatchSize

Of(C, kind) == { s.graph : s \in { x \in C : x.kind = kind } }
Deleted(C, g) == { s.row : s \in { x \in C : x.kind = "delete" /\ x.graph = g } }

\* Mutant: the tables of a chunk go, its catalog rows stay.
KeepsCatalog(C) ==
  /\ tables' = tables \ Of(C, "drop")
  /\ rows' = [g \in Graphs |-> IF g \in Of(C, "drop") THEN {}
                               ELSE rows[g] \ Deleted(C, g)]
  /\ UNCHANGED catalog

\* One executor.batch of the statements in C.
Applies(C) ==
  /\ tables' = tables \ Of(C, "drop")
  /\ rows' = [g \in Graphs |-> IF g \in Of(C, "drop") THEN {}
                               ELSE rows[g] \ Deleted(C, g)]
  /\ catalog' = catalog \ Of(C, "unlist")

Commit(n) ==
  /\ cascade[n].pc = "write"
  /\ \E C \in SUBSET cascade[n].todo :
       /\ Chunk(C, cascade[n].todo)
       /\ Of(C, "delete") \subseteq tables
       /\ Applies(C)
       /\ cascade' = [cascade EXCEPT ![n].todo = @ \ C]
  /\ UNCHANGED <<ensured, op, ops, failures>>

\* A chunk that fails every attempt is recorded, and the loop goes on: the
\* driver failed, or the table to delete from is gone.
Skip(n) ==
  /\ cascade[n].pc = "write"
  /\ \E C \in SUBSET cascade[n].todo :
       /\ Chunk(C, cascade[n].todo)
       /\ \/ failures < MaxFailures /\ failures' = failures + 1
          \/ ~(Of(C, "delete") \subseteq tables) /\ UNCHANGED failures
       /\ cascade' = [cascade EXCEPT ![n].todo = @ \ C, ![n].failed = TRUE]
  /\ UNCHANGED <<schema, ensured, op, ops>>

\* Mutant: a failed chunk is forgotten.
AlwaysDone(n) == "done"

\* nodeDeleted is claimed only when every chunk was committed.
Verdict(n) == IF cascade[n].failed THEN "partial" ELSE "done"

Finish(n) ==
  /\ cascade[n].pc = "write"
  /\ cascade[n].todo = {}
  /\ cascade' = [cascade EXCEPT ![n].pc = Verdict(n)]
  /\ UNCHANGED <<schema, ensured, op, ops, failures>>

\* The steps of a cascade that is under way, driver failures aside.
Proceed(n) == List(n) \/ Count(n) \/ CountMisses(n) \/ Build(n) \/ Commit(n) \/ Finish(n)

Cascade(n) == First(n) \/ Retry(n) \/ Proceed(n) \/ Skip(n)

-----------------------------------------------------------------------------

\* Every graph has been used before; handles are fresh or have been used.
Init ==
  /\ tables = Graphs
  /\ catalog = Graphs
  /\ rows = [g \in Graphs |->
               UNION { {NodeRow(n)} \cup EdgeRows(n) : n \in { x \in Nodes : Home[x] = g } }]
  /\ ensured \in [Handles -> BOOLEAN]
  /\ op = [h \in Handles |-> Idle]
  /\ ops = [h \in Handles |-> 0]
  /\ cascade = [n \in Nodes |-> Resting]
  /\ failures = 0

Next == (\E h \in Handles : Write(h)) \/ (\E n \in Nodes : Cascade(n))

Spec == Init /\ [][Next]_vars

\* A caller sees its cascade through, and tries again when it failed.
CascadesProceed ==
  \A n \in Nodes : WF_vars(Proceed(n)) /\ WF_vars(Retry(n))
                     /\ WF_vars(Skip(n) /\ UNCHANGED failures)

FairSpec == Spec /\ CascadesProceed

-----------------------------------------------------------------------------
(* Properties.                                                              *)

Statement == [kind : {"delete", "drop", "unlist"}, graph : Graphs, row : Row]

\* Every state is well-typed; and a row written through a handle lies in the
\* table of the graph that the handle was derived for.
TypeOK ==
  /\ tables \subseteq Graphs
  /\ catalog \subseteq Graphs
  /\ rows \in [Graphs -> SUBSET Row]
  /\ \A p \in Stored : p[2].of = "write" => Opens[p[2].id] = p[1]
  /\ ensured \in [Handles -> BOOLEAN]
  /\ op \in [Handles -> [pc      : {"idle", "ensure", "register", "run", "missing"},
                         kind    : {"single", "batch"},
                         retried : BOOLEAN]]
  /\ ops \in [Handles -> 0..MaxOps]
  /\ cascade \in [Nodes -> [pc     : {"idle", "list", "count", "write",
                                      "done", "partial", "rejected"},
                            edges  : SUBSET Row,
                            found  : SUBSET Graphs,
                            left   : SUBSET Graphs,
                            todo   : SUBSET Statement,
                            old    : SUBSET (Graphs \X Row),
                            failed : BOOLEAN,
                            begun  : 0..MaxCascades]]
  /\ failures \in 0..MaxFailures

\* The catalog lists exactly the graphs that have a table: what a cascade
\* finds there is all there is, and all of it is there.
TablesAreListed == tables = catalog

\* A cascade that reports success has removed every row that was below the
\* node, and the node and its edges, when it started.
CascadeRemovesAll ==
  \A n \in Nodes : cascade[n].pc = "done" => cascade[n].old \cap Stored = {}

\* nodeDeleted: when a cascade reports success, the node and the edges it had
\* are gone, also where batches are capped and chunks fail.
NodeDeletedIsTrue ==
  \A n \in Nodes : cascade[n].pc = "done"
    => (cascade[n].edges \cup {NodeRow(n)}) \cap rows[Home[n]] = {}

\* A cascade that was once begun succeeds in the end when its caller retries.
RetriesFinish ==
  \A n \in Nodes : cascade[n].pc = "list" ~> cascade[n].pc = "done"

\* A dropped graph is recreated by the next write to it: withSchema heals a
\* table that was dropped under a handle, so a single write can only fail when
\* a second cascade drops the table again before it runs.
WritesRecreate ==
  \A h \in Handles :
    op[h].pc = "missing" /\ op[h].kind = "single"
      => \E x, y \in Nodes : /\ cascade[x].begun > 0
                             /\ cascade[y].begun > 0
                             /\ x = y => cascade[x].begun > 1

=============================================================================
