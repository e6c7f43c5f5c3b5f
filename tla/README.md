# firegraph: TLA+ models, checks and proofs

firegraph is a TypeScript graph layer over document and SQL stores. An
application holds a `GraphClient`, which turns nodes and edges into documents
(a node is a self-edge with relation `is`), validates and migrates them through
a registry, and hands every operation to a `StorageBackend`: Firestore, an
in-process SQLite database, or a Cloudflare Durable Object. An editor serves a
graph to several browser tabs. This directory holds TLA+ modules for the parts
where the order of steps, or the agreement of several stores, decides whether
data is right; TLC configurations that check them on small instances; and TLAPS
proofs for every size of instance.

## 1. The system

Paths are relative to the repository. The library is `src/`, the editor
`editor/`.

| Component | Source | State | Operations | What is hard |
|---|---|---|---|---|
| Graph client | `src/client.ts`, `src/batch.ts`, `src/transaction.ts` | the merged registry; write-backs in flight | get/find, put/replace/update/remove, batch, runTransaction, subgraph, cascade and bulk | reads and their fire-and-forget write-backs race with writes; deployments with different registries share one store; attempts of a transaction are retried |
| Registry, scopes, migration | `src/registry.ts`, `src/scope.ts`, `src/migration.ts` | entries by triple, derived `schemaVersion` | lookup, merge, match a scope, validate and run a chain | duplicates and precedence; chains with gaps and jumps |
| Write plan | `src/internal/write-plan.ts`, `src/internal/sqlite-data-ops.ts`, `src/internal/firestore-update.ts` | none | flatten a nested patch, apply it as SQL or as a Firestore update | two stores must mean the same; terminal values, sentinels, fields that are objects or not |
| Query planning | `src/query.ts`, `src/query-safety.ts`, `src/bulk.ts` | none | get or query, scan protection, limits, bulk removals | null and absent fields; default limits under operations that mean "all" |
| SQLite backend | `src/sqlite/backend.ts`, `src/sqlite/catalog.ts`, `src/internal/sqlite-sql.ts` | one table per graph, a catalog of tables, one cached `schemaReady` per handle | CRUD with self-healing, batch, transaction, recursive cascade, bulk DML | tables dropped under live handles; chunked cascades that fail half way and are retried |
| SQLite executors | `src/sqlite/local.ts`, `src/sqlite/node-sqlite.ts` | one connection, its open transaction | open and close, run/all, batch, interactive transaction | every caller shares one connection |
| Search artifacts | `src/internal/sqlite-search.ts`, `src/sqlite/local.ts` | FTS tables, id map, partitions, vector column, triggers | ensure, reconcile, backfill, sweep | side tables that lag behind; crashes between statements |
| Searches, aggregates, DML | `src/internal/firestore-{fulltext,geo,vector,aggregate,projection,bulk-dml}.ts`, `sqlite-search.ts`, `sqlite-sql.ts` | none | one request into one query per store | the stores must agree |
| Durable Object backend | `src/cloudflare/*.ts` | one SQLite per object, a list of nodes | RPC CRUD, atomic batch, cascade over child objects | a cascade over several objects is not atomic; calls fail after they took effect |
| Firestore backends | `src/firestore-standard`, `src/firestore-enterprise`, `src/internal/firestore-*.ts`, `src/bulk.ts` | collections and subcollections | CRUD, optimistic transactions, chunked bulk deletes | bulk deletes are not atomic, chunks fail for good |
| Routing, capabilities | `src/internal/routing-backend.ts`, `src/internal/backend.ts` | which backend owns a subgraph, what it declares | delegate, intersect | what is promised must run |
| Traversal | `src/traverse.ts`, `src/internal/*expand*`, `*traverse*` | a read budget, a semaphore, a frontier | walks hop by hop, by expand, by one pipeline | tasks check and spend one budget; three engines must agree |
| Dynamic registry | `src/dynamic-registry.ts`, `src/client.ts` | types stored as nodes, the registry compiled from them | define, reload | overlapping reloads, definitions racing a reload |
| Migration sandbox | `src/sandbox.ts`, `src/serialization.ts` | a worker, the pending requests | compile, run, tag and rebuild values | a worker that dies late, concurrent first calls |
| Discovery and indexes | `src/discover.ts`, `src/indexes.ts`, `src/internal/sqlite-index-ddl.ts` | none | read folders, expand entries, emit indexes | what is declared must be served in both stores |
| Query client | `src/query-client` | none | calls to the editor's server | clamps on both sides |
| Editor | `editor/server`, `editor/src` | pages, lanes, chats, the served schema | browse, drill, traverse, write, chat, reload | several users; answers that arrive late; cursors over changing tables |
| CLI, code generation, views, bindings | `bin`, `src/codegen`, `src/views.ts`, `src/react.ts`, `src/svelte.ts` | none | print, mount | presentation |

Interactions: the client calls its backend and awaits the answer, except for
migration write-backs, which it sends and forgets. A subgraph client owns a
backend of its own over the same store. Backends of one SQLite database share
one executor and its connection. A traversal calls a reader many times at once.
Dynamic registries are read through the very client whose registry they
replace. The editor's server is one more client, and reloads its schema from it.

### What makes each component correct

- **Graph client and migration.** A read's write-back is a background refresh
  and must be invisible: it decides nothing about which documents exist, keeps
  the content the application wrote, and changes nothing that any reader sees.
  No read-modify-write of a transaction is lost. An operation of a batch
  disappears in silence only where SQLite's commit clears what was added after
  its statements had left.
- **Write plan, queries, searches.** The stores agree, and mean what the caller
  asked: siblings of a patched field survive, limits limit and nothing else
  does, the best answers come first.
- **SQLite graphs.** Catalog and tables agree; a cascade that reports success
  removed everything that was there when it began; a failed cascade can be
  retried; a write to a dropped graph brings the graph back. Two graphs never
  share a table.
- **SQLite executors.** A transaction or a batch is in the file as a whole or
  not at all, whoever else uses the connection, and whoever begins a
  transaction ends it. Whoever opened a database closes it, and nobody else.
- **Search artifacts.** An index finds a row by what the row says now.
- **Cascades over subcollections and Durable Objects.** A clean result is a true
  one, whoever writes meanwhile; what an interrupted cascade leaves can still be
  found by the next; nothing outside the node's hierarchy goes.
- **Traversal.** The budget and the concurrency bound hold for every
  interleaving; a result not marked truncated is complete unless an expand's limit,
  which is one for all its sources, was reached; the run ends; every engine gives
  the same answer.
- **Dynamic registry.** Only valid chains are served; a reload sees what was
  acknowledged before it began; hosts that keep reloading converge.
- **Sandbox.** A call is answered with its own result, and is answered at all.
- **Capabilities.** What a handle declares it has, in every subgraph, and what it
  does not declare is refused.
- **Paths.** A path names one graph, the same for the library, the editor's pages
  and its server; who enters a subgraph can leave it; its ancestors are found in
  either form of the path.
- **Custom views.** An element shows the record it was given last, in one mounted
  component, and leaves none behind.
- **Editor.** Edges keep both ends, pages miss no row that did not move, a
  drilled page always shows something, a prompt always ends and gives its slot
  back, and types of files win over stored ones.

## 2. The modules

A component is a module of its own with its constants, its actions and its
properties. Components that share a process or a database but no modelled state
are checked side by side in one MC module: a variable, `part` (`machine` in
`MCClientRaces`), says which of them moves in a behaviour, and the others rest
in an initial state. Such a run explores the sum of its instances and not their
product, and its properties name the component's own. What the proofs use of such
a composition is one lemma (`MachinesAreSpecs`, `PartsAreSpecs`): each component
behaves as its own specification says.

| Module | Models | Instance |
|---|---|---|
| `GraphClient` | reads, migrations and write-backs of `client.ts` and `migration.ts`, writes of `client.ts` and `batch.ts` | `MCClientRaces` |
| `Transactions` | `transaction.ts` over Firestore's optimistic transactions | `MCClientRaces` |
| `Batches` | the batch backends of Firestore, SQLite and Durable Objects | `MCClientRaces` |
| `SqliteGraphs` | `sqlite/backend.ts`: schema bootstrap, self-healing, `removeNodeCascade`; `sqlite/catalog.ts` | `MCSqliteGraphs` |
| `CascadeContract` | what a `removeNodeCascade` promises, whatever the backend: the abstract specification | refined by `DeepCascade` |
| `DeepCascade` | `removeNodeCascade` of `bulk.ts`; of `cloudflare/backend.ts` with `_fgRemoveNodeCascade` and `_fgDestroy` of `cloudflare/do.ts` | `MCDeepCascade` |
| `SqliteConnection` | `sqlite/local.ts` and `sqlite/node-sqlite.ts`: `transaction`, `batch`, `run` | `MCSqliteConnection` |
| `TextIndex` | the FTS tables of a graph: triggers, map, partitions, reconciliation, sweep | `MCSqliteConnection` |
| `VectorColumn` | the vector column of a table: ensure, trigger, backfill, self-healing | `MCSqliteConnection` |
| `EditorWrites` | every procedure of the editor that writes, the edge form, the page that deletes | `MCSqliteConnection` |
| `SandboxWorker` | `sandbox.ts` from `ensureWorker` to `destroySandboxWorker` | `MCSandboxWorker` |
| `DynamicRegistry` | `dynamic-registry.ts`, `defineNodeType`, `reloadRegistry` | `MCSandboxWorker` |
| `EditorChat` | `editor/server`'s chat: prompts, processes, streams | `MCSandboxWorker` |
| `EditorSession` | the schema the editor serves, its reloads and views | `MCSandboxWorker` |
| `Traversal` | `traverse.ts`: `run`, its semaphore and its budget | `MCTraversal` |
| `FanOut` | the three ways to expand, and the walk in one pipeline against the loop | extended by `MCTraversal` |
| `EditorTraverse`, `EditorDrill`, `EditorPages` | the editor's traversals, lanes of a node's page, paged tables | `MCTraversal` |
| `Views` | elements that wrap a React or a Svelte component, and the editor's `CustomView` around them | `MCTraversal` |
| `Documents` | patches, sentinels, and the documents each store keeps of them | `MCLibrary` |
| `SqliteScopes` | names of tables and the pattern of a cascade | `MCLibrary` |
| `Registry` | lookups and merges, migration chains, values that cross into the sandbox | `MCLibrary` |
| `Subgraphs` | handles of subgraphs, chains of `subgraph()` calls, routing | `MCLibrary` |
| `GraphPaths` | paths, ancestors and `allowedIn` patterns; the editor's addresses, links and breadcrumb | `MCLibrary` |
| `Capabilities` | what a backend promises and what runs; opening and closing local databases | `MCLibrary` |
| `Library` | the six before side by side: a graph's data, its places and its backends, which its proofs are about | extended by `MCLibrary` |
| `Discovery` | folders and indexes | `MCLibrary` |
| `Queries`, `Answers`, `Searches`, `QueryCalls` | plans and filters; aggregates, projections, DML; vector, text and geo search; the query client | `MCLibrary` |

Theorems are in `<module>_proofs`; the module of a composition holds those about
its parts: `GraphClient_proofs` also those of `Transactions` and `Batches`,
`SandboxWorker_proofs` of `DynamicRegistry`, `EditorChat` and `EditorSession`,
`SqliteConnection_proofs` of
`VectorColumn`, `TextIndex` and `EditorWrites`, `Traversal_proofs` of `FanOut`,
`EditorTraverse`, `EditorDrill`, `EditorPages` and `Views`, `Library_proofs` of
`Documents`, `SqliteScopes`, `Registry`, `Subgraphs`, `GraphPaths` and `Capabilities`. `PROJECT.json` maps every definition to the
lines it stands for. Definitions commented as "Mutant", and a few alternatives
written beside the operator they vary, are wrong on purpose: they show that a
property breaks when the code is changed in that way.

### The stateful modules

**GraphClient.** `graph` holds the stored documents, `reading[c]` what a client
fetched and has not answered yet, `writeBack[c]` the updates that are on their
way. A document is its version stamp and its fields; a field remembers the
schema it is shaped for and the write it comes from. `Put`, `Replace`, `Update`
and `Remove` are the client's writes, each one call of the store. `Read` is the
fetch of `getNode`, `getEdge`, `findNodes` or `findEdges`; `Answer` is the task
that migrates, answers and sends; `WriteBackLands` and `WriteBackFails` are the
two fates of the update `handleWriteBack` sends. `writes` and `raced` count and
mark for the properties only.

**Transactions, Batches.** A transaction's attempt reads, buffers and commits;
Firestore refuses a read after a write and runs the callback again when what it
read has changed: each attempt keeps what it `seen` of a document and the revision
it `held`, and every write of a document raises its revision. A batch collects operations; `commit()` sends the buffer as
one batch. They differ in what they send and when they forget it: a `WriteBatch` of
Firestore takes no operation once `commit()` was called and sends the same again
if it is called again; SQLite's awaits its schema (`Sends` is the end of it),
sends what the buffer holds then and empties it when the answer is there; a
Durable Object's copies and empties it before the call leaves. Nobody waits:
several commits are in `flights` at once, operations are added meanwhile, and a
commit may fail before, at or after its effect. `late` and `doubled` remember
what was added, and what was sent again, while SQLite's statements were on
their way.

**SqliteGraphs.** `tables`, `rows` and `catalog` are the database, `ensured[h]`
is the cached `schemaReady` of a handle, `op[h]` its write in progress and
`cascade[n]` the `removeNodeCascade` of a node. `Begin` to `Miss` are
`ensureSchema`, `withSchema` and the statement itself. `First` and `Retry` start
a cascade and read its edges, `List` reads the catalog, `Count` counts table by
table, `Build` orders the statements, `Commit` and `Skip` run the chunks,
`Finish` gives the verdict. One edge row stands for the edges of a node. `old`
is kept for the properties: what the cascade was to remove when it began.

**DeepCascade.** `stored` holds the documents that exist; which graph a document
is in, which node a subgraph belongs to and which edges touch a node are
constants. The recursion of `deleteSubcollectionsRecursive` and of
`destroyRecursively` is `cascade[n].stack`, a frame per graph: the ids read and
not yet deleted, the documents whose subgraphs are still to be visited, the
subgraphs listed for the one at hand. `List`, `Descend` and `ReadFails` are the
walk of both backends; `Commit`, `ChunkFails`, `Ascend` and `Resolve` are
Firestore's; `Destroy`, `RemoveLocally`, `LocalError` and `CallFails` the
Durable Objects'. `due` and `promised` are kept for the properties: what the
running call, and what the first one, could find and owes. A node that somebody
else deletes takes its subgraphs out of every other cascade's duty, because
neither backend could find them any more. Subgraphs that the client's registry
does not know are never found over Durable Objects (`Known`).

**CascadeContract.** The documents that exist, a status per cascade, and what its
call owes. A call begins owing some of what is there, always its own documents
(the node and its edges), and more only if it was asked to go deep; each step
deletes documents of its own or of graphs below the node; what others delete is
owed no more, with what is below it; and the answer *clean* is given only when
nothing owed is left. `DeepCascade!KeepsContract` is this specification under
the mapping that reads a call's status off the pc, the errors and the stack.

**SqliteConnection.** `db` is the connection's view, the file, and whether a
transaction is open. `Begin`, `BeginRefused`, `Put`, `Return` and `Throw` are
`executor.transaction` and its callback; `Single` is `run`; `BatchCommit`,
`BatchRefused` and `BatchFails` are `batch`, which joins an open transaction
with better-sqlite3 and is refused with node:sqlite; `Crash` loses the open
transaction.

**TextIndex, VectorColumn.** One action per statement of an ensure or a
reconciliation, so that writers, a cascade of the parent, another handle and a
crash get in between. A process comes back with another configuration, and the
fingerprint it finds decides what it rebuilds: `PurgePartition`, `PurgeGhosts`,
`FillPartition` and `StoreFingerprint` are the four statements of a rebuild. The
sweep lists what is there and drops it one by one, and a handle may recreate the
table in between. `lapsed` (types whose triggers on the table are not those their
fingerprint is of), `torn` (a sweep dropped the id map of a table with rows) and
`raced` (documents whose last change met a handle amid its ensure) are kept for the
properties.

**SandboxWorker.** `ctor`, `current`, `requestId` and `pending` are the module
variables of `sandbox.ts`. A call is one `sendToWorker`; its `pc` names the
`await` it is at. `spawning` and `posting` lie inside one task of the host,
during which no event is delivered. A worker is named after the call that
spawned it. The wrap of request ids is left out.

**DynamicRegistry.** `meta` is the stored type nodes, `registry` what the client
uses, `reload[r]` one `reloadRegistry` with what it has read so far. Definitions
write, reloads read page by page, failures leave the old registry, a restart
forgets the compiled one.

**Traversal.** One action per step between two awaits: `StartHop` runs all tasks
of a hop to their first await, `GiveUp`, `Read`, `Answer` and `ReadFails` are
the rest of a task, `HopDone` collects, `ExpandHop` is the one-call path. The
graph is constant during a run, and what `findEdges` answers for a hop is a
constant. A `findEdges` has the limit to itself; in an `expand` it is one for all
sources of a query (`Most`), and any answer of that size is possible
(`Expansions`), as which edges go first is up to the order and the backend. With a
filter everything is fetched, and the limit is per source again. `capped` remembers
that a query had more to return than it could.

**The editor.** `EditorWrites`: a procedure reads, then writes, as its awaits
allow, for several users, with the form whose check races its submission.
`EditorPages`: a table pages by cursor while rows are written; answers are kept
while the next is fetched. `EditorDrill`: the reducer of `drill-context`, one
action per dispatch, with every component that dispatches. `EditorTraverse`: the
`traverse` procedure over every small graph. `EditorChat`: a prompt, its
process, its stream, their timeouts, over one slot. `EditorSession`: definitions
and overlapping reloads, and what is served of files and of stored types.
`Views`: the callbacks of an element (`Connected`, `Disconnected`, `SetData`) run
at once and leave `jobs` behind, which `Resume` carries out when the framework's
import answers; `Show`, `Leave` and `Move` are what the page does to the element
meanwhile. Imports of one element are taken to answer in their order, as those of
one module do.

### The library modules

The other modules model functions. Their variables are an input that a step
enlarges or changes (one more write, one more row, one more path segment, one
more entry), so that a run covers all inputs up to a size, and each property
compares the translated functions with each other or with a definition of what
they mean. `Documents` keeps the two stores' documents next to each other under
every sequence of puts, replaces, patches, bulk patches, write-backs and
deletes, and `crossed` are those that may differ: after a patch that ran through a
leaf or carried what JSON cannot, and after a put of `{}` met data. `GraphPaths` follows the editor's links from one address to the next;
`Capabilities` keeps connections, handles and pragmas; `Answers` and
`Queries` also run statements whose answer is lost.

## 3. The runs

A run that passes explores its instance completely. The bounds are constants of
the modules; the `.cfg` of the run or its MC module gives their values.

| Run | Shows | Why the bounds are enough |
|---|---|---|
| `client_races` | Write-backs of two deployments against application writes: `OnlyWritesDecideExistence`, `WriteBackKeepsContent`, `WriteBackKeepsReads`. Transactions lose no update (`NoUpdateLost`). Every operation of a batch is stored or was sent by a rejected commit, unless it was added while SQLite's statements were on their way; none is written twice in silence, unless two commits had it on its way (`BatchesAccount`) | Two clients at different versions are the smallest rolling upgrade; three writes let a document be written, removed and created again around one write-back. Two transactions that read two documents in either order, with two attempts each, conflict and are retried. A batch of three operations has a middle one; a second `commit()` meets each kind of buffer, also while the first is under way |
| `client_merged_put` | violated: `ReadsAreCurrent` with merging puts; without them it is proved (`CurrentTheorem`) | see findings |
| `cascade_atomic` | Nested cascades against writers on an atomic driver: `TablesAreListed`, `CascadeRemovesAll`, `WritesRecreate`, `RetriesFinish` | A graph below a graph lets the inner cascade take tables from the outer one; two failures fail a cascade and its retry; two handles write to each dropped graph |
| `cascade_capped` | Chunked cascades and split bootstraps: `NodeDeletedIsTrue` | Two statements per chunk put the border inside the home graph's deletes, and between a DROP and its catalog row |
| `cascade_retry_stuck` | violated: `RetriesFinish` on a capped driver | see findings |
| `cascade_deep` | Two nested cascades over either deep backend: `CascadesAreHonest` (a clean result is a true one, nothing else goes, what an interruption leaves is still in reach), `NodeDeletedIsTrue`, the refinement `KeepsContract`, `CascadesFinish` | Two levels of subgraphs have a graph that must go before its parent; chunks of two put an edge and a node apart; a failure and a foreign write may fall anywhere in both cascades; one subgraph the registry does not know; one instance begins with an orphaned graph. The same instance passes with two failures (993,560 states) |
| `cascade_deep_retry` | violated: `RetriesRemoveAll` on Firestore | see findings |
| `connection_shared` | The shared connection: `ConnectionReleased`, `TransactionsAreAtomic`, `BatchesStayWhole`. The indexes: `IndexesFollowRows`, `SearchesRecover`. The editor: `EditorWritesHold` | Two transactions for the refusal, one single write and one batch to join, two writes so that a half is a state, one crash, both drivers. Text: two documents, three configurations, two writes, two crashes and a cascade of the parent whose sweep drops one artifact at a time fit between any two statements of a rebuild, so that a configuration can be changed and changed back and a table recreated amid the sweep. Vector: two handles, each with its own cached ensure, three writes, one drop. Editor: two users with three requests over two nodes meet in every check-then-write |
| `sandbox_calls` | The worker: `AnswersMatch`, `NobodyWaitsInVain`. The registry: `ServedTypesAreSound`, `ReloadSeesAcknowledged`. The editor's chat and its schema: `EditorServerHolds`. `CallsSettleAndTypesConverge` is the liveness of the worker, the registry and the chat | Two first callers spawn two workers while a third posts to the one that won; one crash and one destroy. A limit of one type per query, with two node types, has both a registry that is complete and one that is cut; two reloads overlap, two definitions race them, one reload or the process fails. Two tabs over one slot queue; two turns show what a first one leaves behind |
| `traversal_hops` | The walk: `BudgetKept`, `TraversalSound` (slots kept, an unmarked result is complete unless an expand's limit was reached, nothing invented, no duplicates), `RunsFinish`. Engines: `ExpandsAgree`, `WalksAgree`. What the editor shows: `EditorViewsHold` | Nine budgets end before, within and after each of four hops; one to three slots for up to three sources; hops into, within and out of subgraphs, with and without a filter; no expand, one statement for all sources, and chunks of two, under limits that starve a source and limits that just suffice; one failing read at any place. All graphs over three records, with chunks of two, have a duplicate, a cycle and a chunk border. The editor: three uids and three frames per lane; four clicks through pages of one row, with a write anywhere between them; two elements and five changes, so that one is removed, put back and given data while three imports are awaited, and one component or import fails |
| `library_functions` | The functions, fourteen parts: `BackendsAgree`, `StoredAsJson`, `ScopesSeparate`, `RegistryAnswers`, `QueriesMean`, `HandlesMean`, `PatchesMean` | Each part enlarges its input step by step up to the bound in its module, so every smaller input is covered too: any sequence of writes to one document whose field may be absent, a value or an object of two fields, one of which may be an object again; chains of two `subgraph()` calls over uids that spell each other's escapes and LIKE's wildcards; migration chains up to version 3; registries of two entries on either side; addresses three subgraphs deep, in a collection at the top and in a nested one, with a uid that is also a name, and patterns of three segments; two node and two edge folders; three documents with values that are equal, absent or of another type; two factory calls over two databases |
| `scope_case_tables` | violated: `CasedTablesDiffer`, words of two cases | see findings |

A property whose name sums up several (`EditorViewsHold`, `QueriesMean`, ...) is
the conjunction of the properties of the modules the run checks side by side;
the MC module lists them.

Deadlock is not checked: callers may stop calling, and every instance comes to
rest when its bounds are used up.

**Fairness.** Callers are never obliged to write, call or destroy anything, and
failures are never required and are bounded.

- `SqliteGraphs!FairSpec`: a caller who began a cascade runs its loop to the end
  and retries after a failure; a chunk that cannot succeed is skipped.
- `DeepCascade!FairSpec`: a cascade that was begun is carried on, and its caller
  repeats the call until it is clean.
- `SandboxWorker!FairSpec`: a task of the host runs to its end, an import
  settles, a worker answers what it was sent, and events reach the host. A
  migration that does not end is left out: the code has no timeout for it, so
  with one nothing after it is answered.
- `DynamicRegistry!FairSpec`: a host that keeps calling `reloadRegistry`, and a
  call that began goes on. Without a call nothing refreshes a registry, and the
  property is about hosts that call.
- `EditorChat!Spec`: the server answers a request, the tab reads on, and the
  timer of a process fires. A process owes nothing: it may hang for ever and
  need not heed its signal.
- `VectorColumn!FairSpec`: a handle that began its ensure goes on, and searches
  that find the column missing heal it.
- `Traversal!FairSpec`: the event loop runs what is ready, and a read answers or
  fails.

### Findings

1. **Merged puts are stamped too new** (`client_merged_put`). `putNode` merges
   its payload into a record of an older schema and stamps the whole with the
   new version. Fields not in the payload are never migrated again, although
   `docs/data-modeling.md:439` says old records upgrade on the next read.
2. **A capped cascade can get stuck** (`cascade_retry_stuck`). Between the chunk
   with a DROP and the one with its catalog row, a failure leaves a listed graph
   without a table. Each retry counts its rows first, without healing, and is
   rejected, although the comment at `src/sqlite/backend.ts:667` calls the
   cascade idempotent.
3. **Case** (`scope_case_tables`). Table names keep the case of uids, SQLite
   does not compare it: graphs of uids `a` and `A` share a table.
4. **Firestore retries miss what is left** (`cascade_deep_retry`). A document is
   deleted although a chunk below it failed for good. The next call finds
   subcollections through the documents that exist, never gets to what was left,
   and reports a clean cascade. `docs/data-modeling.md:458` says the result
   reports errors "so you can retry failed batches".

### Seen with the models, and kept out of the runs

Some of these are definitions of the modules that no run checks, named in
brackets; the others are consequences of the actions. Each run's properties are
stated so that they hold beside them.

Store and transactions:

- On a capped driver a writer may recreate a table between its DROP and its
  catalog delete; the graph is then in no cascade's reach.
- All callers share one SQLite connection, so a transaction's reads see
  statements that others ran between them; `src/internal/backend.ts:138` calls
  reads snapshot-consistent. A write that another caller was told has succeeded
  is lost when the transaction it ran inside rolls back. A second concurrent
  `runTransaction` is rejected at once; nothing retries it.
- SQLite's batch is cleared when its commit is answered
  (`src/sqlite/backend.ts:322`): operations added since the statements left are
  gone, with neither a write nor an error, and a second `commit()` meanwhile
  sends the same statements once more.
- A batch against a dropped table throws: `withSchema` does not wrap
  `BatchBackend.commit`.
- A node written into an object between the listing of its nodes and its wipe is
  wiped, and the objects below it are in nobody's reach.
- LIKE ignores case, too: a cascade of `a` lists what is below `A`.
- A DML statement that is retried after its commit went unanswered reports that
  it deleted nothing.
- A factory that throws after it opened a database leaks the connection, and
  leaves its pragmas on a shared one (`Capabilities!NothingLeaks`).

Two stores, two answers:

- A put of `{}` empties the data of a Firestore document, as the mask of a merge
  names an empty map and so replaces it (`src/firestore-standard/backend.ts:117`;
  `tests/integration/write-semantics.test.ts:65` says so of nested maps). SQLite has
  no operation to run and keeps everything (`src/internal/sqlite-sql.ts:666`), as
  "sibling keys at any depth survive" (`src/internal/write-plan.ts:11`) promises.
  `BackendsAgree` and `PatchesMean` hold beside it.
- Booleans come back from projections as 1 and 0 on SQLite
  (`Answers!BooleansSurvive`). Sums and averages count text as 0 there, and are
  refused or skipped on Firestore; aggregations over several fields count only
  the rows that have all of them on Firestore.
- `findNearest` rewrites bare names of `where` to `data.*` on SQLite, and passes
  them on as they are on Firestore (`src/internal/firestore-vector.ts:78`),
  although `src/types.ts:1359` says they follow `WhereClause.field`. Some
  arguments are validated on SQLite only.
- An index with `where` is left out for Firestore, while `src/types.ts:231` says
  that only the predicate is ignored.
- Firestore enterprise without `previewDml` still answers to `bulkDelete`,
  though `src/firestore-enterprise/backend.ts:620` says the client throws
  (`Capabilities!UndeclaredDmlThrows`).

Registry, sandbox and traversal:

- Overlapping reloads install what finishes last, not what was read last
  (`DynamicRegistry!LatestSchemaIsUsed`, `README.md:514`), and a reload reads at
  most the default limit of 500 types.
- Concurrent first calls of the sandbox spawn a worker each;
  `destroySandboxWorker` terminates the last one only. The exit of a worker that
  was replaced rejects requests pending on its successor.
- A user's map that carries a known tag comes back as a Firestore type; dates
  and buffers come back as maps.
- The limit of an expand is one for all its sources (`src/traverse.ts:238`,
  `src/internal/firestore-classic-expand.ts:124`, `src/internal/sqlite-sql.ts:298`;
  `src/types.ts:864` says so): many edges of one source leave no room for another's,
  and the traversal is not marked truncated (`Traversal!capped`). One source may also
  return more than the limit, which the loop never does.
- A traversal with concurrency 0 never starts a read. A uid that one hop finds
  in two graphs is followed only in the graph whose read answered first. A
  wrapper of a Durable Object stub that lacks `_fgExpand` makes traversals fail.

Search artifacts:

- A configuration that is changed and changed back can leave text rows stale for
  good: a process with the new one replaces the triggers at its first write and dies
  before a search records its fingerprint, and one with the old one finds its own
  fingerprint and rebuilds nothing (`src/sqlite/local.ts:512`; `TextIndex!lapsed`),
  although `README.md:1185` says that changing a declared field list fully rebuilds
  the partition.
- A sweep drops what it listed although another handle has recreated the table since
  (`src/sqlite/local.ts:235`). Writes then fail until a search bootstraps anew. When
  it dropped the id map after rows had come in, ids start at 1 again beside entries
  that have them, so that a search finds a row by another row's text
  (`TextIndex!torn`); a search of a partition still finds the rows of its type.
- With an empty configuration `doFtsEnsure` returns before it drops the triggers of
  types that are declared no more and forgets their fingerprints
  (`src/sqlite/local.ts:474`). An ensure that failed once for a passing reason is
  cached as failed (`src/sqlite/local.ts:539`).
- A vector written between another handle's read and its backfill may be
  overwritten with the older one (`VectorColumn!ScoresMatchData`).

The editor:

- Cursors hold the value of the sorted field alone, so pages skip rows that tie
  (`EditorPages!EverySortMissesNothing`), which is every row of the default sort
  of edges. Next clicked after a reset, while the page before is still on display, takes
  the cursor of that page (`EditorPages!NextKnowsItsPage`).
- A peek can outlive its frame and leave the page empty: a nearby node hovered
  twice, a page opened from the breadcrumb, a lane closed while it is hovered or
  while its node is being deleted (`EditorDrill!SomethingIsAlwaysShown`).
- `updateNode` reads and then puts, so it brings back a node deleted meanwhile;
  `createEdgeWithNode` checks before its transaction, and never whether the node
  that is to exist does (`editor/server/trpc.ts:951`); an edge form may be
  submitted while its check is under way.
- An answer that streams in after a chat was cleared puts its session back
  (`EditorChat!ClearedIsForgotten`); an answer whose stream opened late lacks its
  beginning (`AnswersAreComplete`); processes that ignore their
  signal outlive their slot (`ProcessesAreLimited`).
- Overlapping schema reloads may go back to the older (`EditorSession`:
  `ServedGoesForward`, `ListedOnce`, `OwnTemplate`); the chat's prompt keeps the
  schema the server began with.
- A link to a collection whose parameters are not known keeps their braces; the
  page it leads to reads `{param}` as the value, and does not show the form that
  `docs/editor.md:270` describes (`GraphPaths!CollectionLink`).
- A uid with `~2F` in it falls apart in the address: the page of its subgraph is
  another path, and its server refuses the scope (`GraphPaths!Decode`). The
  breadcrumb takes the first segment for the graph's collection, which may be
  nested (`BreadcrumbLink`).
- A Svelte component that throws while it is mounted keeps its new props, so data
  that follow change these and mount nothing until the element is put back; and
  since `CustomView` appends the element before it hands over the data, each
  Svelte view is mounted twice (`Views!MountThrows`, `SetData`).
- The graph modal takes its edges from the focused node, also where a lane is
  drilled to another one, and the edges published there are never reset.
- The effects that publish the focused node and its edges
  (`editor/src/components/NodeDetail.tsx:242`, `:1018`) depend on the context
  value that publishing replaces: by React's rules each publication brings about
  the next, and the page does not come to rest.
- The query client sends without a timeout, takes a whole envelope for data that
  is absent, and shows an edge found by its target as its source
  (`QueryCalls`).

## 4. The proofs

The theorems hold for every value of the constants that meets the assumptions of
the modules. A theorem about a part that is only instantiated states its
assumptions itself; they are assumed of constants that a database, a deployment
or a caller chooses, and each `.cfg` meets them.

| Assumption | Says | Because |
|---|---|---|
| `AtomicDriver` | no cap on the statements of a batch, no split bootstrap | `better-sqlite3` and `node:sqlite`; capped drivers break the theorem (finding 2) |
| hypothesis of `CurrentTheorem` | one deployment, and no merging puts | finding 1 |
| `Batches!KindsAssumption` | a batch is Firestore's, SQLite's or a Durable Object's; the bound on commits is a number | there is no fourth |
| `DynamicRegistry!RegistryAssumption` | finitely many types; leftovers are types; bounds are numbers | a query's limit counts them |
| `VectorColumn!NoneAssumption` | NULL is no stored field | SQL |
| `TextIndex!KindsAssumption` | names of types and of shared artifacts differ; a configuration is of types and declares fields; a table is not "none" | names of tables have a prefix of their own |
| `EditorWrites!EditorAssumption` | every uid is a name and every name stands for a uid; "none" is no type, name or request | `stripTypePrefix` of the editor; a tag of the model |
| `Traversal!HopsAssumption` | a run has a hop, with a limit of at least 1; a query answers no edge twice | `run` throws without a hop; a limit of 0 means none to `findEdges` and nothing to `expand`, and is left out; an edge's document id is its triple |
| `FanOut!GraphAssumption` | `is` is no relation; what edges are ordered by can be compared | `NODE_RELATION` marks the nodes; `compareFieldValues` |
| `FanOut!QuestionsAssumption` | chunks are not empty, limits are numbers, sources are nodes, and walks follow relations | `traverse.ts` never sends `NODE_RELATION` (`src/internal/firestore-classic-expand.ts:103`) |
| `EditorTraverse!EditorAssumption` | a route has hops, limits and budgets are numbers, batches are not empty; "unknown" is no edge | the procedure's input schema and its clamp on `concurrency`; a tag of the model |
| `EditorDrill!DrillAssumption` | paths are of nodes; "none" is no node, id or peek | a tag of the model |
| `EditorChat!ChatAssumption`, `EditorSession!SessionAssumption` | bounds are numbers | they are bounds |
| `EditorPages!PagesAssumption` | finitely many rows, no two with one uid; pages are not empty; a table of documents has one listing, which is not by uid | a uid is a document's id; `getCollectionDocs` sorts by one field of the input; tags of the model |
| `DeepCascade!TreeAssumption`, `DocumentsAssumption` | a subgraph belongs to one node, owners lead to the root, the documents of a node are in its graph | scopes are paths |
| `Documents!DocumentsAssumption` | the parents of a path are paths; sentinels and empty objects are no values | what `flattenPatch` tells apart |
| `SqliteScopes!WordsAssumption` | uids and names are not empty, have no `/`, and differ in more than case; the code point of an escaped character is written in lower-case letters and digits | `subgraph()` refuses the first two; for the third see finding 3; `mangleStorageScope` writes hex |
| `Registry!MaxVersion` | the bound on versions is a number | it is a bound |
| `Subgraphs!SegmentsAssumption` | roots, uids and names are strings, spelled out as sequences | they are joined with `/` and compared as text |
| `GraphPaths!PathsAssumption` | a collection's path has an odd number of segments; what is read back from a uid with `~2F` in it holds none that splits again | Firestore alternates collections and documents; `decodeFsPath` replaces every `~2F` at once |
| `Capabilities!PromisesAssumption` | options are lists of pragmas and values; the caller is no call of a factory; "none" is neither a connection nor a backend | `Record<string, string \| number>`; tags of the model |

| Theorem | States | Argument |
|---|---|---|
| `GraphClient: TypeCorrect`, `ExistenceTheorem` | types; write-backs create no document | by action; a write-back only changes what is in `DOMAIN graph` |
| `GraphClient: ContentTheorem` | `WriteBackKeepsContent` | An update in flight is not raced only if the document still is what the read saw, or a write-back of the same content. `Reflects` says so of updates in flight, `Faithful` of snapshots not answered yet; migration keeps the origin of every field |
| `GraphClient: ReadersTheorem` | `WriteBackKeepsReads` | Migrating to one version and then to a later one is migrating to the later one at once (`DerivedReads`), so a document and its refresh read the same. `Common` and `Derived` say that what is stored, read and in flight comes from one original |
| `GraphClient: CurrentTheorem` | `ReadsAreCurrent` with one deployment and no merging puts | `AllHonest`: a stamp never promises a newer schema than the fields have, here, in snapshots and in flight. A merging put breaks it (finding 1) |
| `Transactions: TransactionsTheorem`, `UpdatesTheorem` | `NoUpdateLost`, alone and next to clients and batches | `TransactionsInv`: `Stands`, a document still at the revision an attempt holds has the content it saw, since every write raises the revision; `FromSeen`, of the buffered writes of a document a write-back repeats what was seen and comes first, an update counts one more and comes last. A commit folds the buffer over the store; the lemma on the fold is by induction over how many writes have been applied |
| `Batches: BatchesTheorem`, `AccountTheorem` | `BatchesAccount` | `Ledger`: every operation added is in the store, was sent by a rejected commit, waits in the buffer, is on its way or came late (`AllTracked`); an answer of SQLite clears only what this commit has sent and what came late (`Unanswered`); two commits have only doubled operations in common (`Pairs`), and of what is stored only refused or doubled ones are on their way (`Repeats`) |
| `SqliteGraphs: TypeCorrect`, `ListedTheorem` | types; catalog and tables agree | `Listed` adds that a planned chunk holds every DROP together with its catalog delete |
| `SqliteGraphs: RemovalTheorem` | `CascadeRemovesAll` | `Removes`: what a cascade owes is, while it plans, in a graph it has yet to list or has listed, and then among its statements |
| `SqliteGraphs: NodeDeletedTheorem` | `NodeDeletedIsTrue`, for any driver | `NodesGo` and `OnCourse`: the statements for the node and its edges are in the chunks still to run, or have run, or a chunk with one of them failed |
| `SqliteGraphs: RecreateTheorem` | `WritesRecreate` | `Recreates`: a write that has healed once can miss again only if a cascade committed since, and each attempt commits once |
| `SandboxWorker: AnswersTheorem` | `AnswersMatch` | `IdsDrawn`, `IdsTellCalls`: ids in messages and requests were drawn before, and no two calls have the same |
| `SandboxWorker: WaitingTheorem` | `NobodyWaitsInVain` | `Waiting`: a pending request is with a worker that will answer it or that has an end to report |
| `DynamicRegistry: RegistryServes`, `ServedTheorem` | `ServedTypesAreSound` | `RegistryInv`: what is installed compiles, and what a reload read is something that was stored; an invalid chain ends the reload before it is installed |
| `DynamicRegistry: RegistryReloads`, `AcknowledgedTheorem` | `ReloadSeesAcknowledged`, an action property | `UpToDate`: what a reload read of a type is no older than what was acknowledged when it began, provided its query was not cut (`Few`); as types are never taken away, what was not cut at the end was not cut before |
| `SandboxWorker: EditorServerTheorem` | `EditorServerHolds`, of `EditorChat` and of `EditorSession`: | see the next two rows |
| ... `EditorChat` | `SlotsAreKept`, `AnswersAreWhole`, `AnswersAreRemembered`, for any tabs, slots, turns and mishaps | `ChatInv`: every tab waits for at most one turn, the pending one (`Waits`). What is on its way to a tab that reads is a session's name or nothing, then the words between those read and those said, in their order, then marks of an end, which come only once the process is no longer counted (`Carries`, `Flows`): so whoever reads `done` has read all. While a turn is pending the tab's history is empty, or its session is the one the turn resumes (`Remembered`), so the session the turn names remembers the history too. What a session remembers is defined by recursion over turns; it has one solution (`OneMemory`), which a new turn extends and every other step keeps |
| ... `EditorSession` | `FilesWin`, the action property `ReloadIsFresh`, for any types, tags and reloads | `SessionInv`: what a reload has read of either kind is not older than what was stored when it began, and what it has installed of a name is one of the two it read. `FilesWin` is the filter's alone |
| `SqliteConnection: ReleasedTheorem` | `ConnectionReleased` | a callback's step leaves the connection alone; one actor at most is inside one |
| `SqliteConnection: AtomicTheorem`, `WholeTheorem` | `TransactionsAreAtomic`, `BatchesStayWhole` | `InView`, `InFile`, `Whole`, `Closed`: what the view has beyond the file belongs to the open transaction or joined it as a whole |
| `VectorColumn: ColumnTheorem` | `IndexesFollowRows` of the column | `ColumnInv`: a value is never there without a column (`Guarded`), a column lacks its trigger only while a handle is about to add it, and what a backfill read and a document's blob is of its current row unless the document is `raced` |
| `TextIndex: TextTheorem` | `IndexesFollowRows` of text, with crashes between any two statements and writers amid a sweep | `TextInv`: the map's entries are the table's rows, one to one (`Placed`), and the shared index holds their text (`Tracked`), both unless `torn`; a booted process has its triggers on the table, and a partition that is not being rebuilt has the rows of its type (`Served`); a fingerprint is of those triggers and of how the partition was filled, unless the type has `lapsed` (`Recorded`, `AsRecorded`); a type an ensure has gone through is filled as configured (`AsConfigured`, `Settled`), also if the sweep forgets fingerprints meanwhile (`Purging`) |
| `SqliteConnection: IndexesTheorem` | `IndexesFollowRows` of the run | the two before, side by side |
| `SqliteConnection: EditorTheorem`, `EditorWritesTheorem` | `EditorWritesHold` of `EditorWrites`: two invariants and the action properties `PartitionsAreKept`, `UpdatesKeepType` | `UpToDate`: what a request read, and what the form's check found, is still so unless it is marked stale, since every write marks all other requests and the form (`StillSo`, `OutdateIs`). Who writes ends its own request only (`OthersWait`), so what is written follows from what was read |
| `Traversal: BudgetTheorem` | `BudgetKept` | the increment follows the check without an await between them |
| `Traversal: SoundTheorem` | `TraversalSound`: slots, completeness, origin and uniqueness of what is returned | `TraversalInv`: the slots in use are those of the tasks at work and who waits is queued once (`Semaphored`); the sources of a hop are among what the hops before reach without the limits that expands share out, and all of what every source reaches within a limit of its own, unless the run is truncated or an expand was capped (`Followed`); the edges of a hop are those of its finished tasks, or an answer of the expand (`Collecting`, `Collected`, `ExpansionIs`: a query that is not capped returns all it found) |
| `Traversal: EditorViewsTheorem` | `EditorViewsHold`, of four parts: | `ViewsInv` is the four invariants of the next rows side by side |
| ... `EditorTraverse` | `BudgetIsKept`, `PathsLeadFromStart`, `TypesAreInferred`, for any graph, registry, route, budget and batch size | By induction over the hops, reads only grow and a cut stays. So where the last hop was not cut and the budget is not used up, or sources are read one by one, no hop left a source out (`NothingLeftOut`), and each is the hop without a budget. Backwards from an edge found, its source is an end of the hop before, as that one was not cut either (`HopWalks`). An edge fits an edge type, the only one of its relation from that type (`InferredIs`) |
| ... `EditorDrill` | `LanesAreWhole`, `SomethingIsShown`, the action property `DrillsLead`, for any nodes, paths and lanes | `DrillInv`: lanes have ids of their own and start at the page; a preview is the last frame of its lane and nowhere before in it; unless the page went `astray`, what is active, previewed and peeked at is there. Pops, previews and closes keep the beginnings of lanes (`PoppedIs`, `WithoutPreviewIs`, `WithoutLane`), and the lane chosen for a path agrees with it longest (`BestIs`) |
| ... `EditorPages` | `StackFollowsPage`, `PagesMissNothing`, for any rows, values, page size, clicks and writes | `PagesInv`: a kept answer has the untouched rows after its question, or a cursor that these are after (`SoundAnswer`); who did not stray has seen every untouched row that the cursors are past: those of the stack where no two rows tie (`UidsSeen`), and for documents also those of kept answers (`DocsSeen`). A set in a strict order has a place for each element (`RankedAre`) |
| ... `Views` | `OneTree`, `SettledElementsShow`, `OneElement`, for any frameworks, data and failures | `Steady`: an element in the document with jobs left ends with a mount, one outside it that still shows a tree with an unmount, so the last job puts right what the ones before did. At most one element is in the document, the one that gets data or one that is forgotten |
| `FanOut: ExpandsTheorem` | `ExpandsAgree`, for any graph, list of sources, chunk size, limit and order | A sort is stable and rearranges: the keys' places are a bijection of the positions (`PlacesAre`, `SortedIs`). The chunks hold the sources, all of them and none twice, and are as long together (`ChunksAre`), so their queries' answers, flattened, are the one statement's rows; a cut keeps a prefix |
| `FanOut: WalksTheorem` | `WalksAgree`, for walks of any length | By induction over hops: what the pipeline holds at a depth, before it drops second edges to a target, are the edges the loop's queries answer (`EngineReaches`, `WalkIs`). A node's own full answer has as many targets as the limit (`FullSource`), and all of them are in the hop, so merging rows of several parents hides no cut (`CutsReported`) |
| `DeepCascade: TypeCorrect`, `OthersTheorem` | types; `OthersAreKept`, for any tree of graphs | `Within`: the ids, nodes and subgraphs in the frames of a cascade are its node's, its edges' or of graphs below; every frame but the last is of such a graph |
| `DeepCascade: NodeDeletedTheorem` | `NodeDeletedIsTrue`, for any chunk size and tree | `NodesGo`: the node is in the ids of the bottom frame until its chunk, the last one, commits or fails; after it fails the cascade can only resolve |
| `DeepCascade: CleanTheorem` | `CleanRemovesAll` | `InSight` = `StackShape` and `Covered`: as long as no step failed, a document the cascade owes is among the ids of a frame, or in a graph a frame has yet to list, or below a document or a subgraph a frame has yet to visit. For a step that deletes to keep this, the graph it deletes from must lie outside everything the frames above have yet to visit: `StackShape` says each frame is the graph of a subgraph of a node of the frame below. `TreeAssumption` makes these disjoint |
| `DeepCascade: HonestTheorem` | `CascadesAreHonest`: the one before, and that what an interrupted cascade over objects leaves is in reach of the next call | `AllLeft`: what the first call promised and is still stored is owed by the running one, and lies in a graph that the node reaches through documents and objects not yet gone: a step takes something away only when nothing promised waits below it (`NothingWaitsBelow`) |
| `DeepCascade: ContractTheorem` | `KeepsContract`: every behaviour is one of `CascadeContract` | the initial states map to initial states; each action maps to a begin, a delete, a foreign delete, an answer, or a stutter; that *clean* is only answered when nothing is owed is `InSight` with an empty stack, and that deletions stay inside is `Within` |
| `Documents: AgreementTheorem`, `StoredTheorem` | `BackendsAgree`, `StoredAsJson`, for any set of paths, values and documents | `DocumentsInv` adds that what is sent has no sentinel where it must have none. That every document remains a tree is a fact about `Edited` (`EditedIsTree`): what is kept, set and left as an empty object is spread. Where no patch runs into a leaf and none is empty, the operations SQLite and Firestore carry out are the same set; the empty patch gives the same where there is no data (`MergesAgree`) |
| `Documents: SiblingsTheorem`, `ReadBackTheorem`, `PatchesTheorem` | `PatchesMean`, an action property | a path that no operation touches has the same leaves below it before and after, and only a put of `{}` on Firestore is no such operation; an operation's own path has the leaf it set, or nothing |
| `Registry: RegistryTheorem` | `RegistryAnswers`: `ViewsAgree`, `TopologyCoversLookups`, `ValidChainsReach`, `MigratedIsWhatWasStored` | the views from the type of the two lists alone, by the first and the last entry of a kind; chains by induction over versions: the walk from a stamp the chain produces meets the walk from 0 (`WalksJoin`), and does not leave it again; values by their leaves |
| `SqliteScopes: ScopesTheorem` | `ScopesSeparate`: one table per graph, and a cascade's LIKE finds descendants only | a character's mangling tells where it ends, so that a table name can be read back in one way only (`TableForScope` is injective, also on names folded to one case), and so can a scope, as words have no `/`. An escaped prefix matches itself only, by induction over the characters `LikeStep` has read; a scope that begins with another one's and a `/` is a longer chain of calls |
| `Library: HandlesTheorem` | `HandlesMean`, of four parts: | see the next four rows |
| ... `Subgraphs` | `OneStorePerGraph`, `ScopeIsLogical`, `CapabilitiesMeanMethods`, for any roots, uids, names and routes | `HandlesInv`: a handle's place is its root and a `/` before each uid and each name of its chain of calls. No segment has a `/` (`Valid`), so a place can be read back into one chain only (`SpelledOnce`), and two handles of one place went the same way. A name that is routed moves the chain to another store, which is told by the chain too (`Elsewhere`) |
| ... `GraphPaths`, patterns | `PatternsMeanCuts`, `OfferedIsAllowed`, for patterns and paths of any length | By induction over the segments from the last to the first, a position is taken exactly when the rest of the path can be cut for the rest of the pattern (`SegmentsRun`, `CutsAre`); the editor's answer differs from the library's only where there are no patterns |
| ... `GraphPaths`, addresses | `AncestorsAgree`, `EnteredIsLeft`, `CrumbsLead`, `CollectionLinksLead`, for any depth | `PathsInv`: every segment of an address is one that decoding leaves alone, whichever links were followed, since a link is decoded before it is followed and decoding twice is decoding once (`DecodedSame`). So pairs can be put together and taken apart (`PairsFlatten`), the innermost ancestor is the same in both forms of the path, and a prefix of the pairs is an ancestor's address |
| ... `Capabilities` | `DeclaredIsThere`, `UndeclaredIsRefused`, `ReadsRunHere`, `TraversalsAreAnswered`, `SubgraphsKeepTheirWord`; `ClosedByItsOwner`, `BackendsAreReady`, for any stubs, options, calls and databases | `PromisesInv`: the handle at hand is the root itself, whatever its depth, one of five kinds, and asks for a pipeline only where pipelines run (`BackendsAre`). `LocalsInv`: a backend's connection has the functions and, if no other call touched it, the pragmas of the call's options; on the list of closes is at most the owner's, and then its backend is closed. Pragmas are by induction over the list (`AppliedTells`) |
| `Library: PartsAreSpecs` | the parts behave as specified, side by side | a step of `LibraryNext` is a step of one part and leaves the others |

`LibrarySpec` is the composition of six modules; `MCSpec` of the
run adds the other parts to it as conjuncts, so that each of its behaviours is one
of `LibrarySpec`.

**Induction over data.** The library's induction theorems take an operator as a
parameter, which no prover at hand instantiates. The proofs here have two lemmas
in its place, which are about sets and functions: `Induction` (a set of numbers
that has 0 and the successor of each of its members is all of them, from `Least`)
and `Recursion` (a function may be defined from each value to the next). What
a fold, a flattened sequence, a walk over versions or a LIKE pattern gives is proved
with these for every length.

**What the proofs changed in the model.** `Documents!Edited` used to leave an empty
object wherever a removal took the last key of one, also where another object that
became empty lay below it, which no tree can hold; no run had a path of three keys.
The proof that documents remain trees failed there, the definition was corrected
to what `json_remove` and field deletions leave, and the run now has such a path.
`TextIndex` said that a booted process with a fingerprint of its own configuration
has its partition filled: not so when the configuration is changed and changed back
(see above); the property now exempts types that have `lapsed`, and the run has the
two crashes it takes. Once fill and fingerprint are steps of their own, the process
has to remember which types it found outdated: it read the fingerprints once, before
any rebuild, and a table that was dropped and recreated meanwhile is rebuilt from
that list. `VectorColumn`'s exemption for documents that were written
amid an ensure was narrowed to their last change. `Traversal`'s completeness needs
hops that answer no edge twice, which is now an assumption; and when the limit of an
expand became the one of its query, it no longer held where that limit is reached,
nor did every answer lie within its source's limit: the property now says both. `FanOut` sorted with
an operator that is only defined where no two keys are equal; its sort is now stable,
as `Array.prototype.sort` is. `Capabilities!Wrap` let a caller pass on any open
connection, also one whose factory had thrown and which nobody holds: its pragmas
need not be those of the backend that wraps it then, and `BackendsAreReady` is false
as soon as options have both a pragma and a conflict. What a caller can pass on is
now `AtHand`, and the run has such options. `GraphPaths!EnteredIsLeft` exempted uids
with `~2F` in them but not names. `EditorPages!PagesMissNothing` exempts a row that
moves when a page ended with it, which counted the pages on display only: with a
second write, a page that is kept goes on from where its last document was before.
`Moves` now counts kept pages too, as the query client does show them again.

Only model-checked: liveness (`RetriesFinish`, `CascadesFinish`, `SearchesRecover`,
`CallsSettleAndTypesConverge`, `RunsFinish`), which is out of the prover's reach;
`QueriesMean`, that is `Queries`,
`Answers`, `Searches`, `QueryCalls` and `Discovery`.

## 5. What is not modelled, and why

- **Presentation and I/O**: command line, code generation, registration of views, the
  editor's sidebar, recents, modal, galleries and schema forms, its loaders and
  bundler. They print, mount or read files once; no state of the graph passes
  through them that a property could be about.
- **CRUD of Firestore and of a Durable Object**: one call each of the SDK or of
  the object. What they write is in `Documents`, what they are grouped into in
  `Transactions`, `Batches` and `DeepCascade`, what they answer in `Queries`,
  `Answers` and `Searches`.
- **Identifiers, records, errors**: constructors of values. Lookups assume that an edge's id is made of its triple.
- **The stores themselves**: Firestore, SQLite and the Durable Object runtime are
  external; what the code relies on is stated where it is used (a transaction, a
  prepared statement, LIKE, a JSON function, an update of a missing document, a
  lost call).
- **Data**: payloads, messages and errors are reduced to what the properties tell
  apart. JSON-schema validation (ajv), ranking, distance arithmetic, wording,
  progress callbacks and retry delays are left out; so are 32-bit collisions of
  fingerprints.

## 6. Plan

1. `SqliteGraphs` as a second implementation of `CascadeContract`, with its
   retries as repeated calls of the contract.
2. Proofs of the parts of `QueriesMean` that say most, `Queries!LimitsMeant` before
   all.
3. `SqliteConnection` composed with `TextIndex`, so that a rebuild runs inside
   another caller's transaction.
4. The editor's focus and its graph modal beside `EditorDrill`, and `GraphPaths`
   composed with `Subgraphs`, so that an address leads to a store.
