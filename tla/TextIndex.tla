------------------------------ MODULE TextIndex ------------------------------
(***************************************************************************)
(* The full-text index of one subgraph's SQLite table: the shared FTS      *)
(* index with its id map, one partition per configured node type, the      *)
(* triggers that keep them, the reconciliation at every bootstrap and      *)
(* before a search, and the sweep that follows a cascade of the parent.    *)
(* One process serves the table at a time, with writes, searches and the   *)
(* sweep side by side; it may crash between any two statements and come     *)
(* back with another configuration.                                        *)
(***************************************************************************)
EXTENDS Naturals, FiniteSets, Functions

CONSTANTS
  Docs, Types, Values,  \* documents, node types, and texts of a document
  Configs,    \* the configurations a process opens with: type -> its fields
  None,       \* no row, no partition, no fingerprint
  MaxWrites,  \* bound on inserts, updates and deletes
  MaxCrashes, MaxCascades

VARIABLES
  rows,     \* the graph table (doc -> row), or None when it is dropped
  index,    \* "fts", "map" and the partitions: name -> its rows, or None
  nextId,   \* the AUTOINCREMENT sequence of the map
  bodies,   \* the per-type triggers on the table: type -> extracted fields
  stored,   \* the fingerprints in <root>_fts_cfg: type -> fields, or None
  process,  \* [config, booted, at, todo, type]: the process and its search handle,
            \* how far its ensure is, the types to rebuild, the one it rebuilds
  lapsed,   \* types whose triggers no longer are what their fingerprint says
  sweep,    \* the cascade's sweep: [phase, orphans, purges]
  torn,     \* whether the sweep has dropped the map of a table with rows
  budget    \* [writes, crashes, cascades] left

vars == <<rows, index, nextId, bodies, stored, process, lapsed, sweep, torn, budget>>

Rows == [type : Types, value : Values]
Artifacts == {"fts", "map"} \union Types
NoRows == [x \in {} |-> None]
Live == rows # None
Idle == [phase |-> "idle", orphans |-> {}, purges |-> FALSE]

\* What is indexed of a row: every string of its data, or the declared fields.
Extraction(row, fields) == <<fields, row.value>>

Without(f, keys) == Restrict(f, DOMAIN f \ keys)
Over(f, g) ==
  [x \in DOMAIN f \union DOMAIN g |-> IF x \in DOMAIN f THEN f[x] ELSE g[x]]
With(f, x, value) == Over([y \in {x} |-> value], f)

\* --- The triggers -------------------------------------------------------

\* A plausible mistake: an id past the sequence.
IdPastSequence(map, d) == IF d \in DOMAIN map THEN map ELSE With(map, d, nextId + 1)

\* A statement maps a document to the id it has, or to the next one.
Mapped(map, d) == IF d \in DOMAIN map THEN map ELSE With(map, d, nextId)

\* A plausible mistake: a row that leaves its type stays in the partition.
StaysInPartition(part, id, ty, row) ==
  IF ty = row.type THEN With(part, id, Extraction(row, bodies[ty])) ELSE part

\* <t>_fts_t_<ty>_ai and _au: drop the entry, and index a row of the type anew.
Repartitioned(part, id, ty, row) ==
  IF ty = row.type THEN With(part, id, Extraction(row, bodies[ty])) ELSE Without(part, {id})

\* They come after <t>_fts_ai and _au, which do the same for every row.
Reindexed(ix, d, row) ==
  LET map == Mapped(ix.map, d)
  IN [a \in Artifacts |->
       CASE a = "map" -> map
         [] a = "fts" -> With(ix.fts, map[d], Extraction(row, "all"))
         [] a \in DOMAIN bodies -> Repartitioned(ix[a], map[d], a, row)
         [] OTHER -> ix[a]]

\* The per-type triggers read the map before <t>_fts_ad deletes its row.
Unindexed(ix, d) ==
  LET ids == {ix.map[x] : x \in {d} \intersect DOMAIN ix.map}
  IN [a \in Artifacts |->
       CASE a = "map" -> Without(ix.map, {d})
         [] a = "fts" \/ a \in DOMAIN bodies -> Without(ix[a], ids)
         [] OTHER -> ix[a]]

\* A statement fails when a trigger finds an artifact missing.
TriggersRun == \A a \in {"fts", "map"} \union DOMAIN bodies : index[a] # None

\* --- Reconciliation -----------------------------------------------------

\* What rows without an entry get.
Entries(map, table, docs, fields) ==
  [i \in {map[d] : d \in docs} |-> Extraction(table[CHOOSE d \in docs : map[d] = i], fields)]

\* The ids of rows the map does not know, in whatever order the table is scanned.
Numberings(missing) ==
  {ids \in [missing -> nextId .. nextId + Cardinality(missing) - 1] : IsInjective(ids)}

\* A plausible mistake: the map forgets vanished documents, the index does not.
MapPurgedOnly(ix, table, ids) ==
  [ix EXCEPT !["map"] = Over(ids, Restrict(ix.map, DOMAIN ix.map \intersect DOMAIN table))]

\* Purge the entries of vanished documents, then map and index missing rows.
SharedSync(ix, table, ids) ==
  LET map == Over(ids, Restrict(ix.map, DOMAIN ix.map \intersect DOMAIN table))
      fts == Without(ix.fts, {ix.map[d] : d \in DOMAIN ix.map \ DOMAIN table})
      docs == {d \in DOMAIN table : map[d] \notin DOMAIN fts}
  IN [a \in Artifacts |-> CASE a = "map" -> map
                            [] a = "fts" -> Over(Entries(map, table, docs, "all"), fts)
                            [] OTHER -> ix[a]]

\* Statement one: entries whose document is gone, or of another type by now.
GhostsPurged(ix, table, ty) ==
  Without(ix[ty], {ix.map[d] : d \in
    {x \in DOMAIN ix.map : x \notin DOMAIN table \/ table[x].type # ty}})

\* Statement two: the type's rows that have no entry yet.
MissingIndexed(part, map, table, ty, fields) ==
  LET docs == {d \in DOMAIN table \intersect DOMAIN map :
                 table[d].type = ty /\ map[d] \notin DOMAIN part}
  IN Over(Entries(map, table, docs, fields), part)

TypeSync(ix, table, config) ==
  [a \in Artifacts |->
    IF a \in DOMAIN config
    THEN MissingIndexed(GhostsPurged(ix, table, a), ix.map, table, a, config[a])
    ELSE ix[a]]

\* CREATE ... IF NOT EXISTS for the shared artifacts and the partitions.
Created(ix, config) ==
  [a \in Artifacts |-> IF ix[a] = None /\ a \in {"fts", "map"} \union DOMAIN config
                       THEN NoRows ELSE ix[a]]

\* --- The process --------------------------------------------------------

\* A process opens the database; nothing is ensured yet.
Opened(config) ==
  [config |-> config, booted |-> FALSE, at |-> "unchecked", todo |-> {}, type |-> None]

\* The types whose fingerprint is not that of the triggers the table has.
Outdated(installed) ==
  {ty \in Types : stored[ty] # None /\ ~(ty \in DOMAIN installed /\ installed[ty] = stored[ty])}

\* The schema bootstrap, in one batch: tables, triggers, then both syncs.
Bootstrap ==
  /\ ~process.booted \/ ~Live
  /\ LET table == IF Live THEN rows ELSE NoRows
         created == Created(index, process.config)
         missing == DOMAIN table \ DOMAIN created.map
     IN /\ rows' = table
        /\ \E ids \in Numberings(missing) :
             index' = TypeSync(SharedSync(created, table, ids), table, process.config)
        /\ nextId' = nextId + Cardinality(missing)
  /\ bodies' = Over(process.config, bodies)
  /\ lapsed' = Outdated(bodies') \union (IF Live THEN lapsed ELSE {})
  /\ process' = [process EXCEPT !.booted = TRUE]
  /\ UNCHANGED <<stored, sweep, torn, budget>>

CanWrite ==
  /\ process.booted /\ Live /\ TriggersRun
  /\ budget.writes > 0
  /\ budget' = [budget EXCEPT !.writes = @ - 1]

\* setDoc and updateDoc: one upsert or UPDATE, and its triggers.
Put(d, row) ==
  /\ CanWrite
  /\ rows' = With(rows, d, row)
  /\ index' = Reindexed(index, d, row)
  /\ nextId' = IF d \in DOMAIN index.map THEN nextId ELSE nextId + 1
  /\ UNCHANGED <<bodies, stored, process, lapsed, sweep, torn>>

Delete(d) ==
  /\ CanWrite
  /\ d \in DOMAIN rows
  /\ rows' = Without(rows, {d})
  /\ index' = Unindexed(index, d)
  /\ UNCHANGED <<nextId, bodies, stored, process, lapsed, sweep, torn>>

Crash(config) ==
  /\ budget.crashes > 0
  /\ budget' = [budget EXCEPT !.crashes = @ - 1]
  /\ process' = Opened(config)
  /\ sweep' = Idle
  /\ UNCHANGED <<rows, index, nextId, bodies, stored, lapsed, torn>>

\* --- ftsEnsure, before the first search ---------------------------------

\* A plausible mistake: only a missing fingerprint rebuilds.
NeverStored == {ty \in DOMAIN process.config : stored[ty] = None}

Changed == {ty \in DOMAIN process.config : stored[ty] # process.config[ty]}

\* No partitions: nothing to reconcile. Otherwise drop the triggers of types
\* that are not configured any more.
CheckTriggers ==
  /\ process.booted /\ process.at = "unchecked"
  /\ LET config == process.config
     IN IF config = NoRows
        THEN process' = [process EXCEPT !.at = "ready"] /\ UNCHANGED <<bodies, lapsed>>
        ELSE /\ bodies' = Restrict(bodies, DOMAIN bodies \intersect DOMAIN config)
             /\ lapsed' = lapsed \union Outdated(bodies')
             /\ process' = [process EXCEPT !.at = "read"]
  /\ UNCHANGED <<rows, index, nextId, stored, sweep, torn, budget>>

\* The fingerprints are read once, before the types are gone through.
ReadFingerprints ==
  /\ process.at = "read"
  /\ process' = [process EXCEPT !.at = "compare", !.todo = Changed]
  /\ UNCHANGED <<rows, index, nextId, bodies, stored, lapsed, sweep, torn, budget>>

\* A fingerprint that is missing or differs empties the partition...
PurgePartition(ty) ==
  /\ process.at = "compare"
  /\ ty \in process.todo /\ index[ty] # None
  /\ index' = [index EXCEPT ![ty] = NoRows]
  /\ process' = [process EXCEPT !.at = "emptied", !.type = ty]
  /\ UNCHANGED <<rows, nextId, bodies, stored, lapsed, sweep, torn, budget>>

\* ... the two statements of its sync ...
CanSync == Live /\ index[process.type] # None /\ index.map # None

PurgeGhosts ==
  /\ process.at = "emptied" /\ CanSync
  /\ index' = [index EXCEPT ![process.type] = GhostsPurged(index, rows, process.type)]
  /\ process' = [process EXCEPT !.at = "cleaned"]
  /\ UNCHANGED <<rows, nextId, bodies, stored, lapsed, sweep, torn, budget>>

\* ... fill it with the current extraction ...
FillPartition ==
  /\ process.at = "cleaned" /\ CanSync
  /\ LET ty == process.type
     IN index' = [index EXCEPT ![ty] =
                    MissingIndexed(index[ty], index.map, rows, ty, process.config[ty])]
  /\ process' = [process EXCEPT !.at = "filled"]
  /\ UNCHANGED <<rows, nextId, bodies, stored, lapsed, sweep, torn, budget>>

\* ... and then it is recorded, whether or not the table is still there.
StoreFingerprint ==
  /\ process.at = "filled"
  /\ LET ty == process.type
     IN /\ stored' = [stored EXCEPT ![ty] = process.config[ty]]
        /\ lapsed' = lapsed \ {ty}
        /\ process' = [process EXCEPT !.at = "compare", !.todo = @ \ {ty}, !.type = None]
  /\ UNCHANGED <<rows, index, nextId, bodies, sweep, torn, budget>>

\* Fingerprints of types no longer configured are removed.
Ready ==
  /\ process.at = "compare" /\ process.todo = {}
  /\ stored' = [ty \in Types |-> IF ty \in DOMAIN process.config THEN stored[ty] ELSE None]
  /\ process' = [process EXCEPT !.at = "ready"]
  /\ UNCHANGED <<rows, index, nextId, bodies, lapsed, sweep, torn, budget>>

\* --- The parent's cascade and its sweep ---------------------------------

\* Dropping the table takes its triggers along and leaves the artifacts.
CascadeDrops ==
  /\ Live /\ sweep = Idle
  /\ budget.cascades > 0
  /\ budget' = [budget EXCEPT !.cascades = @ - 1]
  /\ rows' = None
  /\ bodies' = NoRows
  /\ sweep' = [Idle EXCEPT !.phase = "list"]
  /\ UNCHANGED <<index, nextId, stored, process, lapsed, torn>>

\* findOrphanedFtsTables, from the names sqlite_master has now: the catalog,
\* read after them, protects only artifacts that are graph tables themselves.
Orphans == {a \in Artifacts : /\ index[a] # None
                              /\ a \in {"fts", "map"} \union DOMAIN process.config}

ListOrphans ==
  /\ sweep.phase = "list"
  /\ sweep' = [phase |-> "drop", orphans |-> IF Live THEN {} ELSE Orphans, purges |-> ~Live]
  /\ UNCHANGED <<rows, index, nextId, bodies, stored, process, lapsed, torn, budget>>

\* One DROP TABLE IF EXISTS each, the index, the map, the partitions, whether or
\* not somebody has recreated the table since the listing.
DropOrphan ==
  /\ sweep.phase = "drop"
  /\ \E a \in sweep.orphans :
       /\ a = "fts" \/ "fts" \notin sweep.orphans
       /\ a \in {"fts", "map"} \/ "map" \notin sweep.orphans
       /\ index' = [index EXCEPT ![a] = None]
       /\ sweep' = [sweep EXCEPT !.orphans = @ \ {a}]
       /\ nextId' = IF a = "map" THEN 1 ELSE nextId
       /\ torn' = (torn \/ (a = "map" /\ Live /\ DOMAIN rows # {}))
  /\ UNCHANGED <<rows, bodies, stored, process, lapsed, budget>>

\* The fingerprints of a table the listing did not have are forgotten.
PurgeFingerprints ==
  /\ sweep.phase = "drop" /\ sweep.orphans = {}
  /\ sweep' = Idle
  /\ stored' = IF sweep.purges /\ process.config # NoRows
               THEN [ty \in Types |-> None] ELSE stored
  /\ UNCHANGED <<rows, index, nextId, bodies, process, lapsed, torn, budget>>

\* What a search reads: the table, the shared index and the partitions.
Gone == ~Live \/ \E a \in {"fts", "map"} \union DOMAIN process.config : index[a] = None

\* A search whose ensure, or whose own query, finds one of them gone bootstraps again.
SelfHeal ==
  /\ \/ process.at = "ready" /\ Gone
     \/ process.at = "compare" /\ \E ty \in process.todo : index[ty] = None
     \/ process.at \in {"emptied", "cleaned"} /\ ~CanSync
  /\ process' = Opened(process.config)
  /\ UNCHANGED <<rows, index, nextId, bodies, stored, lapsed, sweep, torn, budget>>

Init ==
  /\ rows = None
  /\ index = [a \in Artifacts |-> None]
  /\ nextId = 1
  /\ bodies = NoRows
  /\ stored = [ty \in Types |-> None]
  /\ lapsed = {}
  /\ process \in {Opened(c) : c \in Configs}
  /\ sweep = Idle
  /\ torn = FALSE
  /\ budget = [writes |-> MaxWrites, crashes |-> MaxCrashes, cascades |-> MaxCascades]

Next ==
  \/ Bootstrap \/ SelfHeal
  \/ \E d \in Docs : Delete(d) \/ \E row \in Rows : Put(d, row)
  \/ \E c \in Configs : Crash(c)
  \/ CheckTriggers \/ ReadFingerprints
  \/ \E ty \in Types : PurgePartition(ty)
  \/ PurgeGhosts \/ FillPartition \/ StoreFingerprint \/ Ready
  \/ CascadeDrops \/ ListOrphans \/ DropOrphan \/ PurgeFingerprints

Spec == Init /\ [][Next]_vars

\* --- Properties ---------------------------------------------------------

\* Artifacts and types are told apart, and None from every table and type.
KindsAssumption ==
  /\ Types \intersect {"fts", "map", None} = {}
  /\ \A c \in Configs : DOMAIN c \subseteq Types /\ \A ty \in DOMAIN c : c[ty] # None
  /\ \A S, f : [x \in S |-> f[x]] # None

\* What a search of an artifact joins to: its entries that the map and the
\* table still know.
Hits(a) == {<<d, index[a][index.map[d]]>> :
             d \in {x \in DOMAIN index.map \intersect DOMAIN rows :
                      index.map[x] \in DOMAIN index[a]}}

Searchable(a) == Live /\ process.booted /\ index[a] # None /\ index.map # None

\* A search is routed to the partition of a type its process is configured with.
Routed == DOMAIN process.config

\* The tables hold rows of their kind (sqlite-search.ts buildFtsDDL).
TypeOK ==
  /\ rows = None \/ (DOMAIN rows \subseteq Docs /\ Range(rows) \subseteq Rows)
  /\ DOMAIN index = Artifacts
  /\ index.map # None => /\ DOMAIN index.map \subseteq Docs
                         /\ Range(index.map) \subseteq 1 .. nextId - 1
  /\ DOMAIN bodies \subseteq Types
  /\ DOMAIN stored = Types
  /\ process.at \in {"unchecked", "read", "compare", "emptied", "cleaned", "filled", "ready"}
  /\ process.todo \subseteq Routed
  /\ process.at \in {"emptied", "cleaned", "filled"} => process.type \in process.todo
  /\ torn \in BOOLEAN

\* Whatever was written, retyped, deleted, dropped with its graph, crashed on
\* or recreated, also amid the sweep's drops, the shared index finds each row by
\* its current text and nothing else (the triggers and buildFtsSyncStatements),
\* unless the sweep has dropped the map of a table that already had rows again:
\* their ids then start anew beside entries that have old ones.
SharedIndexIsExact ==
  Searchable("fts") /\ ~torn =>
    /\ Hits("fts") = {<<d, Extraction(rows[d], "all")>> : d \in DOMAIN rows}
    /\ DOMAIN index.fts = Range(index.map)

\* The statements of a rebuild during which a partition is not whole.
Rebuilding(ty) == process.type = ty /\ process.at \in {"emptied", "cleaned"}

\* The partition of a configured type finds exactly the rows of that type, also
\* after a crash amid a rebuild or the sweep's drops, with a row that changes its
\* type leaving one partition for the other (buildPerTypeFtsDDL,
\* buildPerTypeFtsSyncStatements).
PartitionsHoldTheirType ==
  \A ty \in Routed :
    Searchable(ty) /\ ~Rebuilding(ty)
      => {h[1] : h \in Hits(ty)} = {d \in DOMAIN rows : rows[d].type = ty}

\* Once a search is answered, a partition finds them by their current text in the
\* fields it is configured for ("a field-list CHANGE (purge + rebuild the partition
\* on mismatch)"), whatever statement of a rebuild a crash came after.  README.md:1185
\* promises it of every change; the code does not keep it of a list that was changed
\* and, before a search took note, changed back (`lapsed`).
FieldsAreCurrent ==
  process.at = "ready" /\ ~torn =>
    \A ty \in Routed : Searchable(ty)
      => \/ ty \in lapsed /\ stored[ty] = process.config[ty]
         \/ \A h \in Hits(ty) : h[2] = Extraction(rows[h[1]], process.config[ty])

\* The indexes follow the rows.
IndexesFollowRows ==
  TypeOK /\ SharedIndexIsExact /\ PartitionsHoldTheirType /\ FieldsAreCurrent
=============================================================================
