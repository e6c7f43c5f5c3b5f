---------------------------- MODULE GraphClient ----------------------------
(***************************************************************************)
(* Graph clients over one document store: client.ts, batch.ts' writers and  *)
(* migration.ts.  A read fetches records, migrates the ones whose stamp is  *)
(* behind the reader's registry, answers, and only then sends the migrated  *)
(* records back to the store as fire-and-forget updates that nothing orders *)
(* against the writes of the application.                                   *)
(*                                                                          *)
(* A document is reduced to its version stamp v (an absent stamp is 0, as   *)
(* migrateRecord reads it) and its data.  A field of the data keeps the     *)
(* schema version its content is shaped for and the number of the write     *)
(* that produced the content, so that a lost write and a record whose stamp *)
(* promises more than its content can both be seen.                         *)
(***************************************************************************)
EXTENDS Naturals

CONSTANTS
  Docs,        \* document ids: nodes and edges alike
  Clients,     \* processes holding a GraphClient on this graph
  Fields,      \* top-level fields of a record's data
  Required,    \* the fields the registry's JSON schema requires in a put
  Version,     \* Version[c]: schemaVersion of c's registry entry, 0 if none
  WritesBack,  \* clients whose resolved migrationWriteBack is not 'off'
  Migratable,  \* Migratable[c]: stamps from which c's chain of steps completes
  MaxVersion,  \* the newest schema version there is
  MaxWrites    \* bound: application writes per document

ASSUME ClientAssumption ==
  /\ MaxVersion \in Nat
  /\ MaxWrites \in Nat
  /\ Required \subseteq Fields
  /\ Version \in [Clients -> 0..MaxVersion]
  /\ WritesBack \subseteq Clients
  /\ Migratable \in [Clients -> SUBSET (0..MaxVersion)]

VARIABLES
  graph,      \* the stored documents, a function on the ids that exist
  reading,    \* reading[c]: what c's read in progress fetched, {} when idle
  writeBack,  \* writeBack[c]: updates c has sent and the store not yet served
  writes,     \* writes[d]: application writes to d so far
  raced       \* documents hit by a write-back older than their last write

vars == <<graph, reading, writeBack, writes, raced>>

-----------------------------------------------------------------------------
(* Partial functions: documents that exist, fields that are present.        *)

PFun(S, T) == UNION { [D -> T] : D \in SUBSET S }

Only(f, S) == [x \in DOMAIN f \cap S |-> f[x]]
Over(f, g) == [x \in DOMAIN f \cup DOMAIN g |->
                 IF x \in DOMAIN g THEN g[x] ELSE f[x]]
None == [x \in {} |-> x]

Cell     == [shape : 0..MaxVersion, val : 0..MaxWrites]
Data     == PFun(Fields, Cell)
Record   == [v : 0..MaxVersion, data : Data]
Snapshot == [rec : Record, at : 0..MaxWrites]

-----------------------------------------------------------------------------
(* migration.ts                                                             *)

\* A record is migrated only when its stamp is behind: no downgrade.
Behind(c, rec) == rec.v < Version[c]

\* Mutant: the chain starts from {} instead of a copy of the data.
UpgradeChangesOnly(data, to) ==
  [f \in { f \in DOMAIN data : data[f].shape < to } |-> [data[f] EXCEPT !.shape = to]]

\* applyMigrationChain: every field that is present ends up shaped for the
\* reader's schema; a step is idempotent, so newer content is left alone.
Upgrade(data, to) ==
  [f \in DOMAIN data |->
     [data[f] EXCEPT !.shape = IF @ < to THEN to ELSE @]]

\* Mutant: the stamp of a migrated record is one too high.
MigratedOvershoots(c, rec) ==
  IF Behind(c, rec)
    THEN [v |-> Version[c] + 1, data |-> Upgrade(rec.data, Version[c])]
    ELSE rec

\* migrateRecord: the record a read by c answers with.
Migrated(c, rec) ==
  IF Behind(c, rec)
    THEN [v |-> Version[c], data |-> Upgrade(rec.data, Version[c])]
    ELSE rec

\* migrateRecords is a Promise.all: one record without a chain rejects it all.
Rejects(c, snaps) ==
  \E d \in DOMAIN snaps : /\ Behind(c, snaps[d].rec)
                          /\ snaps[d].rec.v \notin Migratable[c]

\* Mutant: the fetched data goes back under the new stamp.
WriteBacksUnmigrated(c, snaps) ==
  LET stale == { d \in DOMAIN snaps : c \in WritesBack /\ Behind(c, snaps[d].rec) }
  IN  [d \in stale |-> [rec |-> [snaps[d].rec EXCEPT !.v = Version[c]], at |-> snaps[d].at]]

\* The write-backs a read sends: only for the records it migrated.
WriteBacks(c, snaps) ==
  LET stale == { d \in DOMAIN snaps : c \in WritesBack /\ Behind(c, snaps[d].rec) }
  IN  [d \in stale |-> [rec |-> Migrated(c, snaps[d].rec), at |-> snaps[d].at]]

-----------------------------------------------------------------------------
(* The application's writes.  Each one reaches the store as one atomic call. *)

\* The content client c writes for document d: shaped for c's own schema.
Payload(c, d, F) ==
  [f \in F |-> [shape |-> Version[c], val |-> writes[d] + 1]]

CountWrite(d) ==
  /\ writes[d] < MaxWrites
  /\ writes' = [writes EXCEPT ![d] = @ + 1]
  /\ UNCHANGED <<reading, writeBack, raced>>

Store(d, rec) == graph' = Over(graph, [x \in {d} |-> rec])

\* putNode / putEdge: validated payload, deep-merged; the stamp is set when the
\* registry has a version and otherwise keeps what the document had.
Put(c, d, F) ==
  LET old == IF d \in DOMAIN graph THEN graph[d] ELSE [v |-> 0, data |-> None]
  IN  /\ Required \subseteq F
      /\ Store(d, [v    |-> IF Version[c] > 0 THEN Version[c] ELSE old.v,
                   data |-> Over(old.data, Payload(c, d, F))])
      /\ CountWrite(d)

\* replaceNode / replaceEdge: wipe and rewrite.
Replace(c, d, F) ==
  /\ Required \subseteq F
  /\ Store(d, [v |-> Version[c], data |-> Payload(c, d, F)])
  /\ CountWrite(d)

\* updateNode / updateEdge: merges F and prunes D, unvalidated and unstamped;
\* NOT_FOUND on a document that does not exist.
Update(c, d, F, D) ==
  /\ d \in DOMAIN graph
  /\ F \cap D = {}
  /\ F \cup D # {}
  /\ Store(d, [v    |-> graph[d].v,
               data |-> Over(Only(graph[d].data, Fields \ D), Payload(c, d, F))])
  /\ CountWrite(d)

\* removeNode / removeEdge: idempotent.
Remove(d) ==
  /\ graph' = Only(graph, Docs \ {d})
  /\ CountWrite(d)

-----------------------------------------------------------------------------
(* Reads and their write-backs.                                             *)

\* getNode, getEdge, findEdges, findNodes: the store answers with the records
\* of S that exist; nothing to do when there are none.
Read(c, S) ==
  /\ reading[c] = None
  /\ S \cap DOMAIN graph # {}
  /\ reading' = [reading EXCEPT ![c] =
                   [d \in S \cap DOMAIN graph |-> [rec |-> graph[d], at |-> writes[d]]]]
  /\ UNCHANGED <<graph, writeBack, writes, raced>>

\* applyMigration(s): the records are migrated, the caller is answered and the
\* write-backs leave.  Bound: one write-back per client and document in flight.
Answer(c) ==
  /\ reading[c] # None
  /\ LET sent == IF Rejects(c, reading[c]) THEN None ELSE WriteBacks(c, reading[c])
     IN  /\ DOMAIN sent \cap DOMAIN writeBack[c] = {}
         /\ writeBack' = [writeBack EXCEPT ![c] = Over(@, sent)]
  /\ reading' = [reading EXCEPT ![c] = None]
  /\ UNCHANGED <<graph, writes, raced>>

\* Mutant: the write-back is a setDoc, which creates what it does not find.
UpsertData(d, rec) == Over(graph, [x \in {d} |-> rec])

\* updateDoc({replaceData, v}): replaces the whole data of a document that
\* exists, NOT_FOUND otherwise.
ReplaceData(d, rec) ==
  IF d \in DOMAIN graph THEN [graph EXCEPT ![d] = rec] ELSE graph

\* handleWriteBack's update reaches the store.
WriteBackLands(c, d) ==
  /\ d \in DOMAIN writeBack[c]
  /\ graph' = ReplaceData(d, writeBack[c][d].rec)
  /\ writeBack' = [writeBack EXCEPT ![c] = Only(@, Docs \ {d})]
  /\ raced' = IF writeBack[c][d].at < writes[d] THEN raced \cup {d} ELSE raced
  /\ UNCHANGED <<reading, writes>>

\* ... or fails on the way: the error is logged and swallowed.
WriteBackFails(c, d) ==
  /\ d \in DOMAIN writeBack[c]
  /\ writeBack' = [writeBack EXCEPT ![c] = Only(@, Docs \ {d})]
  /\ UNCHANGED <<graph, reading, writes, raced>>

-----------------------------------------------------------------------------

\* Documents an earlier deployment left: content shaped for their stamp.
Legacy ==
  { [v |-> n, data |-> [f \in F |-> [shape |-> n, val |-> 0]]] :
      n \in 0..MaxVersion, F \in { F \in SUBSET Fields : Required \subseteq F } }

Init ==
  /\ graph \in PFun(Docs, Legacy)
  /\ reading = [c \in Clients |-> None]
  /\ writeBack = [c \in Clients |-> None]
  /\ writes = [d \in Docs |-> 0]
  /\ raced = {}

\* What a client does besides putting and replacing.
Step(c) ==
  \/ \E d \in Docs, F, D \in SUBSET Fields : Update(c, d, F, D)
  \/ \E S \in SUBSET Docs : Read(c, S)
  \/ Answer(c)
  \/ \E d \in Docs : WriteBackLands(c, d) \/ WriteBackFails(c, d)

Merge(c)   == \E d \in Docs, F \in SUBSET Fields : Put(c, d, F)
Rewrite(c) == \E d \in Docs, F \in SUBSET Fields : Replace(c, d, F)
Delete     == \E d \in Docs : Remove(d)

Next == Delete \/ \E c \in Clients : Step(c) \/ Merge(c) \/ Rewrite(c)

Spec == Init /\ [][Next]_vars

\* An application that rewrites records with replaceNode instead of merging
\* puts into them, as docs/data-modeling.md advises for restructured data.
NextReplaceOnly == Delete \/ \E c \in Clients : Step(c) \/ Rewrite(c)

SpecReplaceOnly == Init /\ [][NextReplaceOnly]_vars

-----------------------------------------------------------------------------
(* Properties.                                                              *)

TypeOK ==
  /\ graph \in PFun(Docs, Record)
  /\ reading \in [Clients -> PFun(Docs, Snapshot)]
  /\ writeBack \in [Clients -> PFun(Docs, Snapshot)]
  /\ writes \in [Docs -> 0..MaxWrites]
  /\ raced \in SUBSET Docs

\* Whether a document exists is decided by the application alone: a write-back
\* that lands after the document was removed does not bring it back.
OnlyWritesDecideExistence ==
  [][\A d \in Docs : (d \in DOMAIN graph) # (d \in DOMAIN graph')
                       => writes'[d] > writes[d]]_vars

\* The write behind each field's content.
Vals(rec) == [f \in DOMAIN rec.data |-> rec.data[f].val]

\* As long as no write-back was overtaken by a write, write-backs never change
\* the content the application wrote, whichever registries the clients have.
WriteBackKeepsContent ==
  [][\A d \in DOMAIN graph \cap DOMAIN graph' :
       /\ writes'[d] = writes[d]
       /\ d \notin raced'
       => Vals(graph'[d]) = Vals(graph[d])]_vars

\* ... and a client current enough to migrate the record reads the same data
\* before and after the write-back of any other client, newer or older.
WriteBackKeepsReads ==
  [][\A d \in DOMAIN graph \cap DOMAIN graph', c \in Clients :
       /\ writes'[d] = writes[d]
       /\ d \notin raced'
       /\ Version[c] >= graph[d].v
       /\ Version[c] >= graph'[d].v
       => Migrated(c, graph'[d]).data = Migrated(c, graph[d]).data]_vars

\* A read answers with content of the reader's schema: old records upgrade
\* transparently on the next read.
ReadsAreCurrent ==
  \A c \in Clients : \A d \in DOMAIN reading[c] :
    LET answer == Migrated(c, reading[c][d].rec)
    IN  \A f \in DOMAIN answer.data : answer.data[f].shape >= Version[c]

=============================================================================
