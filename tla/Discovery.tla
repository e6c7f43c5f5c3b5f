------------------------------ MODULE Discovery ------------------------------
(***************************************************************************)
(* From the folders of entities/ to the indexes of a store: discover.ts     *)
(* reads a folder per type, createRegistry expands it to triples, and each  *)
(* store makes indexes of what the triples declare: Firestore a file to     *)
(* deploy (indexes.ts), SQLite the DDL of every table                       *)
(* (internal/sqlite-index-ddl.ts).                                          *)
(*                                                                         *)
(* A folder is its files: schema files, the topology of edge.json, and what *)
(* meta.json adds.  An index is a list of fields with directions, and may   *)
(* have a predicate.                                                        *)
(***************************************************************************)
EXTENDS Naturals, FiniteSets, SequencesExt

CONSTANTS
  NodeNames, EdgeNames,  \* folders that may be there
  Ends,                  \* node types that an edge.json may name: sets of them
  To,                    \* the `to` of every edge.json
  Graphs,                \* names of subgraphs
  Declarations,          \* lists of index specs that a meta.json may have
  CoreIndexes,           \* the core preset: a list of specs
  Collection             \* root collection

None == "none"

VARIABLES
  nodes,   \* node folders: name -> files
  edges    \* edge folders: name -> files

vars == <<nodes, edges>>

-----------------------------------------------------------------------------
(* discover.ts.                                                             *)

\* Scripts come before JSON, whatever else is there.
SchemaFile(folder) ==
  IF "schema.ts" \in folder.schemas THEN "schema.ts"
  ELSE IF "schema.json" \in folder.schemas THEN "schema.json" ELSE None

\* A module without an object as its default export is an error, and no
\* fallback to the JSON that lies beside it.
Loads(folder) ==
  SchemaFile(folder) = "schema.json" \/ (SchemaFile(folder) = "schema.ts" /\ ~folder.broken)

\* One folder that cannot be read, and nothing is discovered.
Fails ==
  \/ \E n \in DOMAIN nodes : ~Loads(nodes[n])
  \/ \E x \in DOMAIN edges : ~Loads(edges[x]) \/ ~edges[x].topology

\* edge.json decides, then meta.json.
TargetGraph(folder) == IF folder.edgeGraph # None THEN folder.edgeGraph ELSE folder.metaGraph

Warnings == {pair \in (DOMAIN edges) \X (UNION Ends \cup To) :
               pair[2] \in (edges[pair[1]].from \cup To) \ DOMAIN nodes}

\* createRegistry: one entry for a node type, and one for each pair of ends.
Entries ==
  {[triple |-> <<n, "is", n>>, graph |-> None, indexes |-> <<>>] : n \in DOMAIN nodes}
    \cup UNION { {[triple |-> <<a, x, b>>, graph |-> TargetGraph(edges[x]), indexes |-> edges[x].indexes] :
                    a \in edges[x].from, b \in To} : x \in DOMAIN edges }

-----------------------------------------------------------------------------
(* Indexes.                                                                 *)

\* The specs a generator goes through, in order: the preset, then each entry's.
Specs == CoreIndexes \o FoldSet(LAMBDA entry, specs : specs \o entry.indexes, <<>>, Entries)

\* Subgraphs named by discovery and by the registry: the command passes both.
Targets ==
  ({TargetGraph(edges[x]) : x \in DOMAIN edges} \cup {entry.graph : entry \in Entries}) \ {None}

\* Mutants: the fingerprint forgets directions; the graph.
ByPaths(spec) == <<[i \in DOMAIN spec.fields |-> spec.fields[i][1]], spec.where>>
FieldsOnly(index) == index.fields

\* What two specs share when they are the same index of one table.
Fingerprint(spec) == <<spec.fields, spec.where>>
DeployKey(index) == <<index.fields, index.scope, index.name>>

\* Of several with one key, the first.
Deduped(list, keys) ==
  LET first == SelectSeq([i \in DOMAIN list |-> i], LAMBDA i : \A j \in 1..(i - 1) : keys[j] # keys[i])
  IN  [n \in DOMAIN first |-> list[first[n]]]

\* CREATE INDEX IF NOT EXISTS, under the name of the fingerprint.
Ddl(specs) == Range(Deduped(specs, [i \in DOMAIN specs |-> Fingerprint(specs[i])]))

\* firestore.indexes.json: fields of one index, its scope and its collection
\* group.  Single fields are indexed anyway; Firestore has no predicates.
FirestoreIndexes(specs) ==
  LET places == <<<<"COLLECTION", Collection>>>> \o SetToSeq({"COLLECTION_GROUP"} \X Targets)
      listed == SelectSeq(specs, LAMBDA s : Len(s.fields) >= 2 /\ s.where = None)
      all == FlattenSeq([i \in DOMAIN listed |->
               [p \in DOMAIN places |-> [fields |-> listed[i].fields, scope |-> places[p][1], name |-> places[p][2]]]])
  IN  Deduped(all, [i \in DOMAIN all |-> DeployKey(all[i])])

-----------------------------------------------------------------------------
NodeFolder ==
  {[schemas |-> {"schema.json"}, broken |-> FALSE], [schemas |-> {}, broken |-> FALSE],
   [schemas |-> {"schema.ts", "schema.json"}, broken |-> TRUE]}

Edge(topology, from, edgeGraph, metaGraph, indexes) ==
  [schemas |-> {"schema.json"}, broken |-> FALSE, topology |-> topology, from |-> from,
   edgeGraph |-> edgeGraph, metaGraph |-> metaGraph, indexes |-> indexes]

EdgeFolder ==
  {Edge(FALSE, {}, None, None, <<>>)}
    \cup { Edge(TRUE, from, edgeGraph, metaGraph, indexes) :
             from \in Ends, edgeGraph \in Graphs \cup {None},
             metaGraph \in Graphs \cup {None}, indexes \in Declarations }

Init == nodes = <<>> /\ edges = <<>>

AddNode(n, folder) ==
  /\ n \notin DOMAIN nodes
  /\ nodes' = [m \in DOMAIN nodes \cup {n} |-> IF m = n THEN folder ELSE nodes[m]]
  /\ UNCHANGED edges

AddEdge(x, folder) ==
  /\ x \notin DOMAIN edges
  /\ edges' = [y \in DOMAIN edges \cup {x} |-> IF y = x THEN folder ELSE edges[y]]
  /\ UNCHANGED nodes

Next ==
  \/ \E n \in NodeNames, folder \in NodeFolder : AddNode(n, folder)
  \/ \E x \in EdgeNames, folder \in EdgeFolder : AddEdge(x, folder)

-----------------------------------------------------------------------------
Shown(spec) == [fields |-> spec.fields, where |-> spec.where]

\* Without a warning every end of every triple is a type that was discovered,
\* and with one some end is not.
WarningsMeanDangling ==
  ~Fails /\ (\A x \in DOMAIN edges : edges[x].from # {}) =>
    (Warnings = {} <=> \A entry \in Entries : {entry.triple[1], entry.triple[3]} \subseteq DOMAIN nodes)

\* Wherever an edge type lives, in the root graph or in the subgraph a traversal
\* follows it to, every composite index without predicate that is declared
\* serves it in both stores, and the file to deploy lists no index twice.
DeclaredIsServed ==
  ~Fails =>
    LET specs == Specs  ddl == Ddl(specs)  deployed == FirestoreIndexes(specs)
    IN  /\ \A i \in DOMAIN specs : Shown(specs[i]) \in {Shown(spec) : spec \in ddl}
        /\ \A i \in DOMAIN specs : Len(specs[i].fields) >= 2 /\ specs[i].where = None =>
             /\ \E k \in DOMAIN deployed : deployed[k] =
                  [fields |-> specs[i].fields, scope |-> "COLLECTION", name |-> Collection]
             /\ \A graph \in {TargetGraph(edges[x]) : x \in DOMAIN edges} \ {None} :
                    \E k \in DOMAIN deployed : deployed[k] =
                      [fields |-> specs[i].fields, scope |-> "COLLECTION_GROUP", name |-> graph]
        /\ \A j, k \in DOMAIN deployed : deployed[j] = deployed[k] => j = k
        /\ \A k \in DOMAIN deployed : \E spec \in ddl : spec.fields = deployed[k].fields
=============================================================================
