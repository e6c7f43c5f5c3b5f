------------------------- MODULE MCSqliteConnection -------------------------
(***************************************************************************)
(* What callers of one database share: the connection of an executor       *)
(* (SqliteConnection), the vector column of a table (VectorColumn) and the *)
(* full-text index of a subgraph's table (TextIndex); and one graph, what  *)
(* users of the editor write to it (EditorWrites).  Each behaviour is of   *)
(* one, `part`; the others rest as they started.                           *)
(***************************************************************************)
EXTENDS SqliteConnection

CONSTANTS
  Docs, None,
  Vectors, Malformed, Handles, MaxChanges, MaxDrops,   \* VectorColumn
  Types, Values, Configs, MaxRestarts, MaxCascades,   \* TextIndex
  Users, Uids, Names, Strip, NodeTypes, MaxRequests           \* EditorWrites

VARIABLES
  part,
  rows, blob, column, trigger, handle, raced, writes, drops,            \* VectorColumn
  indexed, index, nextId, bodies, stored, process, lapsed, sweep, torn, budget,   \* TextIndex
  node, edges, doc, request, form, misled, stirred, loose, made         \* EditorWrites

Vector == INSTANCE VectorColumn WITH MaxWrites <- MaxChanges

Text == INSTANCE TextIndex WITH
  MaxCrashes <- MaxRestarts, rows <- indexed

\* No partitions, one partition, or two with other fields.
MCConfigs ==
  { [ty \in {} |-> "f1"], [ty \in {"t"} |-> "f1"],
    [ty \in {"t", "o"} |-> IF ty = "t" THEN "f2" ELSE "f1"] }

vectorVars == <<rows, blob, column, trigger, handle, raced, writes, drops>>
textVars == <<indexed, index, nextId, bodies, stored, process, lapsed, sweep, torn, budget>>

\* A name that is a node's uid with its type.
MCStrip == [name \in Names |-> IF name = "t:n" THEN "n" ELSE name]

Editor == INSTANCE EditorWrites WITH Types <- NodeTypes, raced <- stirred

\* What the theorems about these two parts assume.
ASSUME PartsAssumption == Vector!NoneAssumption /\ Editor!EditorAssumption

editorVars == <<node, edges, doc, request, form, misled, stirred, loose, made>>

\* One of the nodes is there already, and a document if the part is the editor's.
MCInit ==
  /\ part \in {"connection", "vector", "text", "editor"}
  /\ Init /\ Vector!Init /\ Text!Init /\ Editor!Init
  /\ node = [u \in Uids |-> IF u = "n" THEN "t" ELSE None]
  /\ doc = IF part = "editor" THEN "t" ELSE None
  /\ part # "connection" => driver = "node:sqlite"
  /\ part # "text" => process = Text!Opened(CHOOSE c \in Configs : TRUE)

MCNext ==
  /\ UNCHANGED part
  /\ \/ part = "connection" /\ Next /\ UNCHANGED <<vectorVars, textVars, editorVars>>
     \/ part = "vector" /\ Vector!Next /\ UNCHANGED <<vars, textVars, editorVars>>
     \/ part = "text" /\ Text!Next /\ UNCHANGED <<vars, vectorVars, editorVars>>
     \/ part = "editor" /\ Editor!Next /\ UNCHANGED <<vars, vectorVars, textVars>>

\* A handle that searches runs its ensure to the end, and heals.
MCFairness ==
  \A h \in Handles :
    WF_vectorVars(part = "vector" /\ (Vector!Ensure(h) \/ Vector!SearchHeals(h)))

MCSpec == MCInit /\ [][MCNext]_<<part, vars, vectorVars, textVars, editorVars>> /\ MCFairness

\* A vector search scores a row by its current value unless it was written
\* amid an ensure (VectorColumn).  The shared text index finds each row by its
\* current text, a partition the rows of its type by the fields in force,
\* through crashes, new configurations and cascades whose sweep leaves the map
\* of a table that has rows again (TextIndex).
IndexesFollowRows ==
  /\ part = "vector" => Vector!IndexesFollowRows
  /\ part = "text" => Text!IndexesFollowRows

\* A search whose column was dropped with its table gets it back (VectorColumn).
SearchesRecover == part = "vector" => Vector!SearchesRecover

\* Where the editor's procedures and form look before they write, edges have
\* both ends, a page is left when its node is gone, and documents of another
\* partition and types of nodes stay, but for writes amid (EditorWrites).
EditorWritesHold ==
  /\ [](part = "editor" => Editor!TypeOK /\ Editor!NoDanglingEdge /\ Editor!PageLeftWhenGone)
  /\ Editor!PartitionsAreKept
  /\ Editor!UpdatesKeepType
=============================================================================
