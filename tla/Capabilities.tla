---------------------------- MODULE Capabilities ----------------------------
(***************************************************************************)
(* What the backends declare, what they have, and where a call ends up: the *)
(* two Firestore editions, the SQLite backend over a driver with or without *)
(* transactions, the local backend that adds search to it, and the client   *)
(* of a Durable Object, whose stub may be a wrapper that forwards only some *)
(* of the remote methods.  Pipelines run in production and in the emulator  *)
(* of the enterprise edition, and nowhere else.                             *)
(*                                                                          *)
(* And the connections that local backends share: createLocalSqliteBackend  *)
(* (sqlite/local.ts) and createNodeSqliteBackend (sqlite/node-sqlite.ts)    *)
(* open a database by path or wrap one that is open, set pragmas, register  *)
(* the functions of vector search, and return a backend with close().       *)
(***************************************************************************)
EXTENDS Naturals, FiniteSets, SequencesExt

CONSTANTS
  Depth,     \* bound: subgraph() calls in a chain
  Missing,   \* remote methods a stub does not forward: a set of sets
  Calls,     \* calls of a factory that return a backend
  Databases, \* connections
  Options,   \* [pragmas, conflict]: pragmas in order, as <<key, value>>
  Caller,    \* who opens and closes what no factory opened
  None

VARIABLES
  env,       \* [host, enterprise]: FIRESTORE_EMULATOR_HOST and _EDITION
  root,      \* the backend that was created, or NoHandle
  handle,    \* the backend at hand: the root, or a subgraph of it
  depth,     \* subgraph() calls that led to it
  db,        \* connection -> [owner, pragmas, functions, by, closedBy], or None
  backend    \* call -> [db, closed, options], or None

promiseVars == <<env, root, handle, depth>>
localVars == <<db, backend>>
vars == <<promiseVars, localVars>>

-----------------------------------------------------------------------------
(* Operations that not every backend has, and the capability that promises   *)
(* each; findEdgesGlobal has none.                                          *)

Promise(op) ==
  CASE op = "aggregate"                    -> "query.aggregate"
    [] op = "findEdgesProjected"           -> "query.select"
    [] op \in {"bulkDelete", "bulkUpdate"} -> "query.dml"
    [] op = "expand"                       -> "query.join"
    [] op = "runEngineTraversal"           -> "traversal.serverSide"
    [] op = "findNearest"                  -> "search.vector"
    [] op = "fullTextSearch"               -> "search.fullText"
    [] op = "geoSearch"                    -> "search.geo"
    [] op = "runTransaction"               -> "core.transactions"

Gated ==
  {"aggregate", "findEdgesProjected", "bulkDelete", "bulkUpdate", "expand",
   "runEngineTraversal", "findNearest", "fullTextSearch", "geoSearch", "runTransaction"}

Core == {"core.read", "core.write", "core.batch", "core.subgraph"}

\* Which engine answers: Firestore's Query API, its pipelines, or SQL.
Engines == {"classic", "pipeline", "sql"}

StandardCaps == Core \cup
  {"core.transactions", "query.aggregate", "query.select", "query.join", "search.vector",
   "raw.firestore"}
StandardMethods ==
  [op \in {"runTransaction", "aggregate", "findEdgesProjected", "findNearest", "expand",
           "findEdgesGlobal", "query"} |-> "classic"]

EnterpriseCaps(previewDml) ==
  StandardCaps \cup {"traversal.serverSide", "search.fullText", "search.geo"}
    \cup (IF previewDml THEN {"query.dml"} ELSE {})

\* The class has every method, whatever it declares.
EnterpriseMethods(mode) ==
  [op \in Gated \cup {"findEdgesGlobal", "query"} |->
     CASE op \in {"query", "expand"} -> mode
       [] op \in {"fullTextSearch", "geoSearch", "bulkDelete", "bulkUpdate",
                  "runEngineTraversal"} -> "pipeline"
       [] OTHER -> "classic"]

SqlCaps == Core \cup {"query.aggregate", "query.dml", "query.join", "query.select"}
SqlMethods ==
  [op \in {"query", "aggregate", "findEdgesProjected", "bulkDelete", "bulkUpdate", "expand"} |-> "sql"]

\* Mutant: the method is there, so it is declared.
SqliteCapsAlways(transactional) == SqlCaps \cup {"raw.sql", "core.transactions"}

\* A driver without transactions (D1) leaves runTransaction as a method that refuses.
SqliteCaps(transactional) ==
  SqlCaps \cup {"raw.sql"} \cup (IF transactional THEN {"core.transactions"} ELSE {})

LocalCaps == SqliteCaps(TRUE) \cup {"search.fullText", "search.vector"}

WithOp(methods, ops, engine) ==
  [op \in DOMAIN methods \cup ops |-> IF op \in ops THEN engine ELSE methods[op]]
SqliteMethods(transactional) ==
  WithOp(SqlMethods, IF transactional THEN {"runTransaction"} ELSE {}, "sql")
LocalMethods == WithOp(SqliteMethods(TRUE), {"fullTextSearch", "findNearest"}, "sql")

\* Every optional remote method is looked for on the stub before it is called.
ObjectMethods(missing) == [op \in DOMAIN SqlMethods \ missing |-> "sql"]

-----------------------------------------------------------------------------
(* Backends.                                                                *)

NoHandle == [kind |-> "none"]

Made(kind, caps, methods, settings) ==
  [kind |-> kind, caps |-> caps, methods |-> methods, settings |-> settings]

Standard == Made("standard", StandardCaps, StandardMethods, {})

Enterprise(mode, previewDml) ==
  Made("enterprise", EnterpriseCaps(previewDml), EnterpriseMethods(mode), <<mode, previewDml>>)

Sqlite(transactional) ==
  Made("sqlite", SqliteCaps(transactional), SqliteMethods(transactional), transactional)

Local == Made("local", LocalCaps, LocalMethods, {})

Object(missing) == Made("object", SqlCaps, ObjectMethods(missing), missing)

PipelinesRun == env.host => env.enterprise

\* Mutant: the caller's mode is taken as it is.
AsRequested(requested) == requested

\* createFirestoreEnterpriseBackend: the standard emulator forces the Query API.
EffectiveMode(requested) ==
  IF requested = "pipeline" /\ env.host /\ ~env.enterprise THEN "classic" ELSE requested

Backends ==
  {Standard, Local}
    \cup {Enterprise(EffectiveMode(mode), dml) : mode \in {"pipeline", "classic"}, dml \in BOOLEAN}
    \cup {Sqlite(transactional) : transactional \in BOOLEAN}
    \cup {Object(missing) : missing \in Missing}

\* Mutant: the child does not know of previewDml.
ChildForgetsDml(h) == IF h.kind = "enterprise" THEN Enterprise(h.settings[1], FALSE) ELSE h

\* subgraph(): a new backend of the same class, which gets its parent's settings.
Child(h) ==
  CASE h.kind = "enterprise" -> Enterprise(h.settings[1], h.settings[2])
    [] h.kind = "sqlite"     -> Sqlite(h.settings)
    [] h.kind = "object"     -> Object(h.settings)
    [] h.kind = "local"      -> Local
    [] h.kind = "standard"   -> Standard

-----------------------------------------------------------------------------
(* Calls.                                                                   *)

\* The client refuses what the backend has no method for.
Outcome(h, op) ==
  IF op \notin DOMAIN h.methods THEN "unsupported"
  ELSE IF h.methods[op] = "pipeline" /\ ~PipelinesRun THEN "fails"
  ELSE "runs"

Supports(h, op) == Promise(op) \in h.caps

\* Mutant: the engine's failure is the traversal's.
EngineOrNothing(h) ==
  IF Supports(h, "runEngineTraversal") THEN {"runEngineTraversal"}
  ELSE IF Supports(h, "expand") THEN {"expand"} ELSE {"query"}

\* Ways a traversal of engineTraversal: 'auto' is tried, for hops the engine could run: what
\* the engine refuses or fails at is walked hop by hop, by expand() where it is declared.
Tried(h) ==
  (IF Supports(h, "runEngineTraversal") THEN {"runEngineTraversal"} ELSE {})
    \cup (IF Supports(h, "expand") THEN {"expand"} ELSE {"query"})

Create ==
  /\ root = NoHandle
  /\ root' \in Backends
  /\ handle' = root'
  /\ UNCHANGED <<env, depth, localVars>>

Subgraph ==
  /\ handle # NoHandle
  /\ depth < Depth
  /\ handle' = Child(handle)
  /\ depth' = depth + 1
  /\ UNCHANGED <<env, root, localVars>>

-----------------------------------------------------------------------------
(* Local databases.                                                         *)

Invalid == "invalid"
Functions == {"firegraph_vector_distance", "firegraph_vector_distance_blob"}
Unset == [journal_mode |-> "delete", busy_timeout |-> "0"]

\* What a pragma can be set to: the defaults, and what a caller asks for.
Settings ==
  {"delete", "wal", "0", "5000"} \cup {p[2] : p \in UNION {Range(o.pragmas) : o \in Options}}

Connections == [owner : Calls \cup {Caller}, pragmas : [DOMAIN Unset -> Settings],
                functions : {{}, Functions}, by : SUBSET Calls, closedBy : Seq(Calls \cup {Caller})]

Opened == [db : Databases, closed : BOOLEAN, options : Options]

\* Who opened a connection can be told, and so can a connection or a backend from none.
PromisesAssumption ==
  /\ Options \subseteq [pragmas : Seq(STRING \X Settings), conflict : BOOLEAN]
  /\ Caller \notin Calls
  /\ None \notin Connections \cup Opened

IsOpen(d) == db[d] # None /\ db[d].closedBy = <<>>
Connection(owner, pragmas) == [owner |-> owner, pragmas |-> pragmas, functions |-> {},
                               by |-> {}, closedBy |-> <<>>]

Apply(s, p) ==
  IF s.failed \/ p[2] = Invalid THEN [s EXCEPT !.failed = TRUE]
  ELSE [s EXCEPT !.pragmas[p[1]] = p[2]]

\* applyPragmas: in order, up to one that is refused.
Applied(pragmas, list) ==
  LET after[n \in 0..Len(list)] ==
        IF n = 0 THEN [pragmas |-> pragmas, failed |-> FALSE] ELSE Apply(after[n - 1], list[n])
  IN  after[Len(list)]

\* Mutant: the default comes after what the caller asked for.
DefaultLast(pragmas, options) ==
  LET s == Applied(pragmas, options.pragmas) IN [s EXCEPT !.pragmas.busy_timeout = "5000"]

Tuned(pragmas, options) == Applied([pragmas EXCEPT !.busy_timeout = "5000"], options.pragmas)

\* registerVectorUdf: what is registered already is no error.
Registered(functions) == functions \cup Functions

\* What a factory does to a connection, and whether it then throws: for a pragma,
\* or for a registry whose declarations conflict.
Configured(k, connection, options) ==
  LET tuned == Tuned(connection.pragmas, options)
  IN  [connection |-> [connection EXCEPT !.pragmas = tuned.pragmas, !.by = @ \cup {k},
                         !.functions = IF tuned.failed THEN @ ELSE Registered(@)],
       throws |-> tuned.failed \/ options.conflict]

Factory(k, d, connection, options) ==
  LET result == Configured(k, connection, options)
  IN  /\ backend[k] = None
      /\ db' = [db EXCEPT ![d] = result.connection]
      /\ backend' = IF result.throws THEN backend
                    ELSE [backend EXCEPT ![k] = [db |-> d, closed |-> FALSE, options |-> options]]
      /\ UNCHANGED promiseVars

OpenPath(k, options) == \E d \in Databases :
  /\ db[d] = None
  /\ Factory(k, d, Connection(k, [Unset EXCEPT !.journal_mode = "wal"]), options)

\* What a caller can pass on: a connection of its own, or one a backend came with.
AtHand(d) == db[d].owner = Caller \/ \E k \in Calls : backend[k] # None /\ backend[k].db = d

Wrap(k, d, options) == IsOpen(d) /\ AtHand(d) /\ Factory(k, d, db[d], options)

\* Mutants: close() closes what it did not open; closes again.
CloseShared(k) == [db EXCEPT ![backend[k].db].closedBy = Append(@, k)]

\* What close() of a backend leaves.
Closed(k) ==
  IF backend[k].closed \/ db[backend[k].db].owner # k THEN db
  ELSE [db EXCEPT ![backend[k].db].closedBy = Append(@, k)]

Close(k) ==
  /\ backend[k] # None
  /\ db' = Closed(k)
  /\ backend' = [backend EXCEPT ![k].closed = @ \/ db[backend[k].db].owner = k]
  /\ UNCHANGED promiseVars

CallerOpens(d) ==
  /\ db[d] = None
  /\ db' = [db EXCEPT ![d] = Connection(Caller, Unset)]
  /\ UNCHANGED <<backend, promiseVars>>

CallerCloses(d) ==
  /\ IsOpen(d) /\ db[d].owner = Caller
  /\ db' = [db EXCEPT ![d].closedBy = Append(@, Caller)]
  /\ UNCHANGED <<backend, promiseVars>>

-----------------------------------------------------------------------------

Init ==
  /\ env \in [host : BOOLEAN, enterprise : BOOLEAN]
  /\ root = NoHandle /\ handle = NoHandle
  /\ depth = 0
  /\ db = [d \in Databases |-> None] /\ backend = [k \in Calls |-> None]

Derive == Create \/ Subgraph

OpenAndClose ==
  \/ \E k \in Calls :
       \/ Close(k)
       \/ \E options \in Options : OpenPath(k, options) \/ \E d \in Databases : Wrap(k, d, options)
  \/ \E d \in Databases : CallerOpens(d) \/ CallerCloses(d)

Next == Derive \/ OpenAndClose

Spec == Init /\ [][Next]_vars

-----------------------------------------------------------------------------

\* The stub of FiregraphDO, which has every remote method.
Whole == handle.kind = "object" => handle.settings = {}

\* What a backend declares it does not refuse, unless a wrapper of its stub does.
DeclaredIsThere ==
  handle # NoHandle /\ Whole => \A op \in Gated : Supports(handle, op) => Outcome(handle, op) # "unsupported"

\* What a backend does not declare is refused; the Firestore Enterprise backend
\* without previewDml is the exception, which its class runs all the same.
UndeclaredIsRefused ==
  handle # NoHandle => \A op \in Gated :
    \/ Supports(handle, op)
    \/ Outcome(handle, op) = "unsupported"
    \/ handle.kind = "enterprise" /\ Promise(op) = "query.dml"

\* Reads and fan-outs never end in an engine the environment does not run.
ReadsRunHere ==
  handle # NoHandle => \A op \in {"query", "expand"} : Outcome(handle, op) # "fails"

\* A traversal is answered by one of the ways it is tried, in every environment.
TraversalsAreAnswered ==
  handle # NoHandle /\ Whole => \E way \in Tried(handle) : Outcome(handle, way) = "runs"

\* A subgraph can do what its root can: no backend gains or loses a capability
\* on the way down.
SubgraphsKeepTheirWord ==
  handle # NoHandle => handle.caps = root.caps /\ handle.methods = root.methods

\* As the Firestore Enterprise backend says of bulkDelete() and bulkUpdate():
\* "otherwise the cap isn't declared and client.bulkDelete() throws".
UndeclaredDmlThrows ==
  handle # NoHandle => \A op \in {"bulkDelete", "bulkUpdate"} :
    Supports(handle, op) \/ Outcome(handle, op) = "unsupported"

\* A connection is closed once, by who opened it, however many backends share it
\* and however often each of them is closed.
ClosedByItsOwner ==
  \A d \in Databases : db[d] # None => db[d].closedBy \in {<<>>, <<db[d].owner>>}

\* While its connection is open a backend can search, whoever registered first,
\* and one that no other factory touched has the pragmas its caller named, over the defaults.
BackendsAreReady ==
  \A k \in Calls : backend[k] # None /\ IsOpen(backend[k].db) =>
    LET d == backend[k].db
        asked == backend[k].options.pragmas
    IN  /\ Functions \subseteq db[d].functions
        /\ db[d].owner = k /\ db[d].by = {k} =>
             \A key \in DOMAIN Unset :
               IF \E i \in DOMAIN asked : asked[i][1] = key
               THEN <<key, db[d].pragmas[key]>> \in Range(asked)
               ELSE db[d].pragmas[key] = [journal_mode |-> "wal", busy_timeout |-> "5000"][key]

\* Not so: a factory that opens a database and then throws leaves it open, and
\* nobody has a handle to close it (local.ts:748-771, node-sqlite.ts:732-759).
NothingLeaks ==
  \A d \in Databases : IsOpen(d) /\ db[d].owner # Caller =>
    \E k \in Calls : backend[k] # None /\ backend[k].db = d
=============================================================================
