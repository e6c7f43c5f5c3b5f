------------------------------- MODULE Queries -------------------------------
(***************************************************************************)
(* What a question asks and what it answers: query plans (src/query.ts),   *)
(* scan protection (query-safety.ts) next to the default indexes           *)
(* (default-indexes.ts), the filters that SQLite compiles                  *)
(* (internal/sqlite-sql.ts), and the operations of the client that share   *)
(* them: findEdges, projections, bulk removal and server-side DML.         *)
(*                                                                         *)
(* A record is a node (a loop of relation "is") or an edge; `f` is one     *)
(* field of its data, Absent or null included.  With a limit the backend   *)
(* chooses which records it returns.                                       *)
(***************************************************************************)
EXTENDS Integers, FiniteSets, FiniteSetsExt, TLC

CONSTANTS
    TypeOf,         \* uid -> type of its node; DOMAIN TypeOf are the uids
    Relations,      \* relations of edges
    Values,         \* values of the field f
    DefaultLimit,   \* DEFAULT_QUERY_LIMIT (500)
    None,           \* a parameter that is not given
    Kinds,          \* backends: some of "firestore", "sqlite", "object"
    Questions,      \* the parameters that operations are given
    MaxRows         \* bound: records in the graph

Is == "is"  Null == "null"  Absent == "absent"
Uids == DOMAIN TypeOf
Types == {TypeOf[u] : u \in Uids}

VARIABLES
    rows,      \* the records of one graph
    reported,  \* `deleted` of the bulk operation that ran last, and what it was asked
    lost       \* records that operation removed

vars == <<rows, reported, lost>>

Keys == [aUid : Uids, axbType : Relations, bUid : Uids] \cup {[aUid |-> u, axbType |-> Is, bUid |-> u] : u \in Uids}
Content == Values \cup {Null, Absent}
Row == [key : Keys, f : Content]

IsNode(r) == r.key.axbType = Is

\* One field of a record.
Field(r, field) ==
    CASE field = "aType" -> TypeOf[r.key.aUid]
      [] field = "bType" -> TypeOf[r.key.bUid]
      [] field = "f"     -> r.f
      [] OTHER           -> r.key[field]

NotGiven == -1
Unlimited == 0

(***************************************************************************)
(* Plans.                                                                  *)
(***************************************************************************)

Identifying == {"aType", "aUid", "axbType", "bType", "bUid"}

Where == [op : {"==", "!=", "in", "not-in"}, value : SUBSET (Values \cup {Null})]
NoClause == [op |-> "none", value |-> {}]
Clauses == {c \in Where : c.value # {} /\ (c.op \in {"==", "!="} => Cardinality(c.value) = 1)}

Params ==
    [aType : {None} \cup Types, aUid : {None} \cup Uids, axbType : {None, Is} \cup Relations,
     bType : {None} \cup Types, bUid : {None} \cup Uids, where : Clauses \cup {NoClause}, limit : {NotGiven, 0, 1}]

Given(p) == {field \in Identifying : p[field] # None}

\* Filters of a plan: a field, an operator and the values it takes.
Equal(field, value) == [field |-> field, op |-> "==", value |-> {value}]
Filters(p) ==
    {Equal(field, p[field]) : field \in Given(p)}
      \cup (IF p.where = NoClause THEN {} ELSE {[field |-> "f", op |-> p.where.op, value |-> p.where.value]})

\* All three parts of an edge's key, and nothing in `where`: a document lookup.
IsGet(p) == {"aUid", "axbType", "bUid"} \subseteq Given(p) /\ p.where = NoClause
Asks(p) == Filters(p) # {}

KeepsZero(limit) == IF limit = NotGiven THEN DefaultLimit ELSE IF limit = 0 THEN 1 ELSE limit
EffectiveLimit(limit) == IF limit = NotGiven THEN DefaultLimit ELSE limit

(***************************************************************************)
(* Filters.  SQL compares with three truth values: what is compared with   *)
(* NULL is neither true nor false.  Firestore's operators are modelled     *)
(* from its documentation.                                                 *)
(***************************************************************************)

Column(r, field) == IF Field(r, field) = Absent THEN Null ELSE Field(r, field)

NullIsAValue(r, c) ==
    IF c.op \in {"==", "in"} THEN Column(r, c.field) \in c.value ELSE Column(r, c.field) \notin c.value
SqlMatches(r, c) ==
    /\ Column(r, c.field) # Null
    /\ IF c.op \in {"==", "in"} THEN Column(r, c.field) \in c.value
       ELSE c.value \cap {Column(r, c.field), Null} = {}

FirestoreMatches(r, c) ==
    /\ Field(r, c.field) # Absent
    /\ IF c.op \in {"==", "in"} THEN Field(r, c.field) \in c.value
       ELSE Field(r, c.field) # Null /\ c.value \cap {Field(r, c.field), Null} = {}

Selected(filters) == {r \in rows : \A c \in filters : SqlMatches(r, c)}

\* What a query may return: all of it, or as many records as the limit allows.
Cut(s, limit) == IF limit = Unlimited \/ Cardinality(s) <= limit THEN {s} ELSE kSubset(limit, s)

(***************************************************************************)
(* Reads of the client.                                                    *)
(***************************************************************************)

KeyOf(p) == [aUid |-> p.aUid, axbType |-> p.axbType, bUid |-> p.bUid]

\* Mutant: a query without a limit returns everything.
UnlimitedEdges(p) ==
    IF IsGet(p) THEN {{r \in rows : r.key = KeyOf(p) /\ ~IsNode(r)}}
    ELSE IF p.limit = NotGiven THEN {Selected(Filters(p))} ELSE Cut(Selected(Filters(p)), p.limit)

\* A lookup of an edge's document: the document of a node has another id.
FindEdges(p) ==
    IF IsGet(p) THEN {{r \in rows : r.key = KeyOf(p) /\ ~IsNode(r)}}
    ELSE Cut(Selected(Filters(p)), EffectiveLimit(p.limit))

\* A projection turns the lookup into filters, and has no lookup of its own.
Projected(p) == IF IsGet(p) THEN {Selected(Filters(p))} ELSE Cut(Selected(Filters(p)), EffectiveLimit(p.limit))

\* Scan protection, for the fields that have a filter.
SafePatterns ==
    {{"aUid", "axbType"}, {"axbType", "bUid"}, {"aType", "axbType"}, {"axbType", "bType"}}
Safe(fields) == \E pattern \in SafePatterns : pattern \subseteq fields

WithoutReverse ==
    { <<"aUid">>, <<"bUid">>, <<"aType">>, <<"bType">>, <<"aUid", "axbType">>, <<"aType", "axbType">>,
      <<"axbType", "bType">> }
DefaultCoreIndexes ==
    { <<"aUid">>, <<"bUid">>, <<"aType">>, <<"bType">>, <<"aUid", "axbType">>, <<"axbType", "bUid">>,
      <<"aType", "axbType">>, <<"axbType", "bType">> }

(***************************************************************************)
(* Writes.                                                                 *)
(***************************************************************************)

\* No bulk operation ran last.
Nothing ==
    [op |-> "none", kind |-> CHOOSE k \in Kinds : TRUE, deleted |-> 0,
     params |-> [field \in {"where", "limit"} \cup Identifying |->
                   IF field = "where" THEN NoClause ELSE IF field = "limit" THEN NotGiven ELSE None]]

Init == rows = {} /\ reported = Nothing /\ lost = {}

Put(r) ==
    /\ rows' = {s \in rows : s.key # r.key} \cup {r}
    /\ Cardinality(rows') <= MaxRows
    /\ reported' = Nothing /\ lost' = {}

Remove(r) ==
    /\ r \in rows
    /\ rows' = rows \ {r}
    /\ reported' = Nothing /\ lost' = {}

\* bulkRemoveEdges finds the records and deletes each as an edge: a node found
\* on the way is counted and stays, as its document has another id.
DeletesNodes(found) == found
EdgesOf(found) == {r \in found : ~IsNode(r)}
BulkLimit(p, kind) == IF kind # "object" /\ p.limit = NotGiven THEN 0 ELSE EffectiveLimit(p.limit)
DefaultForAll(p, kind) == EffectiveLimit(p.limit)

BulkRemoveEdges(p, kind) ==
    /\ Asks(p)
    /\ \E found \in IF IsGet(p) THEN FindEdges(p) ELSE Cut(Selected(Filters(p)), BulkLimit(p, kind)) :
         /\ rows' = rows \ EdgesOf(found)
         /\ reported' = [op |-> "edges", kind |-> kind, params |-> p, deleted |-> Cardinality(found)]
         /\ lost' = EdgesOf(found)

\* Mutant: the statement deletes no more than a query returns.
DeletesAPage(p, kind) ==
    /\ ~IsGet(p)
    /\ Asks(p) \/ kind = "sqlite"
    /\ \E found \in Cut(Selected(Filters(p)), EffectiveLimit(p.limit)) :
         /\ rows' = rows \ found
         /\ reported' = [op |-> "rows", kind |-> kind, params |-> p, deleted |-> Cardinality(found)]
         /\ lost' = found

\* bulkDelete and bulkUpdate: one statement, without a limit, for a question
\* that scan protection lets through.  A lookup is refused.  Firestore refuses a
\* question without filters, a Durable Object refuses to delete by one.
BulkDelete(p, kind) ==
    /\ ~IsGet(p)
    /\ Asks(p) \/ kind = "sqlite"
    /\ rows' = rows \ Selected(Filters(p))
    /\ reported' = [op |-> "rows", kind |-> kind, params |-> p, deleted |-> Cardinality(Selected(Filters(p)))]
    /\ lost' = Selected(Filters(p))

BulkUpdate(p, kind, value) ==
    /\ ~IsGet(p)
    /\ Asks(p) \/ kind # "firestore"
    /\ rows' = (rows \ Selected(Filters(p))) \cup {[r EXCEPT !.f = value] : r \in Selected(Filters(p))}
    /\ reported' = [op |-> "update", kind |-> kind, params |-> p, deleted |-> Cardinality(Selected(Filters(p)))]
    /\ lost' = {}

Next ==
    \/ \E r \in Row : Put(r)
    \/ \E r \in rows : Remove(r)
    \/ \E p \in Questions, kind \in Kinds :
         BulkRemoveEdges(p, kind) \/ BulkDelete(p, kind) \/ \E v \in Values : BulkUpdate(p, kind, v)

Spec == Init /\ [][Next]_vars

(***************************************************************************)
(* Properties.                                                             *)
(***************************************************************************)

Operation ==
    [op : {"none", "edges", "rows", "update"}, kind : Kinds, params : Params, deleted : 0..MaxRows]

TypeOK ==
    /\ rows \subseteq Row /\ lost \subseteq Row
    /\ reported \in Operation
    /\ \A r, s \in rows : r.key = s.key => r = s

\* A filter without null picks the same records in SQLite, where an absent
\* field is NULL, and in Firestore, where it is not there.
FiltersAgree ==
    \A r \in rows : \A c \in Clauses :
        Null \notin c.value =>
          LET filter == [field |-> "f", op |-> c.op, value |-> c.value]
          IN SqlMatches(r, filter) = FirestoreMatches(r, filter)

\* A projection answers about the records that findEdges returns, whichever
\* plan the parameters lead to; a lookup must not carry types, which it ignores,
\* nor name the relation of nodes, whose documents it does not look up.
ProjectionSeesWhatIsFound ==
    \A p \in Questions :
        Asks(p) /\ ~(IsGet(p) /\ (Given(p) \cap {"aType", "bType"} # {} \/ p.axbType = Is)) =>
          FindEdges(p) = Projected(p)

\* A query without a limit of its own still returns no more than the default,
\* and one that asks for no limit returns everything.
LimitsMeant ==
    \A p \in Questions :
        /\ p.limit = NotGiven /\ Asks(p) => \A s \in FindEdges(p) : Cardinality(s) <= DefaultLimit
        /\ p.limit = 0 /\ Asks(p) /\ ~IsGet(p) => FindEdges(p) = {Selected(Filters(p))}

\* Fields that scan protection lets through have an index of their own: one of
\* the default indexes is made of nothing but fields the query fixes.
SafeMeansIndexed ==
    \A fields \in SUBSET Identifying :
        Safe(fields) =>
          \E index \in DefaultCoreIndexes :
            {index[k] : k \in DOMAIN index} \subseteq fields /\ Cardinality(DOMAIN index) = 2

\* Removing edges in bulk without a limit leaves no edge that the question
\* would find, and takes no node, even though nodes answer the same question.
EdgesRemovedNodesKept ==
    reported.op = "edges" =>
      /\ \A r \in lost : ~IsNode(r)
      /\ reported.params.limit = NotGiven /\ reported.kind # "object" =>
           \A s \in FindEdges(reported.params) : \A r \in s : IsNode(r)

\* bulkDelete takes every record its question finds, however many: a limit in
\* the parameters changes neither what is deleted nor the count reported.
DeletesAllItFinds ==
    reported.op = "rows" =>
      /\ Selected(Filters(reported.params)) = {}
      /\ reported.deleted = Cardinality(lost)

\* src/src/cloudflare/do.ts:440: "so the returned count reflects reality".
CountsReflectReality == reported.op = "edges" => reported.deleted = Cardinality(lost)

=============================================================================
