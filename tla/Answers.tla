------------------------------ MODULE Answers ------------------------------
(***************************************************************************)
(* What the stores compute about many records at once: aggregates,         *)
(* projections, and DELETE and UPDATE by filter (query.aggregate,          *)
(* query.select, query.dml).  The SQLite backends and the Durable Object   *)
(* compile one statement (internal/sqlite-sql.ts); Firestore answers by    *)
(* its own aggregations, select() and pipelines (internal/firestore-*.ts). *)
(*                                                                         *)
(* A record is what its data has in field f.  Filters ask f for one of a   *)
(* set of values, which every store understands alike (Queries has the     *)
(* other operators).  A number answered is a fraction <<a, b>>; NaN is     *)
(* <<0, 0>>.                                                               *)
(***************************************************************************)
EXTENDS Integers, Sequences, FiniteSets, FiniteSetsExt, TLC

CONSTANTS
    Ids,        \* documents
    Number,     \* content that is a number -> that number
    Flags,      \* content that is a boolean -> the number SQLite extracts for it
    Texts,      \* content that is a text, none of which starts with a number
    Object,     \* content that is an object
    Selects,    \* select lists: sequences of names
    Path,       \* name -> canonical field: "data.f", another one, or a column
    MaxRetries  \* maxRetries of a DML call

NoDoc == "none"  Absent == "absent"  Null == "null"
Booleans == DOMAIN Flags
Content == {Absent, Null, Object} \cup DOMAIN Number \cup Booleans \cup Texts
Scalars == DOMAIN Number \cup Texts

\* No filter at all, or the values f may have.
Everything == Content
Filters == {Everything} \cup ((SUBSET Scalars) \ {{}})

VARIABLES
    docs,    \* docs[d]: content of the document's f, or NoDoc
    report   \* the DML call that has returned, or NoReport

vars == <<docs, report>>

Matching(state, filter) == {d \in DOMAIN state : state[d] \in filter}

(***************************************************************************)
(* Aggregates.                                                             *)
(***************************************************************************)

NaN == <<0, 0>>
Refused == <<>>
Ops == {"count", "sum", "avg", "min", "max"}

\* CAST(... AS REAL) of what json_extract returns: a text is 0.
CastReal(c) == IF c \in DOMAIN Number THEN Number[c] ELSE IF c \in Booleans THEN Number[Flags[c]] ELSE 0

\* Mutant: a field that is missing or null is a zero.
NullIsZero(c) == {IF c \in {Absent, Null} THEN 0 ELSE CastReal(c)}

\* The number a row contributes, none when its column is NULL.
SqlNumber(c) == IF c \in {Absent, Null} THEN {} ELSE {CastReal(c)}

\* Firestore leaves out what is no number.
FirestoreNumber(c) == IF c \in DOMAIN Number THEN {Number[c]} ELSE {}

\* What replaces the null of an aggregate over no number.
OfNothing(op) == IF op = "avg" THEN NaN ELSE <<0, 1>>

\* The aggregate of rows that have `numbers`.
Resolved(op, numbers) ==
    LET rows == DOMAIN numbers
        with == {d \in rows : numbers[d] # {}}
        value(d) == CHOOSE n \in numbers[d] : TRUE
        all  == {value(d) : d \in with}
    IN  IF op = "count" THEN <<Cardinality(rows), 1>>
        ELSE IF with = {} THEN OfNothing(op)
        ELSE CASE op = "sum" -> <<MapThenSumSet(value, with), 1>>
               [] op = "avg" -> <<MapThenSumSet(value, with), Cardinality(with)>>
               [] op = "min" -> <<Min(all), 1>>
               [] op = "max" -> <<Max(all), 1>>

SqlAggregate(op, filter) == Resolved(op, [d \in Matching(docs, filter) |-> SqlNumber(docs[d])])
FirestoreAggregate(op, filter) ==
    IF op \in {"min", "max"} THEN Refused
    ELSE Resolved(op, [d \in Matching(docs, filter) |-> FirestoreNumber(docs[d])])

(***************************************************************************)
(* Projections.  A statement has a column for each distinct name, and for  *)
(* a data field a second one with the JSON type of its value; the driver   *)
(* returns an object whose keys are the aliases.                           *)
(***************************************************************************)

FirstOf(select, i) == \A j \in 1..(i - 1) : select[j] # select[i]
Named(select) == {select[i] : i \in DOMAIN select}

\* The value a document has at a path: only data.f has one that varies.
At(c, path) == IF path = "data.f" THEN c ELSE IF path = "column" THEN "text" ELSE Absent

JsonType(c) == IF c = Object THEN "object" ELSE "scalar"

\* json_extract: an object is its text, a boolean is 1 or 0.
Extract(c) ==
    CASE c = Absent    -> Null
      [] c = Object    -> "json text"
      [] c \in Booleans -> Flags[c]
      [] OTHER         -> c

\* Mutant: the alias of the companion is made from the field's name.
Suffixed(select, i) == select[i] \o "__t"
\* Positional: nothing a caller selects is called so.
TypeAlias(select, i) == "__fg_t_" \o ToString(i)

\* The columns of position i: alias and value, in the order of the statement.
Columns(select, c, i) ==
    << <<select[i], Extract(At(c, Path[select[i]]))>> >>
      \o (IF Path[select[i]] = "column" THEN <<>>
          ELSE << <<TypeAlias(select, i), JsonType(At(c, Path[select[i]]))>> >>)

\* The driver's object: of columns with one alias, the last.
DriverRow(select, c) ==
    LET all[i \in 0..Len(select)] ==
            IF i = 0 THEN <<>> ELSE all[i - 1] \o (IF FirstOf(select, i) THEN Columns(select, c, i) ELSE <<>>)
        cols == all[Len(select)]
    IN  [a \in {cols[k][1] : k \in DOMAIN cols} |->
            cols[Max({k \in DOMAIN cols : cols[k][1] = a})][2]]

SqlProjected(select, c) ==
    LET row == DriverRow(select, c)
    IN  [name \in Named(select) |->
            LET i == CHOOSE k \in DOMAIN select : select[k] = name /\ FirstOf(select, k)
            IN  IF Path[name] # "column" /\ row[name] # Null /\ row[TypeAlias(select, i)] = "object"
                THEN Object ELSE row[name]]

FirestoreProjected(select, c) ==
    [name \in Named(select) |-> IF At(c, Path[name]) = Absent THEN Null ELSE At(c, Path[name])]

(***************************************************************************)
(* DELETE and UPDATE by filter.                                            *)
(***************************************************************************)

Kinds == {"sqlite", "object", "firestore"}

\* What a patch does to f: set it, remove it, or nothing at all.
Patches == {"one", Null, "remove", "nothing"}

Effect(op, patch) ==
    IF op = "delete" THEN NoDoc ELSE IF patch = "remove" THEN Absent ELSE patch

Changed(state, op, filter, patch) ==
    [d \in Ids |-> IF d \in Matching(state, filter) THEN Effect(op, patch) ELSE state[d]]

\* Calls that are refused before a store sees them.
Refuses(kind, op, filter, patch) ==
    \/ op = "update" /\ patch = "nothing"
    \/ filter = Everything /\ (op = "delete" => kind # "sqlite") /\ (op = "update" => kind = "firestore")
    \/ kind = "firestore" /\ op = "update" /\ patch = "remove"

\* An attempt takes effect and is answered, fails, or takes effect unanswered.
Attempts == {"answered", "failed", "unanswered"}

\* Mutant: attempts are added up.
CountsAttempts(counts) == MapThenSumSet(LAMBDA k : counts[k], DOMAIN counts)
\* The rows the last attempt returns.
Counted(counts) == counts[Len(counts)]

\* Only the SQLite backend tries again.
Tries(kind) == IF kind = "sqlite" THEN MaxRetries + 1 ELSE 1

\* The attempts of one call: answered at the last one, or never.
Runs(kind) ==
    UNION { {run \in [1..n -> Attempts] :
                /\ \A k \in 1..(n - 1) : run[k] # "answered"
                /\ n < Tries(kind) => run[n] = "answered"} : n \in 1..Tries(kind) }

Dml(kind, op, filter, patch, run) ==
    LET states[k \in 0..Len(run)] ==
            IF k = 0 THEN docs
            ELSE IF run[k] = "failed" THEN states[k - 1] ELSE Changed(states[k - 1], op, filter, patch)
        counts == [k \in 1..Len(run) |->
                     IF run[k] = "failed" THEN 0 ELSE Cardinality(Matching(states[k - 1], filter))]
        answered == run[Len(run)] = "answered"
    IN  /\ docs' = states[Len(run)]
        /\ report' = [op |-> op, filter |-> filter, patch |-> patch, before |-> docs,
                      deleted |-> IF answered THEN Counted(counts) ELSE 0,
                      answer |-> IF answered THEN "done" ELSE "errors",
                      exact |-> \A k \in DOMAIN run : run[k] # "unanswered"]

NoReport == [answer |-> "none"]

Write(d, c) == docs' = [docs EXCEPT ![d] = c] /\ UNCHANGED report

BulkDelete(kind, filter) ==
    IF Refuses(kind, "delete", filter, "nothing") THEN UNCHANGED vars
    ELSE \E run \in Runs(kind) : Dml(kind, "delete", filter, "nothing", run)

BulkUpdate(kind, filter, patch) ==
    IF Refuses(kind, "update", filter, patch) THEN UNCHANGED vars
    ELSE \E run \in Runs(kind) : Dml(kind, "update", filter, patch, run)

Init == docs = [d \in Ids |-> NoDoc] /\ report = NoReport

Next ==
    /\ report = NoReport
    /\ \/ \E d \in Ids, c \in Content : Write(d, c)
       \/ \E kind \in Kinds, filter \in Filters : BulkDelete(kind, filter)
       \/ \E kind \in Kinds, filter \in Filters, patch \in Patches : BulkUpdate(kind, filter, patch)

-----------------------------------------------------------------------------
\* Numbers that are compared: of a field that holds numbers, or nothing.
NumbersOnly(filter) == \A d \in Matching(docs, filter) : docs[d] \notin Texts \cup Booleans \cup {Object}

\* Every store answers an aggregate alike where the field holds numbers or is
\* missing, and min and max are refused or meant: nothing counts a missing field.
AggregatesAgree ==
    report = NoReport => \A filter \in Filters, op \in Ops :
        NumbersOnly(filter) =>
            FirestoreAggregate(op, filter) \in {SqlAggregate(op, filter), Refused}

\* Aggregates of two halves make the aggregate of the whole: counts and sums add
\* up, and the average lies between the least and the greatest number.
AggregatesAddUp ==
    report = NoReport => \A filter \in Filters, half \in SUBSET Scalars :
        /\ \A op \in {"count", "sum"} :
             SqlAggregate(op, filter)[1]
               = SqlAggregate(op, filter \cap half)[1] + SqlAggregate(op, filter \ half)[1]
        /\ LET avg == SqlAggregate("avg", filter)
           IN  avg # NaN => /\ SqlAggregate("min", filter)[1] * avg[2] <= avg[1]
                            /\ avg[1] <= SqlAggregate("max", filter)[1] * avg[2]

\* A projected row has the fields that were asked for, with the values a full
\* read would show and null for what is missing, in every store alike.
ProjectionsAgree ==
    report = NoReport => \A select \in Selects, d \in Ids :
        docs[d] \notin Booleans \cup {NoDoc} =>
            SqlProjected(select, docs[d]) = FirestoreProjected(select, docs[d])

\* Not so for booleans, which SQLite returns as numbers: the decoder looks for
\* objects, arrays and integers only.
BooleansSurvive ==
    \A select \in Selects, d \in Ids :
        docs[d] \in Booleans => SqlProjected(select, docs[d]) = FirestoreProjected(select, docs[d])

\* A bulk statement that is answered has changed every record it matches and no
\* other; its count is exact unless an attempt took effect unanswered, and never
\* too high; one that reports errors has changed all of them or none.
BulkMeans ==
    report # NoReport =>
        LET matched == Matching(report.before, report.filter)
            changed == [d \in Ids |-> IF d \in matched THEN Effect(report.op, report.patch) ELSE report.before[d]]
        IN  /\ docs \in {report.before, changed}
            /\ report.answer = "done" \/ ~report.exact => docs = changed
            /\ report.answer = "done" /\ report.exact => report.deleted = Cardinality(matched)
            /\ report.deleted <= Cardinality(matched)
=============================================================================
