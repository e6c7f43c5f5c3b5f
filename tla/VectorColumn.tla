----------------------------- MODULE VectorColumn -----------------------------
(***************************************************************************)
(* The BLOB column that spares findNearest the parsing of a declared       *)
(* vector: added to the table, guarded by a trigger and backfilled by each *)
(* handle before its first search, next to writers and to a cascade that   *)
(* drops the table under a handle that has it cached.                      *)
(***************************************************************************)
EXTENDS Naturals, FiniteSets

CONSTANTS
  Docs, Vectors, \* documents, and vectors of the declared dimension
  Malformed,     \* a value that is no vector of that dimension
  None,          \* no row, no blob
  Handles,       \* handles on the graph, of one process or of several
  MaxWrites, MaxDrops

VARIABLES
  rows,    \* doc -> its value in data, or None
  blob,    \* doc -> the shadow column
  column, trigger,  \* whether the table has them
  handle,  \* handle -> [at, todo]: its step, and the rows its backfill read
  raced,   \* documents whose last change met a handle amid its ensure
  writes, drops

vars == <<rows, blob, column, trigger, handle, raced, writes, drops>>

Fields == Vectors \union {Malformed}
Unread == [d \in Docs |-> None]
Steps == {"unchecked", "alter", "trigger", "select", "update", "ready"}

\* A handle is amid its ensure.
Busy == \E h \in Handles : handle[h].at \notin {"unchecked", "ready"}

\* A search drops rows whose value is no vector of the query's dimension.
Distance(value) == IF value \in Vectors THEN value ELSE None

\* The CASE of the query: the blob when there is one, the JSON otherwise.
Scored(d) == IF column /\ blob[d] # None THEN blob[d] ELSE Distance(rows[d])

\* A plausible mistake: the trigger ignores a changed payload.
BlobKept(d, value) == IF value = None THEN None ELSE blob[d]

\* An inserted or deleted row has no blob; a change of data nulls it.
BlobAfter(d, value) ==
  IF rows[d] = None \/ value = None \/ (trigger /\ value # rows[d]) THEN None ELSE blob[d]

\* The trigger of a recreated table may precede its column: an update fails.
TriggerRuns(d, value) ==
  column \/ ~trigger \/ rows[d] = None \/ value \in {None, rows[d]}

\* setDoc, updateDoc and deleteDoc, of any connection.
Write(d, value) ==
  /\ TriggerRuns(d, value)
  /\ writes < MaxWrites /\ writes' = writes + 1
  /\ rows' = [rows EXCEPT ![d] = value]
  /\ blob' = [blob EXCEPT ![d] = BlobAfter(d, value)]
  /\ raced' = IF Busy THEN raced \union {d}
              ELSE IF value # rows[d] THEN raced \ {d} ELSE raced
  /\ UNCHANGED <<column, trigger, handle, drops>>

\* A cascade drops the table; a handle's bootstrap recreates it empty.
Drop ==
  /\ drops < MaxDrops /\ drops' = drops + 1
  /\ rows' = Unread /\ blob' = Unread
  /\ column' = FALSE /\ trigger' = FALSE
  /\ raced' = IF Busy THEN Docs ELSE {}
  /\ UNCHANGED <<handle, writes>>

Goes(h, step) == handle' = [handle EXCEPT ![h].at = step]

\* doVecEnsure: bootstrap, PRAGMA table_info.
ReadColumns(h) ==
  /\ handle[h].at = "unchecked"
  /\ Goes(h, IF column THEN "trigger" ELSE "alter")
  /\ UNCHANGED <<rows, blob, column, trigger, raced, writes, drops>>

\* ALTER TABLE ADD COLUMN; a duplicate column is as good.
AddColumn(h) ==
  /\ handle[h].at = "alter"
  /\ column' = TRUE
  /\ Goes(h, "trigger")
  /\ UNCHANGED <<rows, blob, trigger, raced, writes, drops>>

AddTrigger(h) ==
  /\ handle[h].at = "trigger"
  /\ trigger' = TRUE
  /\ Goes(h, "select")
  /\ UNCHANGED <<rows, blob, column, raced, writes, drops>>

\* The rows without a blob, parsed and validated...
SelectMissing(h) ==
  /\ handle[h].at = "select"
  /\ handle' = [handle EXCEPT ![h] =
       [at |-> IF column THEN "update" ELSE "ready",
        todo |-> [d \in Docs |-> IF column /\ blob[d] = None THEN Distance(rows[d]) ELSE None]]]
  /\ UNCHANGED <<rows, blob, column, trigger, raced, writes, drops>>

\* A plausible mistake: every document read gets the first vector.
FirstForAll(h, d) == CHOOSE v \in Vectors : TRUE

Encoded(h, d) == handle[h].todo[d]

\* ... are written back by doc_id in one batch. A table that was dropped
\* meanwhile has no such column: the failure is swallowed.
UpdateBlobs(h) ==
  /\ handle[h].at = "update"
  /\ blob' = [d \in Docs |->
       IF column /\ rows[d] # None /\ handle[h].todo[d] # None THEN Encoded(h, d) ELSE blob[d]]
  /\ handle' = [handle EXCEPT ![h] = [at |-> "ready", todo |-> Unread]]
  /\ UNCHANGED <<rows, column, trigger, raced, writes, drops>>

\* A plausible mistake: the retry reuses the cached ensure.
CacheKept(h) == handle[h].at = "ready" /\ ~column /\ UNCHANGED vars

\* findNearest on a column that is gone: the cached ensure is forgotten.
SearchHeals(h) ==
  /\ handle[h].at = "ready" /\ ~column
  /\ Goes(h, "unchecked")
  /\ UNCHANGED <<rows, blob, column, trigger, raced, writes, drops>>

Init ==
  /\ rows = Unread /\ blob = Unread
  /\ column = FALSE /\ trigger = FALSE
  /\ handle = [h \in Handles |-> [at |-> "unchecked", todo |-> Unread]]
  /\ raced = {} /\ writes = 0 /\ drops = 0

Ensure(h) ==
  ReadColumns(h) \/ AddColumn(h) \/ AddTrigger(h) \/ SelectMissing(h) \/ UpdateBlobs(h)

Next ==
  \/ \E d \in Docs, value \in Fields \union {None} : Write(d, value)
  \/ Drop
  \/ \E h \in Handles : Ensure(h) \/ SearchHeals(h)

Spec == Init /\ [][Next]_vars

\* A handle that searches runs its ensure to the end, and heals.
Fairness == \A h \in Handles : WF_vars(Ensure(h) \/ SearchHeals(h))
FairSpec == Spec /\ Fairness

\* --- Properties ---------------------------------------------------------

TypeOK ==
  /\ rows \in [Docs -> Fields \union {None}]
  /\ blob \in [Docs -> Vectors \union {None}]
  /\ \A h \in Handles : handle[h].at \in Steps
  /\ raced \subseteq Docs

\* "Rankings and distances stay byte-identical to the JSON path."
ScoresMatchData == \A d \in Docs : rows[d] # None => Scored(d) = Distance(rows[d])

\* A row is scored by anything but its current value only when its last change
\* met a handle amid its ensure: the trigger, the read of NULL blobs only and the
\* fallback to JSON leave no other way, and the next quiet change repairs it.
StaleOnlyWhenRaced ==
  \A d \in Docs : rows[d] # None /\ Scored(d) # Distance(rows[d]) => d \in raced

\* What a search scores, in tables of rows and blobs.
IndexesFollowRows == TypeOK /\ StaleOnlyWhenRaced

NoneAssumption == None \notin Fields

\* A handle whose table was dropped and recreated searches with the column
\* again, instead of failing on the missing one for good.
SearchesRecover == \A h \in Handles : []<>(handle[h].at = "ready" /\ column)
=============================================================================
