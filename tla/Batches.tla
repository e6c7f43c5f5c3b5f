------------------------------ MODULE Batches ------------------------------
(***************************************************************************)
(* A write batch (batch.ts) on the three families of stores.  They buffer   *)
(* the operations in the same way and differ in what a commit takes and     *)
(* when the buffer is emptied: Firestore's WriteBatch takes no operation    *)
(* once a commit was called, SQLite's awaits its schema, sends what the     *)
(* buffer then holds and empties it when the answer is there, a Durable     *)
(* Object's copies it and empties it before the call leaves.  Nobody waits: *)
(* operations are added and commits called while others are on their way.   *)
(***************************************************************************)
EXTENDS Naturals, Sequences, SequencesExt

CONSTANTS
  Docs,
  Kinds,       \* the families: "firestore", "sqlite", "object"
  MaxOps,      \* bound: operations of a batch
  MaxCommits   \* bound: calls of commit

VARIABLES
  kind,     \* the family of the store
  store,    \* the documents that exist, with the operation that wrote them
  buffer,   \* operations waiting for a commit
  flights,  \* per call of commit: how far it is and the operations it sent
  commits,  \* commits called so far
  added,    \* operations the caller has added
  applied,  \* those that have reached the store
  refused,  \* those sent by a commit that was rejected
  late,     \* added while the statements of a SQLite commit were on their way
  doubled   \* sent while an earlier commit had them on its way, or had sent
            \* them (Firestore, whose batch keeps them)

vars == <<kind, store, buffer, flights, commits, added, applied, refused, late, doubled>>

Op == [type : {"set", "update", "delete"}, doc : Docs, id : 1..MaxOps]
Quiet == [stage |-> "quiet", ops |-> <<>>]
Sent(ops) == [stage |-> "sent", ops |-> ops]

-----------------------------------------------------------------------------

\* What one operation leaves.  An UPDATE that matches no row changes nothing.
Written(docs, op) ==
  IF op.type = "delete" THEN [docs EXCEPT ![op.doc] = 0]
  ELSE IF op.type = "update" /\ docs[op.doc] = 0 THEN docs
  ELSE [docs EXCEPT ![op.doc] = op.id]

After(docs, ops) == FoldLeft(Written, docs, ops)

\* Firestore's precondition: an updated document exists when its turn comes.
Missing(docs, ops) ==
  \E i \in DOMAIN ops : /\ ops[i].type = "update"
                        /\ After(docs, SubSeq(ops, 1, i - 1))[ops[i].doc] = 0

Ids(ops) == { ops[i].id : i \in DOMAIN ops }

\* The commits whose operations are at the store, or on their way to it.
Sending == { c \in 1..MaxCommits : flights[c].stage = "sent" }
OnTheirWay == UNION { Ids(flights[c].ops) : c \in Sending }

-----------------------------------------------------------------------------

\* Mutant: Firestore's batch takes operations after its commit.
AddAnyTime(type, d) ==
  /\ added < MaxOps
  /\ added' = added + 1
  /\ buffer' = Append(buffer, [type |-> type, doc |-> d, id |-> added + 1])
  /\ late' = IF kind = "sqlite" /\ Sending # {} THEN late \cup {added + 1} ELSE late
  /\ UNCHANGED <<kind, store, flights, commits, applied, refused, doubled>>

\* putNode, updateNode, removeEdge and the rest: buffered, nothing is sent.
\* Only Firestore's batch refuses, after its commit; SQLite's takes what is
\* added during a commit, into the buffer that this commit will empty.
Add(type, d) ==
  /\ added < MaxOps
  /\ kind = "firestore" => commits = 0
  /\ added' = added + 1
  /\ buffer' = Append(buffer, [type |-> type, doc |-> d, id |-> added + 1])
  /\ late' = IF kind = "sqlite" /\ Sending # {} THEN late \cup {added + 1} ELSE late
  /\ UNCHANGED <<kind, store, flights, commits, applied, refused, doubled>>

\* commit(), also while others are under way.  Nothing to do with an empty
\* buffer; SQLite's awaits ensureSchema first; the object's buffer is emptied
\* before the call.  Firestore's sends the same operations again, unless the
\* SDK refuses: then nothing happens.
Commit ==
  /\ commits < MaxCommits
  /\ buffer # <<>>
  /\ commits' = commits + 1
  /\ flights' = [flights EXCEPT ![commits + 1] =
                   IF kind = "sqlite" THEN [stage |-> "schema", ops |-> <<>>] ELSE Sent(buffer)]
  /\ buffer' = IF kind = "object" THEN <<>> ELSE buffer
  /\ doubled' = IF kind = "firestore" /\ commits > 0 THEN doubled \cup Ids(buffer) ELSE doubled
  /\ UNCHANGED <<kind, store, added, applied, refused, late>>

\* ensureSchema is done: the statements the buffer holds now are sent, those of
\* another commit among them if it has not been answered.
Sends(c) ==
  /\ flights[c].stage = "schema"
  /\ flights' = [flights EXCEPT ![c] = Sent(buffer)]
  /\ doubled' = doubled \cup (Ids(buffer) \cap OnTheirWay)
  /\ UNCHANGED <<kind, store, buffer, commits, added, applied, refused, late>>

\* ensureSchema throws: commit() is rejected, the buffer is as it was.
SchemaFails(c) ==
  /\ flights[c].stage = "schema"
  /\ flights' = [flights EXCEPT ![c] = Quiet]
  /\ UNCHANGED <<kind, store, buffer, commits, added, applied, refused, late, doubled>>

\* Mutant: SQLite's buffer outlives the commit that wrote it.
KeepsBuffer == buffer

\* What the buffer holds once a commit has succeeded: SQLite's is emptied,
\* whatever has been added to it since the statements left.
Emptied == IF kind = "sqlite" THEN <<>> ELSE buffer

\* The store takes all of it in one transaction and says so.
Applies(c) ==
  /\ flights[c].stage = "sent"
  /\ kind = "firestore" => ~Missing(store, flights[c].ops)
  /\ store' = After(store, flights[c].ops)
  /\ applied' = applied \cup Ids(flights[c].ops)
  /\ buffer' = Emptied
  /\ flights' = [flights EXCEPT ![c] = Quiet]
  /\ UNCHANGED <<kind, commits, added, refused, late, doubled>>

\* The commit is rejected: the store refused it or was never reached (nothing
\* is written), or the answer of a remote store was lost (everything is).
Rejects(c, reached) ==
  /\ flights[c].stage = "sent"
  /\ reached /\ kind = "firestore" => ~Missing(store, flights[c].ops)
  /\ store' = IF reached THEN After(store, flights[c].ops) ELSE store
  /\ applied' = IF reached THEN applied \cup Ids(flights[c].ops) ELSE applied
  /\ refused' = refused \cup Ids(flights[c].ops)
  /\ flights' = [flights EXCEPT ![c] = Quiet]
  /\ UNCHANGED <<kind, buffer, commits, added, late, doubled>>

Init ==
  /\ kind \in Kinds
  /\ store \in [Docs -> {0, MaxOps + 1}]
  /\ buffer = <<>>
  /\ flights = [c \in 1..MaxCommits |-> Quiet]
  /\ commits = 0
  /\ added = 0
  /\ applied = {}
  /\ refused = {}
  /\ late = {}
  /\ doubled = {}

Next ==
  \/ \E type \in {"set", "update", "delete"}, d \in Docs : Add(type, d)
  \/ Commit
  \/ \E c \in 1..MaxCommits : Sends(c) \/ SchemaFails(c) \/ Applies(c)
  \/ \E c \in 1..MaxCommits, reached \in BOOLEAN : Rejects(c, reached)

Spec == Init /\ [][Next]_vars

-----------------------------------------------------------------------------

\* When commits come to rest with nothing left to send, every operation the
\* caller added is in the store or was sent by a commit that was rejected: none
\* is dropped between a full buffer, a failed commit and a second one.  The
\* exception is SQLite's: `statements.length = 0` after the answer also takes
\* what was added while the statements were on their way (`late`), unsent and
\* unreported.  What is added before, while the schema is awaited, is sent.
EveryOperationAccountedFor ==
  /\ \A c \in 1..MaxCommits : flights[c].stage = "quiet"
  /\ buffer = <<>> \/ (kind = "firestore" /\ commits > 0)
  => 1..added \subseteq applied \cup refused \cup late

\* No operation is written a second time unless the caller was told that its
\* commit had failed, or it was sent twice (`doubled`): SQLite's buffer is full
\* until the answer, so a second commit() meanwhile sends it once more.
NothingAppliedTwice ==
  [][\A c \in 1..MaxCommits :
       /\ flights[c].stage = "sent" /\ flights'[c].stage = "quiet"
       /\ applied' # applied \/ store' # store
       => Ids(flights[c].ops) \cap applied \subseteq refused \cup doubled]_vars

\* Both together: what a caller can count on without looking at the store.
BatchesAccount == []EveryOperationAccountedFor /\ NothingAppliedTwice

\* The families there are: what kind is compared with; and the bound is a number.
KindsAssumption ==
  /\ Kinds \subseteq {"firestore", "sqlite", "object"}
  /\ MaxCommits \in Nat

=============================================================================
