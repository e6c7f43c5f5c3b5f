-------------------------- MODULE SqliteConnection --------------------------
(***************************************************************************)
(* The in-process SQLite executors (src/sqlite/local.ts, node-sqlite.ts):  *)
(* all backends of a database share one connection, so whatever runs while *)
(* an interactive transaction awaits runs inside that transaction.         *)
(*                                                                         *)
(* A statement is one write, known by who ran it and which of its writes   *)
(* it is; what it does to rows is left out.  `view` is what statements of  *)
(* the connection see, `durable` what a restart would find.  Statements    *)
(* are synchronous; the callback of a transaction may await between two.   *)
(* What it reads there is all that anyone wrote through the connection.    *)
(***************************************************************************)
EXTENDS Naturals, FiniteSets

CONSTANTS
    Txs,       \* calls of runTransaction
    Singles,   \* writes outside any transaction or batch
    Batches,   \* batches
    Drivers,   \* "better-sqlite3" and "node:sqlite", or one of them
    MaxWrites, \* bound: writes of a transaction; the statements of a batch
    MaxCrashes \* bound: crashes of the process

ASSUME ActorsAssumption ==
    Txs \cap Singles = {} /\ Txs \cap Batches = {} /\ Singles \cap Batches = {}
ASSUME BoundsAssumption == MaxWrites \in Nat \ {0} /\ MaxCrashes \in Nat
ASSUME DriversAssumption == Drivers \subseteq {"better-sqlite3", "node:sqlite"}

VARIABLES
    driver,  \* the executor
    db,      \* the connection and the file behind it
    pc,      \* where each actor is
    written, \* how many writes each transaction made
    crashes

vars == <<driver, db, pc, written, crashes>>

Actors == Txs \cup Singles \cup Batches
Write == [by : Actors, nth : 1..MaxWrites]

\* The writes an actor makes; for a batch, the statements it queued.
Requeued(a) == [by : {a}, nth : 1..(2 * MaxWrites)]
Of(a) == [by : {a}, nth : 1..MaxWrites]

Init ==
    /\ driver \in Drivers
    /\ db = [open |-> FALSE, durable |-> {}, view |-> {}]
    /\ pc = [a \in Actors |-> "idle"]
    /\ written = [t \in Txs |-> 0]
    /\ crashes = 0

(***************************************************************************)
(* What SQLite does with a statement.                                      *)
(***************************************************************************)

\* Outside a transaction each statement commits by itself.
Ran(d, ws) == [open    |-> d.open,
               view    |-> d.view \cup ws,
               durable |-> IF d.open THEN d.durable ELSE d.durable \cup ws]

Committed(d) == [open |-> FALSE, view |-> d.view, durable |-> d.view]

RolledBack(d) == [open |-> FALSE, view |-> d.durable, durable |-> d.durable]

(***************************************************************************)
(* executor.transaction                                                    *)
(***************************************************************************)

Begin(t) ==
    /\ pc[t] = "idle"
    /\ ~db.open
    /\ db' = [db EXCEPT !.open = TRUE]
    /\ pc' = [pc EXCEPT ![t] = "running"]
    /\ UNCHANGED <<driver, written, crashes>>

\* BEGIN IMMEDIATE stands before the try: when it throws nothing is undone.
RefusedRollsBack(d) == RolledBack(d)
AfterRefusal(d) == d

\* A transaction within a transaction: BEGIN throws, runTransaction rejects.
BeginRefused(t) ==
    /\ pc[t] = "idle"
    /\ db.open
    /\ db' = AfterRefusal(db)
    /\ pc' = [pc EXCEPT ![t] = "rejected"]
    /\ UNCHANGED <<driver, written, crashes>>

\* setDoc, updateDoc, deleteDoc
Put(t) ==
    /\ pc[t] = "running"
    /\ written[t] < MaxWrites
    /\ written' = [written EXCEPT ![t] = @ + 1]
    /\ db' = Ran(db, {[by |-> t, nth |-> written[t] + 1]})
    /\ UNCHANGED <<driver, pc, crashes>>

\* The callback returned.  COMMIT throws where no transaction is open, and so
\* does the ROLLBACK that answers it.
Return(t) ==
    /\ pc[t] = "running"
    /\ pc' = [pc EXCEPT ![t] = IF db.open THEN "committed" ELSE "rejected"]
    /\ db' = IF db.open THEN Committed(db) ELSE db
    /\ UNCHANGED <<driver, written, crashes>>

\* The catch of executor.transaction.
StaysOpen(d) == d
AfterThrow(d) == RolledBack(d)

\* The callback throws: a missing document, a query refused, its own error.
Throw(t) ==
    /\ pc[t] = "running"
    /\ pc' = [pc EXCEPT ![t] = "rejected"]
    /\ db' = AfterThrow(db)
    /\ UNCHANGED <<driver, written, crashes>>

(***************************************************************************)
(* Everybody else on the connection.                                       *)
(***************************************************************************)

\* setDoc, updateDoc, deleteDoc of the backend: one statement.
Single(s) ==
    /\ pc[s] = "idle"
    /\ pc' = [pc EXCEPT ![s] = "done"]
    /\ db' = Ran(db, {[by |-> s, nth |-> 1]})
    /\ UNCHANGED <<driver, written, crashes>>

\* node:sqlite issues BEGIN, which throws inside a transaction; better-sqlite3
\* takes a savepoint there and joins it.
BatchStarts == driver = "better-sqlite3" \/ ~db.open

\* batch.commit().  A batch that failed keeps its statements for a retry.
BatchCommit(b) ==
    /\ pc[b] \in {"idle", "failed"}
    /\ BatchStarts
    /\ pc' = [pc EXCEPT ![b] = "done"]
    /\ db' = Ran(db, Of(b))
    /\ UNCHANGED <<driver, written, crashes>>

BatchRefused(b) ==
    /\ pc[b] \in {"idle", "failed"}
    /\ ~BatchStarts
    /\ pc' = [pc EXCEPT ![b] = "failed"]
    /\ UNCHANGED <<driver, db, written, crashes>>

\* What is left of a batch whose last statement throws.
KeepsFirst(d, ws) == Ran(d, {w \in ws : w.nth < MaxWrites})
AfterFailedBatch(d, ws) == d

BatchFails(b) ==
    /\ pc[b] \in {"idle", "failed"}
    /\ BatchStarts
    /\ pc' = [pc EXCEPT ![b] = "failed"]
    /\ db' = AfterFailedBatch(db, Of(b))
    /\ UNCHANGED <<driver, written, crashes>>

\* The process dies; whoever has not begun begins in the next one.
Crash ==
    /\ crashes < MaxCrashes
    /\ crashes' = crashes + 1
    /\ db' = RolledBack(db)
    /\ pc' = [a \in Actors |-> IF pc[a] = "running" THEN "rejected" ELSE pc[a]]
    /\ UNCHANGED <<driver, written>>

Next ==
    \/ \E t \in Txs : Begin(t) \/ BeginRefused(t) \/ Put(t) \/ Return(t) \/ Throw(t)
    \/ \E s \in Singles : Single(s)
    \/ \E b \in Batches : BatchCommit(b) \/ BatchRefused(b) \/ BatchFails(b)
    \/ Crash

Spec == Init /\ [][Next]_vars

(***************************************************************************)
(* Properties.                                                             *)
(***************************************************************************)

TypeOK ==
    /\ driver \in Drivers
    /\ db \in [open : BOOLEAN, durable : SUBSET Write, view : SUBSET Write]
    /\ pc \in [Actors -> {"idle", "running", "committed", "rejected", "done", "failed"}]
    /\ \A a \in Singles \cup Batches : pc[a] \in {"idle", "done", "failed"}
    /\ written \in [Txs -> 0..MaxWrites]
    /\ crashes \in 0..MaxCrashes

\* Exactly the transaction whose callback still runs holds the connection: none
\* is left open to refuse every later transaction and to swallow every write.
ConnectionReleased ==
    /\ db.open <=> \E t \in Txs : pc[t] = "running"
    /\ \A t, u \in Txs : pc[t] = "running" /\ pc[u] = "running" => t = u

\* What the file holds of a transaction is all that it wrote, once it has
\* committed, and nothing before that or if it was rejected.
TransactionsAreAtomic ==
    \A t \in Txs : db.durable \cap Of(t) =
      IF pc[t] = "committed" THEN {w \in Of(t) : w.nth <= written[t]} ELSE {}

\* A batch is in the file as a whole or not at all, also when it joined a
\* transaction, failed in the middle or was retried.
BatchesAreAtomic == \A b \in Batches : db.durable \cap Of(b) \in {{}, Of(b)}
BatchesStayWhole == TypeOK /\ BatchesAreAtomic

=============================================================================
