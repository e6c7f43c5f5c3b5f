----------------------- MODULE SqliteConnection_proofs -----------------------
(***************************************************************************)
(* Proofs about the shared connection, for any number of transactions,     *)
(* writes, batches and crashes, on both drivers: the connection is held    *)
(* only by the transaction that runs, and the file never holds a part of a *)
(* transaction or of a batch; and about VectorColumn, TextIndex and         *)
(* EditorWrites, through the instances MCSqliteConnection makes of them.    *)
(***************************************************************************)
EXTENDS MCSqliteConnection, FiniteSetTheorems, TLAPS

\* No write belongs to two actors.
LEMMA OwnWrites ==
    ASSUME NEW a \in Actors
    PROVE  /\ Of(a) \subseteq Write
           /\ \A b \in Actors : b # a => Of(a) \cap Of(b) = {}
BY DEF Of, Write

\* The writes of a transaction so far.
Made(t) == {w \in Of(t) : w.nth <= written[t]}

\* Type correctness of every reachable state of connection, file and actors.
THEOREM TypeCorrect == Spec => []TypeOK
<1>1. Init => TypeOK
  <2> SUFFICES ASSUME Init PROVE TypeOK
    OBVIOUS
  <2> USE DEF Init
  <2>1. /\ db \in [open : BOOLEAN, durable : SUBSET Write, view : SUBSET Write]
    OBVIOUS
  <2>2. written \in [Txs -> 0..MaxWrites] /\ crashes \in 0..MaxCrashes
    BY BoundsAssumption
  <2>3. /\ pc \in [Actors -> {"idle", "running", "committed", "rejected", "done", "failed"}]
        /\ \A a \in Singles \cup Batches : pc[a] \in {"idle", "done", "failed"}
    BY DEF Actors
  <2> QED
    BY <2>1, <2>2, <2>3 DEF TypeOK
<1>2. TypeOK /\ [Next]_vars => TypeOK'
  <2> SUFFICES ASSUME TypeOK, [Next]_vars PROVE TypeOK'
    OBVIOUS
  <2> USE DEF TypeOK
  <2>1. CASE UNCHANGED vars
    BY <2>1 DEF vars
  <2>2. ASSUME NEW t \in Txs, Begin(t) \/ BeginRefused(t) PROVE TypeOK'
    BY <2>2, ActorsAssumption DEF Begin, BeginRefused, AfterRefusal, Actors
  <2>4. ASSUME NEW t \in Txs, Put(t) PROVE TypeOK'
    <3> DEFINE new == [by |-> t, nth |-> written[t] + 1]
    <3>1. written[t] + 1 \in 1..MaxWrites
      BY <2>4, BoundsAssumption DEF Put
    <3>2. new \in Write
      BY <3>1 DEF Write, Actors
    <3>3. db' \in [open : BOOLEAN, durable : SUBSET Write, view : SUBSET Write]
      BY <2>4, <3>2 DEF Put, Ran
    <3>4. written' \in [Txs -> 0..MaxWrites]
      BY <2>4, <3>1, BoundsAssumption DEF Put
    <3> QED
      BY <2>4, <3>3, <3>4 DEF Put
  <2>5. ASSUME NEW t \in Txs, Return(t) \/ Throw(t) PROVE TypeOK'
    <3>1. /\ db \in [open : BOOLEAN, durable : SUBSET Write, view : SUBSET Write]
          /\ db' \in {db, Committed(db), RolledBack(db)}
      BY <2>5 DEF Return, Throw, AfterThrow
    <3>2. db' \in [open : BOOLEAN, durable : SUBSET Write, view : SUBSET Write]
      <4>1. CASE db' = db
        BY <3>1, <4>1
      <4>2. CASE db' = Committed(db)
        BY <3>1, <4>2 DEF Committed
      <4>3. CASE db' = RolledBack(db)
        BY <3>1, <4>3 DEF RolledBack
      <4> QED
        BY <3>1, <4>1, <4>2, <4>3
    <3> QED
      BY <2>5, <3>2, ActorsAssumption DEF Return, Throw, Actors
  <2>6. ASSUME NEW s \in Singles, Single(s) PROVE TypeOK'
    <3>1. [by |-> s, nth |-> 1] \in Write
      BY BoundsAssumption DEF Write, Actors
    <3>2. db' \in [open : BOOLEAN, durable : SUBSET Write, view : SUBSET Write]
      BY <2>6, <3>1 DEF Single, Ran
    <3> QED
      BY <2>6, <3>2 DEF Single, Actors
  <2>7. ASSUME NEW b \in Batches, BatchCommit(b) PROVE TypeOK'
    <3>1. db' \in [open : BOOLEAN, durable : SUBSET Write, view : SUBSET Write]
      BY <2>7, OwnWrites DEF BatchCommit, Ran, Actors
    <3> QED
      BY <2>7, <3>1 DEF BatchCommit, Actors
  <2>8. ASSUME NEW b \in Batches, BatchRefused(b) \/ BatchFails(b) PROVE TypeOK'
    BY <2>8 DEF BatchRefused, BatchFails, AfterFailedBatch, Actors
  <2>9. CASE Crash
    <3>1. crashes' \in 0..MaxCrashes
      BY <2>9, BoundsAssumption DEF Crash
    <3>2. db' \in [open : BOOLEAN, durable : SUBSET Write, view : SUBSET Write]
      BY <2>9 DEF Crash, RolledBack
    <3> QED
      BY <2>9, <3>1, <3>2 DEF Crash, Actors
  <2> QED
    BY <2>1, <2>2, <2>4, <2>5, <2>6, <2>7, <2>8, <2>9 DEF Next
<1> QED
  BY <1>1, <1>2, PTL DEF Spec

-----------------------------------------------------------------------------
\* The connection is open exactly while one transaction's callback runs: every
\* way out of executor.transaction closes it, and a refused BEGIN leaves it to
\* its owner.
THEOREM ReleasedTheorem == Spec => []ConnectionReleased
<1>1. Init => ConnectionReleased
  BY DEF Init, ConnectionReleased, Actors
<1>2. TypeOK /\ ConnectionReleased /\ [Next]_vars => ConnectionReleased'
  <2> SUFFICES ASSUME TypeOK, ConnectionReleased, [Next]_vars PROVE ConnectionReleased'
    OBVIOUS
  <2> USE DEF TypeOK, ConnectionReleased
  <2>1. CASE UNCHANGED vars
    BY <2>1 DEF vars
  <2>2. ASSUME NEW t \in Txs, Begin(t) PROVE ConnectionReleased'
    BY <2>2 DEF Begin, Actors
  <2>3. ASSUME NEW t \in Txs, BeginRefused(t) PROVE ConnectionReleased'
    BY <2>3 DEF BeginRefused, AfterRefusal, Actors
  <2>4. ASSUME NEW t \in Txs, Put(t) PROVE ConnectionReleased'
    BY <2>4 DEF Put, Ran
  <2>5. ASSUME NEW t \in Txs, Return(t) \/ Throw(t) PROVE ConnectionReleased'
    BY <2>5 DEF Return, Throw, Committed, AfterThrow, RolledBack, Actors
  <2>6. ASSUME NEW s \in Singles, Single(s) PROVE ConnectionReleased'
    BY <2>6, ActorsAssumption DEF Single, Ran, Actors
  <2>7. ASSUME NEW b \in Batches, BatchCommit(b) \/ BatchRefused(b) \/ BatchFails(b)
        PROVE  ConnectionReleased'
    BY <2>7, ActorsAssumption DEF BatchCommit, BatchRefused, BatchFails, AfterFailedBatch, Ran, Actors
  <2>8. CASE Crash
    BY <2>8 DEF Crash, RolledBack, Actors
  <2> QED
    BY <2>1, <2>2, <2>3, <2>4, <2>5, <2>6, <2>7, <2>8 DEF Next
<1> QED
  BY <1>1, <1>2, TypeCorrect, PTL DEF Spec

-----------------------------------------------------------------------------
(***************************************************************************)
(* Atomicity.  The view holds what the running and the committed           *)
(* transactions wrote and nothing of the others, the file only what the    *)
(* committed ones wrote; outside a transaction the two are one.  Since a   *)
(* single transaction runs, COMMIT adds exactly its writes to the file and *)
(* ROLLBACK takes exactly its writes out of the view.                      *)
(***************************************************************************)

Fresh == \A t \in Txs : pc[t] = "idle" => written[t] = 0

InView == \A t \in Txs : db.view \cap Of(t) =
            IF pc[t] \in {"running", "committed"} THEN Made(t) ELSE {}

InFile == \A t \in Txs : db.durable \cap Of(t) =
            IF pc[t] = "committed" THEN Made(t) ELSE {}

Whole == \A b \in Batches : /\ db.view \cap Of(b) \in {{}, Of(b)}
                            /\ db.durable \cap Of(b) \in {{}, Of(b)}

Closed == ~db.open => db.view = db.durable

Atomic == Fresh /\ InView /\ InFile /\ Whole /\ Closed

\* A statement of one actor changes what the connection and the file hold of
\* that actor alone, and keeps the two alike outside a transaction.
LEMMA RanElsewhere ==
    ASSUME NEW d \in [open : BOOLEAN, durable : SUBSET Write, view : SUBSET Write],
           NEW a \in Actors, NEW ws \in SUBSET Of(a)
    PROVE  /\ \A b \in Actors : b # a => /\ Ran(d, ws).view \cap Of(b) = d.view \cap Of(b)
                                         /\ Ran(d, ws).durable \cap Of(b) = d.durable \cap Of(b)
           /\ (~d.open => d.view = d.durable) => (~d.open => Ran(d, ws).view = Ran(d, ws).durable)
           /\ Ran(d, ws).open = d.open
BY OwnWrites DEF Ran

\* What the connection rolls back to, what it commits.
LEMMA Endings ==
    ASSUME NEW d
    PROVE  /\ RolledBack(d).view = d.durable /\ RolledBack(d).durable = d.durable
           /\ Committed(d).view = d.view /\ Committed(d).durable = d.view
           /\ ~RolledBack(d).open /\ ~Committed(d).open
BY DEF RolledBack, Committed

\* The file holds all of a committed transaction and nothing of any other, and
\* every batch as a whole or not at all, whatever ran on the connection while
\* transactions awaited and wherever the process died.
THEOREM AtomicTheorem == Spec => [](TransactionsAreAtomic /\ BatchesAreAtomic)
<1>1. Init => Atomic
  BY DEF Init, Atomic, Fresh, InView, InFile, Whole, Closed, Actors
<1>2. TypeOK /\ ConnectionReleased /\ Atomic /\ [Next]_vars => Atomic'
  <2> SUFFICES ASSUME TypeOK, ConnectionReleased, Atomic, [Next]_vars PROVE Atomic'
    OBVIOUS
  <2> USE DEF Atomic
  <2>0. db \in [open : BOOLEAN, durable : SUBSET Write, view : SUBSET Write]
    BY DEF TypeOK
  <2>1. CASE UNCHANGED vars
    BY <2>1 DEF vars, Fresh, InView, InFile, Whole, Closed, Made
  <2>2. ASSUME NEW t \in Txs, Begin(t) PROVE Atomic'
    <3>1. db'.view = db.view /\ db'.durable = db.durable /\ db'.open /\ ~db.open
      BY <2>0, <2>2 DEF Begin
    <3>2. Made(t) = {}
      BY <2>2 DEF Begin, Fresh, Made, Of
    <3>3. Fresh'
      BY <2>2 DEF Begin, Fresh, TypeOK
    <3>4. InView'
      BY <2>2, <3>1, <3>2 DEF Begin, InView, Made, TypeOK, Actors
    <3>5. InFile'
      BY <2>2, <3>1 DEF Begin, InFile, Made, TypeOK, Actors
    <3> QED
      BY <3>1, <3>3, <3>4, <3>5 DEF Whole, Closed
  <2>3. ASSUME NEW t \in Txs, BeginRefused(t) PROVE Atomic'
    <3>1. db' = db /\ written' = written
      BY <2>3 DEF BeginRefused, AfterRefusal
    <3>2. Fresh' /\ InView' /\ InFile'
      BY <2>3, <3>1 DEF BeginRefused, Fresh, InView, InFile, Made, TypeOK, Actors
    <3> QED
      BY <3>1, <3>2 DEF Whole, Closed
  <2>5. ASSUME NEW t \in Txs, Put(t) PROVE Atomic'
    <3> DEFINE new == [by |-> t, nth |-> written[t] + 1]
    <3>1. /\ written[t] \in Nat /\ written'[t] = written[t] + 1
          /\ \A u \in Txs : u # t => written'[u] = written[u]
          /\ new \in Of(t) /\ t \in Actors /\ db.open
      BY <2>5, BoundsAssumption DEF Put, TypeOK, ConnectionReleased, Of, Actors
    <3>2. db' = Ran(db, {new})
      BY <2>5 DEF Put
    <3>3. /\ db'.open /\ db'.view = db.view \cup {new} /\ db'.durable = db.durable
      BY <3>1, <3>2 DEF Ran
    <3>4. Made(t)' = Made(t) \cup {new}
      BY <3>1 DEF Made, Of
    <3>5. \A u \in Txs : u # t => Made(u)' = Made(u)
      BY <3>1 DEF Made
    <3>6. \A a \in Actors : a # t => db'.view \cap Of(a) = db.view \cap Of(a)
      BY <3>1, <3>3, OwnWrites
    <3>7. InView'
      <4>1. db.view \cap Of(t) = Made(t) /\ pc' = pc /\ pc[t] = "running"
        BY <2>5 DEF Put, InView
      <4>2. db'.view \cap Of(t) = Made(t)'
        BY <3>1, <3>3, <3>4, <4>1
      <4>3. \A u \in Txs : u # t => db'.view \cap Of(u) = db.view \cap Of(u)
        BY <3>6 DEF Actors
      <4> QED
        BY <3>5, <4>1, <4>2, <4>3 DEF InView
    <3>8. InFile'
      BY <2>5, <3>3, <3>5 DEF Put, InFile
    <3>9. Whole'
      BY <3>3, <3>6, ActorsAssumption DEF Whole, Actors
    <3> QED
      BY <2>5, <3>1, <3>3, <3>7, <3>8, <3>9 DEF Put, Fresh, Closed
  <2>6. ASSUME NEW t \in Txs, Return(t) PROVE Atomic'
    <3>1. db' = Committed(db) /\ pc' = [pc EXCEPT ![t] = "committed"] /\ written' = written
      BY <2>6 DEF Return, ConnectionReleased
    <3>2. db'.view = db.view /\ db'.durable = db.view /\ ~db'.open
      BY <3>1, Endings
    <3>3. \A u \in Txs : Made(u)' = Made(u) /\ (u # t => pc'[u] = pc[u] /\ pc[u] # "running")
      BY <2>6, <3>1 DEF Return, Made, ConnectionReleased, TypeOK, Actors
    <3>4. pc[t] = "running" /\ pc'[t] = "committed"
      BY <2>6, <3>1 DEF Return, TypeOK, Actors
    <3>5. Fresh'
      BY <3>1, <3>3, <3>4 DEF Fresh
    <3>6. InView' /\ InFile'
      BY <3>2, <3>3, <3>4 DEF InView, InFile
    <3> QED
      BY <3>2, <3>5, <3>6 DEF Whole, Closed
  <2>7. ASSUME NEW t \in Txs, Throw(t) PROVE Atomic'
    <3>1. db' = RolledBack(db) /\ pc' = [pc EXCEPT ![t] = "rejected"] /\ written' = written
      BY <2>7 DEF Throw, AfterThrow
    <3>2. db'.view = db.durable /\ db'.durable = db.durable /\ ~db'.open
      BY <3>1, Endings
    <3>3. \A u \in Txs : Made(u)' = Made(u) /\ (u # t => pc'[u] = pc[u] /\ pc[u] # "running")
      BY <2>7, <3>1 DEF Throw, Made, ConnectionReleased, TypeOK, Actors
    <3>4. pc[t] = "running" /\ pc'[t] = "rejected"
      BY <2>7, <3>1 DEF Throw, TypeOK, Actors
    <3>5. Fresh'
      BY <3>1, <3>3, <3>4 DEF Fresh
    <3>6. InView' /\ InFile'
      BY <3>2, <3>3, <3>4 DEF InView, InFile
    <3> QED
      BY <3>2, <3>5, <3>6 DEF Whole, Closed
  <2>8. ASSUME NEW s \in Singles, Single(s) PROVE Atomic'
    <3>1. s \in Actors /\ [by |-> s, nth |-> 1] \in Of(s)
      BY BoundsAssumption DEF Actors, Of
    <3>2. db' = Ran(db, {[by |-> s, nth |-> 1]})
      BY <2>8 DEF Single
    <3>3. /\ db'.open = db.open /\ Closed'
          /\ \A a \in Actors : a # s => /\ db'.view \cap Of(a) = db.view \cap Of(a)
                                        /\ db'.durable \cap Of(a) = db.durable \cap Of(a)
      BY <2>0, <3>1, <3>2, RanElsewhere DEF Closed
    <3>4. \A t \in Txs : t \in Actors /\ t # s /\ pc'[t] = pc[t] /\ Made(t)' = Made(t)
      BY <2>8, ActorsAssumption DEF Single, Made, TypeOK, Actors
    <3>5. Fresh'
      BY <2>8, <3>4 DEF Single, Fresh
    <3>6. InView' /\ InFile'
      BY <3>3, <3>4 DEF InView, InFile
    <3>7. Whole'
      BY <3>3, ActorsAssumption DEF Whole, Actors
    <3> QED
      BY <3>3, <3>5, <3>6, <3>7
  <2>9. ASSUME NEW b \in Batches, BatchCommit(b) PROVE Atomic'
    <3>1. b \in Actors
      BY DEF Actors
    <3>2. db' = Ran(db, Of(b))
      BY <2>9 DEF BatchCommit
    <3>3. /\ db'.open = db.open /\ Closed'
          /\ \A a \in Actors : a # b => /\ db'.view \cap Of(a) = db.view \cap Of(a)
                                        /\ db'.durable \cap Of(a) = db.durable \cap Of(a)
      BY <2>0, <3>1, <3>2, RanElsewhere DEF Closed
    <3>4. \A t \in Txs : t \in Actors /\ t # b /\ pc'[t] = pc[t] /\ Made(t)' = Made(t)
      BY <2>9, ActorsAssumption DEF BatchCommit, Made, TypeOK, Actors
    <3>5. Fresh'
      BY <2>9, <3>4 DEF BatchCommit, Fresh
    <3>6. InView' /\ InFile'
      BY <3>3, <3>4 DEF InView, InFile
    <3>7. db'.view \cap Of(b) = Of(b) /\ db'.durable \cap Of(b) \in {db.durable \cap Of(b), Of(b)}
      BY <3>2 DEF Ran
    <3>8. Whole'
      BY <3>3, <3>7 DEF Whole, Actors
    <3> QED
      BY <3>3, <3>5, <3>6, <3>8
  <2>10. ASSUME NEW b \in Batches, BatchRefused(b) \/ BatchFails(b) PROVE Atomic'
    <3>1. db' = db
      BY <2>10 DEF BatchRefused, BatchFails, AfterFailedBatch
    <3>2. \A t \in Txs : pc'[t] = pc[t] /\ Made(t)' = Made(t) /\ written'[t] = written[t]
      BY <2>10, ActorsAssumption DEF BatchRefused, BatchFails, Made, TypeOK, Actors
    <3> QED
      BY <3>1, <3>2 DEF Fresh, InView, InFile, Whole, Closed
  <2>11. CASE Crash
    <3>1. db' = RolledBack(db)
      BY <2>11 DEF Crash
    <3>2. db'.view = db.durable /\ db'.durable = db.durable /\ ~db'.open
      BY <3>1, Endings
    <3>3. \A t \in Txs : /\ pc'[t] = IF pc[t] = "running" THEN "rejected" ELSE pc[t]
                         /\ Made(t)' = Made(t) /\ written'[t] = written[t]
      BY <2>11 DEF Crash, Made, Actors
    <3>4. Fresh' /\ InView' /\ InFile'
      BY <3>2, <3>3 DEF Fresh, InView, InFile
    <3> QED
      BY <3>2, <3>4 DEF Whole, Closed
  <2> QED
    BY <2>1, <2>2, <2>3, <2>5, <2>6, <2>7, <2>8, <2>9, <2>10, <2>11 DEF Next
<1>3. Atomic => TransactionsAreAtomic /\ BatchesAreAtomic
  BY DEF Atomic, InFile, Whole, Made, TransactionsAreAtomic, BatchesAreAtomic
<1> QED
  BY <1>1, <1>2, <1>3, TypeCorrect, ReleasedTheorem, PTL DEF Spec

\* The same of batches alone, in states of their type: a batch that joined a
\* transaction, failed in the middle or was retried is stored whole or not at all.
THEOREM WholeTheorem == Spec => []BatchesStayWhole
<1>1. TypeOK /\ TransactionsAreAtomic /\ BatchesAreAtomic => BatchesStayWhole
  BY DEF BatchesStayWhole
<1> QED
  BY <1>1, TypeCorrect, AtomicTheorem, PTL

-----------------------------------------------------------------------------
(***************************************************************************)
(* VectorColumn.  A blob follows its row unless the row changed amid an     *)
(* ensure, although the handles add column, trigger and blobs in steps that *)
(* interleave with writes, drops of the table and each other.               *)
(***************************************************************************)

Blobs == [Docs -> Vectors \cup {None}]
Ensures == [at : Vector!Steps, todo : Blobs]

ColumnTyped ==
  /\ Vector!TypeOK
  /\ column \in BOOLEAN /\ trigger \in BOOLEAN
  /\ handle \in [Handles -> Ensures]

\* The blob of a row not raced is guarded by the trigger, and what the row says.
BlobsFollow == \A d \in Docs \ raced :
  blob[d] # None => rows[d] # None /\ trigger /\ blob[d] = Vector!Distance(rows[d])

\* So is what a backfill read and has not written back.
EnsuresFollow == \A h \in Handles, d \in Docs \ raced :
  /\ handle[h].at \in {"select", "update"} => trigger
  /\ handle[h].at = "update" /\ handle[h].todo[d] # None =>
       handle[h].todo[d] = Vector!Distance(rows[d])

\* A column without its trigger has a handle about to add it.
Guarded ==
  /\ \A d \in Docs : blob[d] # None => column
  /\ column => trigger \/ \E h \in Handles : handle[h].at = "trigger"

ColumnInv == ColumnTyped /\ BlobsFollow /\ EnsuresFollow /\ Guarded

\* What a backfill encodes is a vector or nothing.
LEMMA Distances ==
  ASSUME NEW v PROVE Vector!Distance(v) \in Vectors \cup {None}
BY DEF Vector!Distance

\* One handle moves.
LEMMA GoesStep ==
  ASSUME ColumnTyped, NEW h \in Handles, NEW s \in Vector!Steps, Vector!Goes(h, s)
  PROVE  /\ handle' \in [Handles -> Ensures]
         /\ handle'[h].at = s
         /\ \A g \in Handles : g # h => handle'[g] = handle[g]
BY DEF ColumnTyped, Vector!Goes, Ensures

\* Every step keeps the invariant.
LEMMA ColumnStep ==
  ASSUME Vector!NoneAssumption, ColumnInv, [Vector!Next]_(Vector!vars)
  PROVE  ColumnInv'
<1> USE DEF ColumnInv
<1>0. /\ rows \in [Docs -> Vector!Fields \cup {None}] /\ blob \in Blobs /\ raced \subseteq Docs
      /\ handle \in [Handles -> Ensures] /\ column \in BOOLEAN /\ trigger \in BOOLEAN
      /\ None \notin Vectors
  BY DEF ColumnTyped, Vector!TypeOK, Blobs, Vector!NoneAssumption, Vector!Fields
<1>1. ASSUME NEW d \in Docs, NEW value \in Vector!Fields \cup {None}, Vector!Write(d, value)
      PROVE  ColumnInv'
  <2>1. /\ rows' = [rows EXCEPT ![d] = value]
        /\ blob' = [blob EXCEPT ![d] = Vector!BlobAfter(d, value)]
        /\ raced' = IF Vector!Busy THEN raced \cup {d}
                    ELSE IF value # rows[d] THEN raced \ {d} ELSE raced
        /\ UNCHANGED <<column, trigger, handle>>
    BY <1>1 DEF Vector!Write
  <2>2. blob' \in Blobs /\ rows' \in [Docs -> Vector!Fields \cup {None}] /\ raced' \subseteq Docs
    BY <1>0, <2>1 DEF Blobs, Vector!BlobAfter
  <2>3. ColumnTyped'
    BY <1>0, <2>1, <2>2 DEF ColumnTyped, Vector!TypeOK, Blobs, Ensures
  <2>4. BlobsFollow'
    <3>1. ASSUME NEW x \in Docs \ raced', x # d PROVE x \in Docs \ raced
      BY <2>1, <3>1
    <3>2. ASSUME d \notin raced', blob'[d] # None
          PROVE  d \notin raced /\ value = rows[d]
      <4>1. ~Vector!Busy /\ rows[d] # None /\ value # None /\ blob[d] # None
            /\ ~(trigger /\ value # rows[d])
        BY <1>0, <2>1, <3>2 DEF Vector!BlobAfter, Blobs
      <4>2. trigger
        BY <4>1 DEF Guarded, Vector!Busy
      <4> QED
        BY <2>1, <3>2, <4>1, <4>2
    <3> QED
      BY <1>0, <2>1, <3>1, <3>2 DEF BlobsFollow, Vector!BlobAfter, Vector!Distance, Blobs
  <2>5. EnsuresFollow'
    <3>1. ASSUME NEW h \in Handles, NEW x \in Docs \ raced', handle[h].at \in {"select", "update"}
          PROVE  x \in Docs \ raced /\ x # d
      BY <1>0, <2>1, <3>1 DEF Vector!Busy
    <3>2. \A x \in Docs : x # d => rows'[x] = rows[x]
      BY <1>0, <2>1
    <3> QED
      BY <2>1, <3>1, <3>2 DEF EnsuresFollow, Vector!Distance
  <2>6. Guarded'
    BY <1>0, <2>1 DEF Guarded, Vector!BlobAfter, Blobs
  <2> QED
    BY <2>3, <2>4, <2>5, <2>6
<1>2. CASE Vector!Drop
  <2>1. /\ rows' = [d \in Docs |-> None] /\ blob' = [d \in Docs |-> None]
        /\ column' = FALSE /\ trigger' = FALSE /\ handle' = handle
        /\ raced' = IF Vector!Busy THEN Docs ELSE {}
    BY <1>2 DEF Vector!Drop, Vector!Unread
  <2>2. ColumnTyped'
    BY <1>0, <2>1 DEF ColumnTyped, Vector!TypeOK, Ensures
  <2>3. BlobsFollow'
    BY <2>1 DEF BlobsFollow
  <2>4. EnsuresFollow'
    BY <1>0, <2>1 DEF EnsuresFollow, Vector!Busy
  <2>5. Guarded'
    BY <2>1 DEF Guarded
  <2> QED
    BY <2>2, <2>3, <2>4, <2>5
<1>3. ASSUME NEW h \in Handles, NEW s \in Vector!Steps, Vector!Goes(h, s),
             s # "update", s = "select" => trigger',
             UNCHANGED <<rows, blob, raced>>, column' \in BOOLEAN,
             trigger' \in BOOLEAN, trigger => trigger', column => column',
             column' => column \/ s = "trigger",
             handle[h].at = "trigger" => trigger'
      PROVE  ColumnInv'
  <2>1. /\ handle' \in [Handles -> Ensures] /\ handle'[h].at = s
        /\ \A g \in Handles : g # h => handle'[g] = handle[g]
    BY <1>3, GoesStep
  <2>2. ColumnTyped'
    BY <1>0, <1>3, <2>1 DEF ColumnTyped, Vector!TypeOK, Ensures, Blobs
  <2>3. BlobsFollow'
    BY <1>3 DEF BlobsFollow, Vector!Distance
  <2>4. EnsuresFollow'
    BY <1>3, <2>1 DEF EnsuresFollow, Vector!Distance
  <2>5. Guarded'
    BY <1>3, <2>1 DEF Guarded
  <2> QED
    BY <2>2, <2>3, <2>4, <2>5
<1>4. ASSUME NEW h \in Handles, Vector!ReadColumns(h) PROVE ColumnInv'
  <2>1. PICK s \in {"trigger", "alter"} : Vector!Goes(h, s)
    BY <1>4 DEF Vector!ReadColumns
  <2>2. handle[h].at = "unchecked" /\ UNCHANGED <<rows, blob, raced, column, trigger>>
    BY <1>4 DEF Vector!ReadColumns
  <2> QED
    BY <1>0, <1>3, <2>1, <2>2 DEF Vector!Steps
<1>5. ASSUME NEW h \in Handles, Vector!AddColumn(h) PROVE ColumnInv'
  BY <1>0, <1>3, <1>5 DEF Vector!AddColumn, Vector!Steps
<1>6. ASSUME NEW h \in Handles, Vector!AddTrigger(h) PROVE ColumnInv'
  BY <1>0, <1>3, <1>6 DEF Vector!AddTrigger, Vector!Steps
<1>7. ASSUME NEW h \in Handles, Vector!SearchHeals(h) PROVE ColumnInv'
  BY <1>0, <1>3, <1>7 DEF Vector!SearchHeals, Vector!Steps
<1>8. ASSUME NEW h \in Handles, Vector!SelectMissing(h) PROVE ColumnInv'
  <2> DEFINE todo == [d \in Docs |->
                        IF column /\ blob[d] = None THEN Vector!Distance(rows[d]) ELSE None]
             at == IF column THEN "update" ELSE "ready"
  <2>1. /\ handle' = [handle EXCEPT ![h] = [at |-> at, todo |-> todo]]
        /\ UNCHANGED <<rows, blob, column, trigger, raced>> /\ handle[h].at = "select"
    BY <1>8 DEF Vector!SelectMissing
  <2>2. todo \in Blobs /\ at \in Vector!Steps
    BY Distances DEF Blobs, Vector!Steps
  <2>3. [at |-> at, todo |-> todo] \in Ensures
    BY <2>2 DEF Ensures
  <2>4. handle' \in [Handles -> Ensures] /\ handle'[h] = [at |-> at, todo |-> todo]
        /\ \A g \in Handles : g # h => handle'[g] = handle[g]
    BY <1>0, <2>1, <2>3
  <2>5. \A d \in Docs : todo[d] # None => todo[d] = Vector!Distance(rows[d])
    OBVIOUS
  <2>6. handle'[h].todo = todo /\ handle'[h].at \in {"update", "ready"}
    BY <2>4
  <2> HIDE DEF todo, at
  <2>7. ColumnTyped'
    BY <1>0, <2>1, <2>4 DEF ColumnTyped, Vector!TypeOK, Ensures, Blobs
  <2>8. BlobsFollow'
    BY <2>1 DEF BlobsFollow, Vector!Distance
  <2>9. EnsuresFollow'
    BY <2>1, <2>4, <2>5, <2>6 DEF EnsuresFollow, Vector!Distance
  <2>10. Guarded'
    BY <2>1, <2>4 DEF Guarded
  <2> QED
    BY <2>7, <2>8, <2>9, <2>10
<1>9. ASSUME NEW h \in Handles, Vector!UpdateBlobs(h) PROVE ColumnInv'
  <2>1. /\ blob' = [d \in Docs |->
             IF column /\ rows[d] # None /\ handle[h].todo[d] # None
             THEN handle[h].todo[d] ELSE blob[d]]
        /\ handle' = [handle EXCEPT ![h] = [at |-> "ready", todo |-> [d \in Docs |-> None]]]
        /\ UNCHANGED <<rows, column, trigger, raced>> /\ handle[h].at = "update"
    BY <1>9 DEF Vector!UpdateBlobs, Vector!Encoded, Vector!Unread
  <2>2. [at |-> "ready", todo |-> [d \in Docs |-> None]] \in Ensures
    BY DEF Ensures, Blobs, Vector!Steps
  <2>3. handle' \in [Handles -> Ensures] /\ handle'[h].at = "ready"
        /\ \A g \in Handles : g # h => handle'[g] = handle[g]
    BY <1>0, <2>1, <2>2
  <2>4. blob' \in Blobs
    BY <1>0, <2>1 DEF Ensures, Blobs
  <2>5. ColumnTyped'
    BY <1>0, <2>1, <2>3, <2>4 DEF ColumnTyped, Vector!TypeOK, Ensures, Blobs
  <2>6. BlobsFollow'
    BY <2>1 DEF BlobsFollow, EnsuresFollow, Vector!Distance
  <2>7. EnsuresFollow'
    BY <2>1, <2>3 DEF EnsuresFollow, Vector!Distance
  <2>8. Guarded'
    BY <2>1, <2>3 DEF Guarded
  <2> QED
    BY <2>5, <2>6, <2>7, <2>8
<1>10. CASE UNCHANGED Vector!vars
  BY <1>10 DEF Vector!vars, ColumnTyped, Vector!TypeOK, BlobsFollow, EnsuresFollow, Guarded, Vector!Distance
<1> QED
  BY <1>1, <1>2, <1>4, <1>5, <1>6, <1>7, <1>8, <1>9, <1>10 DEF Vector!Next, Vector!Ensure

\* It holds of a new table.
LEMMA ColumnInit == ASSUME Vector!NoneAssumption, Vector!Init PROVE ColumnInv
BY DEF Vector!NoneAssumption, Vector!Init, ColumnInv, ColumnTyped, Vector!TypeOK, BlobsFollow,
       EnsuresFollow, Guarded, Vector!Unread, Ensures, Blobs, Vector!Steps

\* A search scores a row by anything but its current value only when the last change
\* of the row met a handle amid its ensure (doVecEnsure and the trigger of
\* buildVectorNullOnChangeTrigger), for any handles, documents, vectors, writes and
\* drops of the table.
THEOREM ColumnTheorem ==
  ASSUME Vector!NoneAssumption
  PROVE  Vector!Spec => []Vector!IndexesFollowRows
<1>1. Vector!Init => ColumnInv
  BY ColumnInit
<1>2. ColumnInv /\ [Vector!Next]_(Vector!vars) => ColumnInv'
  BY ColumnStep
<1>3. ColumnInv => Vector!IndexesFollowRows
  BY DEF ColumnInv, ColumnTyped, BlobsFollow, Vector!IndexesFollowRows,
         Vector!StaleOnlyWhenRaced, Vector!Scored
<1> QED
  BY <1>1, <1>2, <1>3, PTL DEF Vector!Spec

-----------------------------------------------------------------------------
(***************************************************************************)
(* TextIndex.  The shared index, the partitions and the fingerprints of one *)
(* table follow its rows: through writes, crashes between any two steps,    *)
(* other configurations, a cascade that drops the table, and its sweep.     *)
(***************************************************************************)

\* What taking keys out of a table leaves.
LEMMA WithoutIs ==
  ASSUME Text!KindsAssumption, NEW f, NEW keys
  PROVE  /\ DOMAIN Text!Without(f, keys) = DOMAIN f \ keys
         /\ \A y \in DOMAIN f \ keys : Text!Without(f, keys)[y] = f[y]
         /\ Text!Without(f, keys) # None
BY DEF Text!Without, Text!Restrict, Text!KindsAssumption

\* What laying one table over another gives.
LEMMA OverIs ==
  ASSUME Text!KindsAssumption, NEW f, NEW g
  PROVE  /\ DOMAIN Text!Over(f, g) = DOMAIN f \cup DOMAIN g
         /\ \A y \in DOMAIN f : Text!Over(f, g)[y] = f[y]
         /\ \A y \in DOMAIN g \ DOMAIN f : Text!Over(f, g)[y] = g[y]
         /\ Text!Over(f, g) # None
<1> DEFINE w == Text!Over(f, g)
<1>1. /\ DOMAIN w = DOMAIN f \cup DOMAIN g
      /\ \A y \in DOMAIN f : w[y] = f[y]
      /\ \A y \in DOMAIN g \ DOMAIN f : w[y] = g[y]
      /\ w = [y \in DOMAIN w |-> w[y]]
  BY DEF Text!Over
<1>2. [y \in DOMAIN w |-> w[y]] # None
  BY DEF Text!KindsAssumption
<1> QED
  BY <1>1, <1>2

\* The empty table is a table.
LEMMA NoRowsIs ==
  ASSUME Text!KindsAssumption
  PROVE  DOMAIN Text!NoRows = {} /\ Text!NoRows # None
<1> DEFINE f == [x \in {} |-> None]
<1>1. [x \in {} |-> f[x]] # None
  BY DEF Text!KindsAssumption
<1>2. f = [x \in {} |-> f[x]]
  OBVIOUS
<1> QED
  BY <1>1, <1>2 DEF Text!NoRows

\* What restricting a table leaves.
LEMMA RestrictIs ==
  ASSUME NEW f, NEW S
  PROVE  DOMAIN Text!Restrict(f, S) = S /\ \A x \in S : Text!Restrict(f, S)[x] = f[x]
BY DEF Text!Restrict

\* The shared artifacts are no types.
LEMMA Kinds ==
  ASSUME Text!KindsAssumption
  PROVE  /\ "fts" \in Text!Artifacts /\ "map" \in Text!Artifacts /\ Types \subseteq Text!Artifacts
         /\ \A ty \in Types : ty \notin {"fts", "map", None}
BY DEF Text!KindsAssumption, Text!Artifacts

-----------------------------------------------------------------------------
\* The ids a map gives, and that it gives no id twice.
Ids(map) == {map[d] : d \in DOMAIN map}
OneToOne(map) == \A d, e \in DOMAIN map : map[d] = map[e] => d = e

\* Rows that are indexed now get an entry of their text each.
AreEntries(new, map, table, docs, fields) ==
  /\ DOMAIN new = {map[d] : d \in docs}
  /\ \A d \in docs : new[map[d]] = Text!Extraction(table[d], fields)

LEMMA EntriesAre ==
  ASSUME NEW map, NEW table, NEW docs, docs \subseteq DOMAIN map, OneToOne(map), NEW fields,
         NEW new, new = Text!Entries(map, table, docs, fields)
  PROVE  AreEntries(new, map, table, docs, fields)
<1>1. \A d \in docs : (CHOOSE e \in docs : map[e] = map[d]) = d
  BY DEF OneToOne
<1> QED
  BY <1>1 DEF Text!Entries, AreEntries

\* The map after the shared sync: it knows the rows and no others, with the ids they had
\* or, in whatever order, the next ones.
Renumbers(m, map, table, missing) ==
  /\ Text!Cardinality(missing) \in Nat /\ nextId + Text!Cardinality(missing) \in Nat \ {0}
  /\ DOMAIN m = DOMAIN table /\ m # None /\ OneToOne(m)
  /\ \A d \in DOMAIN m : m[d] \in 1 .. nextId + Text!Cardinality(missing) - 1
  /\ \A d \in DOMAIN table \cap DOMAIN map : m[d] = map[d]
  /\ \A d \in missing : m[d] \in Int /\ m[d] >= nextId

LEMMA SharedMapIs ==
  ASSUME Text!KindsAssumption, NEW map, NEW table, OneToOne(map), nextId \in Nat \ {0},
         \A d \in DOMAIN map : map[d] \in 1 .. nextId - 1,
         Text!IsFiniteSet(DOMAIN table), NEW missing, missing = DOMAIN table \ DOMAIN map,
         NEW ids \in Text!Numberings(missing),
         NEW m, m = Text!Over(ids, Text!Restrict(map, DOMAIN map \cap DOMAIN table))
  PROVE  Renumbers(m, map, table, missing)
<1> DEFINE n == Text!Cardinality(missing)
           kept == Text!Restrict(map, DOMAIN map \cap DOMAIN table)
<1>1. n \in Nat
  <2>1. IsFiniteSet(DOMAIN table)
    BY DEF Text!IsFiniteSet, IsFiniteSet
  <2>2. Cardinality(missing) \in Nat
    BY <2>1, FS_Subset, FS_CardinalityType
  <2> QED
    BY <2>2 DEF Text!Cardinality, Cardinality, Text!IsFiniteSet, IsFiniteSet
<1> HIDE DEF n
<1>2. /\ DOMAIN ids = missing /\ \A d \in missing : ids[d] \in nextId .. nextId + n - 1
      /\ \A d, e \in missing : ids[d] = ids[e] => d = e
  <2>1. ids \in [missing -> nextId .. nextId + n - 1] /\ Text!IsInjective(ids)
    BY DEF Text!Numberings, n
  <2> QED
    BY <2>1 DEF Text!IsInjective
<1>3. /\ DOMAIN kept = DOMAIN map \cap DOMAIN table
      /\ \A d \in DOMAIN map \cap DOMAIN table : kept[d] = map[d]
  BY ZenonT(30), RestrictIs
<1> HIDE DEF kept
<1>4. /\ DOMAIN m = missing \cup (DOMAIN map \cap DOMAIN table) /\ m # None
      /\ \A d \in missing : m[d] = ids[d]
      /\ \A d \in DOMAIN map \cap DOMAIN table : m[d] = map[d]
  <2>1. /\ DOMAIN m = DOMAIN ids \cup DOMAIN kept /\ m # None
        /\ \A y \in DOMAIN ids : m[y] = ids[y]
        /\ \A y \in DOMAIN kept \ DOMAIN ids : m[y] = kept[y]
    <3> DEFINE w == Text!Over(ids, kept)
    <3>1. /\ DOMAIN w = DOMAIN ids \cup DOMAIN kept /\ w # None
          /\ \A y \in DOMAIN ids : w[y] = ids[y]
          /\ \A y \in DOMAIN kept \ DOMAIN ids : w[y] = kept[y]
      BY OverIs, Zenon
    <3>2. m = w
      BY DEF kept
    <3> HIDE DEF w
    <3> QED
      BY <3>1, <3>2
  <2> QED
    BY <1>2, <1>3, <2>1
<1>5. DOMAIN m = DOMAIN table
  BY <1>4
<1>6. \A d \in missing : m[d] \in Int /\ m[d] >= nextId /\ m[d] <= nextId + n - 1
  BY <1>1, <1>2, <1>4
<1>7. \A d \in DOMAIN map \cap DOMAIN table : m[d] \in Int /\ m[d] >= 1 /\ m[d] <= nextId - 1
  BY <1>4
<1>8. OneToOne(m)
  <2> SUFFICES ASSUME NEW d \in DOMAIN m, NEW e \in DOMAIN m, m[d] = m[e] PROVE d = e
    BY DEF OneToOne
  <2>1. CASE d \in missing /\ e \in missing
    BY <1>2, <1>4, <2>1
  <2>2. CASE d \notin missing /\ e \notin missing
    BY <1>4, <2>2 DEF OneToOne
  <2>3. CASE d \in missing /\ e \notin missing
    <3>1. e \in DOMAIN map \cap DOMAIN table
      BY <1>4, <2>3
    <3>2. m[d] >= nextId /\ m[e] <= nextId - 1 /\ m[e] \in Int
      BY <1>6, <1>7, <2>3, <3>1
    <3> QED
      BY <3>2
  <2>4. CASE d \notin missing /\ e \in missing
    <3>1. d \in DOMAIN map \cap DOMAIN table
      BY <1>4, <2>4
    <3>2. m[e] >= nextId /\ m[d] <= nextId - 1 /\ m[d] \in Int
      BY <1>6, <1>7, <2>4, <3>1
    <3> QED
      BY <3>2
  <2> QED
    BY <2>1, <2>2, <2>3, <2>4
<1>9. ASSUME NEW d \in DOMAIN m PROVE m[d] \in 1 .. nextId + n - 1
  <2>1. CASE d \in missing
    <3>1. m[d] \in Int /\ m[d] >= nextId /\ m[d] <= nextId + n - 1
      BY <1>6, <2>1
    <3> QED
      BY <1>1, <3>1
  <2>2. CASE d \notin missing
    <3>1. d \in DOMAIN map \cap DOMAIN table
      BY <1>4, <2>2
    <3>2. m[d] \in Int /\ m[d] >= 1 /\ m[d] <= nextId - 1
      BY <1>7, <3>1
    <3> QED
      BY <1>1, <3>2
  <2> QED
    BY <2>1, <2>2
<1>10. nextId + n \in Nat \ {0}
  BY <1>1
<1>11. \A d \in missing : m[d] \in Int /\ m[d] >= nextId
  BY <1>6
<1> HIDE DEF kept
<1> QED
  BY <1>1, <1>4, <1>5, <1>8, <1>9, <1>10, <1>11 DEF n, Renumbers

\* The shared artifacts after the sync: the rows have an id each, and an entry of their text.
SharedSynced(s, ix, table, missing) ==
  /\ DOMAIN s = Text!Artifacts /\ \A ty \in Types : s[ty] = ix[ty]
  /\ Text!Cardinality(missing) \in Nat /\ nextId + Text!Cardinality(missing) \in Nat \ {0}
  /\ DOMAIN s["map"] = DOMAIN table /\ s["map"] # None /\ OneToOne(s["map"])
  /\ \A d \in DOMAIN s["map"] : s["map"][d] \in 1 .. nextId + Text!Cardinality(missing) - 1
  /\ \A d \in DOMAIN table \cap DOMAIN ix["map"] : s["map"][d] = ix["map"][d]
  /\ s["fts"] # None
  /\ DOMAIN ix["fts"] \subseteq Ids(ix["map"]) =>
       /\ DOMAIN s["fts"] = Ids(s["map"])
       /\ \A d \in DOMAIN table :
            s["fts"][s["map"][d]] =
              IF d \in DOMAIN ix["map"] /\ ix["map"][d] \in DOMAIN ix["fts"]
              THEN ix["fts"][ix["map"][d]] ELSE Text!Extraction(table[d], "all")

\* The shared sync purges what is no row, keeps the entries of the others, and indexes
\* what has none (buildFtsSyncStatements).
LEMMA SharedSyncIs ==
  ASSUME Text!KindsAssumption, NEW ix, NEW table, OneToOne(ix["map"]), nextId \in Nat \ {0},
         \A d \in DOMAIN ix["map"] : ix["map"][d] \in 1 .. nextId - 1,
         Text!IsFiniteSet(DOMAIN table), NEW missing, missing = DOMAIN table \ DOMAIN ix["map"],
         NEW ids \in Text!Numberings(missing),
         NEW s, s = Text!SharedSync(ix, table, ids)
  PROVE  SharedSynced(s, ix, table, missing)
<1> DEFINE old == ix["map"]
           map == Text!Over(ids, Text!Restrict(old, DOMAIN old \cap DOMAIN table))
           gone == {old[d] : d \in DOMAIN old \ DOMAIN table}
           fts == Text!Without(ix["fts"], gone)
           docs == {d \in DOMAIN table : map[d] \notin DOMAIN fts}
           new == Text!Entries(map, table, docs, "all")
           all == Text!Over(new, fts)
<1>1. /\ DOMAIN s = Text!Artifacts
      /\ \A a \in Text!Artifacts : s[a] = CASE a = "map" -> map
                                            [] a = "fts" -> all
                                            [] OTHER -> ix[a]
  BY DEF Text!SharedSync
<1>2. /\ Text!Cardinality(missing) \in Nat /\ nextId + Text!Cardinality(missing) \in Nat \ {0}
      /\ DOMAIN map = DOMAIN table /\ map # None /\ OneToOne(map)
      /\ \A d \in DOMAIN map : map[d] \in 1 .. nextId + Text!Cardinality(missing) - 1
      /\ \A d \in DOMAIN table \cap DOMAIN old : map[d] = old[d]
      /\ \A d \in missing : map[d] \in Int /\ map[d] >= nextId
  <2>1. map = Text!Over(ids, Text!Restrict(old, DOMAIN old \cap DOMAIN table))
    OBVIOUS
  <2> HIDE DEF map, old
  <2>2. /\ OneToOne(old) /\ missing = DOMAIN table \ DOMAIN old
        /\ \A d \in DOMAIN old : old[d] \in 1 .. nextId - 1
    BY DEF old
  <2>3. Renumbers(map, old, table, missing)
    BY <2>1, <2>2, SharedMapIs
  <2> QED
    BY <2>3 DEF Renumbers
<1> HIDE DEF map
<1>3. /\ DOMAIN fts = DOMAIN ix["fts"] \ gone
      /\ \A i \in DOMAIN ix["fts"] \ gone : fts[i] = ix["fts"][i]
  <2> HIDE DEF gone
  <2> QED
    BY WithoutIs, Zenon
<1> HIDE DEF fts
<1>4. DOMAIN new = {map[d] : d \in docs} /\ \A d \in docs : new[map[d]] = Text!Extraction(table[d], "all")
  <2>1. docs \subseteq DOMAIN map /\ OneToOne(map)
    BY <1>2
  <2> HIDE DEF docs
  <2>2. new = Text!Entries(map, table, docs, "all")
    OBVIOUS
  <2> HIDE DEF new
  <2>3. OneToOne(map) => AreEntries(new, map, table, docs, "all")
    BY <2>1, <2>2, EntriesAre
  <2> QED
    BY <2>1, <2>3 DEF AreEntries
<1> HIDE DEF new
<1>5. /\ DOMAIN all = DOMAIN new \cup DOMAIN fts /\ all # None
      /\ \A i \in DOMAIN new : all[i] = new[i]
      /\ \A i \in DOMAIN fts \ DOMAIN new : all[i] = fts[i]
  BY OverIs, Zenon
<1> HIDE DEF all
<1>6. s["map"] = map /\ s["fts"] = all /\ \A ty \in Types : s[ty] = ix[ty]
  BY <1>1, Kinds
<1>7. ASSUME DOMAIN ix["fts"] \subseteq Ids(old), NEW d \in DOMAIN table
      PROVE  map[d] \in DOMAIN fts <=> d \in DOMAIN old /\ old[d] \in DOMAIN ix["fts"]
  <2>1. CASE d \in DOMAIN old
    BY <1>2, <1>3, <2>1 DEF OneToOne
  <2>2. CASE d \notin DOMAIN old
    <3>1. map[d] \notin Ids(old)
      BY <1>2, <2>2 DEF Ids
    <3> QED
      BY <1>3, <1>7, <2>2, <3>1
  <2> QED
    BY <2>1, <2>2
<1>8. ASSUME DOMAIN ix["fts"] \subseteq Ids(old), NEW d \in DOMAIN table
      PROVE  /\ map[d] \in DOMAIN all
             /\ all[map[d]] = IF d \in DOMAIN old /\ old[d] \in DOMAIN ix["fts"]
                              THEN ix["fts"][old[d]] ELSE Text!Extraction(table[d], "all")
  <2>1. map[d] \in DOMAIN new <=> map[d] \notin DOMAIN fts
    BY <1>2, <1>4 DEF OneToOne
  <2>2. CASE map[d] \in DOMAIN fts
    BY <1>2, <1>3, <1>5, <1>7, <1>8, <2>1, <2>2
  <2>3. CASE map[d] \notin DOMAIN fts
    BY <1>4, <1>5, <1>7, <1>8, <2>1, <2>3
  <2> QED
    BY <2>2, <2>3
<1>9. ASSUME DOMAIN ix["fts"] \subseteq Ids(old) PROVE DOMAIN all = Ids(map)
  <2>1. \A i \in DOMAIN new : i \in Ids(map)
    BY <1>2, <1>4 DEF Ids
  <2>2. ASSUME NEW i \in DOMAIN fts PROVE i \in Ids(map)
    <3>1. PICK d \in DOMAIN old : i = old[d]
      BY <1>3, <1>9, <2>2 DEF Ids
    <3>2. d \in DOMAIN table
      BY <1>3, <2>2, <3>1
    <3> QED
      BY <1>2, <3>1, <3>2 DEF Ids
  <2>3. \A i \in Ids(map) : i \in DOMAIN all
    BY <1>2, <1>8, <1>9 DEF Ids
  <2> QED
    BY <1>5, <2>1, <2>2, <2>3
<1> HIDE DEF docs, gone
<1> QED
  BY <1>1, <1>2, <1>5, <1>6, <1>8, <1>9 DEF SharedSynced

\* The first statement of a partition's sync leaves it the rows of its type it had.
LEMMA GhostsPurgedIs ==
  ASSUME Text!KindsAssumption, NEW ix, NEW table, NEW ty,
         DOMAIN table \subseteq DOMAIN ix["map"], OneToOne(ix["map"]),
         NEW p, p = Text!GhostsPurged(ix, table, ty)
  PROVE  /\ p # None
         /\ \A d \in DOMAIN table :
              /\ ix["map"][d] \in DOMAIN p <=> ix["map"][d] \in DOMAIN ix[ty] /\ table[d].type = ty
              /\ ix["map"][d] \in DOMAIN p => p[ix["map"][d]] = ix[ty][ix["map"][d]]
<1> DEFINE map == ix["map"]
           ghosts == {map[d] : d \in {x \in DOMAIN map : x \notin DOMAIN table \/ table[x].type # ty}}
<1>1. /\ DOMAIN p = DOMAIN ix[ty] \ ghosts /\ p # None
      /\ \A i \in DOMAIN ix[ty] \ ghosts : p[i] = ix[ty][i]
  <2> DEFINE slice == ix[ty]
             w == Text!Without(slice, ghosts)
  <2>1. p = w
    BY DEF Text!GhostsPurged
  <2>2. /\ DOMAIN w = DOMAIN slice \ ghosts /\ w # None
        /\ \A i \in DOMAIN slice \ ghosts : w[i] = slice[i]
    <3> HIDE DEF ghosts, slice
    <3> QED
      BY WithoutIs, Zenon
  <2> HIDE DEF w, ghosts
  <2> QED
    BY <2>1, <2>2
<1>2. \A d \in DOMAIN table : map[d] \in ghosts <=> table[d].type # ty
  BY DEF OneToOne
<1> HIDE DEF ghosts
<1> QED
  BY <1>1, <1>2

\* The second adds the rows of the type that have no entry.
LEMMA MissingIndexedIs ==
  ASSUME Text!KindsAssumption, NEW slice, NEW map, NEW table, NEW ty, NEW fields,
         DOMAIN table \subseteq DOMAIN map, OneToOne(map),
         NEW p, p = Text!MissingIndexed(slice, map, table, ty, fields)
  PROVE  /\ p # None
         /\ \A d \in DOMAIN table :
              /\ map[d] \in DOMAIN p <=> map[d] \in DOMAIN slice \/ table[d].type = ty
              /\ map[d] \in DOMAIN p =>
                   p[map[d]] = IF map[d] \in DOMAIN slice THEN slice[map[d]]
                               ELSE Text!Extraction(table[d], fields)
<1> DEFINE docs == {d \in DOMAIN table \cap DOMAIN map :
                      table[d].type = ty /\ map[d] \notin DOMAIN slice}
           new == Text!Entries(map, table, docs, fields)
<1>1. DOMAIN new = {map[d] : d \in docs} /\ \A d \in docs : new[map[d]] = Text!Extraction(table[d], fields)
  <2>1. docs \subseteq DOMAIN map
    OBVIOUS
  <2> HIDE DEF docs
  <2>2. new = Text!Entries(map, table, docs, fields)
    OBVIOUS
  <2> HIDE DEF new
  <2>3. OneToOne(map) => AreEntries(new, map, table, docs, fields)
    BY <2>1, <2>2, EntriesAre
  <2> QED
    BY <2>3 DEF AreEntries
<1>2. /\ DOMAIN p = DOMAIN new \cup DOMAIN slice /\ p # None
      /\ \A i \in DOMAIN new : p[i] = new[i]
      /\ \A i \in DOMAIN slice \ DOMAIN new : p[i] = slice[i]
  <2> DEFINE w == Text!Over(new, slice)
  <2>1. p = w
    BY DEF Text!MissingIndexed
  <2> HIDE DEF new
  <2>2. /\ DOMAIN w = DOMAIN new \cup DOMAIN slice /\ w # None
        /\ \A i \in DOMAIN new : w[i] = new[i]
        /\ \A i \in DOMAIN slice \ DOMAIN new : w[i] = slice[i]
    BY OverIs, Zenon
  <2> HIDE DEF w
  <2> QED
    BY <2>1, <2>2
<1> HIDE DEF new
<1>3. \A d \in DOMAIN table : map[d] \in DOMAIN new <=> d \in docs
  BY <1>1 DEF OneToOne
<1> QED
  BY <1>1, <1>2, <1>3

\* The per-type sync leaves a partition with the rows of its type: the entries it had,
\* and the missing ones as configured (buildPerTypeFtsSyncStatements).
LEMMA TypeSyncIs ==
  ASSUME Text!KindsAssumption, NEW ix, NEW table, NEW config, DOMAIN config \subseteq Types,
         DOMAIN table \subseteq DOMAIN ix["map"], OneToOne(ix["map"]),
         NEW s, s = Text!TypeSync(ix, table, config)
  PROVE  /\ DOMAIN s = Text!Artifacts /\ s["map"] = ix["map"] /\ s["fts"] = ix["fts"]
         /\ \A ty \in Types \ DOMAIN config : s[ty] = ix[ty]
         /\ \A ty \in DOMAIN config :
              /\ s[ty] # None
              /\ \A d \in DOMAIN table :
                   /\ ix["map"][d] \in DOMAIN s[ty] <=> table[d].type = ty
                   /\ table[d].type = ty =>
                        s[ty][ix["map"][d]] = IF ix["map"][d] \in DOMAIN ix[ty]
                                              THEN ix[ty][ix["map"][d]]
                                              ELSE Text!Extraction(table[d], config[ty])
<1>1. /\ DOMAIN s = Text!Artifacts /\ s["map"] = ix["map"] /\ s["fts"] = ix["fts"]
      /\ \A ty \in Types \ DOMAIN config : s[ty] = ix[ty]
  BY Kinds DEF Text!TypeSync
<1>2. ASSUME NEW ty \in DOMAIN config
      PROVE  /\ s[ty] # None
             /\ \A d \in DOMAIN table :
                  /\ ix["map"][d] \in DOMAIN s[ty] <=> table[d].type = ty
                  /\ table[d].type = ty =>
                       s[ty][ix["map"][d]] = IF ix["map"][d] \in DOMAIN ix[ty]
                                             THEN ix[ty][ix["map"][d]]
                                             ELSE Text!Extraction(table[d], config[ty])
  <2> DEFINE slice == Text!GhostsPurged(ix, table, ty)
  <2>1. s[ty] = Text!MissingIndexed(slice, ix["map"], table, ty, config[ty])
    BY <1>2, Kinds DEF Text!TypeSync
  <2>2. \A d \in DOMAIN table :
          /\ ix["map"][d] \in DOMAIN slice <=> ix["map"][d] \in DOMAIN ix[ty] /\ table[d].type = ty
          /\ ix["map"][d] \in DOMAIN slice => slice[ix["map"][d]] = ix[ty][ix["map"][d]]
    BY GhostsPurgedIs
  <2> HIDE DEF slice
  <2>3. /\ s[ty] # None
        /\ \A d \in DOMAIN table :
             /\ ix["map"][d] \in DOMAIN s[ty] <=> ix["map"][d] \in DOMAIN slice \/ table[d].type = ty
             /\ ix["map"][d] \in DOMAIN s[ty] =>
                  s[ty][ix["map"][d]] = IF ix["map"][d] \in DOMAIN slice THEN slice[ix["map"][d]]
                                        ELSE Text!Extraction(table[d], config[ty])
    BY <2>1, MissingIndexedIs
  <2> QED
    BY <2>2, <2>3
<1> QED
  BY <1>1, <1>2
-----------------------------------------------------------------------------
Live == Text!Live
Routed == DOMAIN process.config
TextMap == index["map"]

\* The statements of a rebuild, and the types the ensure has gone through.
Working == {"emptied", "cleaned", "filled"}
WorkedOn(ty) == process.at \in Working /\ process.type = ty
Finished(ty) ==
  process.at = "ready" \/ (process.at \in Working \cup {"compare"} /\ ty \notin process.todo)

\* The tables hold rows of their kind; the ids of the map are below its sequence.
TextTyped ==
  /\ Live => /\ DOMAIN indexed \subseteq Docs /\ Text!IsFiniteSet(DOMAIN indexed)
             /\ \A d \in DOMAIN indexed : indexed[d] \in Text!Rows
  /\ DOMAIN index = Text!Artifacts
  /\ TextMap # None => /\ DOMAIN TextMap \subseteq Docs
                       /\ \A d \in DOMAIN TextMap : TextMap[d] \in 1 .. nextId - 1
                       /\ OneToOne(TextMap)
  /\ nextId \in Nat \ {0}
  /\ DOMAIN bodies \subseteq Types
  /\ DOMAIN stored = Types
  /\ torn \in BOOLEAN

\* A process that has not booted has checked nothing; it rebuilds what it found outdated.
ProcessTyped ==
  /\ process \in [config : Configs, booted : BOOLEAN,
                  at : {"unchecked", "read", "compare", "ready"} \cup Working,
                  todo : SUBSET Types, type : Types \cup {None}]
  /\ process.todo \subseteq Routed
  /\ process.at \in Working => process.type \in process.todo
  /\ ~process.booted => process.at = "unchecked"

\* A map knows the rows and no others, the shared index the ids of the map; and while there
\* is no table, the sweep drops the index before its map.
Placed ==
  /\ ~Live => DOMAIN bodies = {}
  /\ Live /\ TextMap # None => DOMAIN TextMap = DOMAIN indexed
  /\ ~torn => /\ Live /\ TextMap = None => DOMAIN indexed = {}
              /\ index["fts"] # None =>
                   DOMAIN index["fts"] = IF TextMap = None THEN {} ELSE Ids(TextMap)
              /\ sweep.phase = "drop" /\ "map" \in sweep.orphans /\ ~Live /\ index["fts"] # None =>
                   "fts" \in sweep.orphans

\* The shared index has the text of the rows.
Tracked == Live /\ ~torn /\ index["fts"] # None =>
  \A d \in DOMAIN indexed : index["fts"][TextMap[d]] = Text!Extraction(indexed[d], "all")

\* A partition holds rows of its type, and all of them unless the process is filling it.
Sliced(ty) == index[ty] # None /\ TextMap # None => \A d \in DOMAIN indexed :
  /\ TextMap[d] \in DOMAIN index[ty] => indexed[d].type = ty
  /\ ~Text!Rebuilding(ty) /\ indexed[d].type = ty => TextMap[d] \in DOMAIN index[ty]

\* A booted process has its triggers on the table.
Served == process.booted /\ Live => \A ty \in Routed :
  ty \in DOMAIN bodies /\ bodies[ty] = process.config[ty] /\ Sliced(ty)

\* A fingerprint is of the triggers on the table, unless the type lapsed.
Recorded == Live => \A ty \in Types \ lapsed :
  stored[ty] # None => ty \in DOMAIN bodies /\ bodies[ty] = stored[ty]

\* The entries of a partition were extracted from these fields.
Filled(ty, fields) == index[ty] # None /\ TextMap # None => \A d \in DOMAIN indexed :
  indexed[d].type = ty /\ TextMap[d] \in DOMAIN index[ty] =>
    index[ty][TextMap[d]] = Text!Extraction(indexed[d], fields)

\* A partition is filled as its fingerprint says unless the type lapsed; while it is
\* rebuilt, and once its type is gone through, it is filled as configured.
AsRecorded == Live /\ ~torn =>
  \A ty \in Types \ lapsed : stored[ty] # None => Filled(ty, stored[ty])
AsConfigured == Live /\ ~torn /\ process.booted =>
  \A ty \in Routed : WorkedOn(ty) \/ (Finished(ty) /\ ty \notin lapsed) =>
    Filled(ty, process.config[ty])

\* A type that is gone through has the fingerprint of the configuration, unless the sweep
\* forgot it.
Settled == \A ty \in Routed : Finished(ty) =>
  \/ stored[ty] = process.config[ty]
  \/ stored[ty] = None /\ (Live => ty \notin lapsed)

\* The table a sweep is about to forget was recreated by the process that sweeps: a type
\* that lapsed since has another fingerprint.
Purging == sweep.phase = "drop" /\ sweep.purges /\ Live =>
  \A ty \in Routed \cap lapsed : stored[ty] # process.config[ty]

Ensured == AsRecorded /\ AsConfigured /\ Settled /\ Purging

\* The sweep, of itself.
Sweeping == sweep \in [phase : {"idle", "list", "drop"}, orphans : SUBSET Text!Artifacts,
                       purges : BOOLEAN]

TextInv == TextTyped /\ ProcessTyped /\ Placed /\ Tracked /\ Served /\ Recorded /\ Ensured

\* A process is configured with types and fields.
LEMMA RoutedTypes ==
  ASSUME Text!KindsAssumption, ProcessTyped
  PROVE  Routed \subseteq Types /\ \A ty \in Routed : process.config[ty] # None
<1>1. process.config \in Configs
  BY DEF ProcessTyped
<1> QED
  BY <1>1 DEF Text!KindsAssumption, Routed

\* The same of the process after a step.
LEMMA RoutedTypesNext ==
  ASSUME Text!KindsAssumption, ProcessTyped'
  PROVE  Routed' \subseteq Types /\ \A ty \in Routed' : process'.config[ty] # None
<1>1. process'.config \in Configs
  BY DEF ProcessTyped
<1> QED
  BY <1>1 DEF Text!KindsAssumption, Routed

\* A process that opens the database.
LEMMA OpenedIs ==
  ASSUME NEW c \in Configs, NEW p, p = Text!Opened(c)
  PROVE  /\ p \in [config : Configs, booted : BOOLEAN,
                   at : {"unchecked", "read", "compare", "ready"} \cup Working,
                   todo : SUBSET Types, type : Types \cup {None}]
         /\ p.config = c /\ ~p.booted /\ p.at = "unchecked" /\ p.todo = {}
BY DEF Text!Opened

\* The invariant holds of a graph without a table.
LEMMA TextInit == ASSUME Text!KindsAssumption, Text!Init PROVE TextInv
<1> USE DEF Text!Init
<1>1. ~Live /\ index["fts"] = None /\ index["map"] = None
  BY Kinds DEF Live, Text!Live
<1>2. DOMAIN bodies = {}
  BY NoRowsIs
<1>3. PICK c \in Configs : process = Text!Opened(c)
  OBVIOUS
<1>4. ProcessTyped /\ process.at = "unchecked" /\ ~process.booted
  BY <1>3, OpenedIs DEF ProcessTyped, Working
<1>5. TextTyped
  <2>1. DOMAIN index = Text!Artifacts /\ DOMAIN stored = Types /\ nextId \in Nat \ {0}
    OBVIOUS
  <2> QED
    BY <1>1, <1>2, <2>1 DEF TextTyped, TextMap
<1>6. Settled
  BY <1>4 DEF Settled, Finished, Working
<1>7. AsRecorded /\ AsConfigured /\ Purging
  BY <1>1 DEF AsRecorded, AsConfigured, Purging
<1> QED
  BY <1>1, <1>2, <1>4, <1>5, <1>6, <1>7
  DEF TextInv, Placed, Tracked, Served, Recorded, Ensured, TextMap

\* It is kept by steps that change neither rows nor indexes.
LEMMA Quiet ==
  ASSUME TextInv, UNCHANGED <<indexed, index, nextId, torn>>,
         DOMAIN bodies' \subseteq DOMAIN bodies, DOMAIN stored' = Types, ProcessTyped',
         ~torn /\ ~Live /\ sweep'.phase = "drop" /\ "map" \in sweep'.orphans /\ index["fts"] # None =>
           "fts" \in sweep'.orphans,
         Live /\ process'.booted => \A ty \in Routed' :
           ty \in DOMAIN bodies' /\ bodies'[ty] = process'.config[ty] /\ Sliced(ty)',
         Live => \A ty \in Types \ lapsed' : stored'[ty] # None =>
           ty \in DOMAIN bodies' /\ bodies'[ty] = stored'[ty],
         Live /\ ~torn => \A ty \in Types \ lapsed' : stored'[ty] # None => Filled(ty, stored'[ty]),
         Live /\ ~torn /\ process'.booted => \A ty \in Routed' :
           WorkedOn(ty)' \/ (Finished(ty)' /\ ty \notin lapsed') => Filled(ty, process'.config[ty]),
         Settled', Purging'
  PROVE  TextInv'
<1>1. Live' <=> Live
  BY DEF Live, Text!Live
<1>2. TextMap' = TextMap /\ index'["fts"] = index["fts"]
  BY DEF TextMap
<1>3. \A ty, fields : Filled(ty, fields)' <=> Filled(ty, fields)
  BY DEF Filled, TextMap
<1>4. TextTyped'
  BY <1>1, <1>2 DEF TextInv, TextTyped
<1>5. Placed'
  <2>1. ~Live' => DOMAIN bodies' = {}
    BY <1>1 DEF TextInv, Placed
  <2> QED
    BY <1>1, <1>2, <2>1 DEF TextInv, Placed
<1>6. Tracked'
  BY <1>1, <1>2 DEF TextInv, Tracked
<1>7. Served'
  BY <1>1 DEF Served
<1>8. Recorded'
  BY <1>1 DEF Recorded
<1>9. AsRecorded'
  BY <1>1, <1>3 DEF AsRecorded
<1>10. AsConfigured'
  BY <1>1, <1>3 DEF AsConfigured
<1> QED
  BY <1>4, <1>5, <1>6, <1>7, <1>8, <1>9, <1>10 DEF TextInv, Ensured

\* A process that comes back, or starts over, has checked nothing yet.
LEMMA OpenKeeps ==
  ASSUME TextInv, NEW c \in Configs, process' = Text!Opened(c),
         UNCHANGED <<indexed, index, nextId, bodies, stored, lapsed, torn>>,
         sweep' = Text!Idle \/ (sweep' = sweep /\ process.config = c)
  PROVE  TextInv'
<1>1. ProcessTyped' /\ process'.config = c /\ process'.at = "unchecked" /\ ~process'.booted
  BY OpenedIs DEF ProcessTyped, Working
<1>2. DOMAIN stored' = Types
  BY DEF TextInv, TextTyped
<1>3. \A ty : ~Finished(ty)'
  BY <1>1 DEF Finished, Working
<1>4. Settled'
  BY <1>3 DEF Settled
<1>5. Purging'
  <2>1. CASE sweep' = Text!Idle
    BY <2>1 DEF Purging, Text!Idle
  <2>2. CASE sweep' = sweep /\ process.config = c
    BY <1>1, <2>2 DEF TextInv, Ensured, Purging, Routed, Live, Text!Live
  <2> QED
    BY <2>1, <2>2
<1>6. ~torn /\ ~Live /\ sweep'.phase = "drop" /\ "map" \in sweep'.orphans /\ index["fts"] # None =>
        "fts" \in sweep'.orphans
  BY DEF TextInv, Placed, Text!Idle
<1>7. Live => \A ty \in Types \ lapsed' : stored'[ty] # None =>
                ty \in DOMAIN bodies' /\ bodies'[ty] = stored'[ty]
  BY DEF TextInv, Recorded
<1>8. Live /\ ~torn => \A ty \in Types \ lapsed' : stored'[ty] # None => Filled(ty, stored'[ty])
  BY DEF TextInv, Ensured, AsRecorded
<1> QED
  BY <1>1, <1>2, <1>4, <1>5, <1>6, <1>7, <1>8, Quiet

\* The sweep lists, drops and forgets.
LEMMA SweepInit == ASSUME Text!Init PROVE Sweeping
BY DEF Text!Init, Text!Idle, Sweeping

LEMMA SweepStep ==
  ASSUME Sweeping, Text!Next PROVE Sweeping'
<1>1. CASE UNCHANGED sweep
  BY <1>1 DEF Sweeping
<1>2. ASSUME NEW c \in Configs, Text!Crash(c) PROVE Sweeping'
  BY <1>2 DEF Text!Crash, Text!Idle, Sweeping
<1>3. CASE Text!CascadeDrops
  BY <1>3 DEF Text!CascadeDrops, Text!Idle, Sweeping
<1>4. CASE Text!ListOrphans
  <2>1. Text!Orphans \subseteq Text!Artifacts
    BY DEF Text!Orphans
  <2> QED
    BY <1>4, <2>1 DEF Text!ListOrphans, Text!Live, Sweeping
<1>5. CASE Text!DropOrphan
  BY <1>5 DEF Text!DropOrphan, Sweeping
<1>6. CASE Text!PurgeFingerprints
  BY <1>6 DEF Text!PurgeFingerprints, Text!Idle, Sweeping
<1>7. ASSUME NEW d \in Docs, NEW row \in Text!Rows, Text!Put(d, row) PROVE UNCHANGED sweep
  BY <1>7 DEF Text!Put
<1>8. ASSUME NEW d \in Docs, Text!Delete(d) PROVE UNCHANGED sweep
  BY <1>8 DEF Text!Delete
<1>9. ASSUME NEW ty \in Types, Text!PurgePartition(ty) PROVE UNCHANGED sweep
  BY <1>9 DEF Text!PurgePartition
<1> QED
  BY <1>1, <1>2, <1>3, <1>4, <1>5, <1>6, <1>7, <1>8, <1>9
  DEF Text!Next, Text!Bootstrap, Text!SelfHeal, Text!CheckTriggers, Text!ReadFingerprints,
      Text!PurgeGhosts, Text!FillPartition, Text!StoreFingerprint, Text!Ready

LEMMA CrashKeeps ==
  ASSUME TextInv, NEW c \in Configs, Text!Crash(c) PROVE TextInv'
BY OpenKeeps DEF Text!Crash

LEMMA HealKeeps ==
  ASSUME TextInv, Text!SelfHeal PROVE TextInv'
<1>1. process.config \in Configs
  BY DEF TextInv, ProcessTyped
<1> QED
  BY <1>1, OpenKeeps DEF Text!SelfHeal

\* Steps of the sweep that drop nothing, where a fingerprint that is forgotten was none
\* that counts.
LEMMA SweepKeeps ==
  ASSUME TextInv, UNCHANGED <<indexed, index, nextId, bodies, process, lapsed, torn>>,
         ~torn /\ ~Live /\ sweep'.phase = "drop" /\ "map" \in sweep'.orphans /\ index["fts"] # None =>
           "fts" \in sweep'.orphans,
         DOMAIN stored' = Types, \A ty \in Types : stored'[ty] # None => stored'[ty] = stored[ty],
         Settled', Purging'
  PROVE  TextInv'
<1>1. ProcessTyped' /\ Routed' = Routed
  BY DEF TextInv, ProcessTyped, Routed
<1>2. Live /\ process'.booted => \A ty \in Routed' :
        ty \in DOMAIN bodies' /\ bodies'[ty] = process'.config[ty] /\ Sliced(ty)'
  BY <1>1 DEF TextInv, Served, Sliced, TextMap, Text!Rebuilding
<1>3. Live => \A ty \in Types \ lapsed' : stored'[ty] # None =>
                ty \in DOMAIN bodies' /\ bodies'[ty] = stored'[ty]
  BY DEF TextInv, Recorded
<1>4. Live /\ ~torn => \A ty \in Types \ lapsed' : stored'[ty] # None => Filled(ty, stored'[ty])
  BY DEF TextInv, Ensured, AsRecorded
<1>5. Live /\ ~torn /\ process'.booted => \A ty \in Routed' :
        WorkedOn(ty)' \/ (Finished(ty)' /\ ty \notin lapsed') => Filled(ty, process'.config[ty])
  BY <1>1 DEF TextInv, Ensured, AsConfigured, WorkedOn, Finished
<1> QED
  BY <1>1, <1>2, <1>3, <1>4, <1>5, Quiet

\* The listing.
LEMMA ListKeeps ==
  ASSUME Text!KindsAssumption, TextInv, Text!ListOrphans PROVE TextInv'
<1> DEFINE orphans == IF Live THEN {} ELSE Text!Orphans
<1>1. /\ sweep' = [phase |-> "drop", orphans |-> orphans, purges |-> ~Live]
      /\ UNCHANGED <<indexed, index, nextId, bodies, process, lapsed, stored, torn>>
  BY DEF Text!ListOrphans, Live
<1>2. index["fts"] # None /\ ~Live => "fts" \in orphans
  BY Kinds DEF Text!Orphans
<1>3. sweep'.orphans = orphans /\ sweep'.purges = ~Live
  <2> HIDE DEF orphans
  <2> QED
    BY <1>1
<1>4. Live' <=> Live
  BY <1>1 DEF Live, Text!Live
<1>5. Settled'
  BY <1>1, <1>4 DEF TextInv, Ensured, Settled, Finished, Routed
<1>6. Purging'
  BY <1>3, <1>4 DEF Purging
<1>7. DOMAIN stored' = Types
  BY <1>1 DEF TextInv, TextTyped
<1> HIDE DEF orphans
<1> QED
  BY <1>1, <1>2, <1>3, <1>5, <1>6, <1>7, SweepKeeps

\* The fingerprints of a table that was gone are forgotten: also of one that is back.
LEMMA PurgeFingerprintsKeeps ==
  ASSUME Text!KindsAssumption, TextInv, Text!PurgeFingerprints PROVE TextInv'
<1>1. /\ sweep.phase = "drop" /\ sweep' = Text!Idle
      /\ UNCHANGED <<indexed, index, nextId, bodies, process, lapsed, torn>>
  BY DEF Text!PurgeFingerprints
<1>2. sweep'.phase = "idle"
  BY <1>1 DEF Text!Idle
<1>3. \/ stored' = stored
      \/ sweep.purges /\ stored' = [ty \in Types |-> None]
  BY DEF Text!PurgeFingerprints
<1>4. /\ DOMAIN stored' = Types
      /\ \A ty \in Types : stored'[ty] # None => stored'[ty] = stored[ty]
  BY <1>3 DEF TextInv, TextTyped
<1>5. Live' <=> Live
  BY <1>1 DEF Live, Text!Live
<1>6. Settled'
  <2> SUFFICES ASSUME NEW ty \in Routed, Finished(ty)
               PROVE  stored'[ty] = process.config[ty] \/ (stored'[ty] = None /\ (Live => ty \notin lapsed))
    BY <1>1, <1>5 DEF Settled, Finished, Routed
  <2>1. stored[ty] = process.config[ty] \/ (stored[ty] = None /\ (Live => ty \notin lapsed))
    BY DEF TextInv, Ensured, Settled
  <2>2. ty \in Types
    BY RoutedTypes DEF TextInv
  <2>3. CASE stored' = stored
    BY <2>1, <2>3
  <2>4. CASE sweep.purges /\ stored' = [x \in Types |-> None]
    <3>1. Live => stored[ty] # process.config[ty] \/ ty \notin lapsed
      BY <1>1, <2>4 DEF TextInv, Ensured, Purging
    <3> QED
      BY <2>1, <2>2, <2>4, <3>1
  <2> QED
    BY <1>3, <2>3, <2>4
<1>7. Purging'
  BY <1>2 DEF Purging
<1> QED
  BY <1>1, <1>2, <1>4, <1>6, <1>7, SweepKeeps

\* A step of the ensure goes from one statement to another.
LEMMA MovesAre ==
  ASSUME TextInv, process.booted,
         NEW at \in {"read", "compare", "ready"}, NEW todo \in SUBSET Routed,
         NEW type \in Types \cup {None}, Text!KindsAssumption,
         process' = [process EXCEPT !.at = at, !.todo = todo, !.type = type]
  PROVE  /\ ProcessTyped' /\ Routed' = Routed /\ process'.config = process.config
         /\ process'.booted /\ process'.at = at /\ process'.todo = todo /\ process'.type = type
<1>1. todo \in SUBSET Types
  BY RoutedTypes DEF TextInv
<1>2. /\ process' \in [config : Configs, booted : BOOLEAN,
                       at : {"unchecked", "read", "compare", "ready"} \cup Working,
                       todo : SUBSET Types, type : Types \cup {None}]
      /\ process'.config = process.config /\ process'.booted
      /\ process'.at = at /\ process'.todo = todo /\ process'.type = type
  BY <1>1 DEF TextInv, ProcessTyped
<1> QED
  BY <1>2 DEF ProcessTyped, Routed, Working

\* What a step of the ensure that reads or records has to keep.
LEMMA EnsureKeeps ==
  ASSUME Text!KindsAssumption, TextInv, process.booted,
         UNCHANGED <<indexed, index, nextId, sweep, torn>>,
         NEW at \in {"read", "compare", "ready"}, NEW todo \in SUBSET Routed,
         NEW type \in Types \cup {None},
         process' = [process EXCEPT !.at = at, !.todo = todo, !.type = type],
         DOMAIN bodies' \subseteq DOMAIN bodies, DOMAIN stored' = Types,
         Live => \A ty \in Routed : ty \in DOMAIN bodies' /\ bodies'[ty] = bodies[ty],
         Live => \A ty \in Routed : ~Text!Rebuilding(ty),
         Live => \A ty \in Types \ lapsed' : stored'[ty] # None =>
           ty \in DOMAIN bodies' /\ bodies'[ty] = stored'[ty],
         Live /\ ~torn => \A ty \in Types \ lapsed' : stored'[ty] # None => Filled(ty, stored'[ty]),
         \A ty \in Routed : at = "ready" \/ (at = "compare" /\ ty \notin todo) =>
           /\ stored'[ty] = process.config[ty] \/ (stored'[ty] = None /\ (Live => ty \notin lapsed'))
           /\ Live /\ ~torn /\ ty \notin lapsed' => Filled(ty, process.config[ty]),
         sweep.phase = "drop" /\ sweep.purges /\ Live => \A ty \in Routed \cap lapsed' :
           stored'[ty] # process.config[ty]
  PROVE  TextInv'
<1>1. /\ ProcessTyped' /\ Routed' = Routed /\ process'.config = process.config
      /\ process'.booted /\ process'.at = at /\ process'.todo = todo
  BY MovesAre
<1>2. Live' <=> Live
  BY DEF Live, Text!Live
<1>3. \A ty : Finished(ty)' <=> at = "ready" \/ (at = "compare" /\ ty \notin todo)
  BY <1>1 DEF Finished, Working
<1>4. \A ty : ~WorkedOn(ty)'
  BY <1>1 DEF WorkedOn, Working
<1>5. Settled'
  BY <1>1, <1>2, <1>3 DEF Settled
<1>6. Purging'
  BY <1>1, <1>2 DEF Purging
<1>7. ASSUME Live, NEW ty \in Routed
      PROVE  ty \in DOMAIN bodies' /\ bodies'[ty] = process'.config[ty] /\ Sliced(ty)'
  <2>1. bodies[ty] = process.config[ty] /\ Sliced(ty)
    BY <1>7 DEF TextInv, Served
  <2>2. Sliced(ty)'
    BY <1>7, <2>1 DEF Sliced, TextMap
  <2> QED
    BY <1>1, <1>7, <2>1, <2>2
<1>8. ~torn /\ ~Live /\ sweep'.phase = "drop" /\ "map" \in sweep'.orphans /\ index["fts"] # None =>
        "fts" \in sweep'.orphans
  BY DEF TextInv, Placed
<1>9. Live /\ ~torn /\ process'.booted => \A ty \in Routed' :
        WorkedOn(ty)' \/ (Finished(ty)' /\ ty \notin lapsed') => Filled(ty, process'.config[ty])
  BY <1>1, <1>3, <1>4
<1> QED
  BY <1>1, <1>5, <1>6, <1>7, <1>8, <1>9, Quiet

\* Triggers that are dropped outdate the fingerprint of their type.
LEMMA CheckKeeps ==
  ASSUME Text!KindsAssumption, TextInv, Text!CheckTriggers PROVE TextInv'
<1>1. /\ process.booted /\ process.at = "unchecked"
      /\ UNCHANGED <<indexed, index, nextId, stored, sweep, torn>>
  BY DEF Text!CheckTriggers
<1>2. DOMAIN stored' = Types /\ process.todo \in SUBSET Routed /\ process.type \in Types \cup {None}
  BY <1>1 DEF TextInv, TextTyped, ProcessTyped
<1>3. \A ty \in Routed : ~Text!Rebuilding(ty)
  BY <1>1 DEF Text!Rebuilding
<1>4. CASE process.config = Text!NoRows
  <2>1. process' = [process EXCEPT !.at = "ready"] /\ UNCHANGED <<bodies, lapsed>>
    BY <1>4 DEF Text!CheckTriggers
  <2>2. process' = [process EXCEPT !.at = "ready", !.todo = process.todo, !.type = process.type]
    BY <2>1 DEF TextInv, ProcessTyped
  <2>3. Routed = {}
    BY <1>4, NoRowsIs DEF Routed
  <2>4. Live => \A ty \in Types \ lapsed : stored[ty] # None =>
                  /\ ty \in DOMAIN bodies /\ bodies[ty] = stored[ty]
                  /\ ~torn => Filled(ty, stored[ty])
    BY DEF TextInv, Recorded, Ensured, AsRecorded
  <2> QED
    BY <1>1, <1>2, <2>1, <2>2, <2>3, <2>4, EnsureKeeps
<1>5. CASE process.config # Text!NoRows
  <2>1. /\ bodies' = Text!Restrict(bodies, DOMAIN bodies \cap Routed)
        /\ lapsed' = lapsed \cup Text!Outdated(bodies')
        /\ process' = [process EXCEPT !.at = "read"]
    BY <1>5 DEF Text!CheckTriggers, Routed
  <2>2. process' = [process EXCEPT !.at = "read", !.todo = process.todo, !.type = process.type]
    BY <2>1 DEF TextInv, ProcessTyped
  <2>3. /\ DOMAIN bodies' = DOMAIN bodies \cap Routed
        /\ \A ty \in DOMAIN bodies' : bodies'[ty] = bodies[ty]
    <3> DEFINE kept == DOMAIN bodies \cap Routed
    <3>1. /\ DOMAIN Text!Restrict(bodies, kept) = kept
          /\ \A ty \in kept : Text!Restrict(bodies, kept)[ty] = bodies[ty]
      <4> HIDE DEF kept
      <4> QED
        BY RestrictIs
    <3> QED
      BY <2>1, <3>1
  <2>4. Live => \A ty \in Routed : ty \in DOMAIN bodies' /\ bodies'[ty] = bodies[ty]
    BY <1>1, <2>3 DEF TextInv, Served
  <2>5. \A ty \in Types \ lapsed' : stored'[ty] # None =>
          ty \notin lapsed /\ stored'[ty] = stored[ty] /\ ty \in DOMAIN bodies' /\ bodies'[ty] = stored'[ty]
    BY <1>1, <2>1 DEF Text!Outdated
  <2>6. Live /\ ~torn => \A ty \in Types \ lapsed' : stored'[ty] # None => Filled(ty, stored'[ty])
    BY <2>5 DEF TextInv, Ensured, AsRecorded
  <2>7. ASSUME sweep.phase = "drop", sweep.purges, Live, NEW ty \in Routed \cap lapsed'
        PROVE  stored'[ty] # process.config[ty]
    <3>1. CASE ty \in lapsed
      BY <1>1, <2>7, <3>1 DEF TextInv, Ensured, Purging
    <3>2. CASE ty \notin lapsed
      <4>1. bodies'[ty] = process.config[ty] /\ ty \in DOMAIN bodies' /\ ty \in Text!Outdated(bodies')
        BY <1>1, <2>1, <2>4, <2>7, <3>2 DEF TextInv, Served
      <4> QED
        BY <1>1, <4>1 DEF Text!Outdated
    <3> QED
      BY <3>1, <3>2
  <2> QED
    BY <1>1, <1>2, <1>3, <2>2, <2>3, <2>4, <2>5, <2>6, <2>7, EnsureKeeps
<1> QED
  BY <1>4, <1>5

\* A process past its first statement has booted.
LEMMA PastFirst ==
  ASSUME TextInv, process.at # "unchecked" PROVE process.booted
BY DEF TextInv, ProcessTyped

\* A type whose fingerprint is that of the configuration is filled as configured.
LEMMA ReadKeeps ==
  ASSUME Text!KindsAssumption, TextInv, Text!ReadFingerprints PROVE TextInv'
<1>1. /\ process.at = "read" /\ process.booted
      /\ UNCHANGED <<indexed, index, nextId, bodies, stored, lapsed, sweep, torn>>
      /\ process' = [process EXCEPT !.at = "compare", !.todo = Text!Changed]
  BY PastFirst DEF Text!ReadFingerprints
<1>2. process.type \in Types \cup {None} /\ Text!Changed \in SUBSET Routed
  BY DEF TextInv, ProcessTyped, Text!Changed, Routed
<1>3. process' = [process EXCEPT !.at = "compare", !.todo = Text!Changed, !.type = process.type]
  BY <1>1 DEF TextInv, ProcessTyped
<1>4. \A ty \in Routed : ~Text!Rebuilding(ty)
  BY <1>1 DEF Text!Rebuilding
<1>5. ASSUME NEW ty \in Routed, ty \notin Text!Changed
      PROVE  /\ stored[ty] = process.config[ty]
             /\ Live /\ ~torn /\ ty \notin lapsed => Filled(ty, process.config[ty])
  <2>1. stored[ty] = process.config[ty] /\ stored[ty] # None /\ ty \in Types
    BY <1>5, RoutedTypes DEF TextInv, Text!Changed, Routed
  <2> QED
    BY <2>1 DEF TextInv, Ensured, AsRecorded
<1>6. DOMAIN stored' = Types
  BY <1>1 DEF TextInv, TextTyped
<1>7. /\ Live => \A ty \in Types \ lapsed' : stored'[ty] # None => ty \in DOMAIN bodies' /\ bodies'[ty] = stored'[ty]
      /\ Live /\ ~torn => \A ty \in Types \ lapsed' : stored'[ty] # None => Filled(ty, stored'[ty])
  BY <1>1 DEF TextInv, Recorded, Ensured, AsRecorded
<1>8. Live => \A ty \in Routed : ty \in DOMAIN bodies' /\ bodies'[ty] = bodies[ty]
  BY <1>1 DEF TextInv, Served
<1>9. sweep.phase = "drop" /\ sweep.purges /\ Live => \A ty \in Routed \cap lapsed' :
        stored'[ty] # process.config[ty]
  BY <1>1 DEF TextInv, Ensured, Purging
<1> QED
  BY <1>1, <1>2, <1>3, <1>4, <1>5, <1>6, <1>7, <1>8, <1>9, EnsureKeeps

\* A rebuilt partition is recorded as it is.
LEMMA StoreKeeps ==
  ASSUME Text!KindsAssumption, TextInv, Text!StoreFingerprint PROVE TextInv'
<1> DEFINE type == process.type
<1>1. /\ process.at = "filled" /\ process.booted
      /\ UNCHANGED <<indexed, index, nextId, bodies, sweep, torn>>
      /\ stored' = [stored EXCEPT ![type] = process.config[type]]
      /\ lapsed' = lapsed \ {type}
      /\ process' = [process EXCEPT !.at = "compare", !.todo = process.todo \ {type}, !.type = None]
  BY PastFirst DEF Text!StoreFingerprint
<1>2. process.todo \ {type} \in SUBSET Routed /\ type \in Routed /\ type \in Types
  BY <1>1, RoutedTypes DEF TextInv, ProcessTyped, Working
<1>3. \A ty \in Routed : ~Text!Rebuilding(ty)
  BY <1>1 DEF Text!Rebuilding
<1>4. /\ DOMAIN stored' = Types /\ stored'[type] = process.config[type]
      /\ \A ty \in Types : ty # type => stored'[ty] = stored[ty]
  BY <1>1, <1>2 DEF TextInv, TextTyped
<1>5. WorkedOn(type)
  BY <1>1 DEF WorkedOn, Working
<1>6. Live /\ ~torn => Filled(type, process.config[type])
  BY <1>1, <1>2, <1>5 DEF TextInv, Ensured, AsConfigured
<1>7. Live => \A ty \in Routed : ty \in DOMAIN bodies /\ bodies[ty] = process.config[ty]
  BY <1>1 DEF TextInv, Served
<1> HIDE DEF type
<1>8. ASSUME Live, NEW ty \in Types \ lapsed', stored'[ty] # None
      PROVE  /\ ty \in DOMAIN bodies' /\ bodies'[ty] = stored'[ty]
             /\ ~torn => Filled(ty, stored'[ty])
  <2>1. CASE ty = type
    BY <1>1, <1>2, <1>4, <1>6, <1>7, <1>8, <2>1
  <2>2. CASE ty # type
    BY <1>1, <1>4, <1>8, <2>2 DEF TextInv, Recorded, Ensured, AsRecorded
  <2> QED
    BY <2>1, <2>2
<1>9. ASSUME NEW ty \in Routed, ty \notin process.todo \ {type}
      PROVE  /\ stored'[ty] = process.config[ty] \/ (stored'[ty] = None /\ (Live => ty \notin lapsed'))
             /\ Live /\ ~torn /\ ty \notin lapsed' => Filled(ty, process.config[ty])
  <2>1. CASE ty = type
    BY <1>4, <1>6, <2>1
  <2>2. CASE ty # type
    <3>1. Finished(ty) /\ ty \in Types
      BY <1>1, <1>9, <2>2, RoutedTypes DEF Finished, Working, TextInv
    <3> QED
      BY <1>1, <1>4, <2>2, <3>1 DEF TextInv, Ensured, Settled, AsConfigured
  <2> QED
    BY <2>1, <2>2
<1>10. sweep.phase = "drop" /\ sweep.purges /\ Live => \A ty \in Routed \cap lapsed' :
         stored'[ty] # process.config[ty]
  <2>1. \A ty \in Routed : ty \in Types
    BY RoutedTypes DEF TextInv
  <2> QED
    BY <1>1, <1>4, <2>1 DEF TextInv, Ensured, Purging
<1> QED
  BY <1>1, <1>2, <1>3, <1>4, <1>7, <1>8, <1>9, <1>10, EnsureKeeps

\* Every configured type is gone through by then.
LEMMA ReadyKeeps ==
  ASSUME Text!KindsAssumption, TextInv, Text!Ready PROVE TextInv'
<1>1. /\ process.at = "compare" /\ process.booted /\ process.todo = {}
      /\ process' = [process EXCEPT !.at = "ready"]
      /\ stored' = [ty \in Types |-> IF ty \in Routed THEN stored[ty] ELSE None]
      /\ UNCHANGED <<indexed, index, nextId, bodies, lapsed, sweep, torn>>
  BY PastFirst DEF Text!Ready, Routed
<1>2. process.todo \in SUBSET Routed /\ process.type \in Types \cup {None}
  BY <1>1 DEF TextInv, ProcessTyped
<1>3. process' = [process EXCEPT !.at = "ready", !.todo = process.todo, !.type = process.type]
  BY <1>1 DEF TextInv, ProcessTyped
<1>4. \A ty \in Routed : ~Text!Rebuilding(ty)
  BY <1>1 DEF Text!Rebuilding
<1>5. /\ DOMAIN stored' = Types /\ \A ty \in Types : stored'[ty] # None => stored'[ty] = stored[ty]
      /\ \A ty \in Routed : stored'[ty] = stored[ty]
  BY <1>1, RoutedTypes DEF TextInv
<1>6. \A ty \in Routed : Finished(ty)
  BY <1>1 DEF Finished
<1>7. /\ Live => \A ty \in Types \ lapsed' : stored'[ty] # None => ty \in DOMAIN bodies' /\ bodies'[ty] = stored'[ty]
      /\ Live /\ ~torn => \A ty \in Types \ lapsed' : stored'[ty] # None => Filled(ty, stored'[ty])
  BY <1>1, <1>5 DEF TextInv, Recorded, Ensured, AsRecorded
<1>8. Live => \A ty \in Routed : ty \in DOMAIN bodies' /\ bodies'[ty] = bodies[ty]
  BY <1>1 DEF TextInv, Served
<1>9. \A ty \in Routed :
        /\ stored'[ty] = process.config[ty] \/ (stored'[ty] = None /\ (Live => ty \notin lapsed'))
        /\ Live /\ ~torn /\ ty \notin lapsed' => Filled(ty, process.config[ty])
  BY <1>1, <1>5, <1>6 DEF TextInv, Ensured, Settled, AsConfigured
<1>10. sweep.phase = "drop" /\ sweep.purges /\ Live => \A ty \in Routed \cap lapsed' :
         stored'[ty] # process.config[ty]
  BY <1>1, <1>5 DEF TextInv, Ensured, Purging
<1> QED
  BY <1>1, <1>2, <1>3, <1>4, <1>5, <1>7, <1>8, <1>9, <1>10, EnsureKeeps

\* What a statement of a rebuild leaves in the partition of the type it is at.
Slice(ty, p, at) == Live /\ TextMap # None => \A d \in DOMAIN indexed :
  /\ TextMap[d] \in DOMAIN p => indexed[d].type = ty
  /\ at = "filled" /\ indexed[d].type = ty => TextMap[d] \in DOMAIN p
  /\ ~torn /\ TextMap[d] \in DOMAIN p =>
       p[TextMap[d]] = Text!Extraction(indexed[d], process.config[ty])

\* A statement of a rebuild changes one partition, of a type the process is at.
LEMMA PartitionKeeps ==
  ASSUME Text!KindsAssumption, TextInv, process.booted,
         UNCHANGED <<indexed, nextId, bodies, stored, lapsed, sweep, torn>>,
         NEW ty \in process.todo, NEW p, p # None, index' = [index EXCEPT ![ty] = p],
         NEW at \in Working, process' = [process EXCEPT !.at = at, !.type = ty],
         process.at = "compare" \/ (process.at \in Working /\ process.type = ty),
         Slice(ty, p, at)
  PROVE  TextInv'
<1>1. Live' <=> Live
  BY DEF Live, Text!Live
<1>2. /\ ty \in Routed /\ Routed \subseteq Types /\ ty \in Types
      /\ ty \in Text!Artifacts /\ ty # "fts" /\ ty # "map"
  BY RoutedTypes, Kinds DEF TextInv, ProcessTyped
<1>3. /\ DOMAIN index' = Text!Artifacts /\ index'[ty] = p
      /\ \A a \in Text!Artifacts : a # ty => index'[a] = index[a]
      /\ TextMap' = TextMap /\ index'["fts"] = index["fts"]
  BY <1>2, Kinds DEF TextInv, TextTyped, TextMap
<1>4. /\ ProcessTyped' /\ Routed' = Routed /\ process'.config = process.config
      /\ process'.at = at /\ process'.todo = process.todo /\ process'.type = ty /\ process'.booted
  <2>1. /\ process' \in [config : Configs, booted : BOOLEAN,
                         at : {"unchecked", "read", "compare", "ready"} \cup Working,
                         todo : SUBSET Types, type : Types \cup {None}]
        /\ process'.config = process.config /\ process'.at = at /\ process'.todo = process.todo
        /\ process'.type = ty /\ process'.booted
    BY <1>2 DEF TextInv, ProcessTyped
  <2> QED
    BY <2>1 DEF TextInv, ProcessTyped, Routed
<1>5. TextTyped'
  BY <1>1, <1>3 DEF TextInv, TextTyped
<1>6. Placed'
  BY <1>1, <1>3 DEF TextInv, Placed
<1>7. Tracked'
  BY <1>1, <1>3 DEF TextInv, Tracked
<1>8. Recorded'
  BY <1>1 DEF TextInv, Recorded
<1>9. \A x \in Types : x # ty => index'[x] = index[x]
  BY <1>3, Kinds
<1>10. \A x : Text!Rebuilding(x)' <=> x = ty /\ at # "filled"
  BY <1>4 DEF Text!Rebuilding, Working
<1>11. \A x : x # ty => ~Text!Rebuilding(x)
  BY DEF Text!Rebuilding, Working
<1>12. ASSUME Live, NEW x \in Routed
       PROVE  x \in DOMAIN bodies' /\ bodies'[x] = process'.config[x] /\ Sliced(x)'
  <2>1. x \in DOMAIN bodies /\ bodies[x] = process.config[x] /\ Sliced(x)
    BY <1>12 DEF TextInv, Served
  <2>2. CASE x = ty
    BY <1>3, <1>4, <1>10, <1>12, <2>1, <2>2 DEF Slice, Sliced
  <2>3. CASE x # ty
    BY <1>2, <1>3, <1>4, <1>9, <1>11, <2>1, <2>3 DEF Sliced
  <2> QED
    BY <2>2, <2>3
<1>13. Served'
  BY <1>1, <1>4, <1>12 DEF Served
<1>14. ASSUME Live, ~torn PROVE Filled(ty, process.config[ty])'
  BY <1>3, <1>4, <1>14 DEF Slice, Filled
<1>15. ASSUME NEW x \in Types, x # ty, NEW fields, Filled(x, fields) PROVE Filled(x, fields)'
  BY <1>3, <1>9, <1>15 DEF Filled
<1>16. AsRecorded'
  <2> SUFFICES ASSUME Live, ~torn, NEW x \in Types \ lapsed, stored[x] # None
               PROVE  Filled(x, stored[x])'
    BY <1>1 DEF AsRecorded
  <2>1. Filled(x, stored[x]) /\ x \in DOMAIN bodies /\ bodies[x] = stored[x]
    BY DEF TextInv, Recorded, Ensured, AsRecorded
  <2>2. CASE x = ty
    <3>1. stored[ty] = process.config[ty]
      BY <1>2, <2>1, <2>2 DEF TextInv, Served
    <3> QED
      BY <1>4, <1>14, <2>2, <3>1 DEF Filled
  <2>3. CASE x # ty
    <3>1. Filled(x, stored[x])'
      BY <1>3, <1>9, <2>1, <2>3 DEF Filled
    <3> QED
      BY <3>1
  <2> QED
    BY <2>2, <2>3
<1>17. AsConfigured'
  <2> SUFFICES ASSUME Live, ~torn, NEW x \in Routed, WorkedOn(x)' \/ (Finished(x)' /\ x \notin lapsed)
               PROVE  Filled(x, process.config[x])'
    BY <1>1, <1>4 DEF AsConfigured
  <2>1. CASE x = ty
    BY <1>14, <2>1
  <2>2. CASE x # ty
    <3>1. Finished(x) /\ x \notin lapsed
      BY <1>4, <2>2 DEF WorkedOn, Finished, Working
    <3>2. Filled(x, process.config[x])
      BY <3>1 DEF TextInv, Ensured, AsConfigured
    <3> QED
      BY <1>2, <1>3, <1>4, <1>9, <2>2, <3>2 DEF Filled
  <2> QED
    BY <2>1, <2>2
<1>18. Settled'
  BY <1>1, <1>4 DEF TextInv, Ensured, Settled, Finished, Working
<1>19. Purging'
  BY <1>1, <1>4 DEF TextInv, Ensured, Purging
<1> QED
  BY <1>4, <1>5, <1>6, <1>7, <1>8, <1>13, <1>16, <1>17, <1>18, <1>19 DEF TextInv, Ensured

\* An emptied partition is that of the type the process is at.
LEMMA PurgeKeeps ==
  ASSUME Text!KindsAssumption, TextInv, NEW ty \in Types, Text!PurgePartition(ty)
  PROVE  TextInv'
<1>1. /\ process.at = "compare" /\ ty \in process.todo /\ process.booted
      /\ index' = [index EXCEPT ![ty] = Text!NoRows]
      /\ process' = [process EXCEPT !.at = "emptied", !.type = ty]
      /\ UNCHANGED <<indexed, nextId, bodies, stored, lapsed, sweep, torn>>
  BY PastFirst DEF Text!PurgePartition
<1>2. DOMAIN Text!NoRows = {} /\ Text!NoRows # None
  BY NoRowsIs
<1>3. "emptied" \in Working
  BY DEF Working
<1> QED
  <2>1. Slice(ty, Text!NoRows, "emptied")
    BY <1>2 DEF Slice
  <2> QED
    BY <1>1, <1>2, <1>3, <2>1, PartitionKeeps

\* What a process at work on a partition finds.
LEMMA WorkFinds ==
  ASSUME TextInv, process.at \in Working, Text!CanSync
  PROVE  /\ process.booted /\ process.type \in process.todo /\ process.type \in Routed
         /\ Live /\ TextMap # None /\ index[process.type] # None /\ OneToOne(TextMap)
         /\ DOMAIN TextMap = DOMAIN indexed /\ Sliced(process.type)
         /\ ~torn => Filled(process.type, process.config[process.type])
<1>1. /\ Live /\ TextMap # None /\ index[process.type] # None
      /\ process.booted /\ process.type \in process.todo /\ process.type \in Routed
  BY DEF Text!CanSync, Live, TextMap, TextInv, ProcessTyped, Working
<1>2. WorkedOn(process.type)
  BY DEF WorkedOn
<1> QED
  BY <1>1, <1>2 DEF TextInv, TextTyped, Placed, Served, Ensured, AsConfigured

\* Entries of rows of other types go.
LEMMA GhostsKeep ==
  ASSUME Text!KindsAssumption, TextInv, Text!PurgeGhosts PROVE TextInv'
<1> DEFINE ty == process.type
           p == Text!GhostsPurged(index, indexed, ty)
<1>1. /\ process.at = "emptied" /\ Text!CanSync
      /\ index' = [index EXCEPT ![ty] = p]
      /\ process' = [process EXCEPT !.at = "cleaned"]
      /\ UNCHANGED <<indexed, nextId, bodies, stored, lapsed, sweep, torn>>
  BY DEF Text!PurgeGhosts
<1>2. process.at \in Working /\ "cleaned" \in Working
  BY <1>1 DEF Working
<1>3. /\ process.booted /\ ty \in process.todo /\ ty \in Routed
      /\ Live /\ TextMap # None /\ index[ty] # None /\ OneToOne(TextMap)
      /\ DOMAIN TextMap = DOMAIN indexed /\ Sliced(ty)
      /\ ~torn => Filled(ty, process.config[ty])
  BY <1>1, <1>2, WorkFinds
<1>4. process' = [process EXCEPT !.at = "cleaned", !.type = ty]
  BY <1>1 DEF TextInv, ProcessTyped
<1>5. /\ p # None
      /\ \A d \in DOMAIN indexed :
           /\ TextMap[d] \in DOMAIN p <=> TextMap[d] \in DOMAIN index[ty] /\ indexed[d].type = ty
           /\ TextMap[d] \in DOMAIN p => p[TextMap[d]] = index[ty][TextMap[d]]
  <2> HIDE DEF ty
  <2>1. p = Text!GhostsPurged(index, indexed, ty)
    OBVIOUS
  <2> HIDE DEF p
  <2>2. DOMAIN indexed \subseteq DOMAIN index["map"] /\ OneToOne(index["map"])
    BY <1>3 DEF TextMap
  <2> QED
    BY <2>1, <2>2, GhostsPurgedIs DEF TextMap
<1> HIDE DEF p, ty
<1>6. Slice(ty, p, "cleaned")
  BY <1>3, <1>5 DEF Slice, Filled
<1>7. process.at = "compare" \/ (process.at \in Working /\ process.type = ty)
  BY <1>2 DEF ty
<1> QED
  BY <1>1, <1>2, <1>3, <1>4, <1>5, <1>6, <1>7, PartitionKeeps

\* The rows of the type come in.
LEMMA FillKeeps ==
  ASSUME Text!KindsAssumption, TextInv, Text!FillPartition PROVE TextInv'
<1> DEFINE ty == process.type
           fields == process.config[ty]
           slice == index[ty]
           p == Text!MissingIndexed(slice, TextMap, indexed, ty, fields)
<1>1. /\ process.at = "cleaned" /\ Text!CanSync
      /\ index' = [index EXCEPT ![ty] = p]
      /\ process' = [process EXCEPT !.at = "filled"]
      /\ UNCHANGED <<indexed, nextId, bodies, stored, lapsed, sweep, torn>>
  BY DEF Text!FillPartition, TextMap
<1>2. process.at \in Working /\ "filled" \in Working
  BY <1>1 DEF Working
<1>3. /\ process.booted /\ ty \in process.todo /\ ty \in Routed
      /\ Live /\ TextMap # None /\ index[ty] # None /\ OneToOne(TextMap)
      /\ DOMAIN TextMap = DOMAIN indexed /\ Sliced(ty)
      /\ ~torn => Filled(ty, process.config[ty])
  BY <1>1, <1>2, WorkFinds
<1>4. process' = [process EXCEPT !.at = "filled", !.type = ty]
  BY <1>1 DEF TextInv, ProcessTyped
<1>5. /\ p # None
      /\ \A d \in DOMAIN indexed :
           /\ TextMap[d] \in DOMAIN p <=> TextMap[d] \in DOMAIN slice \/ indexed[d].type = ty
           /\ TextMap[d] \in DOMAIN p =>
                p[TextMap[d]] = IF TextMap[d] \in DOMAIN slice THEN slice[TextMap[d]]
                                ELSE Text!Extraction(indexed[d], fields)
  <2> HIDE DEF ty, fields, slice
  <2>1. p = Text!MissingIndexed(slice, TextMap, indexed, ty, fields)
    OBVIOUS
  <2> HIDE DEF p
  <2>2. DOMAIN indexed \subseteq DOMAIN TextMap /\ OneToOne(TextMap)
    BY <1>3
  <2> QED
    BY <2>1, <2>2, MissingIndexedIs
<1> HIDE DEF p, ty
<1>6. Slice(ty, p, "filled")
  BY <1>3, <1>5 DEF Slice, Filled, Sliced
<1>7. process.at = "compare" \/ (process.at \in Working /\ process.type = ty)
  BY <1>2 DEF ty
<1> QED
  BY <1>1, <1>2, <1>3, <1>4, <1>5, <1>6, <1>7, PartitionKeeps

\* A dropped table has no triggers, and no rows to find.
LEMMA CascadeKeeps ==
  ASSUME Text!KindsAssumption, TextInv, Text!CascadeDrops PROVE TextInv'
<1>1. /\ indexed' = None /\ bodies' = Text!NoRows /\ ~Live'
      /\ sweep' = [Text!Idle EXCEPT !.phase = "list"]
      /\ UNCHANGED <<index, nextId, stored, process, lapsed, torn>>
  BY DEF Text!CascadeDrops, Live, Text!Live
<1>2. sweep'.phase = "list"
  BY <1>1 DEF Text!Idle
<1>3. DOMAIN bodies' = {}
  BY <1>1, NoRowsIs
<1>4. TextMap' = TextMap /\ index'["fts"] = index["fts"]
  BY <1>1 DEF TextMap
<1>5. TextTyped'
  BY <1>1, <1>3, <1>4 DEF TextInv, TextTyped
<1>6. Placed'
  BY <1>1, <1>2, <1>3, <1>4 DEF TextInv, Placed
<1>7. ProcessTyped'
  BY <1>1 DEF TextInv, ProcessTyped, Routed
<1>8. Ensured'
  BY <1>1 DEF TextInv, Ensured, AsRecorded, AsConfigured, Settled, Purging, Finished, Routed
<1> QED
  BY <1>1, <1>5, <1>6, <1>7, <1>8 DEF TextInv, Tracked, Served, Recorded

\* Orphans go one by one, the shared index before its map.
LEMMA DropKeeps ==
  ASSUME Text!KindsAssumption, Sweeping, TextInv, Text!DropOrphan PROVE TextInv'
<1>1. PICK a \in sweep.orphans :
        /\ a = "fts" \/ "fts" \notin sweep.orphans
        /\ index' = [index EXCEPT ![a] = None]
        /\ sweep' = [sweep EXCEPT !.orphans = @ \ {a}]
        /\ nextId' = IF a = "map" THEN 1 ELSE nextId
        /\ torn' = (torn \/ (a = "map" /\ Live /\ DOMAIN indexed # {}))
  BY DEF Text!DropOrphan, Live
<1>2. /\ sweep.phase = "drop"
      /\ UNCHANGED <<indexed, bodies, stored, process, lapsed>>
  BY DEF Text!DropOrphan
<1>3. Live' <=> Live
  BY <1>2 DEF Live, Text!Live
<1>4. /\ DOMAIN index' = Text!Artifacts
      /\ \A b \in Text!Artifacts : index'[b] = IF b = a THEN None ELSE index[b]
  BY <1>1 DEF TextInv, TextTyped
<1>5. /\ TextMap' = IF a = "map" THEN None ELSE TextMap
      /\ index'["fts"] = IF a = "fts" THEN None ELSE index["fts"]
  BY <1>4, Kinds DEF TextMap
<1>6. /\ sweep'.phase = "drop" /\ sweep'.orphans = sweep.orphans \ {a}
      /\ sweep'.purges = sweep.purges
  BY <1>1, <1>2 DEF Sweeping
<1>7. TextTyped'
  <2>1. TextMap' # None => TextMap' = TextMap /\ nextId' = nextId
    BY <1>1, <1>5
  <2>2. nextId' \in Nat \ {0} /\ torn' \in BOOLEAN
    BY <1>1 DEF TextInv, TextTyped, Live, Text!Live
  <2> QED
    BY <1>2, <1>3, <1>4, <2>1, <2>2 DEF TextInv, TextTyped
<1>8. ProcessTyped'
  BY <1>2 DEF TextInv, ProcessTyped, Routed
<1>9. Placed'
  <2>1. ~torn' => ~torn /\ (a = "map" /\ Live => DOMAIN indexed = {})
    BY <1>1
  <2>2. Live' /\ TextMap' # None => DOMAIN TextMap' = DOMAIN indexed'
    BY <1>2, <1>3, <1>5 DEF TextInv, Placed
  <2>3. ~Live' => DOMAIN bodies' = {}
    BY <1>2, <1>3 DEF TextInv, Placed
  <2>4. ~torn' /\ Live' /\ TextMap' = None => DOMAIN indexed' = {}
    BY <1>2, <1>3, <1>5, <2>1 DEF TextInv, Placed
  <2>5. ASSUME ~torn', index'["fts"] # None
        PROVE  DOMAIN index'["fts"] = IF TextMap' = None THEN {} ELSE Ids(TextMap')
    <3>1. index["fts"] # None /\ index'["fts"] = index["fts"] /\ a # "fts"
      BY <1>5, <2>5
    <3>2. DOMAIN index["fts"] = IF TextMap = None THEN {} ELSE Ids(TextMap)
      BY <2>1, <2>5, <3>1 DEF TextInv, Placed
    <3>3. CASE a # "map"
      BY <1>5, <3>1, <3>2, <3>3
    <3>4. CASE a = "map"
      <4>1. Live
        BY <1>1, <1>2, <2>1, <2>5, <3>1, <3>4 DEF TextInv, Placed
      <4>2. TextMap # None => Ids(TextMap) = {}
        <5>1. TextMap # None => DOMAIN TextMap = {}
          BY <2>1, <2>5, <3>4, <4>1 DEF TextInv, Placed
        <5> QED
          BY <5>1 DEF Ids
      <4> QED
        BY <1>5, <3>1, <3>2, <3>4, <4>2
    <3> QED
      BY <3>3, <3>4
  <2>6. ASSUME ~torn', "map" \in sweep'.orphans, ~Live', index'["fts"] # None
        PROVE  "fts" \in sweep'.orphans
    <3>1. index["fts"] # None /\ a # "fts"
      BY <1>5, <2>6
    <3> QED
      BY <1>1, <1>2, <1>3, <1>6, <2>1, <2>6, <3>1 DEF TextInv, Placed
  <2> QED
    BY <2>2, <2>3, <2>4, <2>5, <2>6 DEF Placed
<1>10. Tracked'
  <2>1. torn' \/ (~torn /\ (a = "map" /\ Live => DOMAIN indexed = {}))
    BY <1>1
  <2> QED
    BY <1>2, <1>3, <1>5, <2>1 DEF TextInv, Tracked
<1>11. \A x \in Types : index'[x] # None => index'[x] = index[x]
  BY <1>4, Kinds
<1>12. TextMap' # None => TextMap' = TextMap
  BY <1>5
<1>13. ASSUME NEW x \in Types, Sliced(x) PROVE Sliced(x)'
  BY <1>2, <1>11, <1>12, <1>13 DEF Sliced, Text!Rebuilding
<1>14. ASSUME NEW x \in Types, NEW fields, Filled(x, fields) PROVE Filled(x, fields)'
  BY <1>2, <1>11, <1>12, <1>14 DEF Filled
<1>15. Routed' = Routed /\ Routed \subseteq Types
  BY <1>2, RoutedTypes DEF TextInv, Routed
<1>16. Served' /\ Recorded'
  BY <1>2, <1>3, <1>13, <1>15 DEF TextInv, Served, Recorded
<1>17. ~torn' => ~torn
  BY <1>1
<1>18. \A x \in Types : Filled(x, stored[x]) => Filled(x, stored[x])'
  BY <1>2, <1>11, <1>12 DEF Filled
<1>19. \A x \in Types : Filled(x, process.config[x]) => Filled(x, process.config[x])'
  BY <1>2, <1>11, <1>12 DEF Filled
<1>20. AsRecorded'
  BY <1>2, <1>3, <1>17, <1>18 DEF TextInv, Ensured, AsRecorded
<1>21. AsConfigured'
  BY <1>2, <1>3, <1>15, <1>17, <1>19 DEF TextInv, Ensured, AsConfigured, WorkedOn, Finished
<1>22. Settled'
  BY <1>2, <1>3, <1>15 DEF TextInv, Ensured, Settled, Finished
<1>23. Purging'
  BY <1>2, <1>3, <1>6, <1>15 DEF TextInv, Ensured, Purging
<1> QED
  BY <1>7, <1>8, <1>9, <1>10, <1>16, <1>20, <1>21, <1>22, <1>23 DEF TextInv, Ensured

\* A document keeps its id, or gets one no other has.
LEMMA MappedIs ==
  ASSUME Text!KindsAssumption, TextTyped, TextMap # None, NEW d \in Docs,
         NEW m, m = Text!Mapped(TextMap, d), NEW next,
         next = IF d \in DOMAIN TextMap THEN nextId ELSE nextId + 1
  PROVE  /\ m # None /\ DOMAIN m = DOMAIN TextMap \cup {d} /\ OneToOne(m)
         /\ \A x \in DOMAIN TextMap : m[x] = TextMap[x]
         /\ \A x \in DOMAIN m : m[x] \in 1 .. next - 1
         /\ \A x \in DOMAIN TextMap : x # d => TextMap[x] # m[d]
         /\ next \in Nat \ {0}
<1>1. /\ TextMap # None /\ OneToOne(TextMap) /\ nextId \in Nat \ {0}
      /\ \A x \in DOMAIN TextMap : TextMap[x] \in 1 .. nextId - 1
  BY DEF TextTyped
<1>2. CASE d \in DOMAIN TextMap
  <2>1. m = TextMap /\ next = nextId
    BY <1>2 DEF Text!Mapped
  <2> QED
    BY <1>1, <1>2, <2>1 DEF OneToOne
<1>3. CASE d \notin DOMAIN TextMap
  <2> DEFINE w == Text!With(TextMap, d, nextId)
  <2>1. m = w /\ next = nextId + 1
    BY <1>3 DEF Text!Mapped
  <2>2. /\ DOMAIN w = DOMAIN TextMap \cup {d} /\ w[d] = nextId
        /\ \A y \in DOMAIN TextMap \ {d} : w[y] = TextMap[y]
    BY DEF Text!With, Text!Over
  <2>3. w # None
    BY DEF Text!With, Text!Over, Text!KindsAssumption
  <2> HIDE DEF w
  <2> QED
    BY <1>1, <1>3, <2>1, <2>2, <2>3 DEF OneToOne
<1> QED
  BY <1>2, <1>3

\* A row has its entry in the partition of its type and in no other.
LEMMA RepartitionedIs ==
  ASSUME Text!KindsAssumption, NEW slice, NEW id, NEW ty, NEW row,
         NEW p, p = Text!Repartitioned(slice, id, ty, row)
  PROVE  /\ p # None
         /\ id \in DOMAIN p <=> ty = row.type
         /\ ty = row.type => p[id] = Text!Extraction(row, bodies[ty])
         /\ \A i : i # id => (i \in DOMAIN p <=> i \in DOMAIN slice)
         /\ \A i \in DOMAIN slice : i # id => p[i] = slice[i]
<1>1. CASE ty = row.type
  <2> DEFINE w == Text!With(slice, id, Text!Extraction(row, bodies[ty]))
  <2>1. p = w
    BY <1>1 DEF Text!Repartitioned
  <2>2. /\ DOMAIN w = DOMAIN slice \cup {id} /\ w[id] = Text!Extraction(row, bodies[ty])
        /\ \A y \in DOMAIN slice \ {id} : w[y] = slice[y]
    BY DEF Text!With, Text!Over
  <2>3. w # None
    BY DEF Text!With, Text!Over, Text!KindsAssumption
  <2> HIDE DEF w
  <2> QED
    BY <1>1, <2>1, <2>2, <2>3
<1>2. CASE ty # row.type
  <2> DEFINE w == Text!Without(slice, {id})
  <2>1. p = w
    BY <1>2 DEF Text!Repartitioned
  <2>2. /\ DOMAIN w = DOMAIN slice \ {id} /\ w # None
        /\ \A y \in DOMAIN slice \ {id} : w[y] = slice[y]
    BY WithoutIs, Zenon
  <2> HIDE DEF w
  <2> QED
    BY <1>2, <2>1, <2>2
<1> QED
  BY <1>1, <1>2

\* The triggers of an insert or update.
LEMMA PutKeeps ==
  ASSUME Text!KindsAssumption, TextInv, NEW d \in Docs, NEW row \in Text!Rows, Text!Put(d, row)
  PROVE  TextInv'
<1> DEFINE m == Text!Mapped(TextMap, d)
           id == m[d]
<1>1. /\ process.booted /\ Live
      /\ indexed' = Text!With(indexed, d, row)
      /\ index' = Text!Reindexed(index, d, row)
      /\ nextId' = IF d \in DOMAIN TextMap THEN nextId ELSE nextId + 1
      /\ UNCHANGED <<bodies, stored, process, lapsed, sweep, torn>>
      /\ TextMap # None /\ index["fts"] # None /\ \A ty \in DOMAIN bodies : index[ty] # None
  BY DEF Text!Put, Text!CanWrite, Text!TriggersRun, Live, TextMap
<1>2. /\ DOMAIN indexed' = DOMAIN indexed \cup {d} /\ indexed'[d] = row
      /\ \A x \in DOMAIN indexed : x # d => indexed'[x] = indexed[x]
      /\ indexed' # None
  <2> DEFINE w == Text!With(indexed, d, row)
  <2>1. /\ DOMAIN w = DOMAIN indexed \cup {d} /\ w[d] = row
        /\ \A y \in DOMAIN indexed \ {d} : w[y] = indexed[y]
    BY DEF Text!With, Text!Over
  <2>3. w # None
    BY DEF Text!With, Text!Over, Text!KindsAssumption
  <2> HIDE DEF w
  <2>2. indexed' = w
    BY <1>1 DEF w
  <2> QED
    BY <2>1, <2>3, <2>2
<1>3. Live'
  BY <1>2 DEF Live, Text!Live
<1>4. /\ m # None /\ DOMAIN m = DOMAIN TextMap \cup {d} /\ OneToOne(m)
      /\ \A x \in DOMAIN TextMap : m[x] = TextMap[x]
      /\ \A x \in DOMAIN m : m[x] \in 1 .. nextId' - 1
      /\ \A x \in DOMAIN TextMap : x # d => TextMap[x] # id
      /\ nextId' \in Nat \ {0}
  BY <1>1, MappedIs DEF TextInv
<1> HIDE DEF m
<1>5. /\ DOMAIN index' = Text!Artifacts /\ TextMap' = m
      /\ index'["fts"] = Text!With(index["fts"], id, Text!Extraction(row, "all"))
      /\ \A ty \in DOMAIN bodies : index'[ty] = Text!Repartitioned(index[ty], id, ty, row)
  <2>1. DOMAIN bodies \subseteq Types
    BY DEF TextInv, TextTyped
  <2> QED
    BY <1>1, <2>1, Kinds DEF Text!Reindexed, TextMap, m
<1>6. /\ DOMAIN index'["fts"] = DOMAIN index["fts"] \cup {id} /\ index'["fts"] # None
      /\ index'["fts"][id] = Text!Extraction(row, "all")
      /\ \A i \in DOMAIN index["fts"] : i # id => index'["fts"][i] = index["fts"][i]
  <2> DEFINE fts == index["fts"]
             w == Text!With(fts, id, Text!Extraction(row, "all"))
  <2>1. /\ DOMAIN w = DOMAIN fts \cup {id} /\ w[id] = Text!Extraction(row, "all")
        /\ \A y \in DOMAIN fts \ {id} : w[y] = fts[y]
    BY DEF Text!With, Text!Over
  <2>3. w # None
    BY DEF Text!With, Text!Over, Text!KindsAssumption
  <2> HIDE DEF w
  <2>2. index'["fts"] = w
    BY <1>5 DEF w
  <2> QED
    BY <2>1, <2>3, <2>2
<1>7. ASSUME NEW ty \in DOMAIN bodies
      PROVE  /\ index'[ty] # None
             /\ id \in DOMAIN index'[ty] <=> ty = row.type
             /\ ty = row.type => index'[ty][id] = Text!Extraction(row, bodies[ty])
             /\ \A i : i # id => (i \in DOMAIN index'[ty] <=> i \in DOMAIN index[ty])
             /\ \A i \in DOMAIN index[ty] : i # id => index'[ty][i] = index[ty][i]
  <2> HIDE DEF id
  <2> QED
    BY <1>5, RepartitionedIs
<1>8. /\ DOMAIN TextMap = DOMAIN indexed
      /\ ~torn => DOMAIN index["fts"] = Ids(TextMap)
      /\ DOMAIN indexed \subseteq Docs /\ \A x \in DOMAIN indexed : indexed[x] \in Text!Rows
      /\ Text!IsFiniteSet(DOMAIN indexed)
  BY <1>1 DEF TextInv, TextTyped, Placed
<1>9. TextTyped'
  <2>1. \A x \in DOMAIN indexed' : indexed'[x] \in Text!Rows
    BY <1>2, <1>8
  <2>2. DOMAIN indexed' \subseteq Docs /\ DOMAIN TextMap' \subseteq Docs
    BY <1>2, <1>4, <1>5, <1>8
  <2>3. Text!IsFiniteSet(DOMAIN indexed')
    <3>1. IsFiniteSet(DOMAIN indexed)
      BY <1>8 DEF Text!IsFiniteSet, IsFiniteSet
    <3>2. IsFiniteSet(DOMAIN indexed \cup {d})
      BY <3>1, FS_AddElement
    <3>3. IsFiniteSet(DOMAIN indexed')
      BY <1>2, <3>2
    <3> QED
      BY <3>3 DEF Text!IsFiniteSet, IsFiniteSet
  <2> QED
    BY <1>1, <1>4, <1>5, <2>1, <2>2, <2>3 DEF TextInv, TextTyped
<1>10. ProcessTyped'
  BY <1>1 DEF TextInv, ProcessTyped, Routed
<1>11. Placed'
  <2>1. ~torn => DOMAIN index'["fts"] = Ids(m)
    <3>1. Ids(m) = Ids(TextMap) \cup {id}
      BY <1>4 DEF Ids
    <3> QED
      BY <1>6, <1>8, <3>1
  <2> QED
    BY <1>1, <1>2, <1>3, <1>4, <1>5, <1>6, <1>8, <2>1 DEF Placed
<1>12. \A x \in DOMAIN indexed : x # d =>
         TextMap'[x] = TextMap[x] /\ TextMap[x] # id /\ indexed'[x] = indexed[x]
  BY <1>2, <1>4, <1>5, <1>8
<1>13. TextMap'[d] = id /\ DOMAIN TextMap' = DOMAIN indexed'
  BY <1>2, <1>4, <1>5, <1>8
<1>14. Tracked'
  <2>1. ASSUME NEW x \in DOMAIN indexed', x # d, ~torn
        PROVE  index'["fts"][TextMap'[x]] = Text!Extraction(indexed'[x], "all")
    <3>1. x \in DOMAIN indexed /\ TextMap[x] \in DOMAIN index["fts"] /\ TextMap[x] # id
      BY <1>2, <1>8, <1>12, <2>1 DEF Ids
    <3> QED
      BY <1>1, <1>6, <1>12, <2>1, <3>1 DEF TextInv, Tracked
  <2> QED
    BY <1>1, <1>2, <1>6, <1>13, <2>1 DEF Tracked
<1>15. Recorded'
  BY <1>1, <1>3 DEF TextInv, Recorded
<1>16. \A ty \in Routed : ty \in DOMAIN bodies /\ bodies[ty] = process.config[ty] /\ Sliced(ty)
  BY <1>1 DEF TextInv, Served
<1>17. \A ty \in DOMAIN bodies : index[ty] # None
  BY <1>1
<1>18. ASSUME NEW ty \in Routed PROVE Sliced(ty)'
  <2> SUFFICES ASSUME NEW x \in DOMAIN indexed'
               PROVE  /\ TextMap'[x] \in DOMAIN index'[ty] => indexed'[x].type = ty
                      /\ ~Text!Rebuilding(ty) /\ indexed'[x].type = ty =>
                           TextMap'[x] \in DOMAIN index'[ty]
    BY <1>1 DEF Sliced, Text!Rebuilding
  <2>1. CASE x = d
    BY <1>2, <1>7, <1>13, <1>16, <2>1
  <2>2. CASE x # d
    <3>1. x \in DOMAIN indexed
      BY <1>2, <2>2
    <3>2. /\ TextMap[x] \in DOMAIN index[ty] => indexed[x].type = ty
          /\ ~Text!Rebuilding(ty) /\ indexed[x].type = ty => TextMap[x] \in DOMAIN index[ty]
      BY <1>1, <1>16, <1>17, <3>1 DEF Sliced
    <3> QED
      BY <1>7, <1>12, <1>16, <2>2, <3>1, <3>2
  <2> QED
    BY <2>1, <2>2
<1>19. Served'
  BY <1>1, <1>16, <1>18 DEF Served, Routed
<1>20. ASSUME NEW ty \in DOMAIN bodies, Filled(ty, bodies[ty])
       PROVE  \A x \in DOMAIN indexed' : indexed'[x].type = ty /\ TextMap'[x] \in DOMAIN index'[ty] =>
                index'[ty][TextMap'[x]] = Text!Extraction(indexed'[x], bodies[ty])
  <2> SUFFICES ASSUME NEW x \in DOMAIN indexed', indexed'[x].type = ty,
                      TextMap'[x] \in DOMAIN index'[ty]
               PROVE  index'[ty][TextMap'[x]] = Text!Extraction(indexed'[x], bodies[ty])
    OBVIOUS
  <2>1. CASE x = d
    BY <1>2, <1>7, <1>13, <2>1
  <2>2. CASE x # d
    <3>1. x \in DOMAIN indexed
      BY <1>2, <2>2
    <3>2. TextMap[x] \in DOMAIN index[ty] /\ indexed[x].type = ty /\ TextMap[x] # id
      BY <1>7, <1>12, <2>2, <3>1
    <3> QED
      BY <1>1, <1>7, <1>12, <1>17, <1>20, <2>2, <3>1, <3>2 DEF Filled
  <2> QED
    BY <2>1, <2>2
<1>21. AsRecorded'
  <2> SUFFICES ASSUME Live, ~torn, NEW ty \in Types \ lapsed, stored[ty] # None
               PROVE  Filled(ty, stored[ty])'
    BY <1>1 DEF AsRecorded
  <2>1. ty \in DOMAIN bodies /\ bodies[ty] = stored[ty] /\ Filled(ty, stored[ty])
    BY DEF TextInv, Recorded, Ensured, AsRecorded
  <2>2. \A x \in DOMAIN indexed' : indexed'[x].type = ty /\ TextMap'[x] \in DOMAIN index'[ty] =>
          index'[ty][TextMap'[x]] = Text!Extraction(indexed'[x], stored[ty])
    BY <1>20, <2>1
  <2> QED
    BY <1>1, <2>2 DEF Filled
<1>22. AsConfigured'
  <2> SUFFICES ASSUME Live, ~torn, NEW ty \in Routed,
                      WorkedOn(ty) \/ (Finished(ty) /\ ty \notin lapsed)
               PROVE  Filled(ty, process.config[ty])'
    BY <1>1 DEF AsConfigured, WorkedOn, Finished, Routed
  <2>1. ty \in DOMAIN bodies /\ bodies[ty] = process.config[ty] /\ Filled(ty, process.config[ty])
    BY <1>1, <1>16 DEF TextInv, Ensured, AsConfigured
  <2>2. \A x \in DOMAIN indexed' : indexed'[x].type = ty /\ TextMap'[x] \in DOMAIN index'[ty] =>
          index'[ty][TextMap'[x]] = Text!Extraction(indexed'[x], process.config[ty])
    BY <1>20, <2>1
  <2> QED
    BY <1>1, <2>2 DEF Filled
<1>23. Settled'
  BY <1>1, <1>3 DEF TextInv, Ensured, Settled, Finished, Routed
<1>24. Purging'
  BY <1>1, <1>3 DEF TextInv, Ensured, Purging, Routed
<1> QED
  BY <1>9, <1>10, <1>11, <1>14, <1>15, <1>19, <1>21, <1>22, <1>23, <1>24 DEF TextInv, Ensured

\* The triggers of a delete.
LEMMA DeleteKeeps ==
  ASSUME Text!KindsAssumption, TextInv, NEW d \in Docs, Text!Delete(d) PROVE TextInv'
<1> DEFINE ids == {TextMap[x] : x \in {d} \cap DOMAIN TextMap}
<1>1. /\ process.booted /\ Live /\ d \in DOMAIN indexed
      /\ indexed' = Text!Without(indexed, {d})
      /\ index' = Text!Unindexed(index, d)
      /\ UNCHANGED <<nextId, bodies, stored, process, lapsed, sweep, torn>>
      /\ TextMap # None /\ index["fts"] # None /\ \A ty \in DOMAIN bodies : index[ty] # None
  BY DEF Text!Delete, Text!CanWrite, Text!TriggersRun, Live, TextMap
<1>2. /\ DOMAIN indexed' = DOMAIN indexed \ {d} /\ indexed' # None
      /\ \A x \in DOMAIN indexed \ {d} : indexed'[x] = indexed[x]
  <2> DEFINE w == Text!Without(indexed, {d})
  <2>1. /\ DOMAIN w = DOMAIN indexed \ {d} /\ w # None
        /\ \A x \in DOMAIN indexed \ {d} : w[x] = indexed[x]
    BY WithoutIs, Zenon
  <2> HIDE DEF w
  <2>2. indexed' = w
    BY <1>1 DEF w
  <2> QED
    BY <2>1, <2>2
<1>3. Live'
  BY <1>2 DEF Live, Text!Live
<1>4. /\ OneToOne(TextMap) /\ DOMAIN TextMap = DOMAIN indexed
      /\ ~torn => DOMAIN index["fts"] = Ids(TextMap)
      /\ DOMAIN bodies \subseteq Types /\ Text!IsFiniteSet(DOMAIN indexed)
      /\ DOMAIN indexed \subseteq Docs /\ \A x \in DOMAIN indexed : indexed[x] \in Text!Rows
  BY <1>1 DEF TextInv, TextTyped, Placed
<1>5. ids = {TextMap[d]} /\ \A x \in DOMAIN indexed \ {d} : TextMap[x] \notin ids
  BY <1>1, <1>4 DEF OneToOne
<1>6. /\ DOMAIN index' = Text!Artifacts
      /\ TextMap' = Text!Without(TextMap, {d})
      /\ index'["fts"] = Text!Without(index["fts"], ids)
      /\ \A ty \in DOMAIN bodies : index'[ty] = Text!Without(index[ty], ids)
  BY <1>1, <1>4, Kinds DEF Text!Unindexed, TextMap
<1> HIDE DEF ids
<1>7. /\ DOMAIN TextMap' = DOMAIN TextMap \ {d} /\ TextMap' # None
      /\ \A x \in DOMAIN TextMap \ {d} : TextMap'[x] = TextMap[x]
  <2> DEFINE map == TextMap
             w == Text!Without(map, {d})
  <2>1. /\ DOMAIN w = DOMAIN map \ {d} /\ w # None
        /\ \A x \in DOMAIN map \ {d} : w[x] = map[x]
    <3> HIDE DEF map
    <3> QED
      BY WithoutIs, Zenon
  <2> HIDE DEF w
  <2>2. TextMap' = w
    BY <1>6 DEF w
  <2> QED
    BY <2>1, <2>2
<1>8. ASSUME NEW a \in {"fts"} \cup DOMAIN bodies
      PROVE  /\ DOMAIN index'[a] = DOMAIN index[a] \ ids /\ index'[a] # None
             /\ \A i \in DOMAIN index[a] \ ids : index'[a][i] = index[a][i]
  <2> DEFINE slice == index[a]
             w == Text!Without(slice, ids)
  <2>1. /\ DOMAIN w = DOMAIN slice \ ids /\ w # None
        /\ \A i \in DOMAIN slice \ ids : w[i] = slice[i]
    <3> HIDE DEF slice
    <3> QED
      BY WithoutIs, Zenon
  <2> HIDE DEF w
  <2>2. index'[a] = w
    BY <1>6 DEF w
  <2> QED
    BY <2>1, <2>2
<1>9. TextTyped'
  <2>1. \A x \in DOMAIN TextMap' : TextMap'[x] \in 1 .. nextId' - 1
    BY <1>1, <1>4, <1>7 DEF TextInv, TextTyped
  <2>2. OneToOne(TextMap)'
    BY <1>4, <1>7 DEF OneToOne
  <2>3. DOMAIN TextMap' \subseteq Docs /\ DOMAIN indexed' \subseteq Docs
    BY <1>2, <1>4, <1>7
  <2>4. \A x \in DOMAIN indexed' : indexed'[x] \in Text!Rows
    BY <1>2, <1>4
  <2>5. Text!IsFiniteSet(DOMAIN indexed')
    <3>1. IsFiniteSet(DOMAIN indexed)
      BY <1>4 DEF Text!IsFiniteSet, IsFiniteSet
    <3>2. IsFiniteSet(DOMAIN indexed \ {d})
      BY <3>1, FS_RemoveElement
    <3>3. IsFiniteSet(DOMAIN indexed')
      BY <1>2, <3>2
    <3> QED
      BY <3>3 DEF Text!IsFiniteSet, IsFiniteSet
  <2> QED
    BY <1>1, <1>6, <2>1, <2>2, <2>3, <2>4, <2>5 DEF TextInv, TextTyped
<1>10. ProcessTyped'
  BY <1>1 DEF TextInv, ProcessTyped, Routed
<1>11. \A x \in DOMAIN indexed' :
         /\ x \in DOMAIN indexed /\ x # d /\ indexed'[x] = indexed[x] /\ TextMap'[x] = TextMap[x]
         /\ TextMap[x] \notin ids
  BY <1>2, <1>4, <1>5, <1>7
<1>12. DOMAIN TextMap' = DOMAIN indexed'
  BY <1>2, <1>4, <1>7
<1>13. Placed'
  <2>1. ~torn => DOMAIN index'["fts"] = Ids(TextMap')
    <3>1. Ids(TextMap') = Ids(TextMap) \ ids
      BY <1>4, <1>5, <1>7 DEF Ids
    <3> QED
      BY <1>4, <1>8, <3>1
  <2> QED
    BY <1>1, <1>3, <1>7, <1>12, <2>1 DEF Placed
<1>14. Tracked'
  <2>1. ASSUME NEW x \in DOMAIN indexed', ~torn
        PROVE  index'["fts"][TextMap'[x]] = Text!Extraction(indexed'[x], "all")
    <3>1. TextMap[x] \in DOMAIN index["fts"] \ ids
      BY <1>4, <1>11, <2>1 DEF Ids
    <3> QED
      BY <1>1, <1>8, <1>11, <2>1, <3>1 DEF TextInv, Tracked
  <2> QED
    BY <1>1, <2>1 DEF Tracked
<1>15. Recorded'
  BY <1>1, <1>3 DEF TextInv, Recorded
<1>16. ASSUME NEW ty \in DOMAIN bodies, NEW x \in DOMAIN indexed'
       PROVE  /\ TextMap'[x] \in DOMAIN index'[ty] <=> TextMap[x] \in DOMAIN index[ty]
              /\ TextMap[x] \in DOMAIN index[ty] => index'[ty][TextMap'[x]] = index[ty][TextMap[x]]
  <2>1. TextMap'[x] = TextMap[x] /\ TextMap[x] \notin ids
    BY <1>11
  <2>2. /\ DOMAIN index'[ty] = DOMAIN index[ty] \ ids
        /\ \A i \in DOMAIN index[ty] \ ids : index'[ty][i] = index[ty][i]
    BY <1>8
  <2> QED
    BY <2>1, <2>2
<1>17. \A ty \in Routed : ty \in DOMAIN bodies /\ bodies[ty] = process.config[ty] /\ Sliced(ty)
  BY <1>1 DEF TextInv, Served
<1>18. ASSUME NEW ty \in Routed PROVE Sliced(ty)'
  <2> SUFFICES ASSUME NEW x \in DOMAIN indexed'
               PROVE  /\ TextMap'[x] \in DOMAIN index'[ty] => indexed'[x].type = ty
                      /\ ~Text!Rebuilding(ty) /\ indexed'[x].type = ty =>
                           TextMap'[x] \in DOMAIN index'[ty]
    BY <1>1 DEF Sliced, Text!Rebuilding
  <2>1. /\ TextMap[x] \in DOMAIN index[ty] => indexed[x].type = ty
        /\ ~Text!Rebuilding(ty) /\ indexed[x].type = ty => TextMap[x] \in DOMAIN index[ty]
    BY <1>1, <1>11, <1>17 DEF Sliced
  <2> QED
    BY <1>11, <1>16, <1>17, <2>1
<1>19. Served'
  BY <1>1, <1>17, <1>18 DEF Served, Routed
<1>20. ASSUME NEW ty \in DOMAIN bodies, NEW fields, Filled(ty, fields)
       PROVE  \A x \in DOMAIN indexed' : indexed'[x].type = ty /\ TextMap'[x] \in DOMAIN index'[ty] =>
                index'[ty][TextMap'[x]] = Text!Extraction(indexed'[x], fields)
  BY <1>1, <1>11, <1>16, <1>20 DEF Filled
<1>21. AsRecorded'
  <2> SUFFICES ASSUME Live, ~torn, NEW ty \in Types \ lapsed, stored[ty] # None
               PROVE  Filled(ty, stored[ty])'
    BY <1>1 DEF AsRecorded
  <2>1. ty \in DOMAIN bodies /\ Filled(ty, stored[ty])
    BY DEF TextInv, Recorded, Ensured, AsRecorded
  <2>2. \A x \in DOMAIN indexed' : indexed'[x].type = ty /\ TextMap'[x] \in DOMAIN index'[ty] =>
          index'[ty][TextMap'[x]] = Text!Extraction(indexed'[x], stored[ty])
    BY <1>20, <2>1
  <2> QED
    BY <1>1, <2>2 DEF Filled
<1>22. AsConfigured'
  <2> SUFFICES ASSUME Live, ~torn, NEW ty \in Routed,
                      WorkedOn(ty) \/ (Finished(ty) /\ ty \notin lapsed)
               PROVE  Filled(ty, process.config[ty])'
    BY <1>1 DEF AsConfigured, WorkedOn, Finished, Routed
  <2>1. ty \in DOMAIN bodies /\ Filled(ty, process.config[ty])
    BY <1>1, <1>17 DEF TextInv, Ensured, AsConfigured
  <2>2. \A x \in DOMAIN indexed' : indexed'[x].type = ty /\ TextMap'[x] \in DOMAIN index'[ty] =>
          index'[ty][TextMap'[x]] = Text!Extraction(indexed'[x], process.config[ty])
    BY <1>20, <2>1
  <2> QED
    BY <1>1, <2>2 DEF Filled
<1>23. Settled'
  BY <1>1, <1>3 DEF TextInv, Ensured, Settled, Finished, Routed
<1>24. Purging'
  BY <1>1, <1>3 DEF TextInv, Ensured, Purging, Routed
<1> QED
  BY <1>9, <1>10, <1>13, <1>14, <1>15, <1>19, <1>21, <1>22, <1>23, <1>24 DEF TextInv, Ensured

\* A bootstrap creates the artifacts that are missing.
LEMMA CreatedIs ==
  ASSUME Text!KindsAssumption, TextInv, NEW c, c = Text!Created(index, process.config)
  PROVE  /\ c["map"] = IF TextMap = None THEN Text!NoRows ELSE TextMap
         /\ c["fts"] = IF index["fts"] = None THEN Text!NoRows ELSE index["fts"]
         /\ \A ty \in Types :
              c[ty] = IF ty \in Routed /\ index[ty] = None THEN Text!NoRows ELSE index[ty]
BY Kinds DEF Text!Created, TextMap, Routed

\* What a bootstrap sets.
LEMMA BootedIs ==
  ASSUME Text!KindsAssumption, TextInv, Text!Bootstrap
  PROVE  /\ process' \in [config : Configs, booted : BOOLEAN,
                          at : {"unchecked", "read", "compare", "ready"} \cup Working,
                          todo : SUBSET Types, type : Types \cup {None}]
         /\ process'.booted /\ process'.config = process.config /\ process'.at = process.at
         /\ process'.todo = process.todo /\ process'.type = process.type
         /\ UNCHANGED <<stored, sweep, torn>>
         /\ Live' /\ indexed' = (IF Live THEN indexed ELSE Text!NoRows)
         /\ Live => process.at = "unchecked"
         /\ DOMAIN bodies' = Routed \cup DOMAIN bodies
         /\ \A ty \in Routed : bodies'[ty] = process.config[ty]
         /\ lapsed' = Text!Outdated(bodies') \cup (IF Live THEN lapsed ELSE {})
<1>1. /\ process' = [process EXCEPT !.booted = TRUE]
      /\ bodies' = Text!Over(process.config, bodies)
      /\ lapsed' = Text!Outdated(bodies') \cup (IF Live THEN lapsed ELSE {})
      /\ UNCHANGED <<stored, sweep, torn>>
      /\ indexed' = (IF Live THEN indexed ELSE Text!NoRows)
      /\ ~process.booted \/ ~Live
  BY DEF Text!Bootstrap, Live
<1>2. Live'
  BY <1>1, NoRowsIs DEF Live, Text!Live
<1>3. Live => process.at = "unchecked"
  BY <1>1 DEF TextInv, ProcessTyped
<1>4. DOMAIN bodies' = Routed \cup DOMAIN bodies /\ \A ty \in Routed : bodies'[ty] = process.config[ty]
  <2> DEFINE config == process.config
             w == Text!Over(config, bodies)
  <2>1. DOMAIN w = DOMAIN config \cup DOMAIN bodies /\ \A ty \in DOMAIN config : w[ty] = config[ty]
    <3> HIDE DEF config
    <3> QED
      BY OverIs, Zenon
  <2> HIDE DEF w
  <2>2. bodies' = w
    BY <1>1 DEF w
  <2> QED
    BY <2>1, <2>2 DEF Routed
<1>5. /\ process' \in [config : Configs, booted : BOOLEAN,
                       at : {"unchecked", "read", "compare", "ready"} \cup Working,
                       todo : SUBSET Types, type : Types \cup {None}]
      /\ process'.booted /\ process'.config = process.config /\ process'.at = process.at
      /\ process'.todo = process.todo /\ process'.type = process.type
  BY <1>1 DEF TextInv, ProcessTyped
<1> QED
  BY <1>1, <1>2, <1>3, <1>4, <1>5

\* The indexes a bootstrap leaves.  The map: the rows, each with the id it had.
BootedMap ==
  /\ DOMAIN index' = Text!Artifacts /\ nextId' \in Nat \ {0}
  /\ TextMap' # None /\ DOMAIN TextMap' = DOMAIN indexed' /\ OneToOne(TextMap)'
  /\ \A d \in DOMAIN TextMap' : TextMap'[d] \in 1 .. nextId' - 1
  /\ Live /\ TextMap # None => \A d \in DOMAIN indexed' : TextMap'[d] = TextMap[d]

\* The shared index: their text.
BootedShared ==
  /\ index'["fts"] # None
  /\ ~torn => /\ DOMAIN index'["fts"] = Ids(TextMap')
              /\ \A d \in DOMAIN indexed' :
                   index'["fts"][TextMap'[d]] = Text!Extraction(indexed'[d], "all")

\* The partitions: the rows of their type, as they were or as configured.
BootedPartitions ==
  /\ \A ty \in Types \ Routed : index'[ty] = index[ty]
  /\ \A ty \in Routed : index'[ty] # None /\ \A d \in DOMAIN indexed' :
       /\ TextMap'[d] \in DOMAIN index'[ty] <=> indexed'[d].type = ty
       /\ indexed'[d].type = ty =>
            index'[ty][TextMap'[d]] = IF index[ty] # None /\ TextMap'[d] \in DOMAIN index[ty]
                                      THEN index[ty][TextMap'[d]]
                                      ELSE Text!Extraction(indexed'[d], process.config[ty])

LEMMA SyncedIs ==
  ASSUME Text!KindsAssumption, TextInv, Text!Bootstrap
  PROVE  BootedMap /\ BootedShared /\ BootedPartitions
<1>1. PICK c : c = Text!Created(index, process.config)
  OBVIOUS
<1>2. /\ c["map"] = IF TextMap = None THEN Text!NoRows ELSE TextMap
      /\ c["fts"] = IF index["fts"] = None THEN Text!NoRows ELSE index["fts"]
      /\ \A ty \in Types :
           c[ty] = IF ty \in Routed /\ index[ty] = None THEN Text!NoRows ELSE index[ty]
  BY <1>1, CreatedIs
<1>3. PICK table : table = indexed'
  OBVIOUS
<1>4. PICK missing : missing = DOMAIN table \ DOMAIN c["map"]
  OBVIOUS
<1>5. PICK ids \in Text!Numberings(missing) :
        index' = Text!TypeSync(Text!SharedSync(c, table, ids), table, process.config)
  BY <1>1, <1>3, <1>4 DEF Text!Bootstrap
<1>6. nextId' = nextId + Text!Cardinality(missing)
  BY <1>1, <1>3, <1>4 DEF Text!Bootstrap
<1>7. PICK s : s = Text!SharedSync(c, table, ids)
  OBVIOUS
<1>8. /\ OneToOne(c["map"]) /\ nextId \in Nat \ {0}
      /\ \A d \in DOMAIN c["map"] : c["map"][d] \in 1 .. nextId - 1
  BY <1>2, NoRowsIs DEF TextInv, TextTyped, OneToOne
<1>9. table = (IF Live THEN indexed ELSE Text!NoRows)
  BY <1>3, BootedIs
<1>10. Text!IsFiniteSet(DOMAIN table)
  <2>1. Text!IsFiniteSet({})
    BY FS_EmptySet DEF Text!IsFiniteSet, IsFiniteSet
  <2> QED
    BY <1>9, <2>1, NoRowsIs DEF TextInv, TextTyped
<1>11. ~torn => DOMAIN c["fts"] \subseteq Ids(c["map"])
  BY <1>2, NoRowsIs DEF TextInv, Placed
<1>12. /\ \A ty \in Types : s[ty] = c[ty]
       /\ Text!Cardinality(missing) \in Nat /\ nextId + Text!Cardinality(missing) \in Nat \ {0}
       /\ DOMAIN s["map"] = DOMAIN table /\ s["map"] # None /\ OneToOne(s["map"])
       /\ \A d \in DOMAIN s["map"] : s["map"][d] \in 1 .. nextId + Text!Cardinality(missing) - 1
       /\ \A d \in DOMAIN table \cap DOMAIN c["map"] : s["map"][d] = c["map"][d]
       /\ s["fts"] # None
       /\ DOMAIN c["fts"] \subseteq Ids(c["map"]) =>
            /\ DOMAIN s["fts"] = Ids(s["map"])
            /\ \A d \in DOMAIN table :
                 s["fts"][s["map"][d]] =
                   IF d \in DOMAIN c["map"] /\ c["map"][d] \in DOMAIN c["fts"]
                   THEN c["fts"][c["map"][d]] ELSE Text!Extraction(table[d], "all")
  <2>1. SharedSynced(s, c, table, missing)
    BY <1>4, <1>7, <1>8, <1>10, SharedSyncIs
  <2> QED
    BY <2>1 DEF SharedSynced
<1>13. Routed \subseteq Types
  BY RoutedTypes DEF TextInv
<1>14. /\ DOMAIN index' = Text!Artifacts /\ TextMap' = s["map"] /\ index'["fts"] = s["fts"]
       /\ \A ty \in Types \ Routed : index'[ty] = s[ty]
       /\ \A ty \in Routed :
            /\ index'[ty] # None
            /\ \A d \in DOMAIN table :
                 /\ s["map"][d] \in DOMAIN index'[ty] <=> table[d].type = ty
                 /\ table[d].type = ty =>
                      index'[ty][s["map"][d]] = IF s["map"][d] \in DOMAIN s[ty]
                                                THEN s[ty][s["map"][d]]
                                                ELSE Text!Extraction(table[d], process.config[ty])
  <2> DEFINE i == index'
  <2>1. i = Text!TypeSync(s, table, process.config)
    BY <1>5, <1>7
  <2> HIDE DEF i
  <2>2. /\ DOMAIN i = Text!Artifacts /\ i["map"] = s["map"] /\ i["fts"] = s["fts"]
        /\ \A ty \in Types \ Routed : i[ty] = s[ty]
        /\ \A ty \in Routed :
             /\ i[ty] # None
             /\ \A d \in DOMAIN table :
                  /\ s["map"][d] \in DOMAIN i[ty] <=> table[d].type = ty
                  /\ table[d].type = ty =>
                       i[ty][s["map"][d]] = IF s["map"][d] \in DOMAIN s[ty]
                                            THEN s[ty][s["map"][d]]
                                            ELSE Text!Extraction(table[d], process.config[ty])
    BY <1>12, <1>13, <2>1, TypeSyncIs DEF Routed
  <2> QED
    BY <2>2 DEF i, TextMap
<1>15. Live /\ TextMap # None => DOMAIN TextMap = DOMAIN table /\ c["map"] = TextMap
  BY <1>2, <1>9 DEF TextInv, Placed
<1>16. BootedMap
  <2>1. Live /\ TextMap # None => \A d \in DOMAIN table : TextMap'[d] = TextMap[d]
    BY <1>12, <1>14, <1>15
  <2>2. nextId' \in Nat \ {0} /\ \A d \in DOMAIN TextMap' : TextMap'[d] \in 1 .. nextId' - 1
    <3>1. nextId' \in Nat \ {0} /\ \A d \in DOMAIN s["map"] : s["map"][d] \in 1 .. nextId' - 1
      <4> DEFINE n == Text!Cardinality(missing)
      <4>1. n \in Nat /\ nextId + n \in Nat \ {0}
        BY <1>12
      <4>2. \A d \in DOMAIN s["map"] : s["map"][d] \in 1 .. nextId + n - 1
        BY <1>12
      <4>3. nextId' = nextId + n
        BY <1>6
      <4> HIDE DEF n
      <4> QED
        BY <1>8, <4>1, <4>2, <4>3
    <3> QED
      BY <1>14, <3>1
  <2> QED
    BY <1>3, <1>12, <1>14, <2>1, <2>2 DEF BootedMap, OneToOne
<1>17. BootedShared
  <2> SUFFICES ASSUME ~torn
               PROVE  /\ DOMAIN index'["fts"] = Ids(TextMap')
                      /\ \A d \in DOMAIN table :
                           index'["fts"][TextMap'[d]] = Text!Extraction(table[d], "all")
    BY <1>3, <1>12, <1>14 DEF BootedShared
  <2>1. ASSUME NEW d \in DOMAIN table, d \in DOMAIN c["map"], c["map"][d] \in DOMAIN c["fts"]
        PROVE  c["fts"][c["map"][d]] = Text!Extraction(table[d], "all")
    <3>1. TextMap # None /\ c["map"] = TextMap /\ index["fts"] # None /\ c["fts"] = index["fts"]
      BY <1>2, <2>1, NoRowsIs
    <3>2. Live /\ table = indexed
      BY <1>9, <2>1, NoRowsIs
    <3> QED
      BY <2>1, <3>1, <3>2 DEF TextInv, Tracked
  <2> QED
    BY <1>11, <1>12, <1>14, <2>1
<1>18. BootedPartitions
  <2>1. ASSUME NEW ty \in Types \ Routed PROVE index'[ty] = index[ty]
    BY <1>2, <1>12, <1>14
  <2>2. ASSUME NEW ty \in Routed, NEW d \in DOMAIN table
        PROVE  /\ TextMap'[d] \in DOMAIN index'[ty] <=> table[d].type = ty
               /\ table[d].type = ty =>
                    index'[ty][TextMap'[d]] =
                      IF index[ty] # None /\ TextMap'[d] \in DOMAIN index[ty]
                      THEN index[ty][TextMap'[d]]
                      ELSE Text!Extraction(table[d], process.config[ty])
    <3>1. s[ty] = IF index[ty] = None THEN Text!NoRows ELSE index[ty]
      BY <1>2, <1>12, <1>13
    <3>2. /\ TextMap'[d] \in DOMAIN s[ty] <=> index[ty] # None /\ TextMap'[d] \in DOMAIN index[ty]
          /\ index[ty] # None => s[ty] = index[ty]
      BY <3>1, NoRowsIs
    <3> QED
      BY <1>14, <3>2
  <2> QED
    BY <1>3, <1>14, <2>1, <2>2 DEF BootedPartitions
<1> QED
  BY <1>16, <1>17, <1>18

\* A bootstrap with other fields outdates the fingerprint of their type, which keeps its
\* entries until a search compares it.
LEMMA BootstrapKeeps ==
  ASSUME Text!KindsAssumption, TextInv, Text!Bootstrap PROVE TextInv'
<1>1. /\ process' \in [config : Configs, booted : BOOLEAN,
                       at : {"unchecked", "read", "compare", "ready"} \cup Working,
                       todo : SUBSET Types, type : Types \cup {None}]
      /\ process'.booted /\ process'.config = process.config /\ process'.at = process.at
      /\ process'.todo = process.todo /\ process'.type = process.type
      /\ UNCHANGED <<stored, sweep, torn>>
      /\ Live' /\ indexed' = (IF Live THEN indexed ELSE Text!NoRows)
      /\ Live => process.at = "unchecked"
      /\ DOMAIN bodies' = Routed \cup DOMAIN bodies
      /\ \A ty \in Routed : bodies'[ty] = process.config[ty]
      /\ lapsed' = Text!Outdated(bodies') \cup (IF Live THEN lapsed ELSE {})
  BY BootedIs
<1>2. BootedMap /\ BootedShared /\ BootedPartitions
  BY SyncedIs
<1>3. Live => indexed' = indexed
  BY <1>1
<1>4. ~Live => DOMAIN indexed' = {}
  BY <1>1, NoRowsIs
<1>5. Routed \subseteq Types /\ DOMAIN bodies \subseteq Types /\ Routed' = Routed
  BY <1>1, RoutedTypes DEF TextInv, TextTyped, Routed
<1>6. TextTyped'
  <2>1. DOMAIN indexed' \subseteq Docs /\ \A d \in DOMAIN indexed' : indexed'[d] \in Text!Rows
    BY <1>3, <1>4 DEF TextInv, TextTyped
  <2>2. Text!IsFiniteSet(DOMAIN indexed')
    <3>1. Text!IsFiniteSet({})
      BY FS_EmptySet DEF Text!IsFiniteSet, IsFiniteSet
    <3> QED
      BY <1>3, <1>4, <3>1 DEF TextInv, TextTyped
  <2>3. DOMAIN stored' = Types /\ torn' \in BOOLEAN /\ DOMAIN bodies' \subseteq Types
    BY <1>1, <1>5 DEF TextInv, TextTyped
  <2> QED
    BY <1>2, <2>1, <2>2, <2>3 DEF TextTyped, BootedMap
<1>7. ProcessTyped'
  BY <1>1, <1>5 DEF TextInv, ProcessTyped
<1>8. Placed'
  BY <1>1, <1>2 DEF Placed, BootedMap, BootedShared
<1>9. Tracked'
  BY <1>1, <1>2 DEF Tracked, BootedShared
<1>10. ASSUME NEW ty \in Routed PROVE Sliced(ty)'
  BY <1>2 DEF Sliced, BootedPartitions
<1>11. Served'
  BY <1>1, <1>5, <1>10 DEF Served
<1>12. Recorded'
  BY <1>1 DEF Recorded, Text!Outdated
<1>13. AsRecorded'
  <2> SUFFICES ASSUME ~torn, NEW ty \in Types \ lapsed', stored[ty] # None, index'[ty] # None,
                      NEW d \in DOMAIN indexed', indexed'[d].type = ty,
                      TextMap'[d] \in DOMAIN index'[ty]
               PROVE  index'[ty][TextMap'[d]] = Text!Extraction(indexed'[d], stored[ty])
    BY <1>1 DEF AsRecorded, Filled
  <2>1. Live /\ indexed' = indexed /\ d \in DOMAIN indexed
    BY <1>3, <1>4
  <2>2. TextMap # None
    BY <2>1 DEF TextInv, Placed
  <2>3. TextMap'[d] = TextMap[d]
    BY <1>2, <2>1, <2>2 DEF BootedMap
  <2>4. ty \notin lapsed /\ ty \in DOMAIN bodies' /\ bodies'[ty] = stored[ty]
    BY <1>1, <2>1 DEF Text!Outdated
  <2>5. index[ty] # None /\ TextMap[d] \in DOMAIN index[ty] =>
          index[ty][TextMap[d]] = Text!Extraction(indexed[d], stored[ty])
    BY <2>1, <2>2, <2>4 DEF TextInv, Ensured, AsRecorded, Filled
  <2>6. CASE ty \in Routed
    <3>1. index'[ty][TextMap'[d]] = IF index[ty] # None /\ TextMap'[d] \in DOMAIN index[ty]
                                    THEN index[ty][TextMap'[d]]
                                    ELSE Text!Extraction(indexed'[d], process.config[ty])
      BY <1>2, <2>6 DEF BootedPartitions
    <3> QED
      BY <1>1, <2>1, <2>3, <2>4, <2>5, <2>6, <3>1
  <2>7. CASE ty \notin Routed
    <3>1. index'[ty] = index[ty]
      BY <1>2, <2>7 DEF BootedPartitions
    <3> QED
      BY <2>1, <2>3, <2>5, <3>1
  <2> QED
    BY <2>6, <2>7
<1>14. ASSUME NEW ty PROVE ~Live \/ (~WorkedOn(ty)' /\ ~Finished(ty)')
  BY <1>1 DEF WorkedOn, Finished, Working
<1>15. AsConfigured'
  <2>1. \A ty, fields : ~Live => Filled(ty, fields)'
    BY <1>4 DEF Filled
  <2>2. \A ty : ~Live => Filled(ty, process.config[ty])'
    BY <1>4 DEF Filled
  <2> QED
    BY <1>14, <2>2 DEF AsConfigured
<1>16. Settled'
  <2> SUFFICES ASSUME NEW ty \in Routed, Finished(ty)'
               PROVE  \/ stored[ty] = process.config[ty]
                      \/ stored[ty] = None /\ ty \notin lapsed'
    BY <1>1, <1>5 DEF Settled
  <2>1. ~Live /\ Finished(ty)
    BY <1>1, <1>14 DEF Finished
  <2>2. stored[ty] = process.config[ty] \/ stored[ty] = None
    BY <2>1 DEF TextInv, Ensured, Settled
  <2>3. stored[ty] = None => ty \notin lapsed'
    BY <1>1, <2>1 DEF Text!Outdated
  <2> QED
    BY <2>2, <2>3
<1>17. Purging'
  <2> SUFFICES ASSUME sweep.phase = "drop", sweep.purges, NEW ty \in Routed \cap lapsed'
               PROVE  stored[ty] # process.config[ty]
    BY <1>1, <1>5 DEF Purging
  <2>1. CASE ty \in Text!Outdated(bodies')
    BY <1>1, <2>1 DEF Text!Outdated
  <2>2. CASE Live /\ ty \in lapsed
    BY <2>2 DEF TextInv, Ensured, Purging
  <2> QED
    BY <1>1, <2>1, <2>2
<1> QED
  BY <1>6, <1>7, <1>8, <1>9, <1>11, <1>12, <1>13, <1>15, <1>16, <1>17 DEF TextInv, Ensured

\* Every step keeps the invariant.
LEMMA TextStep ==
  ASSUME Text!KindsAssumption, Sweeping, TextInv, [Text!Next]_Text!vars PROVE TextInv'
<1>1. CASE Text!Bootstrap
  BY <1>1, BootstrapKeeps
<1>2. CASE Text!SelfHeal
  BY <1>2, HealKeeps
<1>3. ASSUME NEW d \in Docs, Text!Delete(d) PROVE TextInv'
  BY <1>3, DeleteKeeps
<1>4. ASSUME NEW d \in Docs, NEW row \in Text!Rows, Text!Put(d, row) PROVE TextInv'
  BY <1>4, PutKeeps
<1>5. ASSUME NEW c \in Configs, Text!Crash(c) PROVE TextInv'
  BY <1>5, CrashKeeps
<1>6. CASE Text!CheckTriggers
  BY <1>6, CheckKeeps
<1>7. CASE Text!ReadFingerprints
  BY <1>7, ReadKeeps
<1>8. ASSUME NEW ty \in Types, Text!PurgePartition(ty) PROVE TextInv'
  BY <1>8, PurgeKeeps
<1>9. CASE Text!PurgeGhosts
  BY <1>9, GhostsKeep
<1>10. CASE Text!FillPartition
  BY <1>10, FillKeeps
<1>11. CASE Text!StoreFingerprint
  BY <1>11, StoreKeeps
<1>12. CASE Text!Ready
  BY <1>12, ReadyKeeps
<1>13. CASE Text!CascadeDrops
  BY <1>13, CascadeKeeps
<1>14. CASE Text!ListOrphans
  BY <1>14, ListKeeps
<1>15. CASE Text!DropOrphan
  BY <1>15, DropKeeps
<1>16. CASE Text!PurgeFingerprints
  BY <1>16, PurgeFingerprintsKeeps
<1>17. CASE UNCHANGED Text!vars
  <2>1. UNCHANGED <<indexed, index, nextId, bodies, stored, process, lapsed, sweep, torn>>
    BY <1>17 DEF Text!vars
  <2>2. TextTyped' /\ ProcessTyped' /\ Placed' /\ Tracked'
    BY <2>1 DEF TextInv, TextTyped, ProcessTyped, Placed, Tracked, TextMap, Live, Text!Live, Routed
  <2>3. Served' /\ Recorded'
    BY <2>1 DEF TextInv, Served, Recorded, Sliced, Text!Rebuilding, TextMap, Live, Text!Live, Routed
  <2>4. AsRecorded' /\ AsConfigured'
    BY <2>1 DEF TextInv, Ensured, AsRecorded, AsConfigured, WorkedOn, Finished, Filled, TextMap,
                Live, Text!Live, Routed
  <2>5. Settled' /\ Purging'
    BY <2>1 DEF TextInv, Ensured, Settled, Purging, Finished, Live, Text!Live, Routed
  <2> QED
    BY <2>2, <2>3, <2>4, <2>5 DEF TextInv, Ensured
<1> QED
  BY <1>1, <1>2, <1>3, <1>4, <1>5, <1>6, <1>7, <1>8, <1>9, <1>10, <1>11, <1>12, <1>13, <1>14,
     <1>15, <1>16, <1>17 DEF Text!Next

\* The invariant implies the types,
LEMMA TextTypeOK == ASSUME Text!KindsAssumption, TextInv PROVE Text!TypeOK
<1>1. /\ indexed # None => DOMAIN indexed \subseteq Docs /\ Text!Range(indexed) \subseteq Text!Rows
      /\ TextMap # None => /\ DOMAIN TextMap \subseteq Docs
                           /\ Text!Range(TextMap) \subseteq 1 .. nextId - 1
  BY DEF TextInv, TextTyped, Live, Text!Live, Text!Range
<1>2. /\ DOMAIN index = Text!Artifacts /\ DOMAIN bodies \subseteq Types /\ DOMAIN stored = Types
      /\ torn \in BOOLEAN
  BY DEF TextInv, TextTyped
<1>3. /\ process.at \in {"unchecked", "read", "compare", "emptied", "cleaned", "filled", "ready"}
      /\ process.todo \subseteq Routed
      /\ process.at \in {"emptied", "cleaned", "filled"} => process.type \in process.todo
  BY DEF TextInv, ProcessTyped, Working
<1> QED
  BY <1>1, <1>2, <1>3 DEF Text!TypeOK, Text!Routed, Routed, TextMap

\* what a search joins to,
LEMMA TextHits ==
  ASSUME TextInv, Live, TextMap # None, NEW a
  PROVE  Text!Hits(a) = {<<d, index[a][TextMap[d]]>> :
                           d \in {x \in DOMAIN indexed : TextMap[x] \in DOMAIN index[a]}}
<1>1. DOMAIN TextMap \cap DOMAIN indexed = DOMAIN indexed
  BY DEF TextInv, Placed
<1> QED
  BY <1>1 DEF Text!Hits, TextMap

\* and the properties of the searches.
LEMMA TextMeans == ASSUME Text!KindsAssumption, TextInv PROVE Text!IndexesFollowRows
<1>1. Text!TypeOK
  BY TextTypeOK
<1>2. Text!SharedIndexIsExact
  <2> SUFFICES ASSUME Text!Searchable("fts"), ~torn
               PROVE  /\ Text!Hits("fts") = {<<d, Text!Extraction(indexed[d], "all")>> :
                                               d \in DOMAIN indexed}
                      /\ DOMAIN index["fts"] = Text!Range(TextMap)
    BY DEF Text!SharedIndexIsExact, TextMap
  <2>1. Live /\ index["fts"] # None /\ TextMap # None
    BY DEF Text!Searchable, Live, TextMap
  <2>2. /\ DOMAIN TextMap = DOMAIN indexed /\ DOMAIN index["fts"] = Ids(TextMap)
        /\ \A d \in DOMAIN indexed : index["fts"][TextMap[d]] = Text!Extraction(indexed[d], "all")
    BY <2>1 DEF TextInv, Placed, Tracked
  <2>3. {x \in DOMAIN indexed : TextMap[x] \in DOMAIN index["fts"]} = DOMAIN indexed
    BY <2>2 DEF Ids
  <2> QED
    BY <2>1, <2>2, <2>3, TextHits DEF Ids, Text!Range
<1>3. Text!PartitionsHoldTheirType
  <2> SUFFICES ASSUME NEW ty \in Routed, Text!Searchable(ty), ~Text!Rebuilding(ty)
               PROVE  {h[1] : h \in Text!Hits(ty)} = {d \in DOMAIN indexed : indexed[d].type = ty}
    BY DEF Text!PartitionsHoldTheirType, Text!Routed, Routed
  <2>1. Live /\ process.booted /\ index[ty] # None /\ TextMap # None
    BY DEF Text!Searchable, Live, TextMap
  <2>2. \A d \in DOMAIN indexed : TextMap[d] \in DOMAIN index[ty] <=> indexed[d].type = ty
    BY <2>1 DEF TextInv, Served, Sliced
  <2> DEFINE found == {x \in DOMAIN indexed : TextMap[x] \in DOMAIN index[ty]}
  <2>3. Text!Hits(ty) = {<<d, index[ty][TextMap[d]]>> : d \in found}
    BY <2>1, TextHits
  <2>4. found = {d \in DOMAIN indexed : indexed[d].type = ty}
    BY <2>2
  <2> HIDE DEF found
  <2>5. \A h \in Text!Hits(ty) : h[1] \in found
    BY <2>3
  <2>6. ASSUME NEW d \in found PROVE \E h \in Text!Hits(ty) : h[1] = d
    <3>1. <<d, index[ty][TextMap[d]]>> \in Text!Hits(ty)
      BY <2>3
    <3> QED
      BY <3>1
  <2> QED
    BY <2>4, <2>5, <2>6
<1>4. Text!FieldsAreCurrent
  <2> SUFFICES ASSUME process.at = "ready", ~torn, NEW ty \in Routed, Text!Searchable(ty),
                      ~(ty \in lapsed /\ stored[ty] = process.config[ty]),
                      NEW h \in Text!Hits(ty)
               PROVE  h[2] = Text!Extraction(indexed[h[1]], process.config[ty])
    BY DEF Text!FieldsAreCurrent, Text!Routed, Routed
  <2>1. Live /\ process.booted /\ index[ty] # None /\ TextMap # None
    BY DEF Text!Searchable, Live, TextMap
  <2>2. PICK d \in DOMAIN indexed : /\ TextMap[d] \in DOMAIN index[ty]
                                    /\ h = <<d, index[ty][TextMap[d]]>>
    BY <2>1, TextHits
  <2>3. Finished(ty) /\ indexed[d].type = ty
    BY <2>1, <2>2 DEF TextInv, Served, Sliced, Finished
  <2>4. ty \notin lapsed
    BY <2>1, <2>3 DEF TextInv, Ensured, Settled
  <2> QED
    BY <2>1, <2>2, <2>3, <2>4 DEF TextInv, Ensured, AsConfigured, Filled
<1> QED
  BY <1>1, <1>2, <1>3, <1>4 DEF Text!IndexesFollowRows

\* The shared index finds each row by its current text and nothing else, a partition the
\* rows of its type and, once a search is answered, by the fields in force (sqlite-search.ts,
\* local.ts doFtsEnsure): for any documents, types, configurations, writes, crashes between
\* any two statements, cascades, and writers that recreate the table amid a sweep.  Exempted
\* are fields changed and changed back unnoticed (`lapsed`) and, from the text of the
\* entries but not from the rows a partition finds, a table whose map the sweep dropped
\* when it had rows again (`torn`).
THEOREM TextTheorem ==
  ASSUME Text!KindsAssumption PROVE Text!Spec => []Text!IndexesFollowRows
<1>1. Text!Init => TextInv /\ Sweeping
  BY TextInit, SweepInit
<1>2. TextInv /\ Sweeping /\ [Text!Next]_Text!vars => TextInv' /\ Sweeping'
  <2>1. Sweeping /\ UNCHANGED Text!vars => Sweeping'
    BY DEF Text!vars, Sweeping
  <2> QED
    BY <2>1, TextStep, SweepStep
<1>3. TextInv => Text!IndexesFollowRows
  BY TextMeans
<1> QED
  BY <1>1, <1>2, <1>3, PTL DEF Text!Spec

-----------------------------------------------------------------------------
(* What the editor writes.                                                  *)

Forms == [target : {None} \cup Names, committed : {None} \cup Names,
          check : {"none", "pending", "exists", "missing"}, stale : BOOLEAN]

\* What a request read is still so.
StillSo(r) ==
  CASE r.kind = "update"    -> r.seen = node[r.uid]
    [] r.kind = "edge+node" -> r.seen = node[r.uid]
    [] r.kind = "cascade"   -> r.seen = {e \in edges : r.uid \in {e[1], e[2]}}
    [] r.kind = "doc"       -> r.seen = (doc = r.edge)

\* Requests and the form's check that nothing outdated say what is so.
UpToDate ==
  /\ \A user \in Users : request[user] # None /\ ~request[user].stale => StillSo(request[user])
  /\ form.check # "none" => form.committed # None
  /\ form.check = "exists" /\ ~form.stale => node[Strip[form.committed]] # None

EditorInv == Editor!TypeOK /\ Editor!NoDanglingEdge /\ Editor!PageLeftWhenGone /\ UpToDate

\* A request, by its kind.
LEMMA RequestsAre ==
  ASSUME NEW r, Editor!IsRequest(r)
  PROVE  /\ r.stale \in BOOLEAN /\ r.kind \in {"update", "edge+node", "cascade", "doc"}
         /\ r.kind # "doc" => r.uid \in Uids
         /\ r.kind \in {"update", "edge+node"} => r.seen \in {None} \cup NodeTypes
         /\ r.kind = "edge+node" => r.edge \in Uids \X Uids
         /\ r.kind = "cascade" => r.seen \in SUBSET (Names \X Names)
         /\ r.kind = "doc" => r.seen \in BOOLEAN /\ r.edge \in NodeTypes
BY DEF Editor!IsRequest

\* A request is one whatever happens to what it read, and no request is none.
LEMMA StaleIs ==
  ASSUME Editor!EditorAssumption, NEW r, Editor!IsRequest(r)
  PROVE  /\ Editor!IsRequest([r EXCEPT !.stale = TRUE])
         /\ [r EXCEPT !.stale = TRUE] # None /\ r # None
         /\ [r EXCEPT !.stale = TRUE].stale = TRUE
<1> DEFINE s == [r EXCEPT !.stale = TRUE]
<1>1. s.stale = TRUE /\ Editor!IsRequest(s)
  BY DEF Editor!IsRequest
<1>2. \A x : x = None => ~Editor!IsRequest(x)
  BY DEF Editor!EditorAssumption
<1> QED
  BY <1>1, <1>2

\* A write leaves the writer without a request and the others with an outdated one.
LEMMA OutdateIs ==
  ASSUME Editor!EditorAssumption, Editor!TypeOK, NEW user \in Users
  PROVE  LET q == Editor!Outdate(user)
         IN  /\ DOMAIN q = Users /\ q[user] = None
             /\ \A other \in Users :
                  /\ q[other] = None \/ (Editor!IsRequest(q[other]) /\ q[other].stale)
                  /\ other # user => (q[other] = None <=> request[other] = None)
<1> DEFINE q == Editor!Outdate(user)
<1>1. DOMAIN q = Users /\ q[user] = None
  BY DEF Editor!Outdate
<1>2. ASSUME NEW other \in Users, other # user
      PROVE  q[other] = IF request[other] = None THEN None ELSE [request[other] EXCEPT !.stale = TRUE]
  BY <1>2 DEF Editor!Outdate
<1>3. ASSUME NEW other \in Users, other # user
      PROVE  /\ q[other] = None \/ (Editor!IsRequest(q[other]) /\ q[other].stale)
             /\ q[other] = None <=> request[other] = None
  <2>1. CASE request[other] = None
    BY <1>2, <1>3, <2>1
  <2>2. CASE request[other] # None
    <3>1. Editor!IsRequest(request[other])
      BY <2>2 DEF Editor!TypeOK
    <3> QED
      BY ZenonT(30), <1>2, <1>3, <2>2, <3>1, StaleIs
  <2> QED
    BY <2>1, <2>2
<1> QED
  BY <1>1, <1>3

\* A write keeps the invariant if it keeps the types and what is not its own.
LEMMA WriteKeeps ==
  ASSUME Editor!EditorAssumption, EditorInv, NEW user \in Users,
         node' \in [Uids -> {None} \cup NodeTypes], edges' \subseteq Names \X Names,
         doc' \in {None} \cup NodeTypes, made' \in 0..MaxRequests, misled' = {},
         Editor!NoDanglingEdge', request' = Editor!Outdate(user),
         form' = [form EXCEPT !.stale = TRUE] \/ form' = Editor!BlankForm
  PROVE  EditorInv'
<1>1. /\ DOMAIN request' = Users /\ request'[user] = None
      /\ \A other \in Users :
           request'[other] = None \/ (Editor!IsRequest(request'[other]) /\ request'[other].stale)
  BY OutdateIs DEF EditorInv
<1>2. /\ form' \in Forms
      /\ form'.check # "none" => form'.committed # None
      /\ form'.check = "exists" => form'.stale
  <2>1. form \in Forms /\ (form.check # "none" => form.committed # None)
    BY DEF EditorInv, Editor!TypeOK, UpToDate, Forms
  <2>2. CASE form' = [form EXCEPT !.stale = TRUE]
    BY <2>1, <2>2 DEF Forms
  <2>3. CASE form' = Editor!BlankForm
    BY <2>3 DEF Editor!BlankForm, Forms
  <2> QED
    BY <2>2, <2>3
<1>3. UpToDate'
  BY <1>1, <1>2 DEF UpToDate
<1>4. Editor!TypeOK'
  BY <1>1, <1>2 DEF Editor!TypeOK, Editor!IsRequest, Forms
<1> QED
  BY <1>3, <1>4 DEF EditorInv, Editor!PageLeftWhenGone

\* So does one that begins or ends a request and leaves the rest.
LEMMA RequestKeeps ==
  ASSUME Editor!EditorAssumption, EditorInv, NEW user \in Users, NEW r,
         r = None \/ (Editor!IsRequest(r) /\ StillSo(r)),
         request' = [request EXCEPT ![user] = r], made' \in 0..MaxRequests,
         UNCHANGED <<node, edges, doc, form, misled, stirred, loose>>
  PROVE  EditorInv'
<1>1. /\ DOMAIN request' = Users
      /\ \A other \in Users : request'[other] = IF other = user THEN r ELSE request[other]
  BY DEF EditorInv, Editor!TypeOK
<1>2. \A q : StillSo(q)' <=> StillSo(q)
  BY DEF StillSo
<1>3. UpToDate'
  BY <1>1, <1>2 DEF EditorInv, UpToDate
<1>4. Editor!TypeOK'
  BY <1>1 DEF EditorInv, Editor!TypeOK, Editor!IsRequest
<1> QED
  BY <1>3, <1>4 DEF EditorInv, Editor!NoDanglingEdge, Editor!PageLeftWhenGone, Editor!Exists

\* Procedures of one step leave no edge without its ends unless they are loose or stirred.
LEMMA PlainWrites ==
  ASSUME Editor!EditorAssumption, EditorInv, NEW user \in Users,
         \/ Editor!createNode(user)
         \/ Editor!deleteEdge(user)
         \/ \E u \in Uids : Editor!deleteNode(user, u)
         \/ \E u \in Uids : Editor!createEdge(user, u)
  PROVE  EditorInv'
<1>1. /\ node \in [Uids -> {None} \cup NodeTypes] /\ edges \subseteq Names \X Names
      /\ doc \in {None} \cup NodeTypes /\ made \in 0..MaxRequests /\ misled = {}
      /\ form \in Forms
      /\ ~stirred /\ ~loose => \A e \in edges : Editor!Exists(e[1]) /\ Editor!Exists(e[2])
  BY DEF EditorInv, Editor!TypeOK, Editor!PageLeftWhenGone, Editor!NoDanglingEdge, Forms
<1>2. /\ Uids \subseteq Names /\ Strip \in [Names -> Uids] /\ None \notin NodeTypes
      /\ None \notin Names /\ MaxRequests \in Nat
  BY DEF Editor!EditorAssumption
<1>3. ASSUME Editor!Begins(user) PROVE made' \in 0..MaxRequests
  BY <1>1, <1>2, <1>3 DEF Editor!Begins
<1>4. CASE Editor!createNode(user)
  <2>1. PICK u \in Uids, type \in NodeTypes : node' = [node EXCEPT ![u] = type]
    BY <1>4 DEF Editor!createNode
  <2>2. node' \in [Uids -> {None} \cup NodeTypes] /\ \A name : Editor!Exists(name) => Editor!Exists(name)'
    BY <1>1, <1>2, <2>1 DEF Editor!Exists
  <2>3. Editor!NoDanglingEdge'
    BY <1>1, <1>4, <2>2 DEF Editor!createNode, Editor!NoDanglingEdge
  <2> QED
    BY <1>1, <1>3, <1>4, <2>2, <2>3, WriteKeeps DEF Editor!createNode, Editor!Wrote
<1>5. CASE Editor!deleteEdge(user)
  <2>1. edges' \subseteq edges /\ UNCHANGED <<node, doc, misled, stirred, loose>>
    BY <1>5 DEF Editor!deleteEdge
  <2>2. Editor!NoDanglingEdge'
    BY <1>1, <2>1 DEF Editor!NoDanglingEdge, Editor!Exists
  <2> QED
    BY <1>1, <1>3, <1>5, <2>1, <2>2, WriteKeeps DEF Editor!deleteEdge, Editor!Wrote
<1>6. ASSUME NEW u \in Uids, Editor!deleteNode(user, u) PROVE EditorInv'
  <2>1. /\ node' = [node EXCEPT ![u] = None] /\ UNCHANGED <<edges, doc, misled, stirred>>
        /\ loose' = (loose \/ \E e \in edges : u \in {e[1], e[2]})
    BY <1>6 DEF Editor!deleteNode
  <2>2. node' \in [Uids -> {None} \cup NodeTypes] /\ \A name : name # u /\ Editor!Exists(name) => Editor!Exists(name)'
    BY <1>1, <2>1 DEF Editor!Exists
  <2>3. Editor!NoDanglingEdge'
    BY <1>1, <2>1, <2>2 DEF Editor!NoDanglingEdge
  <2> QED
    BY <1>1, <1>3, <1>6, <2>1, <2>2, <2>3, WriteKeeps DEF Editor!deleteNode, Editor!Wrote
<1>7. ASSUME NEW u \in Uids, Editor!createEdge(user, u) PROVE EditorInv'
  <2>1. /\ Editor!Begins(user) /\ Editor!CanSubmit
        /\ edges' = edges \cup {<<u, form.target>>}
        /\ loose' = (loose \/ (~Editor!Checked /\ form.check # "missing"))
        /\ stirred' = (stirred \/ form.stale \/ ~Editor!Exists(u))
        /\ request' = Editor!Outdate(user) /\ form' = Editor!BlankForm
        /\ UNCHANGED <<node, doc, misled>>
    BY <1>7 DEF Editor!createEdge
  <2>2. form.target \in Names /\ form.check # "missing"
    BY <1>1, <2>1 DEF Editor!CanSubmit, Forms
  <2>3. ASSUME ~stirred', ~loose' PROVE Editor!Exists(u) /\ Editor!Exists(form.target)
    <3>1. Editor!Checked /\ ~form.stale /\ Editor!Exists(u)
      BY <2>1, <2>2, <2>3
    <3>2. node[Strip[form.committed]] # None
      BY <3>1 DEF EditorInv, UpToDate, Editor!Checked
    <3>3. form.committed = form.target /\ Strip[form.target] = form.target
      BY <3>1 DEF Editor!Checked
    <3>4. Strip[form.target] \in Uids
      BY <1>2, <2>2
    <3> QED
      BY <3>1, <3>2, <3>3, <3>4 DEF Editor!Exists
  <2>4. Editor!NoDanglingEdge'
    <3> SUFFICES ASSUME ~stirred', ~loose', NEW e \in edges' PROVE Editor!Exists(e[1])' /\ Editor!Exists(e[2])'
      BY DEF Editor!NoDanglingEdge
    <3>1. \A name : Editor!Exists(name)' <=> Editor!Exists(name)
      BY <2>1 DEF Editor!Exists
    <3>2. ~stirred /\ ~loose
      BY <2>1
    <3> QED
      BY <1>1, <2>1, <2>3, <3>1, <3>2
  <2>5. edges' \subseteq Names \X Names
    BY <1>1, <1>2, <2>1, <2>2
  <2> QED
    BY <1>1, <1>3, <2>1, <2>4, <2>5, WriteKeeps
<1> QED
  BY <1>4, <1>5, <1>6, <1>7

\* Nor do those that look before they write.
LEMMA LookedWrites ==
  ASSUME Editor!EditorAssumption, EditorInv, NEW user \in Users,
         \/ Editor!updateNode(user)
         \/ Editor!createEdgeWithNode(user)
         \/ Editor!deleteNodeCascade(user)
         \/ Editor!writeCollectionDoc(user)
  PROVE  EditorInv'
<1>0. PICK r : r = request[user]
  OBVIOUS
<1>1. /\ node \in [Uids -> {None} \cup NodeTypes] /\ edges \subseteq Names \X Names
      /\ doc \in {None} \cup NodeTypes /\ made \in 0..MaxRequests /\ misled = {}
      /\ ~stirred /\ ~loose => \A e \in edges : Editor!Exists(e[1]) /\ Editor!Exists(e[2])
      /\ (r # None => Editor!IsRequest(r)) /\ (r # None /\ ~r.stale => StillSo(r))
  BY <1>0 DEF EditorInv, Editor!TypeOK, Editor!PageLeftWhenGone, Editor!NoDanglingEdge, UpToDate
<1>2. /\ Uids \subseteq Names /\ None \notin NodeTypes /\ MaxRequests \in Nat
  BY DEF Editor!EditorAssumption
<1>3. r # None
  BY <1>0 DEF Editor!updateNode, Editor!createEdgeWithNode, Editor!deleteNodeCascade,
         Editor!writeCollectionDoc, Editor!Under
<1>4. ASSUME Editor!Rejected(user), UNCHANGED <<node, edges, doc, misled, stirred, loose, made>> PROVE EditorInv'
  BY <1>1, <1>4, RequestKeeps DEF Editor!Rejected
<1>5. ASSUME Editor!Commits(user)
      PROVE  /\ request' = Editor!Outdate(user) /\ form' = [form EXCEPT !.stale = TRUE]
             /\ stirred' = (stirred \/ r.stale) /\ made' = made
  BY <1>0, <1>5 DEF Editor!Commits, Editor!Wrote
<1>6. CASE Editor!updateNode(user)
  <2>1. r.kind = "update" /\ UNCHANGED <<edges, doc, misled, loose>>
    BY <1>0, <1>6 DEF Editor!updateNode, Editor!Under
  <2>2. r.uid \in Uids /\ r.seen \in {None} \cup NodeTypes
    BY <1>1, <1>3, <2>1, RequestsAre
  <2>3. CASE r.seen = None
    BY <1>0, <1>4, <1>6, <2>1, <2>3 DEF Editor!updateNode
  <2>4. CASE r.seen # None
    <3>1. node' = [node EXCEPT ![r.uid] = r.seen] /\ Editor!Commits(user)
      BY <1>0, <1>6, <2>4 DEF Editor!updateNode, Editor!UpdatedType
    <3>2. node' \in [Uids -> {None} \cup NodeTypes] /\ \A name : Editor!Exists(name) => Editor!Exists(name)'
      BY <1>1, <2>2, <2>4, <3>1 DEF Editor!Exists
    <3>3. Editor!NoDanglingEdge'
      BY <1>1, <1>5, <2>1, <3>1, <3>2 DEF Editor!NoDanglingEdge
    <3> QED
      BY <1>1, <1>5, <2>1, <3>1, <3>2, <3>3, WriteKeeps
  <2> QED
    BY <2>3, <2>4
<1>7. CASE Editor!createEdgeWithNode(user)
  <2>1. r.kind = "edge+node" /\ UNCHANGED <<doc, misled>>
    BY <1>0, <1>7 DEF Editor!createEdgeWithNode, Editor!Under
  <2>2. r.uid \in Uids /\ r.seen \in {None} \cup NodeTypes /\ r.edge \in Uids \X Uids
    BY <1>1, <1>3, <2>1, RequestsAre
  <2>3. CASE Editor!Conflict(r)
    BY <1>0, <1>4, <1>7, <2>1, <2>3 DEF Editor!createEdgeWithNode
  <2>4. CASE ~Editor!Conflict(r)
    <3>1. PICK type \in NodeTypes : node' = IF r.seen = None THEN [node EXCEPT ![r.uid] = type] ELSE node
      BY <1>0, <1>7, <2>4 DEF Editor!createEdgeWithNode, Editor!NodeIsMissing
    <3>2. /\ edges' = edges \cup {r.edge} /\ Editor!Commits(user)
          /\ loose' = (loose \/ \E end \in {r.edge[1], r.edge[2]} \ {r.uid} : ~Editor!Exists(end))
      BY <1>0, <1>7, <2>4 DEF Editor!createEdgeWithNode
    <3>3. node' \in [Uids -> {None} \cup NodeTypes] /\ \A name : Editor!Exists(name) => Editor!Exists(name)'
      BY <1>1, <1>2, <2>2, <3>1 DEF Editor!Exists
    <3>4. ASSUME ~r.stale, ~loose' PROVE Editor!Exists(r.edge[1])' /\ Editor!Exists(r.edge[2])'
      <4>1. r.seen = node[r.uid]
        BY <1>1, <1>3, <2>1, <3>4 DEF StillSo
      <4>2. node'[r.uid] # None
        BY <1>1, <1>2, <2>2, <3>1, <4>1
      <4>3. ASSUME NEW end \in {r.edge[1], r.edge[2]} PROVE Editor!Exists(end)'
        <5>1. CASE end = r.uid
          BY <2>2, <4>2, <5>1 DEF Editor!Exists
        <5>2. CASE end # r.uid
          BY <3>2, <3>3, <3>4, <4>3, <5>2
        <5> QED
          BY <5>1, <5>2
      <4> QED
        BY <4>3
    <3>5. Editor!NoDanglingEdge'
      <4> SUFFICES ASSUME ~stirred', ~loose', NEW e \in edges' PROVE Editor!Exists(e[1])' /\ Editor!Exists(e[2])'
        BY DEF Editor!NoDanglingEdge
      <4>1. ~stirred /\ ~r.stale /\ ~loose
        BY <1>5, <2>1, <3>2
      <4> QED
        BY <1>1, <3>2, <3>3, <3>4, <4>1
    <3>6. edges' \subseteq Names \X Names
      BY <1>1, <1>2, <2>2, <3>2
    <3> QED
      BY <1>1, <1>5, <2>1, <3>2, <3>3, <3>5, <3>6, WriteKeeps
  <2> QED
    BY <2>3, <2>4
<1>8. CASE Editor!deleteNodeCascade(user)
  <2>1. PICK deleted \in SUBSET r.seen, nodeDeleted \in BOOLEAN :
          /\ edges' = edges \ deleted
          /\ node' = IF nodeDeleted THEN [node EXCEPT ![r.uid] = None] ELSE node
          /\ loose' = (loose \/ (nodeDeleted /\ deleted # r.seen))
          /\ misled' = IF nodeDeleted /\ node'[r.uid] # None THEN misled \cup {r.uid} ELSE misled
    BY <1>0, <1>8 DEF Editor!deleteNodeCascade, Editor!Success
  <2>2. r.kind = "cascade" /\ Editor!Commits(user) /\ UNCHANGED doc
    BY <1>0, <1>8 DEF Editor!deleteNodeCascade, Editor!Under
  <2>3. r.uid \in Uids
    BY <1>1, <1>3, <2>2, RequestsAre
  <2>4. /\ node' \in [Uids -> {None} \cup NodeTypes] /\ (nodeDeleted => node'[r.uid] = None)
        /\ \A name : (nodeDeleted => name # r.uid) /\ Editor!Exists(name) => Editor!Exists(name)'
    BY <1>1, <2>1, <2>3 DEF Editor!Exists
  <2>5. Editor!NoDanglingEdge'
    <3> SUFFICES ASSUME ~stirred', ~loose', NEW e \in edges' PROVE Editor!Exists(e[1])' /\ Editor!Exists(e[2])'
      BY DEF Editor!NoDanglingEdge
    <3>1. ~stirred /\ ~r.stale /\ ~loose /\ (nodeDeleted => deleted = r.seen)
      BY <1>5, <2>1, <2>2
    <3>2. r.seen = {x \in edges : r.uid \in {x[1], x[2]}}
      BY <1>1, <1>3, <2>2, <3>1 DEF StillSo
    <3>3. e \in edges /\ (nodeDeleted => e[1] # r.uid /\ e[2] # r.uid)
      BY <2>1, <3>1, <3>2
    <3> QED
      BY <1>1, <2>4, <3>1, <3>3
  <2>6. edges' \subseteq Names \X Names /\ misled' = {}
    BY <1>1, <2>1, <2>4
  <2> QED
    BY <1>1, <1>5, <2>2, <2>4, <2>5, <2>6, WriteKeeps
<1>9. CASE Editor!writeCollectionDoc(user)
  <2>1. r.kind = "doc" /\ UNCHANGED <<node, edges, misled, loose>>
    BY <1>0, <1>9 DEF Editor!writeCollectionDoc, Editor!Under
  <2>2. r.edge \in NodeTypes
    BY <1>1, <1>3, <2>1, RequestsAre
  <2>3. CASE ~Editor!Finds(r)
    BY <1>0, <1>4, <1>9, <2>1, <2>3 DEF Editor!writeCollectionDoc
  <2>4. CASE Editor!Finds(r)
    <3>1. doc' \in {r.edge, None} /\ Editor!Commits(user)
      BY <1>0, <1>9, <2>4 DEF Editor!writeCollectionDoc
    <3>2. Editor!NoDanglingEdge'
      BY <1>1, <1>5, <2>1, <3>1 DEF Editor!NoDanglingEdge, Editor!Exists
    <3> QED
      BY <1>1, <1>5, <2>1, <2>2, <3>1, <3>2, WriteKeeps
  <2> QED
    BY <2>3, <2>4
<1> QED
  BY <1>6, <1>7, <1>8, <1>9

\* What a request reads is so when it is read.
LEMMA ReadsKeep ==
  ASSUME Editor!EditorAssumption, EditorInv, NEW user \in Users,
         \/ Editor!updateNodeReads(user)
         \/ Editor!createEdgeWithNodeReads(user)
         \/ \E u \in Uids : Editor!deleteNodeCascadeReads(user, u)
         \/ \E type \in NodeTypes : Editor!ReadDoc(user, type)
  PROVE  EditorInv'
<1>1. /\ node \in [Uids -> {None} \cup NodeTypes] /\ edges \subseteq Names \X Names
      /\ made \in 0..MaxRequests /\ MaxRequests \in Nat
  BY DEF EditorInv, Editor!TypeOK, Editor!EditorAssumption
<1>2. ASSUME NEW r, Editor!Reads(user, r), Editor!IsRequest(r), StillSo(r) PROVE EditorInv'
  <2>1. /\ request' = [request EXCEPT ![user] = r] /\ made' \in 0..MaxRequests
        /\ UNCHANGED <<node, edges, doc, form, misled, stirred, loose>>
    BY <1>1, <1>2 DEF Editor!Reads, Editor!Begins
  <2> QED
    BY <1>2, <2>1, RequestKeeps
<1>3. CASE Editor!updateNodeReads(user)
  <2>1. PICK u \in Uids : Editor!Reads(user, Editor!Request("update", u, node[u], None))
    BY <1>3 DEF Editor!updateNodeReads
  <2> DEFINE r == Editor!Request("update", u, node[u], None)
  <2>2. Editor!IsRequest(r) /\ StillSo(r)
    BY <1>1 DEF Editor!Request, Editor!IsRequest, StillSo
  <2> QED
    BY <1>2, <2>1, <2>2
<1>4. CASE Editor!createEdgeWithNodeReads(user)
  <2>1. PICK u \in Uids, edge \in Uids \X Uids :
          Editor!Reads(user, Editor!Request("edge+node", u, node[u], edge))
    BY <1>4 DEF Editor!createEdgeWithNodeReads
  <2> DEFINE r == Editor!Request("edge+node", u, node[u], edge)
  <2>2. Editor!IsRequest(r) /\ StillSo(r)
    BY <1>1, <2>1 DEF Editor!Request, Editor!IsRequest, StillSo
  <2> QED
    BY <1>2, <2>1, <2>2
<1>5. ASSUME NEW u \in Uids, Editor!deleteNodeCascadeReads(user, u) PROVE EditorInv'
  <2> DEFINE r == Editor!Request("cascade", u, {e \in edges : u \in {e[1], e[2]}}, None)
  <2>1. Editor!Reads(user, r)
    BY <1>5 DEF Editor!deleteNodeCascadeReads
  <2>2. Editor!IsRequest(r) /\ StillSo(r)
    BY <1>1 DEF Editor!Request, Editor!IsRequest, StillSo
  <2> QED
    BY <1>2, <2>1, <2>2
<1>6. ASSUME NEW type \in NodeTypes, Editor!ReadDoc(user, type) PROVE EditorInv'
  <2> DEFINE r == Editor!Request("doc", None, doc = type, type)
  <2>1. Editor!Reads(user, r)
    BY <1>6 DEF Editor!ReadDoc
  <2>2. Editor!IsRequest(r) /\ StillSo(r)
    BY <1>1 DEF Editor!Request, Editor!IsRequest, StillSo
  <2> QED
    BY <1>2, <2>1, <2>2
<1> QED
  BY <1>3, <1>4, <1>5, <1>6

\* The form's check is of the target it was started for.
LEMMA FormKeeps ==
  ASSUME Editor!EditorAssumption, EditorInv,
         Editor!Type \/ Editor!Commit \/ Editor!CheckAnswers \/ Editor!ChangeMode
  PROVE  EditorInv'
<1>1. UNCHANGED <<node, edges, doc, request, misled, stirred, loose, made>>
  BY DEF Editor!Type, Editor!Commit, Editor!CheckAnswers, Editor!ChangeMode, Editor!FormStep
<1>2. /\ form \in Forms /\ (form.check # "none" => form.committed # None)
      /\ (form.check = "exists" /\ ~form.stale => node[Strip[form.committed]] # None)
  BY DEF EditorInv, Editor!TypeOK, UpToDate, Forms
<1>3. /\ form' \in Forms /\ (form'.check # "none" => form'.committed # None)
      /\ (form'.check = "exists" /\ ~form'.stale => node[Strip[form'.committed]] # None)
  <2>1. CASE Editor!Type
    BY <1>2, <2>1 DEF Editor!Type, Forms
  <2>2. CASE Editor!Commit
    BY <1>2, <2>2 DEF Editor!Commit, Forms
  <2>3. CASE Editor!CheckAnswers
    BY <1>2, <2>3 DEF Editor!CheckAnswers, Forms
  <2>4. CASE Editor!ChangeMode
    BY <1>2, <2>4 DEF Editor!ChangeMode, Editor!BlankForm, Forms
  <2> QED
    BY <2>1, <2>2, <2>3, <2>4
<1>4. \A q : StillSo(q)' <=> StillSo(q)
  BY <1>1 DEF StillSo
<1>5. UpToDate'
  BY <1>1, <1>3, <1>4 DEF EditorInv, UpToDate
<1>6. Editor!TypeOK'
  BY <1>1, <1>3 DEF EditorInv, Editor!TypeOK, Editor!IsRequest, Forms
<1> QED
  BY <1>1, <1>5, <1>6 DEF EditorInv, Editor!NoDanglingEdge, Editor!PageLeftWhenGone, Editor!Exists

\* A step is a write, a read or one of the form's.
LEMMA EditorStep ==
  ASSUME Editor!EditorAssumption, EditorInv, [Editor!Next]_(Editor!vars) PROVE EditorInv'
<1>1. CASE UNCHANGED Editor!vars
  BY ZenonT(30), <1>1 DEF EditorInv, UpToDate, StillSo, Editor!vars, Editor!TypeOK, Editor!IsRequest,
              Editor!NoDanglingEdge, Editor!PageLeftWhenGone, Editor!Exists
<1>2. CASE Editor!Next
  BY <1>2, PlainWrites, LookedWrites, ReadsKeep, FormKeeps DEF Editor!Next
<1> QED
  BY <1>1, <1>2

\* At first there is no edge, no request and no check.
LEMMA EditorInit == ASSUME Editor!EditorAssumption, Editor!Init PROVE EditorInv
<1>1. /\ node \in [Uids -> {None} \cup NodeTypes] /\ edges = {} /\ doc \in {None} \cup NodeTypes
      /\ request = [user \in Users |-> None] /\ form = Editor!BlankForm /\ misled = {} /\ made = 0
      /\ MaxRequests \in Nat
  BY DEF Editor!Init, Editor!EditorAssumption
<1>2. form \in Forms /\ form.check = "none"
  BY <1>1 DEF Editor!BlankForm, Forms
<1>3. Editor!TypeOK /\ UpToDate
  BY <1>1, <1>2 DEF Editor!TypeOK, Forms, UpToDate
<1> QED
  BY <1>1, <1>3 DEF EditorInv, Editor!NoDanglingEdge, Editor!PageLeftWhenGone

\* Who writes ends its own request and nobody else's.
LEMMA OthersWait ==
  ASSUME Editor!EditorAssumption, EditorInv, NEW user \in Users, request[user] # None,
         request'[user] = None, Editor!Next
  PROVE  \/ Editor!updateNode(user) \/ Editor!createEdgeWithNode(user)
         \/ Editor!deleteNodeCascade(user) \/ Editor!writeCollectionDoc(user)
<1>1. DOMAIN request = Users
  BY DEF EditorInv, Editor!TypeOK
<1>2. ASSUME NEW other \in Users, Editor!Begins(other), request' = Editor!Outdate(other) PROVE FALSE
  BY <1>2, OutdateIs DEF EditorInv, Editor!Begins
<1>3. ASSUME NEW other \in Users, NEW what, Editor!Reads(other, what) PROVE FALSE
  BY <1>1, <1>3 DEF Editor!Reads, Editor!Begins
<1>4. ASSUME NEW other \in Users, Editor!Commits(other) \/ Editor!Rejected(other) PROVE other = user
  BY <1>1, <1>4, OutdateIs DEF EditorInv, Editor!Commits, Editor!Wrote, Editor!Rejected
<1>5. ~Editor!Type /\ ~Editor!Commit /\ ~Editor!CheckAnswers /\ ~Editor!ChangeMode
  BY DEF Editor!Type, Editor!Commit, Editor!CheckAnswers, Editor!ChangeMode, Editor!FormStep
<1>6. ASSUME NEW other \in Users
      PROVE  /\ ~Editor!createNode(other) /\ ~Editor!deleteEdge(other)
             /\ \A u \in Uids : ~Editor!deleteNode(other, u) /\ ~Editor!createEdge(other, u)
  BY <1>2 DEF Editor!createNode, Editor!deleteEdge, Editor!deleteNode, Editor!createEdge, Editor!Wrote
<1>7. ASSUME NEW other \in Users
      PROVE  /\ ~Editor!updateNodeReads(other) /\ ~Editor!createEdgeWithNodeReads(other)
             /\ \A u \in Uids : ~Editor!deleteNodeCascadeReads(other, u)
             /\ \A type \in NodeTypes : ~Editor!ReadDoc(other, type)
  BY <1>3 DEF Editor!updateNodeReads, Editor!createEdgeWithNodeReads,
              Editor!deleteNodeCascadeReads, Editor!ReadDoc
<1>8. ASSUME NEW other \in Users,
             \/ Editor!updateNode(other) \/ Editor!createEdgeWithNode(other)
             \/ Editor!deleteNodeCascade(other) \/ Editor!writeCollectionDoc(other)
      PROVE  other = user
  BY <1>4, <1>8 DEF Editor!updateNode, Editor!createEdgeWithNode, Editor!deleteNodeCascade,
                    Editor!writeCollectionDoc
<1> QED
  BY <1>5, <1>6, <1>7, <1>8 DEF Editor!Next

\* What is written at the end of a request follows from what it read.
LEMMA EditorActions ==
  ASSUME Editor!EditorAssumption, EditorInv, [Editor!Next]_(Editor!vars), NEW user \in Users,
         request[user] # None, request'[user] = None
  PROVE  /\ Editor!Under(user, "doc") /\ doc' # doc => doc = request[user].edge \/ request[user].stale
         /\ Editor!Under(user, "update") /\ ~request[user].stale => node' = node
<1>1. \/ Editor!updateNode(user) \/ Editor!createEdgeWithNode(user)
      \/ Editor!deleteNodeCascade(user) \/ Editor!writeCollectionDoc(user)
  BY OthersWait DEF Editor!vars
<1>2. ~request[user].stale => StillSo(request[user])
  BY DEF EditorInv, UpToDate
<1>3. ASSUME Editor!Under(user, "doc"), doc' # doc, ~request[user].stale PROVE doc = request[user].edge
  <2>1. Editor!writeCollectionDoc(user)
    BY <1>1, <1>3 DEF Editor!Under, Editor!updateNode, Editor!createEdgeWithNode, Editor!deleteNodeCascade
  <2>2. request[user].seen
    BY <1>3, <2>1 DEF Editor!writeCollectionDoc, Editor!Finds
  <2>3. request[user].seen = (doc = request[user].edge)
    BY <1>2, <1>3 DEF StillSo, Editor!Under
  <2> QED
    BY <2>2, <2>3
<1>4. ASSUME Editor!Under(user, "update"), ~request[user].stale PROVE node' = node
  <2>1. Editor!updateNode(user)
    BY <1>1, <1>4 DEF Editor!Under, Editor!writeCollectionDoc, Editor!createEdgeWithNode, Editor!deleteNodeCascade
  <2>2. request[user].seen = node[request[user].uid]
    BY <1>2, <1>4 DEF StillSo, Editor!Under
  <2>3. node' = node \/ node' = [node EXCEPT ![request[user].uid] = node[request[user].uid]]
    BY <2>1, <2>2 DEF Editor!updateNode, Editor!UpdatedType
  <2>4. node \in [Uids -> {None} \cup NodeTypes]
    BY DEF EditorInv, Editor!TypeOK
  <2> QED
    BY <2>3, <2>4
<1> QED
  BY <1>3, <1>4

\* Edges keep both ends, a page is left when its node is gone, and neither another
\* partition's document nor a node's type changes under a request, but for writes
\* amid it (editor/server/trpc.ts, EdgeEditor, NodeDetail): for any users, nodes,
\* names, types and number of requests.
THEOREM EditorTheorem ==
  ASSUME Editor!EditorAssumption
  PROVE  Editor!Spec => /\ [](Editor!TypeOK /\ Editor!NoDanglingEdge /\ Editor!PageLeftWhenGone)
                        /\ Editor!PartitionsAreKept
                        /\ Editor!UpdatesKeepType
<1>1. Editor!Init => EditorInv
  BY EditorInit
<1>2. EditorInv /\ [Editor!Next]_(Editor!vars) => EditorInv'
  BY EditorStep
<1>3. EditorInv => Editor!TypeOK /\ Editor!NoDanglingEdge /\ Editor!PageLeftWhenGone
  BY DEF EditorInv
<1> DEFINE partitions ==
             \A user \in Users : Editor!Under(user, "doc") /\ doc' # doc /\ request'[user] = None /\ request[user] # None
               => doc = request[user].edge \/ request[user].stale
           types ==
             \A user \in Users : Editor!Under(user, "update") /\ request'[user] = None /\ ~request[user].stale => node' = node
<1>4. EditorInv /\ [Editor!Next]_(Editor!vars) => [partitions]_(Editor!vars) /\ [types]_(Editor!vars)
  BY EditorActions DEF Editor!Under
<1>5. Editor!PartitionsAreKept <=> [][partitions]_(Editor!vars)
  BY PTL DEF Editor!PartitionsAreKept
<1>6. Editor!UpdatesKeepType <=> [][types]_(Editor!vars)
  BY PTL DEF Editor!UpdatesKeepType
<1> QED
  BY <1>1, <1>2, <1>3, <1>4, <1>5, <1>6, PTL DEF Editor!Spec

-----------------------------------------------------------------------------
(* The parts side by side: each moves as its own specification says.        *)

\* A step of the run is a step of one part and leaves the others.
LEMMA PartsAreSpecs == MCSpec => Spec /\ Vector!Spec /\ Text!Spec /\ Editor!Spec
<1>1. MCInit => Init /\ Vector!Init /\ Text!Init /\ Editor!Init
  BY DEF MCInit
<1>2. [MCNext]_<<part, vars, vectorVars, textVars, editorVars>> =>
        /\ [Next]_vars /\ [Vector!Next]_(Vector!vars)
        /\ [Text!Next]_(Text!vars) /\ [Editor!Next]_(Editor!vars)
  BY DEF MCNext, vectorVars, textVars, editorVars, Vector!vars, Text!vars, Editor!vars
<1> QED
  BY <1>1, <1>2, PTL DEF MCSpec, Spec, Vector!Spec, Text!Spec, Editor!Spec

\* The blobs of a vector column and the shared text index with its partitions answer
\* with the rows there are, whatever crashed, was dropped or was configured anew.
THEOREM IndexesTheorem ==
  ASSUME Vector!NoneAssumption, Text!KindsAssumption
  PROVE  MCSpec => []IndexesFollowRows
<1>1. Vector!IndexesFollowRows /\ Text!IndexesFollowRows => IndexesFollowRows
  BY DEF IndexesFollowRows
<1> QED
  BY <1>1, PartsAreSpecs, ColumnTheorem, TextTheorem, PTL

\* What the run checks of the editor's writes.
THEOREM EditorWritesTheorem ==
  ASSUME Editor!EditorAssumption PROVE MCSpec => EditorWritesHold
<1>1. Editor!TypeOK /\ Editor!NoDanglingEdge /\ Editor!PageLeftWhenGone
        => (part = "editor" => Editor!TypeOK /\ Editor!NoDanglingEdge /\ Editor!PageLeftWhenGone)
  OBVIOUS
<1>2. Editor!Spec => [](Editor!TypeOK /\ Editor!NoDanglingEdge /\ Editor!PageLeftWhenGone)
  BY EditorTheorem, PTL
<1>3. Editor!Spec => Editor!PartitionsAreKept /\ Editor!UpdatesKeepType
  BY EditorTheorem
<1> QED
  BY <1>1, <1>2, <1>3, PartsAreSpecs, PTL DEF EditorWritesHold

=============================================================================
