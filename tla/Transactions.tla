---------------------------- MODULE Transactions ----------------------------
(***************************************************************************)
(* Interactive transactions on Firestore: transaction.ts over the           *)
(* transaction adapter.  A callback reads and writes in any order it likes; *)
(* a read that migrates a record also writes it back, inside the            *)
(* transaction.  Firestore buffers the writes, refuses a read that comes    *)
(* after a write, and runs the callback again when a document it read has   *)
(* changed at commit.                                                       *)
(***************************************************************************)
EXTENDS Naturals, Sequences, FiniteSetsExt

CONSTANTS
  Docs,         \* nodes and edges
  Txs,          \* transactions
  WritesBack,   \* TRUE iff migrationWriteBack is not 'off'
  MaxWrites,    \* bound: revisions of a document
  MaxAttempts   \* attempts Firestore makes

VARIABLES
  store,    \* store[d]: content, revision, and whether its stamp is behind
  tx,       \* tx[t]: the attempt under way
  updates   \* updates[d]: acknowledged updates of d

vars == <<store, tx, updates>>

Nowhere == [d \in {} |-> 0]
With(h, d, x) == [e \in DOMAIN h \cup {d} |-> IF e = d THEN x ELSE h[e]]

\* seen: what was read; held: the revisions Firestore will compare.
Fresh(n) == [phase |-> "running", attempt |-> n, seen |-> Nowhere, held |-> Nowhere,
             writes |-> <<>>, wrote |-> FALSE]
Idle == [Fresh(0) EXCEPT !.phase = "idle"]

-----------------------------------------------------------------------------

Begin(t) ==
  /\ tx[t].phase = "idle"
  /\ tx' = [tx EXCEPT ![t] = Fresh(1)]
  /\ UNCHANGED <<store, updates>>

\* Mutant: the record is fetched past the transaction.
SeenOutside(state, d) == [state EXCEPT !.seen = With(@, d, store[d].val)]

Seen(state, d) ==
  [state EXCEPT !.seen = With(@, d, store[d].val), !.held = With(@, d, store[d].rev)]

\* getNode, getEdge, findEdges, findNodes: Firestore's get, then migrateRecord,
\* then updateDoc({replaceData, v}) unless the write-back is off.
Read(t, d) ==
  /\ tx[t].phase = "running"
  /\ d \notin DOMAIN tx[t].seen
  /\ tx' = [tx EXCEPT ![t] =
       IF @.writes # <<>> THEN [@ EXCEPT !.phase = "refused"]
       ELSE IF store[d].behind /\ WritesBack
         THEN [Seen(@, d) EXCEPT !.writes =
                 <<[doc |-> d, val |-> store[d].val, migrates |-> TRUE]>>]
         ELSE Seen(@, d)]
  /\ UNCHANGED <<store, updates>>

\* edgeExists: the same get, and nothing is migrated.
Probe(t, d) ==
  /\ tx[t].phase = "running"
  /\ d \notin DOMAIN tx[t].seen
  /\ tx' = [tx EXCEPT ![t] =
       IF @.writes # <<>> THEN [@ EXCEPT !.phase = "refused"] ELSE Seen(@, d)]
  /\ UNCHANGED <<store, updates>>

\* updateNode, putEdge and the rest: buffered.  The callback derives the new
\* content from what it read.
Update(t, d) ==
  /\ tx[t].phase = "running"
  /\ d \in DOMAIN tx[t].seen
  /\ \A i \in DOMAIN tx[t].writes : tx[t].writes[i].doc = d => tx[t].writes[i].migrates
  /\ tx' = [tx EXCEPT ![t].wrote = TRUE,
                      ![t].writes = Append(@, [doc |-> d, val |-> tx[t].seen[d] + 1,
                                               migrates |-> FALSE])]
  /\ UNCHANGED <<store, updates>>

Unchanged(t) == \A d \in DOMAIN tx[t].held : store[d].rev = tx[t].held[d]

\* The positions of the writes to d.
To(writes, d) == { i \in DOMAIN writes : writes[i].doc = d }

\* What a commit leaves of d: the content of the last write to it, one revision
\* on.  A merge keeps what it does not name: an update leaves the stamp alone.
Applied(writes, d) ==
  IF To(writes, d) = {} THEN store[d]
  ELSE [val    |-> writes[Max(To(writes, d))].val,
        rev    |-> store[d].rev + 1,
        behind |-> store[d].behind /\ \A i \in To(writes, d) : ~writes[i].migrates]

Commit(t) ==
  /\ tx[t].phase = "running"
  /\ Unchanged(t)
  /\ \A d \in Docs : store[d].rev < MaxWrites
  /\ store' = [d \in Docs |-> Applied(tx[t].writes, d)]
  /\ updates' = [d \in Docs |-> updates[d] +
       IF \E i \in To(tx[t].writes, d) : ~tx[t].writes[i].migrates THEN 1 ELSE 0]
  /\ tx' = [tx EXCEPT ![t].phase = "committed"]

\* A document it read was written meanwhile: the callback starts again.
Conflict(t) ==
  /\ tx[t].phase = "running"
  /\ ~Unchanged(t)
  /\ tx' = [tx EXCEPT ![t] = IF @.attempt < MaxAttempts THEN Fresh(@.attempt + 1)
                             ELSE [@ EXCEPT !.phase = "exhausted"]]
  /\ UNCHANGED <<store, updates>>

\* A write outside any transaction.
Write(d) ==
  /\ store[d].rev < MaxWrites
  /\ store' = [store EXCEPT ![d].val = @ + 1, ![d].rev = @ + 1]
  /\ updates' = [updates EXCEPT ![d] = @ + 1]
  /\ UNCHANGED tx

Init ==
  /\ store \in [Docs -> { [val |-> 0, rev |-> 0, behind |-> b] : b \in BOOLEAN }]
  /\ tx = [t \in Txs |-> Idle]
  /\ updates = [d \in Docs |-> 0]

Next ==
  \/ \E t \in Txs :
       \/ Begin(t) \/ Commit(t) \/ Conflict(t)
       \/ \E d \in Docs : Read(t, d) \/ Probe(t, d) \/ Update(t, d)
  \/ \E d \in Docs : Write(d)

Spec == Init /\ [][Next]_vars

-----------------------------------------------------------------------------

\* A read-modify-write is never lost: each document's content counts every
\* acknowledged update of it, the inline write-backs in between included.
NoUpdateLost == \A d \in Docs : store[d].val = updates[d]

\* README.md:349, "the same read/write methods as the client": a callback that
\* has not written yet may read.
ReadersAreServed == \A t \in Txs : tx[t].phase = "refused" => tx[t].wrote

=============================================================================
