----------------------------- MODULE Documents -----------------------------
(***************************************************************************)
(* What a write does to a document, on the two families of stores: the rows *)
(* of SQLite (better-sqlite3, D1, Durable Objects), whose data is one JSON  *)
(* column edited by json_remove and json_set, and the documents of          *)
(* Firestore.  Both stores receive the same calls.                          *)
(*                                                                          *)
(* A JSON object is the function from the paths of its leaves to their      *)
(* values.  Whatever write-plan.ts takes whole (scalars, null, arrays,      *)
(* class instances) is one leaf, and so is an object without keys; the      *)
(* root's own emptiness is the empty function.  A patch is the same kind of *)
(* function, and a leaf of it may also be the deleteField() sentinel.       *)
(***************************************************************************)
EXTENDS Naturals, Sequences, SequencesExt

CONSTANTS
  Docs,      \* document ids
  Paths,     \* non-empty sequences of keys
  Values,    \* leaf values JSON can carry
  Special,   \* leaf values it cannot: Firestore's own types
  Empty,     \* the leaf of an object without keys
  Delete,    \* deleteField()
  Stamps     \* schema versions a write may stamp; 0 stands for none

ASSUME DocumentsAssumption ==
  /\ Paths \subseteq Seq(STRING) \ {<<>>}
  /\ \A p \in Paths : Len(p) > 1 => Front(p) \in Paths
  /\ 0 \in Stamps
  /\ Empty \notin Values \cup Special
  /\ Delete \notin Values \cup Special \cup {Empty}

VARIABLES
  sql,      \* sql[d]: the row of d, or Absent
  fire,     \* fire[d]: the Firestore document d, or Absent
  call,     \* the call on its way to the stores, or Idle
  crossed   \* documents the stores have been allowed to disagree on

vars == <<sql, fire, call, crossed>>

-----------------------------------------------------------------------------
(* Trees and patches.                                                       *)

Leaf == Values \cup Special \cup {Empty}

\* No leaf lies below another.
Spread(S) == \A p, q \in S : IsPrefix(p, q) => p = q

Shapes == { S \in SUBSET Paths : Spread(S) }
Trees  == UNION { [S -> Leaf] : S \in Shapes }

\* flattenPatch: one operation per leaf, whose paths are spread by construction.
Patches == UNION { [S -> Leaf \cup {Delete}] : S \in Shapes }

Nothing == [p \in {} |-> Empty]

\* assertJsonSafePayload: what a JSON column cannot carry.
Unsafe(patch) == \E p \in DOMAIN patch : patch[p] \in Special

\* Mutant: the walk stops at the first level.
TopSentinels(patch) == \E p \in DOMAIN patch : patch[p] = Delete /\ Len(p) = 1

\* assertNoDeleteSentinels.
Sentinels(patch) == \E p \in DOMAIN patch : patch[p] = Delete

\* A leaf that is no object stands where path p needs one.
Blocked(tree, p) ==
  \E q \in DOMAIN tree : IsStrictPrefix(q, p) /\ tree[q] # Empty

Crosses(tree, patch) == \E p \in DOMAIN patch : Blocked(tree, p)

\* Mutant: an operation replaces the top-level field it is in.
WithoutSiblings(tree, patch, ops) ==
  LET kept == { q \in DOMAIN tree : \A p \in ops : p[1] # q[1] }
      sets == { p \in ops : patch[p] # Delete }
  IN  [p \in kept \cup sets |-> IF p \in sets THEN patch[p] ELSE tree[p]]

\* The tree after the operations at the paths ops: what no operation touches
\* is kept, and an object that loses its last key stays as an empty one.
Edited(tree, patch, ops) ==
  LET sets   == { p \in ops : patch[p] # Delete }
      kept   == { q \in DOMAIN tree : /\ \A p \in ops  : ~IsPrefix(p, q)
                                      /\ \A p \in sets : ~IsPrefix(q, p) }
      gone   == { p \in ops \ sets : \E q \in DOMAIN tree : IsPrefix(p, q) }
      hollow == { Front(p) : p \in { p \in gone : Len(p) > 1 } }
      bare   == { h \in hollow : \A q \in kept \cup sets \cup (hollow \ {h}) : ~IsPrefix(h, q) }
  IN  [p \in kept \cup sets \cup bare |->
         IF p \in sets THEN patch[p] ELSE IF p \in bare THEN Empty ELSE tree[p]]

\* Mutant: the statement carries the sets and loses the removals.
JsonSetOnly(tree, patch) ==
  Edited(tree, patch, { p \in DOMAIN patch : patch[p] # Delete /\ ~Blocked(tree, p) })

\* compileDataOpsExpr, run by SQLite: json_remove, then json_set.  Neither
\* enters a value that is no object: such an operation changes nothing.
JsonEdit(tree, patch) ==
  Edited(tree, patch, { p \in DOMAIN patch : ~Blocked(tree, p) })

\* buildFirestoreUpdateArgs, run by Firestore: a set makes its ancestors maps.
FieldEdit(tree, patch) ==
  Edited(tree, patch, { p \in DOMAIN patch : patch[p] = Delete => ~Blocked(tree, p) })

\* set(..., {merge: true}): a merge of the leaves; a sentinel is a Symbol, which
\* Firestore's serializer drops.  The mask of a merge names an empty map like a
\* leaf, and so does it with `data` itself: the map that is there is replaced.
FieldMerge(tree, patch) ==
  IF DOMAIN patch = {} THEN Nothing
  ELSE Edited(tree, patch, { p \in DOMAIN patch : patch[p] # Delete })

\* A put of {} empties what Firestore has and leaves what SQLite has.
Empties(tree, patch) == DOMAIN patch = {} /\ tree # Nothing

-----------------------------------------------------------------------------
(* Records.                                                                 *)

Absent == [stored |-> FALSE]
Record(tree, v) == [stored |-> TRUE, data |-> tree, v |-> v]
Records == { Record(tree, v) : tree \in Trees, v \in Stamps }

Idle == [kind |-> "idle"]
Calls ==
  [kind : {"put", "update", "replace", "bulk"}, doc : Docs, patch : Patches, v : Stamps]
    \cup [kind : {"writeback"}, doc : Docs, patch : Trees, v : Stamps]
    \cup [kind : {"remove"}, doc : Docs]

\* compileSet in merge mode: the incoming stamp, or the one already there.
Merged(rec, tree, v) == Record(tree, IF v = 0 THEN rec.v ELSE v)

-----------------------------------------------------------------------------
(* One call of a client, and its effect on both stores.                     *)

\* Mutant: a put is sent as it is.
AcceptsSentinels(c) ==
  CASE c.kind = "remove" -> TRUE
    [] c.kind = "bulk"   -> DOMAIN c.patch # {}
    [] OTHER             -> TRUE

\* What the client refuses before any store is asked: sentinels in a put or a
\* replace; a bulk patch without a leaf.
Accepts(c) ==
  CASE c.kind \in {"put", "replace"} -> ~Sentinels(c.patch)
    [] c.kind = "bulk"               -> DOMAIN c.patch # {}
    [] OTHER                         -> TRUE

Send(c) ==
  /\ call = Idle
  /\ Accepts(c)
  /\ call' = c
  /\ UNCHANGED <<sql, fire, crossed>>

Land(d, row, doc, apart) ==
  /\ sql'  = [sql EXCEPT ![d] = row]
  /\ fire' = [fire EXCEPT ![d] = doc]
  /\ crossed' = IF apart THEN crossed \cup {d} ELSE crossed
  /\ call' = Idle

\* Mutant: a stored stamp is overwritten by an absent one.
PutDropsStamp(d, c) ==
  Land(d,
       IF Unsafe(c.patch) THEN sql[d]
       ELSE IF sql[d] = Absent THEN Record(c.patch, c.v)
       ELSE Record(JsonEdit(sql[d].data, c.patch), c.v),
       IF fire[d] = Absent THEN Record(FieldMerge(Nothing, c.patch), c.v)
       ELSE Merged(fire[d], FieldMerge(fire[d].data, c.patch), c.v),
       Unsafe(c.patch) \/
         (sql[d] # Absent /\ (Crosses(sql[d].data, c.patch) \/ Empties(sql[d].data, c.patch))))

\* putNode, putEdge: an upsert that merges into the document that is there.
Put(d, c) ==
  Land(d,
       IF Unsafe(c.patch) THEN sql[d]
       ELSE IF sql[d] = Absent THEN Record(c.patch, c.v)
       ELSE Merged(sql[d], JsonEdit(sql[d].data, c.patch), c.v),
       IF fire[d] = Absent THEN Record(FieldMerge(Nothing, c.patch), c.v)
       ELSE Merged(fire[d], FieldMerge(fire[d].data, c.patch), c.v),
       Unsafe(c.patch) \/
         (sql[d] # Absent /\ (Crosses(sql[d].data, c.patch) \/ Empties(sql[d].data, c.patch))))

\* Mutant: the row is merged into.
ReplaceMerges(d, c) ==
  Land(d,
       IF Unsafe(c.patch) THEN sql[d]
       ELSE IF sql[d] = Absent THEN Record(c.patch, c.v)
       ELSE Record(JsonEdit(sql[d].data, c.patch), c.v),
       Record(c.patch, c.v),
       Unsafe(c.patch))

\* replaceNode, replaceEdge: INSERT OR REPLACE; set without merge.  The stores
\* agree again when both took it.
Replace(d, c) ==
  /\ sql'  = [sql EXCEPT ![d] = IF Unsafe(c.patch) THEN @ ELSE Record(c.patch, c.v)]
  /\ fire' = [fire EXCEPT ![d] = Record(c.patch, c.v)]
  /\ crossed' = IF Unsafe(c.patch) THEN crossed \cup {d} ELSE crossed \ {d}
  /\ call' = Idle

\* Mutant: only merging puts are checked for what JSON cannot carry.
UpdateUnchecked(d, c) ==
  Land(d,
       IF sql[d] = Absent THEN Absent
       ELSE Record(JsonEdit(sql[d].data, c.patch), sql[d].v),
       IF fire[d] = Absent THEN Absent
       ELSE Record(FieldEdit(fire[d].data, c.patch), fire[d].v),
       sql[d] # Absent /\ (Unsafe(c.patch) \/ Crosses(sql[d].data, c.patch)))

\* updateNode, updateEdge and one row of a bulkUpdate: NOT_FOUND, or no row
\* matched, leaves nothing; the stamp stays.
Update(d, c) ==
  Land(d,
       IF sql[d] = Absent \/ Unsafe(c.patch) THEN sql[d]
       ELSE Record(JsonEdit(sql[d].data, c.patch), sql[d].v),
       IF fire[d] = Absent THEN Absent
       ELSE Record(FieldEdit(fire[d].data, c.patch), fire[d].v),
       Unsafe(c.patch) \/ (sql[d] # Absent /\ Crosses(sql[d].data, c.patch)))

\* updateDoc({replaceData, v}), a migration's write-back.  The stamp is sent
\* only when there is one.
WriteBack(d, c) ==
  Land(d,
       IF sql[d] = Absent \/ Unsafe(c.patch) THEN sql[d]
       ELSE Merged(sql[d], c.patch, c.v),
       IF fire[d] = Absent THEN Absent ELSE Merged(fire[d], c.patch, c.v),
       Unsafe(c.patch))

\* removeNode, removeEdge: idempotent, and the stores agree again.
Erase(d) ==
  /\ sql'  = [sql EXCEPT ![d] = Absent]
  /\ fire' = [fire EXCEPT ![d] = Absent]
  /\ crossed' = crossed \ {d}
  /\ call' = Idle

Serve ==
  \/ call.kind = "put"                /\ Put(call.doc, call)
  \/ call.kind = "replace"            /\ Replace(call.doc, call)
  \/ call.kind \in {"update", "bulk"} /\ Update(call.doc, call)
  \/ call.kind = "writeback"          /\ WriteBack(call.doc, call)
  \/ call.kind = "remove"             /\ Erase(call.doc)

Init ==
  /\ sql = [d \in Docs |-> Absent]
  /\ fire = [d \in Docs |-> Absent]
  /\ call = Idle
  /\ crossed = {}

Next == (\E c \in Calls : Send(c)) \/ Serve

Spec == Init /\ [][Next]_vars

-----------------------------------------------------------------------------
(* Properties.                                                              *)

\* Every stored document is a tree: no leaf has another below it, whatever
\* sequence of patches, empty objects and removals shaped it.
TypeOK ==
  /\ sql \in [Docs -> Records \cup {Absent}]
  /\ fire \in [Docs -> Records \cup {Absent}]
  /\ call \in Calls \cup {Idle}
  /\ crossed \in SUBSET Docs

\* write-plan.ts: the same list of operations does the same on every backend,
\* unless a patch went through a leaf or carried what JSON cannot, or a put of {}
\* met data: Firestore then has none left, and SQLite all of it.
BackendsAgree == \A d \in Docs \ crossed : sql[d] = fire[d]

\* Nothing the JSON column would mangle is ever stored in it, whichever of the
\* five ways of writing a document brought it.
RowsAreJson ==
  \A d \in Docs : sql[d] # Absent => ~Unsafe(sql[d].data)

\* The value a read finds at path p: the leaves there and below it.
At(rec, p) ==
  [q \in { q \in DOMAIN rec.data : IsPrefix(p, q) } |-> rec.data[q]]

Served(kinds) == call.kind \in kinds /\ call' = Idle

\* A put that names nothing.
PutsNothing(c) == c.kind = "put" /\ DOMAIN c.patch = {}

\* A merging write touches only what it names: every other path reads as
\* before, on both stores, at every depth.  "Sibling keys survive"
\* (write-plan.ts:11) is not true of a put of {} on Firestore, which empties data.
SiblingsSurvive ==
  [][Served({"put", "update", "bulk"}) =>
       \A p \in Paths :
         (\A q \in DOMAIN call.patch : ~IsPrefix(p, q) /\ ~IsPrefix(q, p)) =>
            /\ sql[call.doc] # Absent =>
                 At(sql[call.doc], p) = At(sql'[call.doc], p)
            /\ fire[call.doc] # Absent /\ ~PutsNothing(call) =>
                 At(fire[call.doc], p) = At(fire'[call.doc], p)]_vars

\* ... and a write that was not refused and met no leaf in its way is read back
\* exactly: each field it sets has its value, each field it deletes is gone.
Exact(c) ==
  /\ Served({"put", "update", "bulk"})
  /\ sql'[c.doc] # Absent
  /\ ~Unsafe(c.patch)
  /\ sql[c.doc] # Absent => ~Crosses(sql[c.doc].data, c.patch)

PatchIsReadBack ==
  [][Exact(call) =>
       \A p \in DOMAIN call.patch :
         LET now == sql'[call.doc].data
         IN  IF call.patch[p] = Delete
               THEN \A q \in DOMAIN now : ~IsPrefix(p, q)
               ELSE p \in DOMAIN now /\ now[p] = call.patch[p]]_vars

\* What SQLite stores is JSON that reads back as what was written, and no write
\* that Firestore would refuse gets into it.
StoredAsJson == TypeOK /\ RowsAreJson

\* A patch changes the fields it names and leaves their siblings alone, but for a
\* put of {} on Firestore, and is read back from SQLite as it was given.
PatchesMean == SiblingsSurvive /\ PatchIsReadBack

\* write-plan.ts:3, "every backend can execute identically", with no exception
\* for what the patch meets on its way.
BackendsIdentical == \A d \in Docs : sql[d] = fire[d]

=============================================================================
