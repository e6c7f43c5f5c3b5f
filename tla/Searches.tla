------------------------------- MODULE Searches -------------------------------
(***************************************************************************)
(* findNearest(), fullTextSearch() and geoSearch() over the documents of    *)
(* one graph: the statements SQLite runs (internal/sqlite-search.ts) and    *)
(* the queries and pipelines Firestore runs (internal/firestore-vector.ts,  *)
(* firestore-fulltext.ts, firestore-geo.ts).                                *)
(*                                                                         *)
(* What an index does with text is abstracted to the number of hits a       *)
(* document has, and a place to a latitude.  Vectors lie on the             *)
(* axes, so that their norms are whole numbers; distances are squared.      *)
(***************************************************************************)
EXTENDS Integers, FiniteSets, SequencesExt

CONSTANTS
  Ids,         \* keys of documents: numbers, the order that breaks ties
  Samples,     \* what a document may be
  Dimension,   \* of the declared vector
  Questions

VARIABLES
  stored,      \* key -> [aType, data, vector, hits, place]
  encoded,     \* keys whose vector has its BLOB
  materialized, \* whether the handle has the BLOB column
  ask

vars == <<stored, encoded, materialized, ask>>

None == "none"

-----------------------------------------------------------------------------
(* Distances.                                                               *)

Abs(n) == IF n < 0 THEN -n ELSE n
Sum(x) == FoldLeft(LAMBDA a, b : a + b, 0, x)
Dot(x, y) == Sum([i \in DOMAIN x |-> x[i] * y[i]])
Norm(x) == Sum([i \in DOMAIN x |-> Abs(x[i])])

\* Nothing for a value that is no vector of the query's dimension.
Distance(x, query, measure) ==
  IF Len(x) # Len(query) THEN {}
  ELSE CASE measure = "EUCLIDEAN" -> {Dot(x, x) - 2 * Dot(x, query) + Dot(query, query)}
         [] measure = "COSINE" ->
              IF Norm(x) * Norm(query) = 0 THEN {} ELSE {1 - (Dot(x, query) \div (Norm(x) * Norm(query)))}
         [] measure = "DOT_PRODUCT" -> {Dot(x, query)}

Descending(measure) == measure \in {"DOT_PRODUCT", "hits"}

\* Nearer by a score and then by the key.
Before(score, measure, i, j) ==
  \/ score[i] = score[j] /\ i < j
  \/ IF Descending(measure) THEN score[i] > score[j] ELSE score[i] < score[j]

\* ORDER BY and LIMIT of what has a score; a negative LIMIT is none.
Top(score, measure, limit) ==
  LET found == DOMAIN score
      rank(i) == 1 + Cardinality({j \in found : Before(score, measure, j, i)})
      many == IF limit < 0 \/ Cardinality(found) < limit THEN Cardinality(found) ELSE limit
  IN  [k \in 1..many |-> CHOOSE i \in found : rank(i) = k]

-----------------------------------------------------------------------------
(* What is refused in both stores.                                          *)

NearestRefused(q) == q.vector = <<>> \/ q.limit > 1000 \/ q.field = "envelope"
GeoRefused(q) == Abs(q.point) > 90 \/ \E radius \in q.bound : radius <= 0

\* Mutant: a limit below one passes.
AnyLimit(q) ==
  (q.kind = "nearest" /\ NearestRefused(q)) \/ (q.kind = "geo" /\ GeoRefused(q))

Refused(q) ==
  \/ q.limit < 1
  \/ q.kind = "nearest" /\ NearestRefused(q)
  \/ q.kind = "geo" /\ GeoRefused(q)

-----------------------------------------------------------------------------
(* Filters and scores.                                                      *)

\* What a field of `where` is called in SQLite, where a bare name means data.
SqlField(name) == IF name = "s" THEN "data.s" ELSE name

\* Firestore has it verbatim: no record has a field of a bare name.
Verbatim(q) == q.where
InData(q) == {<<SqlField(clause[1]), clause[2]>> : clause \in q.where}

Keeps(q, i, where) ==
  /\ q.aType # None => stored[i].aType = q.aType
  /\ \A clause \in where :
       /\ clause[1] = "data.s"
       /\ stored[i].data["s"] = <<"leaf", clause[2]>>

\* encodeVectorBlob, of the rows that were backfilled.
Blob(i) ==
  IF materialized /\ i \in encoded /\ Len(stored[i].vector) = Dimension THEN stored[i].vector ELSE <<>>

\* Mutant: a row without its BLOB is skipped.
BlobOnly(q, i) ==
  Distance(IF materialized THEN Blob(i) ELSE stored[i].vector, q.vector, q.by)

\* The BLOB where there is one, and the JSON otherwise.
Scored(q, i) == Distance(IF Blob(i) # <<>> THEN Blob(i) ELSE stored[i].vector, q.vector, q.by)

\* geoDistance(field, center), of a document that has the field.
GeoDistance(q, i) == {Abs(x - q.point) : x \in stored[i].place}

\* documentMatches(query), and its score.
Hits(i) == IF stored[i].hits > 0 THEN {stored[i].hits} ELSE {}

\* The score of a search, {} for a document that it does not find.
Found(q, i) ==
  CASE q.kind = "nearest" -> Distance(stored[i].vector, q.vector, q.by)
    [] q.kind = "text" -> Hits(i)
    [] q.kind = "geo" -> GeoDistance(q, i)

\* Mutant: a threshold is always a greatest distance.
AtMost(q, score) == \A b \in q.bound : score <= b

Within(q, score) == \A b \in q.bound : IF Descending(q.by) THEN score >= b ELSE score <= b

-----------------------------------------------------------------------------
(* Answers: keys in order.                                                  *)

TheScore(scores) == CHOOSE x \in scores : TRUE
Scores(q, found) == [i \in found |-> TheScore(Found(q, i))]

\* compileFindNearest, compileFullTextSearch: one SELECT.
SqlSearch(q) ==
  LET scores(i) == IF q.kind = "nearest" THEN Scored(q, i) ELSE Hits(i)
      found == {i \in DOMAIN stored :
                  Keeps(q, i, InData(q)) /\ scores(i) # {} /\ Within(q, TheScore(scores(i)))}
  IN  Top([i \in found |-> TheScore(scores(i))], q.by, q.limit)

\* Firestore's findNearest() walks what is left by the filters.
FirestoreNearest(q) ==
  LET filtered == {i \in DOMAIN stored : Keeps(q, i, Verbatim(q))}
      found == {i \in filtered : Found(q, i) # {} /\ Within(q, TheScore(Found(q, i)))}
  IN  Top(Scores(q, found), q.by, q.limit)

\* What the first stage of a pipeline finds.
Staged(q) == {i \in DOMAIN stored : Found(q, i) # {} /\ Within(q, TheScore(Found(q, i)))}

\* Mutant: the stage takes the limit.
LimitInStage(q) ==
  SelectSeq(Top(Scores(q, Staged(q)), q.by, q.limit), LAMBDA i : Keeps(q, i, Verbatim(q)))

\* A pipeline searches, sorts, filters by the types and then limits.
Pipeline(q) ==
  Top(Scores(q, {i \in Staged(q) : Keeps(q, i, Verbatim(q))}), q.by, q.limit)

\* Mutant: an object on the way is replaced too.
Replaced(data, path, n) ==
  IF Len(path) = 1 THEN [k \in DOMAIN data \cup {path[1]} |-> IF k = path[1] THEN <<"number", n>> ELSE data[k]]
  ELSE [k \in DOMAIN data \cup {path[1]} |->
          IF k = path[1] THEN <<"map", [j \in {path[2]} |-> <<"number", n>>]>> ELSE data[k]]

\* setDataPath, of a path of one or two keys: the distance, written into the
\* record that is returned; what is no object on the way gives way.
SetDataPath(data, path, n) ==
  LET inner == IF path[1] \in DOMAIN data /\ data[path[1]][1] = "map" THEN data[path[1]][2] ELSE <<>>
      leaf == IF Len(path) = 1 THEN <<"number", n>>
              ELSE <<"map", [j \in DOMAIN inner \cup {path[2]} |->
                               IF j = path[2] THEN <<"number", n>> ELSE inner[j]]>>
  IN  [k \in DOMAIN data \cup {path[1]} |-> IF k = path[1] THEN leaf ELSE data[k]]

Returned(q, i) ==
  IF q.into = <<>> THEN stored[i].data ELSE SetDataPath(stored[i].data, q.into, TheScore(Scored(q, i)))

-----------------------------------------------------------------------------
Init ==
  /\ stored = <<>>
  /\ encoded = {}
  /\ materialized \in BOOLEAN
  /\ ask \in Questions

Put(i, sample) ==
  /\ i \notin DOMAIN stored
  /\ stored' = [j \in DOMAIN stored \cup {i} |-> IF j = i THEN sample ELSE stored[j]]
  /\ UNCHANGED <<encoded, materialized, ask>>

Backfill(i) ==
  /\ materialized
  /\ i \in DOMAIN stored \ encoded
  /\ encoded' = encoded \cup {i}
  /\ UNCHANGED <<stored, materialized, ask>>

Next == \E i \in Ids : Backfill(i) \/ \E sample \in Samples : Put(i, sample)

-----------------------------------------------------------------------------
\* More similar, more relevant, nearer.
BetterScore(q, a, b) == IF q.by \in {"DOT_PRODUCT", "hits"} THEN a > b ELSE a < b

\* A document is what a question is about.
About(q, i) ==
  /\ q.aType # None => stored[i].aType = q.aType
  /\ \A clause \in q.where : stored[i].data["s"] = <<"leaf", clause[2]>>
  /\ Found(q, i) # {}
  /\ \A b \in q.bound, score \in Found(q, i) : b = score \/ BetterScore(q, score, b)

Better(q, i, j) == BetterScore(q, TheScore(Found(q, i)), TheScore(Found(q, j)))

\* The best documents a question is about, best first, as many as it asks for.
Means(q, answer) ==
  LET about == {i \in DOMAIN stored : About(q, i)}
      given == {answer[k] : k \in DOMAIN answer}
  IN  /\ given \subseteq about /\ Cardinality(given) = Len(answer)
      /\ Len(answer) <= q.limit
      /\ Len(answer) < q.limit => given = about
      /\ \A j, k \in DOMAIN answer : j < k => ~Better(q, answer[k], answer[j])
      /\ \A i \in about \ given, j \in given : ~Better(q, i, j)

\* Every search that is not refused gives the best documents, best first, by the
\* BLOB, by the JSON and by Firestore's stages, whatever was backfilled.
SearchesMean ==
  ~Refused(ask) =>
    /\ ask.kind # "geo" => Means(ask, SqlSearch(ask))
    /\ ask.kind # "nearest" => Means(ask, Pipeline(ask))
    /\ ask.kind = "nearest" /\ ~(\E clause \in ask.where : clause[1] = "s") =>
         Means(ask, FirestoreNearest(ask))

\* A distance is read back where it was asked for, and what is beside it stays.
DistanceIsAdded ==
  ~Refused(ask) /\ ask.into # <<>> /\ ask.kind = "nearest" =>
    \A k \in DOMAIN SqlSearch(ask) :
      LET i == SqlSearch(ask)[k]
          data == Returned(ask, i)
          before == stored[i].data
          first == ask.into[1]
          number == <<"number", TheScore(Found(ask, i))>>
      IN  /\ \A key \in DOMAIN before \ {first} : data[key] = before[key]
          /\ IF Len(ask.into) = 1 THEN data[first] = number
             ELSE /\ data[first][2][ask.into[2]] = number
                  /\ first \in DOMAIN before /\ before[first][1] = "map" =>
                       \A key \in DOMAIN before[first][2] \ {ask.into[2]} :
                         key \in DOMAIN data[first][2] /\ data[first][2][key] = before[first][2][key]
=============================================================================
