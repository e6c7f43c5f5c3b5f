------------------------------ MODULE MCLibrary ------------------------------
(***************************************************************************)
(* What the library computes without a store: its data, handles and         *)
(* promises (Library), and how parameters become a query (Queries), filters *)
(* an aggregate, a projection or a bulk statement (Answers), folders        *)
(* indexes (Discovery), a search its answers (Searches), and the query      *)
(* client its calls (QueryCalls).  These share no state either: `part` says *)
(* which of them all moves.                                                 *)
(***************************************************************************)
EXTENDS Library, TLC

CONSTANT d1

MCPaths == {<<"a">>, <<"a", "x">>, <<"a", "x", "z">>, <<"a", "y">>}

VARIABLES
  rows, reported, lost,  \* Queries
  docs, report,          \* Answers
  nodes, edges,          \* Discovery
  stored, encoded, materialized, ask,  \* Searches
  records, called        \* QueryCalls

-----------------------------------------------------------------------------
\* Words whose manglings are close to each other: the escape character of
\* mangling, which is also a wildcard of LIKE, the spelling of an escape, and
\* what needs an escape in either.
MCWords == { <<"_">>, <<"_", "h">>, <<"-">>, <<"\\", "%">> }
MCLetters == {"a", "A", "s", "h", "u", "2", "5", "e", "c", "_"}
MCHex == [ch \in {"%", "\\"} |-> IF ch = "%" THEN <<"2", "5">> ELSE <<"5", "c">>]
MCLower == [ch \in MCLetters \cup DOMAIN MCHex \cup {"-", "/"} |-> IF ch = "A" THEN "a" ELSE ch]

\* ... and two uids that differ in case.
Cased == INSTANCE SqliteScopes WITH Words <- { <<"a">>, <<"A">> }, MaxDepth <- MaxCalls

\* A collection whose paths look like a subgraph's, and one that hangs on two
\* parameters; a uid that an address cannot hold.
MCSplit == "u~2Fv" :> <<"u", "v">>
MCCollections == {<<"g">>, <<"orgs", "o", "g">>}
MCTemplates == {<<"g", "{p}", "inbox">>, <<"g", "{p}", "root">>, <<"log", "{p}", "{q}">>}

\* A name that is spelled like a whole path is refused.
MCRoots == {<<"r">>, <<"q">>, <<"r", "/", "u", "/", "g">>}
MCPassed == {<<"u">>, <<"g">>, <<"g", "/", "u", "/", "g">>}
MCRouted == {<<"g">>}

MCOptions ==
  { [pragmas |-> <<>>, conflict |-> FALSE],
    [pragmas |-> <<<<"journal_mode", "truncate">>>>, conflict |-> TRUE],
    [pragmas |-> <<<<"busy_timeout", "100">>, <<"journal_mode", "truncate">>>>, conflict |-> FALSE],
    [pragmas |-> <<<<"busy_timeout", "100">>, <<"journal_mode", "invalid">>>>, conflict |-> FALSE] }

MCTriples == {<<"a", "r", "b">>, <<"a", "s", "b">>}

\* Lookups, questions with and without limits, and a filter on the field.
Asked(aUid, axbType, bUid, limit) ==
  [aType |-> "none", aUid |-> aUid, axbType |-> axbType, bType |-> "none", bUid |-> bUid,
   where |-> [op |-> "none", value |-> {}], limit |-> limit]

Plans == INSTANCE Queries WITH
  TypeOf <- "a" :> "s" @@ "b" :> "t", Relations <- {"r"}, Values <- {"1", "2"},
  DefaultLimit <- 1, None <- "none", Kinds <- {"firestore", "sqlite", "object"}, MaxRows <- 2,
  Questions <-
    { Asked("a", "r", "b", -1), Asked("a", "is", "a", -1), Asked("a", "r", "none", -1),
      Asked("a", "none", "none", -1), Asked("a", "none", "none", 0), Asked("a", "none", "none", 1),
      Asked("none", "none", "none", -1), Asked("none", "is", "none", 0),
      [Asked("a", "r", "b", -1) EXCEPT !.aType = "t"],
      [Asked("a", "none", "none", -1) EXCEPT !.where = [op |-> "!=", value |-> {"1"}]] }

-----------------------------------------------------------------------------
Answers == INSTANCE Answers WITH
  Ids <- {"a", "b", "c"}, Number <- "one" :> 1 @@ "two" :> 2, Flags <- "true" :> "one",
  Texts <- {"text"}, Object <- "{}", MaxRetries <- 1,
  Path <- "f" :> "data.f" @@ "data.f" :> "data.f" @@ "f__t" :> "data.f__t" @@ "aUid" :> "column",
  Selects <- UNION {[1..n -> {"f", "data.f", "f__t", "aUid"}] : n \in 1..2}

\* Index specs that differ in one direction, in the predicate, in the fields.
Ascending(p) == <<p, FALSE>>
IndexSpec(fields, where) == [fields |-> fields, where |-> where]

Folders == INSTANCE Discovery WITH
  NodeNames <- {"a", "b"}, EdgeNames <- {"r", "s"}, Ends <- {{}, {"a"}, {"a", "b"}}, To <- {"b"},
  Graphs <- {"g", "h"}, Collection <- "graph",
  CoreIndexes <- <<IndexSpec(<<Ascending("aUid")>>, "none"),
                   IndexSpec(<<Ascending("aType"), Ascending("bType")>>, "none")>>,
  Declarations <-
    { <<>>,
      <<IndexSpec(<<Ascending("aType"), Ascending("updatedAt")>>, "none")>>,
      <<IndexSpec(<<Ascending("aType"), <<"updatedAt", TRUE>>>>, "none"),
        IndexSpec(<<Ascending("data.s")>>, "none"),
        IndexSpec(<<Ascending("aType"), Ascending("bType")>>, "archived")>> }

Sought(kind, by, bound, limit) ==
  [kind |-> kind, by |-> by, bound |-> bound, limit |-> limit, field |-> "v", aType |-> "none",
   where |-> {}, vector |-> <<1, 0>>, point |-> 1, into |-> <<>>]

\* Documents with a leaf and an object in their data.
Sample(aType, s, vector, hits, place) ==
  [aType |-> aType, vector |-> vector, hits |-> hits, place |-> place,
   data |-> "s" :> <<"leaf", s>> @@ "o" :> <<"map", "k" :> <<"leaf", "y">>>>]

Seeking == INSTANCE Searches WITH
  Ids <- 1..3, Dimension <- 2,
  Samples <-
    { Sample("t", "x", <<1, 0>>, 1, {1}), Sample("t", "y", <<2, 0>>, 0, {}),
      Sample("u", "x", <<0, 1>>, 2, {3}), Sample("u", "y", <<-1, 0>>, 1, {2}),
      Sample("t", "x", <<3>>, 0, {0}), Sample("u", "x", <<>>, 2, {1}), Sample("t", "y", <<0, 0>>, 2, {4}) },
  Questions <-
    { Sought("nearest", "EUCLIDEAN", {}, 2), Sought("nearest", "COSINE", {1}, 1),
      Sought("nearest", "DOT_PRODUCT", {1}, 2), Sought("nearest", "EUCLIDEAN", {}, -1),
      Sought("nearest", "COSINE", {}, 1001),
      [Sought("nearest", "COSINE", {}, 1) EXCEPT !.vector = <<>>],
      [Sought("nearest", "DOT_PRODUCT", {}, 1) EXCEPT !.aType = "t", !.into = <<"s", "d">>],
      [Sought("nearest", "EUCLIDEAN", {4}, 1) EXCEPT !.where = {<<"s", "x">>}, !.into = <<"o", "d">>],
      [Sought("nearest", "EUCLIDEAN", {}, 1) EXCEPT
         !.where = {<<"data.s", "x">>}, !.vector = <<0>>, !.into = <<"s">>],
      Sought("text", "hits", {}, 1), Sought("text", "hits", {}, 0),
      [Sought("text", "hits", {}, 1) EXCEPT !.aType = "t"],
      Sought("geo", "place", {1}, 2), Sought("geo", "place", {0}, 1),
      [Sought("geo", "place", {2}, 1) EXCEPT !.aType = "u"],
      [Sought("geo", "place", {1}, 1) EXCEPT !.point = 91] }

Called(name, uid, limit) ==
  [name |-> name, uid |-> uid, limit |-> limit, filtered |-> TRUE, reads |-> <<>>,
   hops |-> <<[relation |-> "r", limit |-> <<>>]>>]

Calling == INSTANCE QueryCalls WITH
  call <- called,
  Stored <- << <<"a", "r", "a">>, <<"a", "r", "b">>, <<"a", "is", "a">>, <<"c", "r", "a">>,
               <<"b", "is", "b">>, <<"b", "r", "a">>, <<"a", "r", "c">> >>,
  Unprefixed <- "a" :> "a" @@ "t:a" :> "a" @@ "b" :> "b",
  PageMax <- 4, SearchMax <- 3, PageDefault <- 2, SearchDefault <- 2, EdgeLimit <- 2,
  Calls <-
    UNION { {Called("search", "a", n), Called("search", "t:a", n), Called("search", "b", n),
             Called("getNodes", "", n), Called("getEdges", "", n)} :
              n \in {<<>>, <<-1, TRUE>>, <<1, TRUE>>, <<2, TRUE>>, <<3, TRUE>>, <<9, TRUE>>, <<2, FALSE>>} }
      \cup { Called("getNodeDetail", uid, <<>>) : uid \in {"", "a", "t:a", "b"} }
      \cup { [Called("getEdges", "", <<>>) EXCEPT !.filtered = FALSE], Called("traverse", "", <<>>),
             Called("traverse", "a", <<>>), [Called("traverse", "a", <<>>) EXCEPT !.hops = <<>>],
             [Called("traverse", "a", <<>>) EXCEPT !.reads = <<0, TRUE>>] }

-----------------------------------------------------------------------------
planVars == <<rows, reported, lost>>
answerVars == <<docs, report>>
folderVars == <<nodes, edges>>
seekingVars == <<stored, encoded, materialized, ask>>
callingVars == <<records, called>>

MCInit ==
  /\ part \in {"documents", "scopes", "paths", "chains", "entries", "plans", "handles",
               "answers", "promises", "folders", "values", "searches", "calls", "locals"}
  /\ LibraryInit /\ Plans!Init /\ Answers!Init /\ Folders!Init /\ Seeking!Init /\ Calling!Init
  /\ part # "handles" => left = Handles!RootHandle(<<"r">>, FALSE) /\ right = left
  /\ part # "paths" => collection = <<"g">>
  /\ part # "promises" => ~env.host /\ ~env.enterprise
  /\ part # "values" => value = Entries!Just(<<"plain", CHOOSE p \in Plain : TRUE>>)
  /\ part # "searches" => materialized /\ ask = Sought("nearest", "EUCLIDEAN", {}, 2)
  /\ part # "calls" => called = Called("search", "a", <<>>)

MCNext ==
  /\ LibraryNext
  /\ IF part = "plans" THEN Plans!Next ELSE UNCHANGED planVars
  /\ IF part = "answers" THEN Answers!Next ELSE UNCHANGED answerVars
  /\ IF part = "folders" THEN Folders!Next ELSE UNCHANGED folderVars
  /\ IF part = "searches" THEN Seeking!Next ELSE UNCHANGED seekingVars
  /\ IF part = "calls" THEN Calling!Next ELSE UNCHANGED callingVars

MCSpec ==
  MCInit /\ [][MCNext]_<<part, vars, partVars, planVars, answerVars, folderVars, seekingVars,
                         callingVars>>

\* The scopes alone, with uids of two cases.
CaseSpec ==
  /\ MCInit /\ part = "scopes"
  /\ [][/\ Cased!Next
        /\ UNCHANGED <<part, vars, addressVars, entryVars, planVars, handleVars, answerVars,
                       promiseVars, folderVars, seekingVars, callingVars>>
       ]_<<part, vars, partVars, planVars, answerVars, folderVars, seekingVars, callingVars>>

-----------------------------------------------------------------------------
(* Properties of the parts, as in Library.                                  *)

\* Distinct uids have distinct tables, whatever their case (SqliteScopes).
CasedTablesDiffer == Cased!OneTablePerGraph

\* A question finds the same records in every backend, as many as it asks for,
\* by an index; projections, aggregates and bulk statements see what the query
\* sees and mean the same in every store; what folders declare is warned of,
\* expanded and indexed in every store; a search gives the best documents, best
\* first; and the query client asks for nothing that the editor's server refuses
\* and is answered in full (Queries, Answers, Discovery, Searches, QueryCalls).
QueriesMean ==
  /\ part = "plans" =>
       /\ Plans!TypeOK
       /\ Plans!FiltersAgree
       /\ Plans!ProjectionSeesWhatIsFound
       /\ Plans!LimitsMeant
       /\ Plans!SafeMeansIndexed
       /\ Plans!EdgesRemovedNodesKept
       /\ Plans!DeletesAllItFinds
  /\ part = "answers" =>
       /\ Answers!AggregatesAgree
       /\ Answers!AggregatesAddUp
       /\ Answers!ProjectionsAgree
       /\ Answers!BulkMeans
  /\ part = "folders" => Folders!WarningsMeanDangling /\ Folders!DeclaredIsServed
  /\ part = "searches" => Seeking!SearchesMean /\ Seeking!DistanceIsAdded
  /\ part = "calls" =>
       Calling!SentIsAccepted /\ Calling!SearchFindsOnce /\ Calling!DetailIsWhole
=============================================================================
