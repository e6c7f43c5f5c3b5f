---------------------------- MODULE MCTraversal ----------------------------
(***************************************************************************)
(* A traversal of four hops: two in the root graph that meet in some nodes,*)
(* one into the subgraphs of the nodes found, one inside these subgraphs.  *)
(* Next to it, in behaviours of their own (`part`), the ways to follow one *)
(* relation from many nodes at once (FanOut), over every graph of three    *)
(* records; and the ways the editor leads through a graph: its own         *)
(* traversals (EditorTraverse), the lanes of a node's page (EditorDrill),  *)
(* the pages of its tables (EditorPages) and the elements of its custom    *)
(* views (Views).                                                          *)
(***************************************************************************)
EXTENDS Traversal, FanOut

CONSTANTS
    Schemas, First, Routes, Allowances, BatchSizes, MaxEdges,          \* EditorTraverse
    Paths, MaxIds, MaxFrames,                                          \* EditorDrill
    Values, PageLimit, Tables, MaxClicks, MaxWrites,                   \* EditorPages
    Frameworks, Contents, MaxElements, MaxChanges, MaxFaults,          \* Views
    Absent

MCUids    == {"a", "b", "c", "d", "e", "f", "g", "x", "y", "z"}
MCReaders == {"root", "sub", "other"}
MCSub     == [u \in MCUids |-> IF u \in {"d", "e"} THEN "sub" ELSE "other"]

\* What matches for each reader and node, in order.
Match(r, u) ==
    CASE r = "root" /\ u = "a" -> <<"b", "c", "f">>
      [] r = "root" /\ u = "b" -> <<"d", "e", "g">>
      [] r = "root" /\ u = "c" -> <<"e">>
      [] r = "sub" /\ u = "d"   -> <<"y">>
      [] r = "sub" /\ u = "e"   -> <<"x">>
      [] r = "sub" /\ u = "y"   -> <<"z">>
      [] r = "sub" /\ u = "x"   -> <<"z", "y">>
      [] r = "other" /\ u = "g" -> <<"f">>
      [] r = "other" /\ u = "f" -> <<"z">>
      [] OTHER -> << >>

MCMatch == [r \in MCReaders |-> [u \in MCUids |-> Match(r, u)]]

\* The second hop's four matches fit into the limit of one query for its three
\* sources, but three of them share one source, which may have a chunk for itself.
MCHops == << [cross |-> FALSE, filtered |-> FALSE, limit |-> 3, match |-> MCMatch],
             [cross |-> FALSE, filtered |-> FALSE, limit |-> 2, match |-> MCMatch],
             [cross |-> TRUE,  filtered |-> FALSE, limit |-> 1, match |-> MCMatch],
             [cross |-> FALSE, filtered |-> TRUE,  limit |-> 1, match |-> MCMatch] >>

\* A backend without query.join; one that takes two sources per query; one statement.
MCBackends == { [join |-> {}, chunk |-> 1], [join |-> MCReaders, chunk |-> 2],
                [join |-> MCReaders, chunk |-> 30] }

ASSUME \A lifted \in BOOLEAN : NoClash(lifted)

-----------------------------------------------------------------------------
VARIABLES
    part,
    schema, stock,                                                 \* EditorTraverse
    page, lanes, current, preview, peek, counter, astray,           \* EditorDrill
    value, view, shown, cache, seen, touched, strayed, allowance,  \* EditorPages
    elements, elementRef, loaded, changes, faults                  \* Views

Forward == [axb |-> "r", forward |-> TRUE, aType |-> "any", bType |-> "any", limit |-> 2, ordered |-> FALSE]
Narrow == [Forward EXCEPT !.limit = 1]
Back == [Narrow EXCEPT !.forward = FALSE]

MCTypeOf == [u \in {"a", "b", "c"} |-> IF u = "a" THEN "s" ELSE "t"]
MCRank == [u \in {"a", "b", "c"} |-> CASE u = "a" -> 2 [] u = "b" -> 3 [] u = "c" -> 1]
MCSources == { <<"a">>, <<"a", "b">>, <<"c", "a", "b">>, <<"a", "a", "b">> }
MCWalks == { <<Forward>>, <<Forward, Narrow>>, <<Forward, Back, Forward>>,
             <<[Forward EXCEPT !.forward = FALSE], [Forward EXCEPT !.bType = "t", !.ordered = TRUE]>> }

\* Relations that lead from one type to one, to two, and from two.
ToTheOther == [a |-> "s", axb |-> "r", b |-> "t"]
ToItself == [a |-> "s", axb |-> "r", b |-> "s"]
BackAgain == [a |-> "t", axb |-> "r", b |-> "s"]
Aside == [a |-> "t", axb |-> "k", b |-> "t"]
MCSchemas == { <<ToTheOther, Aside>>, <<ToTheOther, ToItself, BackAgain>>, <<ToTheOther, BackAgain>> }

Along(axb, forward, most) == [axb |-> axb, forward |-> forward, limit |-> most]
MCRoutes == { <<Along("r", TRUE, 2)>>, <<Along("r", TRUE, 2), Along("r", FALSE, 2)>>,
              <<Along("r", TRUE, 2), Along("k", TRUE, 1), Along("k", FALSE, 1)>>,
              <<Along("r", FALSE, 1), Along("r", TRUE, 1), Along("r", TRUE, 2)>> }

Builder == INSTANCE EditorTraverse WITH
    Uids <- Nodes, Start <- First, Walks <- Routes, Budgets <- Allowances, Unknown <- Absent,
    rows <- stock

MCPaths == {<<"b">>, <<"b", "c">>}

Drill == INSTANCE EditorDrill WITH
    Uids <- Nodes, None <- Absent, root <- page, active <- current

\* A table of each procedure: nodes, edges, documents.
Listing(procedure, field, desc) == [procedure |-> procedure, field |-> field, desc |-> desc]
MCTables == { {Listing("getNodes", "uid", FALSE), Listing("getNodes", "createdAt", TRUE)},
              {Listing("getEdges", "type", FALSE), Listing("getEdges", "uid", TRUE)},
              {Listing("getCollectionDocs", "data", FALSE)} }

Pages == INSTANCE EditorPages WITH
    Uids <- Nodes, Limit <- PageLimit, None <- Absent, budget <- allowance

Elements == INSTANCE Views WITH Values <- Contents, None <- Absent

\* What the theorems about these parts assume.
ASSUME PartsAssumption ==
    Builder!EditorAssumption /\ Drill!DrillAssumption /\ Pages!PagesAssumption

builderVars == <<schema, stock>>
drillVars == <<page, lanes, current, preview, peek, counter, astray>>
pagesVars == <<value, view, shown, cache, seen, touched, strayed, allowance>>
viewVars == <<elements, elementRef, loaded, changes, faults>>

\* Parts at rest have one start.
MCInit ==
    /\ part \in {"traversal", "fan-out", "builder", "drill", "pages", "views"}
    /\ Init /\ GraphInit /\ Builder!Init /\ Drill!Init /\ Pages!Init /\ Elements!Init
    /\ part # "traversal" => maxReads = 0 /\ slots = 1 /\ expands.join = {}
    /\ part # "builder" => schema = CHOOSE s \in Schemas : TRUE
    /\ page = CHOOSE u \in Nodes : TRUE
    /\ part # "pages" => value = << >> /\ view.listing = CHOOSE listing \in UNION Tables : TRUE

MCNext ==
    /\ UNCHANGED part
    /\ \/ part = "traversal" /\ Next /\ UNCHANGED <<rows, builderVars, drillVars, pagesVars, viewVars>>
       \/ part = "fan-out" /\ GraphNext /\ UNCHANGED <<vars, builderVars, drillVars, pagesVars, viewVars>>
       \/ part = "builder" /\ Builder!Next /\ UNCHANGED <<vars, rows, drillVars, pagesVars, viewVars>>
       \/ part = "drill" /\ Drill!Next /\ UNCHANGED <<vars, rows, builderVars, pagesVars, viewVars>>
       \/ part = "pages" /\ Pages!Next /\ UNCHANGED <<vars, rows, builderVars, drillVars, viewVars>>
       \/ part = "views" /\ Elements!Next
          /\ UNCHANGED <<vars, rows, builderVars, drillVars, pagesVars>>

MCSpec ==
    /\ MCInit
    /\ [][MCNext]_<<part, vars, rows, builderVars, drillVars, pagesVars, viewVars>>
    /\ WF_vars(part = "traversal" /\ Next)


\* Every run comes to an end, whatever fails (Traversal).
RunsFinish == part = "traversal" => Finishes

\* The editor's traversals keep their budget, and each node found has a path
\* and the type that was inferred (EditorTraverse); the lanes of a page stay
\* whole, show something and lead where a drill asks (EditorDrill); whoever
\* turns a table's pages to the end has seen its rows (EditorPages); a custom
\* view has one component mounted, with the data it was given last (Views).
EditorViewsHold ==
    /\ [](part = "builder" => Builder!TypeOK /\ Builder!BudgetIsKept
                             /\ Builder!PathsLeadFromStart /\ Builder!TypesAreInferred)
    /\ [](part = "drill" => Drill!TypeOK /\ Drill!LanesAreWhole /\ Drill!SomethingIsShown)
    /\ Drill!DrillsLead
    /\ [](part = "pages" => Pages!TypeOK /\ Pages!StackFollowsPage /\ Pages!PagesMissNothing)
    /\ [](part = "views" => /\ Elements!TypeOK /\ Elements!OneTree
                            /\ Elements!SettledElementsShow /\ Elements!OneElement)
=============================================================================
