---------------------------- MODULE EditorPages ----------------------------
(***************************************************************************)
(* The paged tables of the editor: nodes (NodeListCore, getNodes), edges   *)
(* (PaginatedEdgeSection, getEdges) and documents of plain collections     *)
(* (CollectionBrowser, getCollectionDocs), while rows are written.         *)
(*                                                                         *)
(* The server answers one row more than a page holds to know whether there *)
(* is a next page, and gives a cursor: the text of the last row's sort     *)
(* value, or, for collections, the id of the last document.  A text comes  *)
(* after every number and timestamp in Firestore's order of values.        *)
(*                                                                         *)
(* The tables of nodes and edges keep showing the previous answer until    *)
(* the new one is there; answers are kept and shown again.                 *)
(***************************************************************************)
EXTENDS Integers, Sequences, SequencesExt, FiniteSets

CONSTANTS
  Uids,       \* rows
  Rank,       \* their order by uid
  Values,     \* the values of the other fields rows are sorted by
  Limit,      \* rows of a page
  Tables,     \* for each table, the listings it may show
  MaxClicks,  \* bounds what the user does
  MaxWrites,  \* bounds what others write
  None

Cursor == [row : Uids \cup {None}, key : Int]
Listings == UNION Tables

\* No two rows share a uid; a table of documents has one listing.
PagesAssumption ==
  /\ IsFiniteSet(Uids) /\ Values \subseteq Int /\ Limit \in Nat \ {0}
  /\ MaxClicks \in Nat /\ MaxWrites \in Nat
  /\ Rank \in [Uids -> Int] /\ \A d, e \in Uids : Rank[d] = Rank[e] => d = e
  /\ None \notin Uids \cup Cursor \cup [listing : Listings, after : Cursor \cup {None}]
  /\ \A table \in Tables : \A listing \in table :
       /\ listing = [procedure |-> listing.procedure, field |-> listing.field, desc |-> listing.desc]
       /\ listing.desc \in BOOLEAN
       /\ listing.procedure = "getCollectionDocs" => table = {listing} /\ listing.field # "uid"

VARIABLES
  value,      \* the rows there are, with the field they are sorted by
  view,       \* what the table asks for
  shown,      \* the answer on display and the question it answers
  cache,      \* answers kept by the query client
  seen,       \* rows shown since page one
  touched,    \* rows written since the table is open
  strayed,    \* Next was clicked before page one was there, or a cursor's document moved
  budget

vars == <<value, view, shown, cache, seen, touched, strayed, budget>>

\* A listing names its procedure, the field it sorts by and the direction.
Question == [listing |-> view.listing, after |-> view.after]

Nothing == [question |-> None, rows |-> << >>, next |-> None, failed |-> FALSE]

FirstPage(listing) == [listing |-> listing, page |-> 1, stack |-> << >>, after |-> None]

Init ==
  /\ value \in UNION {[S -> Values] : S \in SUBSET Uids}
  /\ \E table \in Tables : \E listing \in table : view = FirstPage(listing)
  /\ shown = Nothing
  /\ cache = {} /\ seen = {} /\ touched = {} /\ strayed = FALSE
  /\ budget = [clicks |-> MaxClicks, writes |-> MaxWrites]

-----------------------------------------------------------------------------
(* The server. *)

\* uid and type are text, data holds numbers and createdAt is a timestamp.
IsText(listing) == listing.field \in {"uid", "type"}

SortKey(listing, d) == IF listing.field = "uid" THEN Rank[d] ELSE value[d]

Before(listing, d, e) ==
  LET lower(r, q) == \/ SortKey(listing, r) < SortKey(listing, q)
                     \/ SortKey(listing, r) = SortKey(listing, q) /\ Rank[r] < Rank[q]
  IN  IF listing.desc THEN lower(e, d) ELSE lower(d, e)

\* A set of rows, in the order of the listing.
InOrder(listing, S) ==
  LET place(d) == Cardinality({e \in S : Before(listing, e, d)})
  IN  [k \in 1..Cardinality(S) |-> CHOOSE d \in S : place(d) = k - 1]

ByDocument(listing) == listing.procedure = "getCollectionDocs"

\* The cursor a page ends with.
CursorOf(listing, d) ==
  IF ByDocument(listing)
    THEN [row |-> d, key |-> 0]
    ELSE [row |-> None, key |-> SortKey(listing, d)]

\* startAfter with a document: what follows it, as it is now.
AfterDocument(listing, cursor, d) == cursor.row # d /\ Before(listing, cursor.row, d)

\* startAfter with a text.
AfterValue(listing, cursor, d) ==
  IF IsText(listing)
    THEN IF listing.desc THEN SortKey(listing, d) < cursor.key ELSE SortKey(listing, d) > cursor.key
    ELSE listing.desc

RowsLeft(listing, cursor) ==
  { d \in DOMAIN value :
      \/ cursor = None
      \/ cursor # None /\ (IF ByDocument(listing) THEN AfterDocument(listing, cursor, d)
                                                  ELSE AfterValue(listing, cursor, d)) }

\* Mutant: no row more than the page is read.
FetchedOnlyAPage == Limit

\* limit + 1 rows are read.
Fetched == Limit + 1

CursorIsGone(q) == ByDocument(q.listing) /\ q.after # None /\ q.after.row \notin DOMAIN value

Answer(q) ==
  IF CursorIsGone(q)
    THEN [Nothing EXCEPT !.question = q, !.failed = TRUE]
    ELSE LET left == InOrder(q.listing, RowsLeft(q.listing, q.after))
             got  == SubSeq(left, 1, IF Len(left) < Fetched THEN Len(left) ELSE Fetched)
             rows == SubSeq(got, 1, IF Len(got) < Limit THEN Len(got) ELSE Limit)
         IN  [question |-> q, rows |-> rows, failed |-> FALSE,
              next |-> IF Len(got) > Limit THEN CursorOf(q.listing, rows[Limit]) ELSE None]

-----------------------------------------------------------------------------
(* The table. *)

Click == budget.clicks > 0 /\ budget' = [budget EXCEPT !.clicks = @ - 1]

\* What is on display counts as seen only when it answers the question.
SeenAtFirst(v) ==
  IF shown.question = [listing |-> v.listing, after |-> v.after] THEN ToSet(shown.rows) ELSE {}

\* Mutant: another sort goes on at the old cursor.
KeepsCursor(listing) == [view EXCEPT !.listing = listing]

\* Another sort or direction starts over (the reset effect).
Chosen(listing) == FirstPage(listing)

Choose ==
  /\ Click
  /\ \E table \in Tables : \E listing \in table :
       /\ view.listing \in table /\ listing # view.listing
       /\ view' = Chosen(listing)
  /\ seen' = SeenAtFirst(view')
  /\ strayed' = FALSE
  /\ UNCHANGED <<value, shown, cache, touched>>

\* Next is offered by the answer on display, which may be the previous one:
\* after a reset it belongs to another page or to another listing.
NextCursor == shown.next

GoNextPage ==
  /\ Click
  /\ ~ByDocument(view.listing)
  /\ NextCursor # None
  /\ view' = [view EXCEPT !.page = @ + 1, !.stack = Append(@, NextCursor), !.after = NextCursor]
  /\ strayed' = (strayed \/ ~(ToSet(shown.rows) \subseteq seen))
  /\ UNCHANGED <<value, shown, cache, seen, touched>>

\* Load more: no placeholder, so only the answer to the question is shown.
LoadMore ==
  /\ Click
  /\ ByDocument(view.listing)
  /\ shown.question = Question /\ shown.next # None
  /\ view' = [view EXCEPT !.page = @ + 1, !.stack = Append(@, shown.next), !.after = shown.next]
  /\ UNCHANGED <<value, shown, cache, seen, touched, strayed>>

\* Mutant: the cursor popped, not the one below it.
PoppedCursor(stack) == Last(view.stack)

\* The cursor the page before started after.
PreviousCursor(stack) == IF stack = << >> THEN None ELSE Last(stack)

GoPrevPage ==
  /\ Click
  /\ ~ByDocument(view.listing)
  /\ view.page > 1 /\ shown # Nothing
  /\ LET stack == Front(view.stack)
     IN  view' = [view EXCEPT !.page = @ - 1, !.stack = stack, !.after = PreviousCursor(stack)]
  /\ UNCHANGED <<value, shown, cache, seen, touched, strayed>>

Kept(answer) == {kept \in cache : kept.question # answer.question} \cup {answer}

\* Refresh goes to page one and fetches again what the table asked for before.
Refresh ==
  /\ Click
  /\ ~ByDocument(view.listing)
  /\ shown # Nothing
  /\ view' = FirstPage(view.listing)
  /\ LET again == Answer(Question)
     IN  /\ cache' = Kept(again)
         /\ shown' = IF shown.question = Question THEN again ELSE shown
         /\ seen' = IF shown'.question = Question' THEN ToSet(shown'.rows) ELSE {}
  /\ strayed' = FALSE
  /\ UNCHANGED <<value, touched>>

Displays(answer) ==
  /\ shown' = answer
  /\ seen' = seen \cup ToSet(answer.rows)
  /\ UNCHANGED <<value, view, touched, strayed, budget>>

\* The answer arrives, or one kept for this question is shown.
Display ==
  /\ shown.question # Question
  /\ \/ Displays(Answer(Question)) /\ cache' = Kept(Answer(Question))
     \/ \E kept \in cache : kept.question = Question /\ Displays(kept) /\ UNCHANGED cache

\* A document moves that a page ended with: also pages that are kept go on from
\* where it is then.
Moves(d) ==
  /\ ByDocument(view.listing)
  /\ \E c \in {view.after} \cup {answer.next : answer \in cache \cup {shown}} : c # None /\ c.row = d

\* Others add, remove or change a row.
Write ==
  /\ budget.writes > 0 /\ budget' = [budget EXCEPT !.writes = @ - 1]
  /\ \E d \in Uids :
       /\ touched' = touched \cup {d}
       /\ \/ \E v \in Values :
               /\ d \in DOMAIN value => value[d] # v
               /\ value' = [e \in DOMAIN value \cup {d} |-> IF e = d THEN v ELSE value[e]]
               /\ strayed' = (strayed \/ Moves(d))
          \/ /\ d \in DOMAIN value
             /\ value' = [e \in DOMAIN value \ {d} |-> value[e]]
             /\ UNCHANGED strayed
  /\ UNCHANGED <<view, shown, cache, seen>>

Next == Choose \/ GoNextPage \/ LoadMore \/ GoPrevPage \/ Refresh \/ Display \/ Write

-----------------------------------------------------------------------------
TypeOK ==
  /\ DOMAIN value \subseteq Uids
  /\ view.page \in Nat \ {0}
  /\ seen \subseteq Uids /\ touched \subseteq Uids /\ strayed \in BOOLEAN

\* The cursors a table keeps are those of the pages before this one.
StackFollowsPage ==
  /\ Len(view.stack) = view.page - 1
  /\ view.after = IF view.stack = << >> THEN None ELSE Last(view.stack)

\* A cursor that stands for a place among the rows: a text no two rows share,
\* or a document.
PreciseCursor(listing) == listing.field = "uid" \/ ByDocument(listing)

OnLastPage == shown.question = Question /\ shown.next = None /\ ~shown.failed

\* Who turned the pages to the last one has seen every row that nobody wrote
\* meanwhile, however often they went back, clicked Next twice before the
\* answer was there, or were shown kept answers.
PagesMissNothing == OnLastPage /\ PreciseCursor(view.listing) /\ ~strayed => DOMAIN value \ touched \subseteq seen

\* Not so for the other sorts: rows that share the last row's value are
\* passed over, and a text is after every number and timestamp, so that
\* ascending page two is empty and descending page two is page one again.
EverySortMissesNothing == OnLastPage /\ ~strayed => DOMAIN value \ touched \subseteq seen

\* Nor when Next is clicked after a reset, on the page that was on display.
NextKnowsItsPage == OnLastPage /\ PreciseCursor(view.listing) => DOMAIN value \ touched \subseteq seen
=============================================================================
