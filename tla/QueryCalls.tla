------------------------------ MODULE QueryCalls ------------------------------
(***************************************************************************)
(* A call of the query client (query-client/client.ts) to the editor's      *)
(* server (editor/server/trpc.ts): what the client refuses, clamps and      *)
(* sends, what the server accepts, and what search and getNodeDetail answer *)
(* from a collection of nodes and edges.                                    *)
(*                                                                         *)
(* A record is <<aUid, relation, bUid>>; a node's is <<uid, "is", uid>>.  A *)
(* number of the caller is <<>> when it is left out, and <<n, whole>>       *)
(* otherwise.                                                               *)
(***************************************************************************)
EXTENDS Integers, FiniteSets, SequencesExt

CONSTANTS
  Stored,       \* records there may be, in the order Firestore returns them
  Unprefixed,   \* uid as given -> uid, "type:uid" among the given
  PageMax, SearchMax, PageDefault, SearchDefault,
  EdgeLimit,    \* edges a detail shows
  Calls

VARIABLES records, call

vars == <<records, call>>

-----------------------------------------------------------------------------
(* The client.                                                              *)

Whole(number) == number = <<>> \/ number[2]

\* Mutant: nothing is too small.
ClampAbove(number, most, default) ==
  IF number = <<>> THEN default ELSE IF number[1] > most THEN most ELSE number[1]

Clamp(number, most, default) ==
  IF number = <<>> THEN default
  ELSE IF number[1] > most THEN most ELSE IF number[1] < 1 THEN 1 ELSE number[1]

Positive(number) == number = <<>> \/ (number[2] /\ number[1] >= 1)

\* VALIDATION_ERROR, before anything is sent.
Refuses(c) ==
  CASE c.name = "getNodeDetail" -> c.uid = ""
    [] c.name = "search" -> c.uid = "" \/ ~Whole(c.limit)
    [] c.name = "getNodes" -> ~Whole(c.limit)
    [] c.name = "getEdges" -> ~Whole(c.limit) \/ ~c.filtered
    [] c.name = "traverse" ->
         \/ c.uid = "" \/ c.hops = <<>>
         \/ ~Positive(c.reads)
         \/ \E i \in DOMAIN c.hops : c.hops[i].relation = "" \/ ~Positive(c.hops[i].limit)

\* The input that is sent.
Sent(c) ==
  CASE c.name = "search" -> [c EXCEPT !.limit = <<Clamp(c.limit, SearchMax, SearchDefault), TRUE>>]
    [] c.name \in {"getNodes", "getEdges"} ->
         [c EXCEPT !.limit = <<Clamp(c.limit, PageMax, PageDefault), TRUE>>]
    [] OTHER -> c

-----------------------------------------------------------------------------
(* The server.                                                              *)

Between(number, most) == number = <<>> \/ (1 <= number[1] /\ number[1] <= most)

\* The schemas of the inputs.
Accepts(input) ==
  CASE input.name = "search" -> Between(input.limit, SearchMax)
    [] input.name \in {"getNodes", "getEdges"} -> Between(input.limit, PageMax)
    [] input.name = "traverse" -> input.uid # "" /\ input.hops # <<>>
    [] OTHER -> TRUE

\* The first `n` records whose `end` is a uid: 1 for aUid, 3 for bUid.
Fetched(end, uid, n) ==
  LET all == SelectSeq(Stored, LAMBDA r : r \in records /\ r[end] = uid)
  IN  SubSeq(all, 1, IF Len(all) < n THEN Len(all) ELSE n)

Node(uid) == <<uid, "is", uid>>
Edges(list) == SelectSeq(list, LAMBDA r : r[2] # "is")

\* Mutant: the record of the node is forgotten, which takes a place of its edges.
FullPage(uid) == [node |-> Node(uid) \in records,
                  out |-> Edges(Fetched(1, uid, EdgeLimit)), in |-> Edges(Fetched(3, uid, EdgeLimit))]

Detail(uid) == [node |-> Node(uid) \in records,
                out |-> Edges(Fetched(1, uid, EdgeLimit + 1)), in |-> Edges(Fetched(3, uid, EdgeLimit + 1))]

\* Mutant: what was found by its aUid is found again by its bUid.
Appended(list, r) == Append(list, r)

\* One record is one result, under the first match.
Merged(list, r) == IF \E k \in DOMAIN list : list[k] = r THEN list ELSE Append(list, r)

\* The node itself, then what starts there, then what ends there.
Search(uid, limit) ==
  LET exact == IF Node(uid) \in records THEN <<Node(uid)>> ELSE <<>>
      all == FoldLeft(Merged, exact, Fetched(1, uid, limit) \o Fetched(3, uid, limit))
  IN  SubSeq(all, 1, IF Len(all) < limit THEN Len(all) ELSE limit)

-----------------------------------------------------------------------------
Init == records = {} /\ call \in Calls

Store(r) == records' = records \cup {r} /\ UNCHANGED call

Next == \E i \in DOMAIN Stored : Stored[i] \notin records /\ Store(Stored[i])

-----------------------------------------------------------------------------
\* The client sends nothing that the server refuses: its bounds are the server's.
SentIsAccepted == ~Refuses(call) => Accepts(Sent(call))

\* A search gives every record of a uid once, its node first, up to the limit,
\* although three lookups find them, each with the limit.
SearchFindsOnce ==
  call.name = "search" /\ ~Refuses(call) =>
    LET uid == Unprefixed[call.uid]
        limit == Sent(call).limit[1]
        answer == Search(uid, limit)
        about == {r \in records : uid \in {r[1], r[3]}}
    IN  /\ Range(answer) \subseteq about /\ IsInjective(answer)
        /\ Len(answer) = IF Cardinality(about) < limit THEN Cardinality(about) ELSE limit
        /\ Node(uid) \in records => answer[1] = Node(uid)

\* A detail shows all edges of a node that has no more than a detail shows,
\* although the record of the node is among what is fetched.
DetailIsWhole ==
  call.name = "getNodeDetail" /\ ~Refuses(call) =>
    LET uid == Unprefixed[call.uid]
        edges(end) == {r \in records : r[end] = uid /\ r[2] # "is"}
    IN  /\ Cardinality(edges(1)) <= EdgeLimit => Range(Detail(uid).out) = edges(1)
        /\ Cardinality(edges(3)) <= EdgeLimit => Range(Detail(uid).in) = edges(3)
=============================================================================
