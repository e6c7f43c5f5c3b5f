--------------------------- MODULE EditorTraverse ---------------------------
(***************************************************************************)
(* Traversals of the editor: the procedure `traverse` of trpc.ts, which    *)
(* walks hop by hop and reads several sources at once, and what            *)
(* TraversalBuilder makes of it: the types it expects along the hops and   *)
(* the path to each node found, by which the reader drills into it.        *)
(* The reads of a batch answer in any order but are used in the order they *)
(* were asked, so a traversal is a function of the graph.                  *)
(***************************************************************************)
EXTENDS Integers, Sequences, SequencesExt, FiniteSets

CONSTANTS
  Uids, TypeOf,
  Schemas,     \* the edge types of a registry, in order: source, relation, target
  Start,
  Walks,       \* hops: relation, direction, limit
  Budgets,     \* maxReads
  BatchSizes,  \* the concurrency asked for, at most 20 and at least 1
  MaxEdges,    \* bounds the graph
  Unknown

Edge(a, axb, b) == [a |-> a, axb |-> axb, b |-> b]

\* A hop's limit and the budgets are numbers of edges and of reads.
EditorAssumption ==
  /\ Start \in Uids /\ Budgets \subseteq Nat /\ BatchSizes \subseteq Nat \ {0}
  /\ \A hops \in Walks : /\ hops \in Seq({hops[d] : d \in DOMAIN hops}) /\ hops # << >>
                        /\ \A d \in DOMAIN hops : hops[d].limit \in Nat
  /\ \A s \in Schemas : s \in Seq({s[i] : i \in DOMAIN s}) /\ \A i \in DOMAIN s : s[i] = Edge(s[i].a, s[i].axb, s[i].b)
  /\ \A s \in Schemas : Unknown \notin [a : Uids, axb : {s[i].axb : i \in DOMAIN s}, b : Uids]

VARIABLES schema, rows
vars == <<schema, rows>>

\* What the registry admits.
Admitted == { Edge(a, schema[i].axb, b) : a \in Uids, b \in Uids, i \in DOMAIN schema }
Fits(e) == \E i \in DOMAIN schema : schema[i] = Edge(TypeOf[e.a], e.axb, TypeOf[e.b])

Init == schema \in Schemas /\ rows = << >>

Put ==
  /\ Len(rows) < MaxEdges
  /\ \E e \in Admitted : Fits(e) /\ e \notin ToSet(rows) /\ rows' = Append(rows, e)
  /\ UNCHANGED schema

Delete == \E k \in DOMAIN rows : rows' = RemoveAt(rows, k) /\ UNCHANGED schema

Next == Put \/ Delete

-----------------------------------------------------------------------------
(* The procedure. *)

From(hop, e) == IF hop.forward THEN e.a ELSE e.b
To(hop, e) == IF hop.forward THEN e.b ELSE e.a

Atmost(s, n) == IF Len(s) <= n THEN s ELSE SubSeq(s, 1, n)

\* The elements of s at the positions in K.
InTurn(s, K) ==
  LET place(i) == Cardinality({j \in K : j < i})
  IN  [k \in 1..Cardinality(K) |-> s[CHOOSE i \in K : place(i) = k - 1]]

EdgesOf(hop, uid) ==
  Atmost(InTurn(rows, {k \in DOMAIN rows : rows[k].axb = hop.axb /\ From(hop, rows[k]) = uid}), hop.limit)

Found(hop, sources) == FlattenSeq([i \in DOMAIN sources |-> EdgesOf(hop, sources[i])])

\* A source is read while the budget lasts, also within a batch.
Asked(sources, left) == Atmost(sources, left)

\* Mutant: a hop is never cut.
NeverCut(sources, left, batch) == FALSE

\* The hop is cut where a batch starts with nothing left; a batch that runs
\* out halfway skips its other sources and says nothing.
Cut(sources, left, batch) == \E k \in 0..(Len(sources) - 1) : k % batch = 0 /\ k >= left

\* Each target once, in the order found.
Distinct(s) == InTurn(s, {k \in DOMAIN s : \A j \in 1..(k - 1) : s[j] # s[k]})

\* Mutant: the walk stays at the sources.
OtherEnds(hop, found) == Distinct([i \in DOMAIN found |-> From(hop, found[i])])

NextSources(hop, found) == Distinct([i \in DOMAIN found |-> To(hop, found[i])])

\* After a cut, hops are reported empty.
Hop(walk, hop, maxReads, batch) ==
  IF walk.truncated \/ walk.sources = << >>
    THEN [walk EXCEPT !.found = << >>]
    ELSE LET left  == maxReads - walk.reads
             asked == Asked(walk.sources, left)
             found == Found(hop, asked)
         IN  [sources   |-> NextSources(hop, found),
              reads     |-> walk.reads + Len(asked),
              truncated |-> Cut(walk.sources, left, batch),
              found     |-> found]

\* The traversal after each hop: the sources of the next one, and what this
\* one found.
Traverse(hops, maxReads, batch) ==
  LET walk[d \in 0..Len(hops)] ==
        IF d = 0 THEN [sources |-> <<Start>>, reads |-> 0, truncated |-> FALSE, found |-> << >>]
        ELSE Hop(walk[d - 1], hops[d], maxReads, batch)
  IN  walk

-----------------------------------------------------------------------------
(* The builder. *)

FirstOf(K) == CHOOSE k \in K : \A j \in K : k <= j

\* Mutant: the edge that begins where the next one does.
LeadingFrom(hop, found, uid) ==
  LET here == {k \in DOMAIN found : From(hop, found[k]) = uid}
  IN  IF here = {} THEN Unknown ELSE found[FirstOf(here)]

\* From an edge back to the start: in each earlier hop, the first edge that
\* led to where the next one begins.
Leading(hop, found, uid) ==
  LET here == {k \in DOMAIN found : To(hop, found[k]) = uid}
  IN  IF here = {} THEN Unknown ELSE found[FirstOf(here)]

\* The edges of reconstructPath; Unknown where the search breaks off.
PathTo(hops, result, depth, e) ==
  LET chain[g \in 1..depth] ==
        IF g = depth THEN e
        ELSE IF chain[g + 1] = Unknown THEN Unknown
        ELSE Leading(hops[g], result[g].found, From(hops[g + 1], chain[g + 1]))
  IN  chain

\* Mutant: the first edge type of the relation.
InferredFromAny(hop, type) ==
  LET matching == {i \in DOMAIN schema : schema[i].axb = hop.axb}
  IN  IF matching = {} THEN Unknown ELSE To(hop, schema[FirstOf(matching)])

\* inferTypeFlow: the type before each hop and after the last.
Inferred(hop, type) ==
  LET matching == {i \in DOMAIN schema : schema[i].axb = hop.axb}
      fitting  == {i \in matching : From(hop, schema[i]) = type}
  IN  IF type # Unknown
        THEN IF fitting = {} THEN Unknown ELSE To(hop, schema[FirstOf(fitting)])
        ELSE IF Cardinality(matching) = 1 THEN To(hop, schema[FirstOf(matching)]) ELSE Unknown

TypeFlow(hops, startType) ==
  LET flow[i \in 0..Len(hops)] == IF i = 0 THEN startType ELSE Inferred(hops[i], flow[i - 1])
  IN  flow

-----------------------------------------------------------------------------
\* Edges of the graph, all of which the registry admits.
TypeOK == schema \in Schemas /\ rows \in Seq({e \in Admitted : Fits(e)})

\* What each hop finds without a budget.
Unlimited(hops) ==
  LET walk[d \in 0..Len(hops)] ==
        IF d = 0 THEN [sources |-> <<Start>>, found |-> << >>]
        ELSE LET found == Found(hops[d], walk[d - 1].sources)
             IN  [sources |-> NextSources(hops[d], found), found |-> found]
  IN  walk

\* No more reads than allowed; and where neither the budget is used up nor
\* the answer says truncated, every hop is what it is without a budget.
BudgetIsKept ==
  \A hops \in Walks, maxReads \in Budgets, batch \in BatchSizes :
    LET got == Traverse(hops, maxReads, batch)
        end == got[Len(hops)]
    IN  /\ end.reads <= maxReads
        /\ ~end.truncated /\ (end.reads < maxReads \/ batch = 1) =>
             \A d \in DOMAIN hops : got[d].found = Unlimited(hops)[d].found

\* Not so for larger batches that use up the budget in the last hop.
TruncatedWhenIncomplete ==
  \A hops \in Walks, maxReads \in Budgets, batch \in BatchSizes :
    LET got == Traverse(hops, maxReads, batch)
    IN  ~got[Len(hops)].truncated => \A d \in DOMAIN hops : got[d].found = Unlimited(hops)[d].found

\* Every node found has a path: edges of the hops before, end to end, from
\* the start.
PathsLeadFromStart ==
  \A hops \in Walks, maxReads \in Budgets, batch \in BatchSizes :
    LET got == Traverse(hops, maxReads, batch)
    IN  \A depth \in DOMAIN hops : \A e \in ToSet(got[depth].found) :
          LET path == PathTo(hops, got, depth, e)
          IN  /\ \A g \in 1..depth : path[g] # Unknown /\ path[g] \in ToSet(got[g].found)
              /\ From(hops[1], path[1]) = Start
              /\ \A g \in 1..(depth - 1) : To(hops[g], path[g]) = From(hops[g + 1], path[g + 1])

\* A relation that leads from one type to one type in each direction.
Unambiguous ==
  \A i, j \in DOMAIN schema :
    schema[i].axb = schema[j].axb /\ i # j => schema[i].a # schema[j].a /\ schema[i].b # schema[j].b

\* The type the builder shows after a hop is that of every node found there,
\* started from a known or an unknown type, where relations are unambiguous.
TypesAreInferred ==
  Unambiguous =>
    \A hops \in Walks, startType \in {TypeOf[Start], Unknown} :
      LET flow == TypeFlow(hops, startType)
      IN  \A depth \in DOMAIN hops : \A e \in ToSet(Unlimited(hops)[depth].found) :
            flow[depth] \in {Unknown, TypeOf[To(hops[depth], e)]}
=============================================================================
