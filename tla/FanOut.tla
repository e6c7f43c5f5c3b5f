------------------------------- MODULE FanOut -------------------------------
(***************************************************************************)
(* Following one relation from many nodes at once: expand, as one SQL      *)
(* statement (src/internal/sqlite-sql.ts), as chunks of a classic query    *)
(* (firestore-classic-expand.ts) and as one pipeline (firestore-expand.ts),*)
(* and a whole walk as one nested pipeline (firestore-traverse.ts), next   *)
(* to the loop of src/traverse.ts that asks for one source at a time.      *)
(*                                                                         *)
(* A graph is the sequence of its records in the order a query without     *)
(* orderBy returns them; ordered by a field, they are ordered by Rank.     *)
(***************************************************************************)
EXTENDS Integers, Sequences, FiniteSets, SequencesExt

CONSTANTS
    Nodes, Relations,
    TypeOf,      \* uid -> the type of its node, which edges repeat
    Rank,        \* uid -> the value an edge to it has in the field ordered by
    ChunkSize,   \* values a classic `in` takes (30)
    MaxDepth,    \* MAX_PIPELINE_DEPTH
    MaxReads,    \* values of maxReads given to the compiler
    Limits,      \* values of limitPerSource
    AnyType,     \* aType or bType left out of a question
    Sources,     \* the questions asked: lists of sources
    Walks,       \* and lists of hops
    MaxRows      \* bound: records of the graph

Is == "is"
NoLimit == -1

\* A hop: relation, direction, types, limitPerSource, and whether it is ordered.
Hop == [axb : Relations \cup {Is}, forward : BOOLEAN, aType : {AnyType} \cup {TypeOf[u] : u \in Nodes},
        bType : {AnyType} \cup {TypeOf[u] : u \in Nodes}, limit : Limits \cup {NoLimit}, ordered : BOOLEAN]

ASSUME GraphAssumption ==
    /\ Is \notin Relations     \* NODE_RELATION marks the nodes
    /\ Rank \in [Nodes -> Int]
    /\ MaxRows \in Nat
ASSUME QuestionsAssumption ==
    /\ ChunkSize \in Nat \ {0}
    /\ Limits \subseteq Nat
    /\ Sources \subseteq Seq(Nodes)
    /\ Walks \subseteq Seq({h \in Hop : h.axb \in Relations})

VARIABLE rows

Record == [a : Nodes, axb : Relations, b : Nodes] \cup {[a |-> u, axb |-> Is, b |-> u] : u \in Nodes}
Loop(e) == e.a = e.b

GraphInit == rows = << >>

Put(e) ==
    /\ Len(rows) < MaxRows
    /\ \A k \in DOMAIN rows : rows[k] # e
    /\ rows' = Append(rows, e)

Delete(k) == rows' = RemoveAt(rows, k)

GraphNext == (\E e \in Record : Put(e)) \/ (\E k \in DOMAIN rows : Delete(k))
GraphSpec == GraphInit /\ [][GraphNext]_rows

(***************************************************************************)
(* Queries.                                                                *)
(***************************************************************************)

From(h, e) == IF h.forward THEN e.a ELSE e.b
To(h, e) == IF h.forward THEN e.b ELSE e.a

Matching(h, e) == e.axb = h.axb /\ h.aType \in {AnyType, TypeOf[e.a]} /\ h.bType \in {AnyType, TypeOf[e.b]}

\* The elements of s at the positions in K, by their keys; equal keys stay in turn.
Sorted(s, K, key) ==
    LET place(i) == Cardinality({j \in K : key[j] < key[i] \/ (key[j] = key[i] /\ j < i)})
    IN [k \in 1..Cardinality(K) |-> s[CHOOSE i \in K : place(i) = k - 1]]
InTurn(s, K) == Sorted(s, K, [k \in DOMAIN s |-> 0])

Ordered(h, s) == IF h.ordered THEN Sorted(s, DOMAIN s, [k \in DOMAIN s |-> Rank[s[k].b]]) ELSE s
Take(s, n) == IF n = NoLimit \/ n >= Len(s) THEN s ELSE SubSeq(s, 1, n)
Times(n, limit) == IF limit = NoLimit THEN NoLimit ELSE n * limit

Wanted(h, sources) == {k \in DOMAIN rows : Matching(h, rows[k]) /\ From(h, rows[k]) \in sources}
Query(h, sources, limit) ==
    Take(Ordered(h, InTurn(rows, Wanted(h, sources))), limit)

NoLoops(h, s) == IF h.axb = Is THEN InTurn(s, {k \in DOMAIN s : ~Loop(s[k])}) ELSE s

(***************************************************************************)
(* expand, for a sequence of sources.                                      *)
(***************************************************************************)

\* One statement, with the node rows excluded before the limit.
SqlExpand(h, sources) ==
    Take(Ordered(h, NoLoops(h, InTurn(rows, Wanted(h, Range(sources))))),
         Times(Len(sources), h.limit))

\* One pipeline; node rows are dropped after the limit.
PipelineExpand(h, sources) == NoLoops(h, Query(h, Range(sources), Times(Len(sources), h.limit)))

\* Chunks of the sources: the last one is shorter.
WholeChunks(sources) ==
    [i \in 1..(Len(sources) \div ChunkSize) |-> SubSeq(sources, (i - 1) * ChunkSize + 1, i * ChunkSize)]
Smaller(i, j) == IF i < j THEN i ELSE j
ChunkUids(sources) ==
    [i \in 1..((Len(sources) + ChunkSize - 1) \div ChunkSize) |->
        SubSeq(sources, (i - 1) * ChunkSize + 1, Smaller(i * ChunkSize, Len(sources)))]

\* One query per chunk, each with its share of the limit.
ClassicExpand(h, sources) ==
    LET chunks == ChunkUids(sources)
        found == FlattenSeq([i \in DOMAIN chunks |-> Query(h, Range(chunks[i]), Times(Len(chunks[i]), h.limit))])
    IN Take(Ordered(h, NoLoops(h, found)), Times(Len(sources), h.limit))

\* The nodes the edges lead to, in their order; Missing where a node is gone.
Missing == "missing"
PresentOnly(h, edges) ==
    InTurn([k \in DOMAIN edges |-> To(h, edges[k])],
           {k \in DOMAIN edges : \E i \in DOMAIN rows : rows[i].axb = Is /\ rows[i].b = To(h, edges[k])})
Hydrate(h, edges) ==
    [k \in DOMAIN edges |->
        IF \E i \in DOMAIN rows : rows[i].axb = Is /\ rows[i].b = To(h, edges[k]) THEN To(h, edges[k]) ELSE Missing]

(***************************************************************************)
(* A walk from one node.                                                   *)
(***************************************************************************)

\* The first edge to each target.
FirstTo(h, s) ==
    InTurn(s, {k \in DOMAIN s : \A j \in 1..(k - 1) : To(h, s[j]) # To(h, s[k])})

\* What a hop finds from each node of a list on its own.
FromEach(h, from) == FlattenSeq([k \in DOMAIN from |-> Query(h, {from[k]}, h.limit)])

\* The loop of traverse.ts without query.join: findEdges for each source.
LoopHops(start, hops) ==
    LET walk[d \in 0..Len(hops)] ==
          IF d = 0 THEN [edges |-> << >>, sources |-> <<start>>]
          ELSE LET h == hops[d]
                   edges == FromEach(h, walk[d - 1].sources)
                   next == FirstTo(h, edges)
               IN [edges |-> edges, sources |-> [k \in DOMAIN next |-> To(h, next[k])]]
    IN [d \in 1..Len(hops) |-> walk[d].edges]

Product(n, hops) == FoldLeft(LAMBDA p, h : p * h.limit, n, hops)

\* compileEngineTraversal: the walks that one pipeline may answer.
Eligible(hops, maxReads) ==
    /\ Len(hops) \in 1..MaxDepth
    /\ \A d \in DOMAIN hops : hops[d].limit # NoLimit /\ hops[d].limit > 0
    /\ Product(1, hops) <= maxReads

\* The children of a row are the records its own sub-pipeline finds.
JoinsOnSource(h, e) == From(h, e)
JoinKey(h, e) == To(h, e)

\* What the nested pipeline answers, decoded depth by depth: every row brings
\* its children, and each depth keeps the first edge to each target.
EngineHops(start, hops) ==
    LET frontier[d \in 1..Len(hops)] ==
          FromEach(hops[d], IF d = 1 THEN <<start>>
                            ELSE [k \in DOMAIN frontier[d - 1] |-> JoinKey(hops[d - 1], frontier[d - 1][k])])
    IN [d \in 1..Len(hops) |-> FirstTo(hops[d], NoLoops(hops[d], frontier[d]))]

\* What the caller is told of a hop that the engine answered.
MoreThanLimit(h, edges) == Len(edges) > h.limit
HopTruncated(h, edges) == Len(edges) >= h.limit

(***************************************************************************)
(* Properties.                                                             *)
(***************************************************************************)

\* A graph holds no record twice.
GraphTypeOK ==
    /\ rows \in Seq(Record) /\ Len(rows) <= MaxRows
    /\ \A j, k \in DOMAIN rows : rows[j] = rows[k] => j = k

\* Without limits the three ways to expand find the same edges, however the
\* sources are chunked, and so does asking for every source on its own.
UnlimitedExpandsAgree ==
    \A sources \in Sources : \A h \in Hop :
        h.limit = NoLimit =>
          LET found == Range(SqlExpand(h, sources)) IN
          /\ Range(ClassicExpand(h, sources)) = found
          /\ Range(PipelineExpand(h, sources)) = found
          /\ UNION {Range(NoLoops(h, Query(h, {u}, NoLimit))) : u \in Range(sources)} = found

\* The limit is a cap on the whole answer: no backend returns more than it,
\* an edge it does not hold, or one edge twice for one source.
LimitsCap ==
    \A sources \in Sources : \A h \in Hop :
        h.limit # NoLimit /\ Cardinality(Range(sources)) = Len(sources) =>
          \A found \in {SqlExpand(h, sources), ClassicExpand(h, sources), PipelineExpand(h, sources)} :
            /\ Len(found) <= Len(sources) * h.limit
            /\ Len(found) = Cardinality(Range(found))
            /\ Range(found) \subseteq Range(SqlExpand([h EXCEPT !.limit = NoLimit], sources))

\* Hydration has one slot per edge: a target that is gone leaves its slot empty
\* and moves no other target.
TargetsAligned ==
    \A sources \in Sources : \A h \in Hop :
        LET edges == SqlExpand(h, sources)
            targets == Hydrate(h, edges)
        IN /\ Len(targets) = Len(edges)
           /\ \A k \in DOMAIN targets : targets[k] \in {To(h, edges[k]), Missing}

\* A walk that the engine answers in one round trip reaches, at every hop and
\* with every limit, the nodes that the loop reaches.
EngineReachesWhatHopsReach ==
    \A start \in Nodes, hops \in Walks, maxReads \in MaxReads :
        Eligible(hops, maxReads) =>
          \A d \in DOMAIN hops :
            {To(hops[d], e) : e \in Range(EngineHops(start, hops)[d])}
              = {To(hops[d], e) : e \in Range(LoopHops(start, hops)[d])}

\* When a limit cut off edges of some source of a hop, the hop is reported as
\* truncated, although rows of several parents were merged before counting.
CutsAreReported ==
    \A start \in Nodes, hops \in Walks :
        Eligible(hops, Product(1, hops)) =>
          \A d \in DOMAIN hops :
            LET from == IF d = 1 THEN {start}
                        ELSE {To(hops[d - 1], e) : e \in Range(EngineHops(start, hops)[d - 1])}
            IN (\E u \in from : Len(Query(hops[d], {u}, NoLimit)) > hops[d].limit)
                 => HopTruncated(hops[d], EngineHops(start, hops)[d])

\* SQL, chunks of a classic query and one pipeline expand the same sources to
\* the same edges, limits only cut, and each target stays with its edge.
ExpandsAgree == rows # << >> => GraphTypeOK /\ UnlimitedExpandsAgree /\ LimitsCap /\ TargetsAligned

\* A walk in one round trip reaches what the loop reaches, and reports each
\* hop that a limit cut.
WalksAgree == rows # << >> => EngineReachesWhatHopsReach /\ CutsAreReported

\* src/src/firestore-standard/backend.ts:355: the chunks, sorted and cut again,
\* answer what the one statement of the SQL backends answers.
ChunksMatchOneStatement ==
    \A sources \in Sources : \A h \in Hop :
        h.ordered /\ h.axb # Is =>
          {Rank[e.b] : e \in Range(ClassicExpand(h, sources))}
            = {Rank[e.b] : e \in Range(SqlExpand(h, sources))}

=============================================================================
