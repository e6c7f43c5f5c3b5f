------------------------------ MODULE Traversal ------------------------------
(***************************************************************************)
(* One run of a traversal (src/traverse.ts): hop by hop, one findEdges per *)
(* source under a semaphore and a read budget, or one expand for all of    *)
(* them; the uids found, each with the reader it was found through, are    *)
(* the sources of the next hop.                                            *)
(*                                                                         *)
(* The graph does not change during the run.  What matches a hop's types,  *)
(* direction and filter, in the order of its query, is a constant of the   *)
(* hop.  Traversals that the engine runs as a whole are left out.          *)
(***************************************************************************)
EXTENDS Integers, Sequences, FiniteSets, SequencesExt

CONSTANTS
    Uids,        \* nodes
    Readers,     \* the root client and the clients of subgraphs
    Root,        \* the reader the traversal was built with
    Start,       \* its first uid
    Sub,         \* uid -> the reader that subgraph(uid, target) opens
    CanSubgraph, \* the root reader is a client, not a transaction
    Backends,    \* [join, chunk]: the readers that have query.join, the sources of one query
    Hops,        \* [cross, filtered, limit, match]: match[reader][uid] are all targets
    Budgets,     \* values of options.maxReads
    Slots,       \* values of options.concurrency
    MaxFailures  \* bound: reads that fail

ASSUME ReadersAssumption ==
    /\ Root \in Readers /\ Start \in Uids /\ Sub \in [Uids -> Readers]
    /\ Backends \subseteq [join : SUBSET Readers, chunk : Nat \ {0}]
ASSUME OptionsAssumption ==
    /\ CanSubgraph \in BOOLEAN
    /\ Budgets \subseteq Nat
    /\ Slots \subseteq Nat \ {0}     \* no slot: nothing would ever be read
    /\ MaxFailures \in Nat
ASSUME HopsAssumption ==
    \* limit 0, which findEdges takes for none and expand for nothing, is left out
    /\ Hops \in Seq([cross : BOOLEAN, filtered : BOOLEAN, limit : Nat \ {0},
                     match : [Readers -> [Uids -> Seq(Uids)]]])
    /\ Hops # << >>     \* run throws without one
    \* a document's id is its edge's source, relation and target
    /\ \A d \in DOMAIN Hops, r \in Readers, u \in Uids :
         LET match == Hops[d].match[r][u]
         IN \A j, k \in DOMAIN match : match[j] = match[k] => j = k

VARIABLES
    maxReads, slots, expands,    \* options of the run, its backend
    depth,                       \* hops done
    sources,                     \* uids with the reader of each
    task, queue, active,         \* the tasks of this hop and the semaphore
    hopEdges, hopTruncated,      \* what this hop, or the last one, gave
    totalReads, truncated, status,
    capped,                      \* a query of some expand had more to return than it may
    failures

vars == <<maxReads, slots, expands, depth, sources, task, queue, active, hopEdges, hopTruncated,
          totalReads, truncated, status, capped, failures>>

hop == Hops[depth + 1]
Spent == totalReads >= maxReads

Init ==
    /\ maxReads \in Budgets
    /\ slots \in Slots
    /\ expands \in Backends
    /\ depth = 0
    /\ sources = << [uid |-> Start, reader |-> Root] >>
    /\ task = << >> /\ queue = << >> /\ active = 0
    /\ hopEdges = << >> /\ hopTruncated = FALSE
    /\ totalReads = 0 /\ truncated = FALSE /\ status = "running" /\ capped = FALSE
    /\ failures = 0

(***************************************************************************)
(* What a hop reads.                                                       *)
(***************************************************************************)

\* Where the edges of a source are looked up.
HopReader(h, s) == IF h.cross /\ CanSubgraph THEN Sub[s.uid] ELSE s.reader

\* The reader that the uids found through `reader` carry to the next hop.
StaysOutside(s, reader) == s.reader
NextReader(s, reader) == reader

AtMost(n, limit) == IF n <= limit THEN n ELSE limit

\* How many of a source's matches are taken: the limit is one per source, but
\* that of an expand without a filter is not (`lifted`).
UnlimitedFilter(lifted, h, match) == IF lifted THEN Len(match) ELSE AtMost(Len(match), h.limit)
Taken(lifted, h, match) ==
    IF lifted /\ ~h.filtered THEN Len(match) ELSE AtMost(Len(match), h.limit)

Found(lifted, h, s) ==
    LET reader == HopReader(h, s)
        match  == h.match[reader][s.uid]
    IN [k \in 1..Taken(lifted, h, match) |->
          [graph |-> reader, from |-> s.uid, to |-> match[k], reader |-> NextReader(s, reader)]]

FindEdges(h, s) == Found(FALSE, h, s)

\* The next sources: each target once, with the reader of its first edge.
AllTargets(edges) == [k \in DOMAIN edges |-> [uid |-> edges[k].to, reader |-> edges[k].reader]]
NextSources(edges) ==
    LET seen[k \in 0..Len(edges)] ==
          IF k = 0 THEN << >>
          ELSE IF \E j \in DOMAIN seen[k - 1] : seen[k - 1][j].uid = edges[k].to THEN seen[k - 1]
          ELSE Append(seen[k - 1], [uid |-> edges[k].to, reader |-> edges[k].reader])
    IN seen[Len(edges)]

\* One expand answers for all sources of one graph.
FastPath ==
    /\ ~hop.cross
    /\ \A k \in DOMAIN sources : sources[k].reader = sources[1].reader
    /\ sources[1].reader \in expands.join

\* The sources that are in one query with source k, and what it has to return.
Together(k) == {j \in DOMAIN sources : (j - 1) \div expands.chunk = (k - 1) \div expands.chunk}
Pool(K) == UNION {Range(Found(TRUE, hop, sources[k])) : k \in K}
Most(K) == IF hop.filtered THEN Cardinality(Pool(K)) ELSE Cardinality(K) * hop.limit

Crowded == \E k \in DOMAIN sources : Cardinality(Pool(Together(k))) > Most(Together(k))

\* What an expand may return.  The limit caps the answer to each query, never the
\* edges of each source; which edges it leaves out is up to order and backend.
Expansions ==
    {found \in SUBSET Pool(DOMAIN sources) :
       \A k \in DOMAIN sources :
         LET K == Together(k)
         IN Cardinality(found \cap Pool(K)) = AtMost(Cardinality(Pool(K)), Most(K))}

(***************************************************************************)
(* The hops.                                                               *)
(***************************************************************************)

BetweenHops == status = "running" /\ depth < Len(Hops) /\ task = << >>

SkipEmptyHop ==
    /\ BetweenHops
    /\ sources = << >>
    /\ depth' = depth + 1
    /\ hopEdges' = << >> /\ hopTruncated' = FALSE
    /\ UNCHANGED <<maxReads, slots, expands, sources, task, queue, active, totalReads, truncated, status, failures, capped>>

ExpandHop ==
    /\ BetweenHops
    /\ sources # << >>
    /\ FastPath
    /\ hopTruncated' = Spent
    /\ totalReads' = IF Spent THEN totalReads ELSE totalReads + 1
    /\ IF Spent THEN hopEdges' = << >> ELSE \E found \in Expansions : hopEdges' \in SetToSeqs(found)
    /\ truncated' = (truncated \/ Spent)
    /\ capped' = (capped \/ (~Spent /\ Crowded))
    /\ sources' = NextSources(hopEdges')
    /\ depth' = depth + 1
    /\ UNCHANGED <<maxReads, slots, expands, task, queue, active, status, failures>>

ExpandFails ==
    /\ BetweenHops
    /\ sources # << >>
    /\ FastPath
    /\ ~Spent
    /\ failures < MaxFailures
    /\ failures' = failures + 1
    /\ totalReads' = totalReads + 1
    /\ status' = "rejected"
    /\ UNCHANGED <<maxReads, slots, expands, depth, sources, task, queue, active, hopEdges, hopTruncated, truncated, capped>>

\* Semaphore.acquire by n tasks in order: how many get a slot at once.
OneTooMany(n) == IF n <= slots - active THEN n ELSE slots - active + 1
Granted(n) == IF n <= slots - active THEN n ELSE slots - active

\* All tasks of the hop run to their first await.
StartHop ==
    LET n == Len(sources) IN
    /\ BetweenHops
    /\ sources # << >>
    /\ ~FastPath
    /\ hopEdges' = << >>
    /\ hopTruncated' = Spent
    /\ task' = [k \in 1..n |-> IF Spent THEN "done" ELSE IF k <= Granted(n) THEN "ready" ELSE "queued"]
    /\ active' = IF Spent THEN active ELSE active + Granted(n)
    /\ queue' = IF Spent THEN << >> ELSE [k \in 1..(n - Granted(n)) |-> Granted(n) + k]
    /\ UNCHANGED <<maxReads, slots, expands, depth, sources, totalReads, truncated, status, failures, capped>>

\* The slots in use after Semaphore.release.
ForgetsTheNext == active - 1
Used == IF queue = << >> THEN active - 1 ELSE active

\* Task k ends as `how`, and the first task in the queue takes its slot.
Release(k, how) ==
    /\ active' = Used
    /\ queue' = IF queue = << >> THEN queue ELSE Tail(queue)
    /\ task' = [j \in DOMAIN task |-> CASE j = k -> how
                                        [] queue # << >> /\ j = queue[1] -> "ready"
                                        [] OTHER -> task[j]]

\* A task that waited for its slot looks at the budget again.
NoSecondLook == FALSE
SpentMeanwhile == Spent

\* Whether a task that gives up says so.
SilentSkip == hopTruncated
TruncatedBySkip == TRUE

GiveUp(k) ==
    /\ task[k] = "ready"
    /\ SpentMeanwhile
    /\ hopTruncated' = TruncatedBySkip
    /\ Release(k, "done")
    /\ UNCHANGED <<maxReads, slots, expands, depth, sources, hopEdges, totalReads, truncated, status, failures, capped>>

Read(k) ==
    /\ task[k] = "ready"
    /\ ~SpentMeanwhile
    /\ totalReads' = totalReads + 1
    /\ task' = [task EXCEPT ![k] = "reading"]
    /\ UNCHANGED <<maxReads, slots, expands, depth, sources, queue, active, hopEdges, hopTruncated, truncated, status, failures, capped>>

Answer(k) ==
    /\ task[k] = "reading"
    /\ hopEdges' = hopEdges \o FindEdges(hop, sources[k])
    /\ Release(k, "done")
    /\ UNCHANGED <<maxReads, slots, expands, depth, sources, hopTruncated, totalReads, truncated, status, failures, capped>>

\* What the slot of a failed read becomes: `finally` releases it.
Keeps(k) ==
    /\ task' = [task EXCEPT ![k] = "done"]
    /\ UNCHANGED <<queue, active>>
AfterFailure(k) == Release(k, "done")

\* The caller is rejected; the other tasks of the hop go on.
ReadFails(k) ==
    /\ task[k] = "reading"
    /\ failures < MaxFailures
    /\ failures' = failures + 1
    /\ status' = "rejected"
    /\ AfterFailure(k)
    /\ UNCHANGED <<maxReads, slots, expands, depth, sources, hopEdges, hopTruncated, totalReads, truncated, capped>>

HopDone ==
    /\ status = "running"
    /\ task # << >>
    /\ \A k \in DOMAIN task : task[k] = "done"
    /\ truncated' = (truncated \/ hopTruncated)
    /\ sources' = NextSources(hopEdges)
    /\ task' = << >>
    /\ depth' = depth + 1
    /\ UNCHANGED <<maxReads, slots, expands, queue, active, hopEdges, hopTruncated, totalReads, status, failures, capped>>

Finish ==
    /\ status = "running"
    /\ depth = Len(Hops)
    /\ status' = "resolved"
    /\ UNCHANGED <<maxReads, slots, expands, depth, sources, task, queue, active, hopEdges, hopTruncated,
                   totalReads, truncated, failures, capped>>

Next ==
    \/ SkipEmptyHop \/ ExpandHop \/ ExpandFails \/ StartHop \/ HopDone \/ Finish
    \/ \E k \in DOMAIN task : GiveUp(k) \/ Read(k) \/ Answer(k) \/ ReadFails(k)

Spec == Init /\ [][Next]_vars

\* The event loop runs what is ready, and a read answers or fails.
FairSpec == Spec /\ WF_vars(Next)

(***************************************************************************)
(* Properties.                                                             *)
(***************************************************************************)

Source == [uid : Uids, reader : Readers]
Edge == [graph : Readers, from : Uids, to : Uids, reader : Readers]

TypeOK ==
    /\ maxReads \in Budgets /\ slots \in Slots /\ expands \in Backends
    /\ depth \in 0..Len(Hops)
    /\ sources \in Seq(Source)
    /\ task \in Seq({"queued", "ready", "reading", "done"})
    /\ queue \in Seq(DOMAIN task)
    /\ active \in 0..slots
    /\ hopEdges \in Seq(Edge)
    /\ hopTruncated \in BOOLEAN /\ truncated \in BOOLEAN /\ capped \in BOOLEAN
    /\ totalReads \in Nat
    /\ status \in {"running", "resolved", "rejected"}
    /\ failures \in 0..MaxFailures

\* However tasks wait and wake, the run never reads more than its budget, and
\* it calls itself truncated only when the budget is spent.
BudgetKept ==
    /\ totalReads <= maxReads
    /\ truncated \/ hopTruncated => totalReads = maxReads

\* Reads in flight never outnumber the slots, also while the tasks of a run
\* that was rejected go on.
SlotsKept == Cardinality({k \in DOMAIN task : task[k] \in {"ready", "reading"}}) <= slots

\* What a hop leads to from a uid: as many targets as the limit lets every source
\* have; or, where an expand without a filter shares the limit out, any.
MatchesOf(lifted, h, reader, uid) ==
    LET match == h.match[reader][uid]
    IN {match[k] : k \in {j \in DOMAIN match : j <= h.limit \/ (lifted /\ ~h.filtered)}}

\* What the hops would reach one after the other, without tasks or budget.
Reached(lifted) ==
    LET reached[d \in 0..Len(Hops)] ==
          IF d = 0 THEN {[uid |-> Start, reader |-> Root]}
          ELSE UNION {{[uid |-> t, reader |-> HopReader(Hops[d], s)] :
                         t \in MatchesOf(lifted, Hops[d], HopReader(Hops[d], s), s.uid)} :
                      s \in reached[d - 1]}
    IN reached

EdgesOf(lifted, d) ==
    UNION {{[graph |-> HopReader(Hops[d], s), from |-> s.uid, to |-> t] :
              t \in MatchesOf(lifted, Hops[d], HopReader(Hops[d], s), s.uid)} :
           s \in Reached(lifted)[d - 1]}

Answers == {[graph |-> hopEdges[k].graph, from |-> hopEdges[k].from, to |-> hopEdges[k].to] :
              k \in DOMAIN hopEdges}

\* No hop reaches one uid in two graphs and goes on from there.
NoClash(lifted) ==
    \A d \in 1..(Len(Hops) - 1) : \A s, r \in Reached(lifted)[d] : s.uid = r.uid => s = r

\* Whether some hop may be answered by expand.
MayExpand == expands.join # {}

\* A result that is not marked truncated is complete, in whatever order the reads
\* answered, unless a query of an expand reached its limit: that limit is one for
\* all its sources (traverse.ts:238, firestore-classic-expand.ts:124), so the many
\* edges of one source can leave no room for another's, and nothing marks the
\* result (`capped`).  Where a hop reaches one uid in two graphs, only the reader
\* that answered first is followed.
CompleteUnlessTruncated ==
    status = "resolved" /\ ~truncated /\ ~capped /\ NoClash(MayExpand)
      => EdgesOf(FALSE, Len(Hops)) \subseteq Answers

\* Every edge of a result was looked up in the graph that its source was found in,
\* and within the limit of its source: without expand every source has its own,
\* and with it the hops with a filter do.
NothingInvented == status = "resolved" => Answers \subseteq EdgesOf(MayExpand, Len(Hops))

\* No edge is reported twice, although several sources may lead to one node.
NoDuplicates == \A j, k \in DOMAIN hopEdges : hopEdges[j] = hopEdges[k] => j = k

\* A run uses no more slots than it has, and what it returns was found, once
\* per hop, and is all there is unless it says truncated or one query's limit was
\* too small for its sources.
TraversalSound ==
    TypeOK /\ SlotsKept /\ CompleteUnlessTruncated /\ NothingInvented /\ NoDuplicates

\* The run resolves or rejects, and no task waits for a slot for ever.
Finishes == <>[](status # "running" /\ \A k \in DOMAIN task : task[k] = "done")

=============================================================================
