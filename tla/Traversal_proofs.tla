-------------------------- MODULE Traversal_proofs --------------------------
(***************************************************************************)
(* Proofs about a traversal's run, for any graph, any hops, any number of   *)
(* tasks and slots, and any order of answers: the read budget, and what a   *)
(* result holds.  And about following relations from many nodes at once:    *)
(* the ways to expand agree, and a walk in one round trip reaches what the  *)
(* hops reach.  And about the ways the editor leads through a graph, for any *)
(* tables, pages, lanes, routes and elements.                               *)
(***************************************************************************)
EXTENDS MCTraversal, FiniteSetTheorems, WellFoundedInduction, TLAPS

-----------------------------------------------------------------------------
(* The read budget, for any graph, any hops, any number of tasks and slots, *)
(* and any order of answers.                                                *)

\* The budget counts; what a run is truncated for is a budget that is spent.
\* A task reads only while it is not, so no hop that is marked reads again.
BudgetInvariant ==
    /\ maxReads \in Nat
    /\ totalReads \in Nat
    /\ truncated \in BOOLEAN /\ hopTruncated \in BOOLEAN
    /\ BudgetKept

\* BudgetKept: for any number of tasks that check the budget, wait for a slot
\* and spend it in any order, a run never reads more than maxReads and calls
\* itself truncated only when all of it is spent.
THEOREM BudgetTheorem == Spec => []BudgetKept
<1>1. Init => BudgetInvariant
  <2> SUFFICES ASSUME Init PROVE BudgetInvariant
    OBVIOUS
  <2>1. maxReads \in Nat /\ totalReads = 0
    BY OptionsAssumption DEF Init
  <2>2. truncated = FALSE /\ hopTruncated = FALSE
    BY DEF Init
  <2>3. totalReads \in Nat /\ totalReads <= maxReads
    BY <2>1
  <2>4. truncated \in BOOLEAN /\ hopTruncated \in BOOLEAN /\ ~(truncated \/ hopTruncated)
    BY <2>2
  <2> QED
    BY <2>1, <2>3, <2>4 DEF BudgetInvariant, BudgetKept
<1>2. BudgetInvariant /\ [Next]_vars => BudgetInvariant'
  <2> SUFFICES ASSUME BudgetInvariant, [Next]_vars PROVE BudgetInvariant'
    OBVIOUS
  <2> USE DEF BudgetInvariant, BudgetKept, Spent
  <2>1. CASE UNCHANGED vars
    BY <2>1 DEF vars
  <2>2. CASE SkipEmptyHop
    BY <2>2 DEF SkipEmptyHop
  <2>3. CASE ExpandHop
    \* one read for all sources, or none and a mark
    BY <2>3 DEF ExpandHop
  <2>4. CASE ExpandFails
    <3>1. ~truncated /\ ~hopTruncated
      BY <2>4 DEF ExpandFails
    <3> QED
      BY <2>4, <3>1 DEF ExpandFails
  <2>5. CASE StartHop
    BY <2>5 DEF StartHop
  <2>6. CASE HopDone
    BY <2>6 DEF HopDone
  <2>7. CASE Finish
    BY <2>7 DEF Finish
  <2>8. ASSUME NEW k \in DOMAIN task, GiveUp(k) PROVE BudgetInvariant'
    BY <2>8 DEF GiveUp, SpentMeanwhile, TruncatedBySkip
  <2>9. ASSUME NEW k \in DOMAIN task, Read(k) PROVE BudgetInvariant'
    \* no task of this hop gave up yet: there is something left to spend
    <3>1. ~truncated /\ ~hopTruncated
      BY <2>9 DEF Read, SpentMeanwhile
    <3> QED
      BY <2>9, <3>1 DEF Read, SpentMeanwhile
  <2>10. ASSUME NEW k \in DOMAIN task, Answer(k) PROVE BudgetInvariant'
    BY <2>10 DEF Answer
  <2>11. ASSUME NEW k \in DOMAIN task, ReadFails(k) PROVE BudgetInvariant'
    BY <2>11 DEF ReadFails
  <2> QED
    BY <2>1, <2>2, <2>3, <2>4, <2>5, <2>6, <2>7, <2>8, <2>9, <2>10, <2>11 DEF Next
<1>3. BudgetInvariant => BudgetKept
  BY DEF BudgetInvariant
<1> QED
  BY <1>1, <1>2, <1>3, PTL DEF Spec

-----------------------------------------------------------------------------
(* Sequences and functions defined step by step.                            *)

\* A set of numbers has a least one.
LEMMA Least == ASSUME NEW T \in SUBSET Nat, T # {} PROVE \E x \in T : \A y \in T : x <= y
<1> DEFINE R == {ss \in Nat \X Nat : ss[1] < ss[2]}
<1>1. IsWellFoundedOn(R, Nat)
  BY NatLessThanWellFounded DEF OpToRel
<1>2. PICK x \in T : \A y \in T : ~ (<<y, x>> \in R)
  <2> HIDE DEF R
  <2> QED
    BY <1>1, WFMin
<1>3. \A y \in T : ~(y < x)
  BY <1>2
<1> QED
  BY <1>3

\* Induction, as a fact about sets.
LEMMA Induction == ASSUME NEW S \in SUBSET Nat, 0 \in S, \A n \in S : n + 1 \in S PROVE S = Nat
<1>1. SUFFICES ASSUME Nat \ S # {} PROVE FALSE
  OBVIOUS
<1>2. PICK x \in Nat \ S : \A y \in Nat \ S : x <= y
  BY <1>1, Least
<1>3. x - 1 \in S /\ x # 0
  BY <1>2
<1> QED
  BY <1>2, <1>3

\* g goes on from its first value by the steps given.
Goes(g, n, first, step) == g[0] = first /\ \A k \in 1..n : g[k] = step[k][g[k - 1]]

\* A function may be defined from each value to the next.
LEMMA Recursion ==
  ASSUME NEW n \in Nat, NEW S, NEW first \in S, NEW step, \A k \in 1..n : step[k] \in [S -> S]
  PROVE  \E g \in [0..n -> S] : Goes(g, n, first, step)
<1> DEFINE Upto(m, g) == g[0] = first /\ \A k \in 1..m : g[k] = step[k][g[k - 1]]
           I == {m \in Nat : m <= n => \E g \in [0..m -> S] : Upto(m, g)}
<1>1. 0 \in I
  <2>1. [k \in 0..0 |-> first] \in [0..0 -> S] /\ Upto(0, [k \in 0..0 |-> first])
    OBVIOUS
  <2> QED
    BY <2>1
<1>2. ASSUME NEW m \in I PROVE m + 1 \in I
  <2>0. m \in Nat /\ m + 1 \in Nat
    OBVIOUS
  <2>1. SUFFICES ASSUME m + 1 <= n PROVE \E g \in [0..(m + 1) -> S] : Upto(m + 1, g)
    <3> HIDE DEF Upto
    <3> QED
      BY <2>0
  <2>2. PICK g \in [0..m -> S] : Upto(m, g)
    BY <1>2, <2>1
  <2> DEFINE h == [k \in 0..(m + 1) |-> IF k <= m THEN g[k] ELSE step[k][g[m]]]
  <2>3. m \in 0..m /\ m + 1 \in 1..n
    BY <2>1
  <2>4. step[m + 1][g[m]] \in S
    BY <2>2, <2>3
  <2>5. h \in [0..(m + 1) -> S]
    BY <2>4
  <2>6. \A k \in 0..m : h[k] = g[k]
    OBVIOUS
  <2>7. h[m + 1] = step[m + 1][g[m]]
    OBVIOUS
  <2> HIDE DEF h
  <2>8. Upto(m + 1, h)
    <3>1. h[0] = first
      BY <2>2, <2>6
    <3>2. ASSUME NEW k \in 1..(m + 1) PROVE h[k] = step[k][h[k - 1]]
      <4>1. CASE k = m + 1
        BY <4>1, <2>6, <2>7
      <4>2. CASE k # m + 1
        BY <4>2, <2>2, <2>6
      <4> QED
        BY <4>1, <4>2
    <3> QED
      BY <3>1, <3>2
  <2> QED
    BY <2>5, <2>8
<1>3. I = Nat
  <2> HIDE DEF I
  <2>1. I \in SUBSET Nat
    BY DEF I
  <2> QED
    BY <1>1, <1>2, <2>1, Induction
<1> QED
  BY SMTT(30), <1>3 DEF Goes

\* What a sequence holds, and that it holds nothing twice.
Held(s) == {s[k] : k \in DOMAIN s}
Once(s) == \A j, k \in DOMAIN s : s[j] = s[k] => j = k

\* Two sequences after each other hold what both hold, once if nothing is in both.
LEMMA ConcatIs ==
  ASSUME NEW S, NEW s \in Seq(S), NEW t \in Seq(S)
  PROVE  /\ s \o t \in Seq(S)
         /\ Held(s \o t) = Held(s) \cup Held(t)
         /\ Once(s) /\ Once(t) /\ Held(s) \cap Held(t) = {} => Once(s \o t)
<1>1. /\ s \o t \in Seq(S) /\ DOMAIN (s \o t) = 1..(Len(s) + Len(t))
      /\ DOMAIN s = 1..Len(s) /\ DOMAIN t = 1..Len(t) /\ Len(s) \in Nat /\ Len(t) \in Nat
  OBVIOUS
<1>2. \A k \in DOMAIN (s \o t) :
        (s \o t)[k] = IF k <= Len(s) THEN s[k] ELSE t[k - Len(s)]
  OBVIOUS
<1>3. \A k \in DOMAIN s : (s \o t)[k] = s[k] /\ k \in DOMAIN (s \o t)
  BY <1>1, <1>2
<1>4. \A k \in DOMAIN t : (s \o t)[Len(s) + k] = t[k] /\ Len(s) + k \in DOMAIN (s \o t)
  BY <1>1, <1>2
<1>5. \A k \in DOMAIN (s \o t) : k \in DOMAIN s \/ (k - Len(s) \in DOMAIN t /\ k > Len(s))
  BY <1>1
<1>6. Held(s \o t) = Held(s) \cup Held(t)
  <2>1. \A x \in Held(s \o t) : x \in Held(s) \cup Held(t)
    BY <1>1, <1>2, <1>5 DEF Held
  <2>2. \A x \in Held(s) : x \in Held(s \o t)
    BY <1>3 DEF Held
  <2>3. \A x \in Held(t) : x \in Held(s \o t)
    BY <1>4 DEF Held
  <2> QED
    BY <2>1, <2>2, <2>3
<1>7. ASSUME Once(s), Once(t), Held(s) \cap Held(t) = {},
             NEW j \in DOMAIN (s \o t), NEW k \in DOMAIN (s \o t), (s \o t)[j] = (s \o t)[k]
      PROVE  j = k
  <2>1. CASE j <= Len(s) /\ k <= Len(s)
    BY <1>1, <1>2, <1>7, <2>1 DEF Once
  <2>2. CASE j > Len(s) /\ k > Len(s)
    BY <1>1, <1>2, <1>7, <2>2 DEF Once
  <2>3. CASE j <= Len(s) /\ k > Len(s)
    <3>1. (s \o t)[j] \in Held(s)
      BY <1>1, <1>2, <1>7, <2>3 DEF Held
    <3>2. (s \o t)[k] \in Held(t)
      BY <1>1, <1>2, <1>7, <2>3 DEF Held
    <3> QED
      BY <3>1, <3>2, <1>7
  <2>4. CASE j > Len(s) /\ k <= Len(s)
    <3>1. (s \o t)[k] \in Held(s)
      BY <1>1, <1>2, <1>7, <2>4 DEF Held
    <3>2. (s \o t)[j] \in Held(t)
      BY <1>1, <1>2, <1>7, <2>4 DEF Held
    <3> QED
      BY <3>1, <3>2, <1>7
  <2> QED
    BY <1>1, <2>1, <2>2, <2>3, <2>4
<1> QED
  BY <1>1, <1>6, <1>7 DEF Once

\* One more element.
LEMMA AppendIs ==
  ASSUME NEW S, NEW s \in Seq(S), NEW x \in S
  PROVE  /\ Append(s, x) \in Seq(S)
         /\ Held(Append(s, x)) = Held(s) \cup {x}
<1>1. /\ Append(s, x) \in Seq(S) /\ DOMAIN Append(s, x) = 1..(Len(s) + 1)
      /\ DOMAIN s = 1..Len(s) /\ Len(s) \in Nat
      /\ \A k \in 1..Len(s) : Append(s, x)[k] = s[k]
      /\ Append(s, x)[Len(s) + 1] = x
  OBVIOUS
<1>2. \A k \in DOMAIN Append(s, x) : k \in DOMAIN s \/ k = Len(s) + 1
  BY <1>1
<1>3. \A y \in Held(Append(s, x)) : y \in Held(s) \cup {x}
  BY <1>1, <1>2 DEF Held
<1>4. \A y \in Held(s) \cup {x} : y \in Held(Append(s, x))
  BY <1>1 DEF Held
<1> QED
  BY <1>1, <1>3, <1>4

\* What a sequence holds is finite.
LEMMA HeldIsFinite == ASSUME NEW S, NEW s \in Seq(S) PROVE IsFiniteSet(Held(s)) /\ Held(s) \in SUBSET S
<1>1. s \in Surjection(1..Len(s), Held(s)) /\ Len(s) \in Nat /\ Held(s) \in SUBSET S
  BY DEF Surjection, Held
<1> QED
  BY <1>1, FS_Interval, FS_Surjection

-----------------------------------------------------------------------------
(* What a hop reads.                                                        *)

\* The source an edge leads to, and an edge as the caller sees it.
Next1(e) == [uid |-> e.to, reader |-> e.reader]
Bare(e) == [graph |-> e.graph, from |-> e.from, to |-> e.to]

\* The edges that hop d finds from sources R.
EdgesFrom(w, d, R) == UNION {Held(Found(w, Hops[d], s)) : s \in R}

\* A hop.
HopType == [cross : BOOLEAN, filtered : BOOLEAN, limit : Nat \ {0},
            match : [Readers -> [Uids -> Seq(Uids)]]]

LEMMA HopIs == ASSUME NEW d \in DOMAIN Hops PROVE Hops[d] \in HopType
<1>1. Hops \in Seq(HopType)
  BY HopsAssumption DEF HopType
<1> HIDE DEF HopType
<1> QED
  BY <1>1

\* What is found for one source: edges from it, each once, in the graph where they
\* were looked up, and with a limit of its own a part of what there is.
LEMMA FoundIs ==
  ASSUME NEW w \in BOOLEAN, NEW d \in DOMAIN Hops, NEW s \in Source
  PROVE  /\ Found(w, Hops[d], s) \in Seq(Edge)
         /\ Once(Found(w, Hops[d], s))
         /\ \A e \in Held(Found(w, Hops[d], s)) :
              e \in Edge /\ e.from = s.uid /\ e.graph = HopReader(Hops[d], s) /\ e.reader = e.graph
         /\ Held(Found(w, Hops[d], s)) =
              {[graph |-> HopReader(Hops[d], s), from |-> s.uid, to |-> t,
                reader |-> HopReader(Hops[d], s)] :
               t \in MatchesOf(w, Hops[d], HopReader(Hops[d], s), s.uid)}
         /\ MatchesOf(FALSE, Hops[d], HopReader(Hops[d], s), s.uid)
              \subseteq MatchesOf(w, Hops[d], HopReader(Hops[d], s), s.uid)
<1> DEFINE h == Hops[d]
           r == HopReader(h, s)
           match == h.match[r][s.uid]
           n == Taken(w, h, match)
           edge(t) == [graph |-> r, from |-> s.uid, to |-> t, reader |-> r]
           ans == Found(w, h, s)
<1>1. h \in HopType
  BY HopIs
<1>2. s.uid \in Uids /\ s.reader \in Readers
  BY DEF Source
<1>3. r \in Readers
  <2> HIDE DEF h
  <2> QED
    BY <1>1, <1>2, ReadersAssumption DEF HopReader
<1>4. /\ match \in Seq(Uids) /\ DOMAIN match = 1..Len(match) /\ Len(match) \in Nat
      /\ h.limit \in Nat /\ h.filtered \in BOOLEAN
  <2> HIDE DEF h, r
  <2> QED
    BY <1>1, <1>2, <1>3 DEF HopType
<1>5. \A j, k \in DOMAIN match : match[j] = match[k] => j = k
  BY <1>2, <1>3, HopsAssumption
<1>6. ans = [k \in 1..n |-> edge(match[k])]
  BY DEF Found, NextReader
<1>7. /\ MatchesOf(w, h, r, s.uid) = {match[k] : k \in {j \in DOMAIN match : j <= h.limit \/ (w /\ ~h.filtered)}}
      /\ MatchesOf(FALSE, h, r, s.uid) = {match[k] : k \in {j \in DOMAIN match : j <= h.limit}}
  BY DEF MatchesOf
<1>8. /\ n \in Nat /\ n <= Len(match)
      /\ {j \in DOMAIN match : j <= h.limit \/ (w /\ ~h.filtered)} = 1..n
  <2> HIDE DEF h, match
  <2> QED
    BY <1>4 DEF Taken, AtMost
<1> HIDE DEF h, r, match, ans, n
<1>9. \A k \in 1..n : k \in DOMAIN match /\ edge(match[k]) \in Edge
  BY <1>2, <1>3, <1>4, <1>8 DEF Edge
<1>10. ans \in Seq(Edge)
  BY <1>6, <1>8, <1>9
<1>11. Once(ans)
  <2>1. \A j, k \in 1..n : edge(match[j]) = edge(match[k]) => match[j] = match[k]
    OBVIOUS
  <2> QED
    BY <1>5, <1>6, <1>9, <2>1 DEF Once
<1>12. MatchesOf(w, h, r, s.uid) = {match[k] : k \in 1..n}
  BY <1>7, <1>8
<1>13. Held(ans) = {edge(t) : t \in MatchesOf(w, h, r, s.uid)}
  <2>1. Held(ans) = {edge(match[k]) : k \in 1..n}
    BY <1>6 DEF Held
  <2> HIDE DEF edge
  <2> QED
    BY <1>12, <2>1
<1>14. \A e \in Held(ans) : e \in Edge /\ e.from = s.uid /\ e.graph = r /\ e.reader = e.graph
  BY <1>6, <1>9 DEF Held
<1>15. MatchesOf(FALSE, h, r, s.uid) \subseteq MatchesOf(w, h, r, s.uid)
  BY <1>7
<1> QED
  BY <1>10, <1>11, <1>13, <1>14, <1>15 DEF h, r, ans

\* With a limit of its own a source has a part of what there is.
LEMMA PartFound ==
  ASSUME NEW w \in BOOLEAN, NEW d \in DOMAIN Hops, NEW s \in Source
  PROVE  Held(FindEdges(Hops[d], s)) \subseteq Held(Found(w, Hops[d], s))
<1> DEFINE r == HopReader(Hops[d], s)
           edge(t) == [graph |-> r, from |-> s.uid, to |-> t, reader |-> r]
           all == MatchesOf(w, Hops[d], r, s.uid)
           few == MatchesOf(FALSE, Hops[d], r, s.uid)
<1>1. few \subseteq all /\ Held(Found(w, Hops[d], s)) = {edge(t) : t \in all}
      /\ Held(FindEdges(Hops[d], s)) = {edge(t) : t \in few}
  BY FoundIs DEF FindEdges
<1> HIDE DEF all, few, edge
<1> QED
  BY <1>1

\* Sources no two of which have one uid.
Apart(s) == \A j, k \in DOMAIN s : s[j].uid = s[k].uid => j = k

\* The next sources: one for each target, with the reader of an edge that leads to it.
LEMMA NextSourcesIs ==
  ASSUME NEW edges \in Seq(Edge)
  PROVE  /\ NextSources(edges) \in Seq(Source)
         /\ Apart(NextSources(edges))
         /\ \A s \in Held(NextSources(edges)) : \E e \in Held(edges) : s = Next1(e)
         /\ \A e \in Held(edges) : \E s \in Held(NextSources(edges)) : s.uid = e.to
<1> DEFINE n == Len(edges)
           Found1(s, k) == \E j \in DOMAIN s : s[j].uid = edges[k].to
           With(s, k) == IF Found1(s, k) THEN s
                         ELSE Append(s, [uid |-> edges[k].to, reader |-> edges[k].reader])
           F(g) == [k \in 0..Len(edges) |->
                      IF k = 0 THEN << >>
                      ELSE IF \E j \in DOMAIN g[k - 1] : g[k - 1][j].uid = edges[k].to THEN g[k - 1]
                      ELSE Append(g[k - 1], [uid |-> edges[k].to, reader |-> edges[k].reader])]
           kept == CHOOSE g : g = F(g)
<1>0. n \in Nat /\ DOMAIN edges = 1..n /\ \A k \in 1..n : edges[k] \in Edge
  OBVIOUS
<1>1. \A k \in 1..n : Next1(edges[k]) \in Source
                      /\ Next1(edges[k]) = [uid |-> edges[k].to, reader |-> edges[k].reader]
  BY <1>0 DEF Edge, Source, Next1
<1>2. \E g : g = F(g)
  <2> DEFINE step == [k \in 1..n |-> [s \in Seq(Source) |-> With(s, k)]]
  <2>1. \A k \in 1..n : \A s \in Seq(Source) : With(s, k) \in Seq(Source)
    BY <1>1
  <2>2. step \in [1..n -> [Seq(Source) -> Seq(Source)]]
    <3> HIDE DEF With
    <3> QED
      BY <2>1
  <2>3. << >> \in Seq(Source)
    OBVIOUS
  <2>4. PICK g \in [0..n -> Seq(Source)] :
          g[0] = << >> /\ \A k \in 1..n : g[k] = step[k][g[k - 1]]
    <3> DEFINE S == Seq(Source)
               first == << >>
    <3>1. \A k \in 1..n : step[k] \in [S -> S]
      BY <2>2
    <3>2. first \in S /\ n \in Nat
      BY <1>0, <2>3
    <3> HIDE DEF step, n, S, first
    <3>3. \E g \in [0..n -> S] : Goes(g, n, first, step)
      BY <3>1, <3>2, Recursion, Zenon
    <3> QED
      BY <3>3 DEF Goes, S, first
  <2>5. \A k \in 1..n : g[k] = With(g[k - 1], k)
    <3> SUFFICES ASSUME NEW k \in 1..n PROVE g[k] = With(g[k - 1], k)
      OBVIOUS
    <3>1. g[k - 1] \in Seq(Source)
      BY <1>0
    <3> HIDE DEF With
    <3> QED
      BY <2>4, <3>1
  <2>6. \A k \in 0..n : g[k] = F(g)[k]
    <3> SUFFICES ASSUME NEW k \in 0..n PROVE g[k] = F(g)[k]
      OBVIOUS
    <3>1. CASE k = 0
      BY <2>4, <3>1
    <3>2. CASE k # 0
      <4>1. k \in 1..n
        BY <1>0, <3>2
      <4>2. g[k] = With(g[k - 1], k)
        BY <2>5, <4>1
      <4>3. F(g)[k] = With(g[k - 1], k)
        BY <3>2
      <4> QED
        BY <4>2, <4>3
    <3> QED
      BY <3>1, <3>2
  <2>7. g = F(g)
    BY <1>0, <2>4, <2>6
  <2> QED
    BY <2>7
<1>3. kept = F(kept)
  BY <1>2
<1>4. NextSources(edges) = kept[n]
  BY DEF NextSources
<1> HIDE DEF kept
<1>5. kept[0] = << >> /\ \A k \in 1..n : kept[k] = With(kept[k - 1], k)
  <2>1. \A k \in 0..n : kept[k] = F(kept)[k]
    <3> HIDE DEF F
    <3>1. DOMAIN F(kept) = 0..n /\ kept = F(kept)
      BY <1>3 DEF F
    <3> QED
      BY <3>1
  <2>2. F(kept)[0] = << >> /\ \A k \in 1..n : F(kept)[k] = With(kept[k - 1], k)
    BY <1>0
  <2> HIDE DEF F, With
  <2> QED
    BY <1>0, <2>1, <2>2
<1> HIDE DEF F
<1> DEFINE P(k) ==
      /\ kept[k] \in Seq(Source)
      /\ Apart(kept[k])
      /\ \A s \in Held(kept[k]) : \E i \in 1..k : s = Next1(edges[i])
      /\ \A i \in 1..k : \E s \in Held(kept[k]) : s.uid = edges[i].to
<1> HIDE DEF n
<1>6. P(0)
  BY <1>5 DEF Apart, Held
<1>7. ASSUME NEW k \in 1..n, P(k - 1) PROVE P(k)
  <2> DEFINE old == kept[k - 1]
             x == Next1(edges[k])
  <2>1. /\ old \in Seq(Source) /\ Apart(old) /\ x \in Source /\ x.uid = edges[k].to
        /\ \A s \in Held(old) : \E i \in 1..(k - 1) : s = Next1(edges[i])
        /\ \A i \in 1..(k - 1) : \E s \in Held(old) : s.uid = edges[i].to
    BY <1>1, <1>7 DEF Next1
  <2>2. kept[k] = IF Found1(old, k) THEN old ELSE Append(old, x)
    BY <1>1, <1>5
  <2>3. k \in Nat /\ \A i \in 1..k : i = k \/ i \in 1..(k - 1)
    BY <1>0
  <2> HIDE DEF old, x
  <2>4. CASE Found1(old, k)
    <3>1. \E s \in Held(old) : s.uid = edges[k].to
      BY <2>4 DEF Held
    <3>2. kept[k] = old
      BY <2>2, <2>4
    <3>3. \A s \in Held(old) : \E i \in 1..k : s = Next1(edges[i])
      BY <2>1, <2>3
    <3>4. \A i \in 1..k : \E s \in Held(old) : s.uid = edges[i].to
      BY <2>1, <2>3, <3>1
    <3> QED
      BY <2>1, <3>2, <3>3, <3>4
  <2>5. CASE ~Found1(old, k)
    <3>1. kept[k] = Append(old, x)
      BY <2>2, <2>5
    <3>2. kept[k] \in Seq(Source) /\ Held(kept[k]) = Held(old) \cup {x}
      BY <2>1, <3>1, AppendIs
    <3>3. Apart(kept[k])
      <4>1. /\ DOMAIN kept[k] = 1..(Len(old) + 1) /\ DOMAIN old = 1..Len(old) /\ Len(old) \in Nat
            /\ \A i \in 1..Len(old) : kept[k][i] = old[i]
            /\ kept[k][Len(old) + 1] = x
        BY <2>1, <3>1
      <4>2. \A i \in 1..Len(old) : old[i].uid # x.uid
        BY <2>1, <2>5, <4>1
      <4>3. \A i \in DOMAIN kept[k] : i \in 1..Len(old) \/ i = Len(old) + 1
        BY <4>1
      <4> QED
        BY <2>1, <4>1, <4>2, <4>3 DEF Apart
    <3>4. x = Next1(edges[k])
      BY DEF x
    <3>5. \A s \in Held(kept[k]) : \E i \in 1..k : s = Next1(edges[i])
      BY <1>0, <2>1, <2>3, <3>2, <3>4
    <3>6. \A i \in 1..k : \E s \in Held(kept[k]) : s.uid = edges[i].to
      BY <2>1, <2>3, <3>2
    <3> QED
      BY <3>2, <3>3, <3>5, <3>6
  <2> QED
    BY <2>4, <2>5
<1> DEFINE I == {k \in Nat : k <= n => P(k)}
<1>8. I = Nat
  <2> HIDE DEF P
  <2>1. 0 \in I
    BY <1>6
  <2>2. ASSUME NEW k \in I PROVE k + 1 \in I
    <3>1. k \in Nat /\ (k <= n => P(k))
      OBVIOUS
    <3>2. SUFFICES ASSUME k + 1 <= n PROVE P(k + 1)
      BY <3>1
    <3>3. k + 1 \in 1..n /\ (k + 1) - 1 = k
      BY <1>0, <3>1, <3>2
    <3> QED
      BY <1>0, <1>7, <3>1, <3>2, <3>3
  <2>3. I \in SUBSET Nat
    OBVIOUS
  <2> HIDE DEF I
  <2> QED
    BY <2>1, <2>2, <2>3, Induction
<1>9. P(n)
  <2> HIDE DEF P
  <2>1. n \in I
    BY <1>0, <1>8
  <2> QED
    BY <1>0, <2>1
<1>10. Held(edges) = {edges[i] : i \in 1..n}
  BY <1>0 DEF Held
<1> QED
  BY <1>4, <1>9, <1>10

\* Sources with other uids have other edges.
LEMMA FromSource ==
  ASSUME NEW w \in BOOLEAN, NEW d \in DOMAIN Hops, NEW s \in Source
  PROVE  \A e \in Held(Found(w, Hops[d], s)) : e.from = s.uid
<1> DEFINE r == HopReader(Hops[d], s)
           all == MatchesOf(w, Hops[d], r, s.uid)
           edge(t) == [graph |-> r, from |-> s.uid, to |-> t, reader |-> r]
           E == Held(Found(w, Hops[d], s))
<1>1. E = {edge(t) : t \in all}
  BY FoundIs
<1> HIDE DEF r, all, E
<1> QED
  BY <1>1 DEF E

LEMMA OtherEdges ==
  ASSUME NEW w \in BOOLEAN, NEW d \in DOMAIN Hops, NEW s \in Source, NEW t \in Source, s.uid # t.uid
  PROVE  Held(Found(w, Hops[d], s)) \cap Held(Found(w, Hops[d], t)) = {}
<1>1. \A e \in Held(Found(w, Hops[d], s)) : e.from = s.uid
  BY FromSource
<1>2. \A e \in Held(Found(w, Hops[d], t)) : e.from = t.uid
  BY FromSource
<1> QED
  BY <1>1, <1>2

\* A list of all elements of a finite set, each once.
LEMMA ListIs ==
  ASSUME NEW S, IsFiniteSet(S), NEW s \in SetToSeqs(S)
  PROVE  s \in Seq(S) /\ Once(s) /\ Held(s) = S
<1> DEFINE n == Cardinality(S)
<1>1. n \in Nat
  BY FS_CardinalityType
<1>2. s \in [1..n -> S] /\ \A i, j \in 1..n : i # j => s[i] # s[j]
  BY DEF SetToSeqs
<1>3. Cardinality(1..n) = n
  BY <1>1, FS_Interval
<1> HIDE DEF n
<1>4. s \in Injection(1..n, S)
  BY <1>2 DEF Injection, IsInjective
<1>5. s \in Surjection(1..n, S)
  BY <1>3, <1>4, FS_Injection DEF n
<1>6. s \in Seq(S) /\ DOMAIN s = 1..n
  BY <1>1, <1>2
<1>7. Held(s) = S
  BY <1>2, <1>5, <1>6 DEF Held, Surjection
<1> QED
  BY <1>2, <1>6, <1>7 DEF Once

\* What the queries of an expand have to return is finite, and found from the sources.
LEMMA PoolIs ==
  ASSUME sources \in Seq(Source), depth \in Nat, depth + 1 \in DOMAIN Hops, NEW K \in SUBSET DOMAIN sources
  PROVE  /\ IsFiniteSet(Pool(K))
         /\ Pool(K) \subseteq EdgesFrom(TRUE, depth + 1, Held(sources))
         /\ Pool(DOMAIN sources) = EdgesFrom(TRUE, depth + 1, Held(sources))
         /\ Pool(DOMAIN sources) \in SUBSET Edge
<1> DEFINE n == Len(sources)
           E(k) == Held(Found(TRUE, Hops[depth + 1], sources[k]))
<1>1. n \in Nat /\ DOMAIN sources = 1..n /\ \A k \in 1..n : sources[k] \in Source
  OBVIOUS
<1>2. \A k \in 1..n : IsFiniteSet(E(k)) /\ E(k) \in SUBSET Edge
  <2> SUFFICES ASSUME NEW k \in 1..n PROVE IsFiniteSet(E(k)) /\ E(k) \in SUBSET Edge
    OBVIOUS
  <2>1. Found(TRUE, Hops[depth + 1], sources[k]) \in Seq(Edge)
    BY <1>1, FoundIs
  <2> QED
    BY <2>1, HeldIsFinite
<1>3. \A J : Pool(J) = UNION {E(k) : k \in J}
  BY DEF Pool, hop, Held, Range
<1> HIDE DEF E, n
<1> DEFINE U(k) == UNION {E(j) : j \in 1..k}
           I == {k \in Nat : k <= n => IsFiniteSet(U(k))}
<1>4. I = Nat
  <2>1. 0 \in I
    <3>1. U(0) = {}
      OBVIOUS
    <3> QED
      BY <3>1, FS_EmptySet
  <2>2. ASSUME NEW k \in I PROVE k + 1 \in I
    <3>1. SUFFICES ASSUME k + 1 <= n PROVE IsFiniteSet(U(k + 1))
      BY <2>2
    <3>2. k \in Nat /\ k + 1 \in 1..n /\ IsFiniteSet(U(k))
      BY <1>1, <2>2, <3>1
    <3>3. 1..(k + 1) = (1..k) \cup {k + 1}
      BY <3>2
    <3>4. U(k + 1) = U(k) \cup E(k + 1)
      BY <3>3
    <3>5. IsFiniteSet(E(k + 1))
      BY <1>2, <3>2
    <3> HIDE DEF U
    <3> QED
      BY <3>2, <3>4, <3>5, FS_Union
  <2>3. I \in SUBSET Nat
    OBVIOUS
  <2> HIDE DEF I
  <2> QED
    BY <2>1, <2>2, <2>3, Induction
<1>5. IsFiniteSet(U(n))
  <2> HIDE DEF U
  <2> QED
    BY <1>1, <1>4
<1>6. Pool(K) \in SUBSET U(n) /\ U(n) = Pool(DOMAIN sources)
  BY <1>1, <1>3
<1>7. U(n) = EdgesFrom(TRUE, depth + 1, Held(sources))
  <2>1. \A j \in 1..n : sources[j] \in Held(sources)
    BY <1>1 DEF Held
  <2>2. \A s \in Held(sources) : \E j \in 1..n : s = sources[j]
    BY <1>1 DEF Held
  <2> QED
    BY <2>1, <2>2 DEF EdgesFrom, E
<1>8. U(n) \in SUBSET Edge
  BY <1>2
<1> HIDE DEF U
<1>9. IsFiniteSet(Pool(K))
  BY <1>5, <1>6, FS_Subset
<1> QED
  BY <1>6, <1>7, <1>8, <1>9

\* What one expand returns: edges of its sources, each once, and all that every source
\* would have on its own unless a query had more to return than it may.
LEMMA ExpansionIs ==
  ASSUME sources \in Seq(Source), depth \in Nat, depth + 1 \in DOMAIN Hops, expands \in Backends,
         NEW found \in Expansions, NEW edges \in SetToSeqs(found)
  PROVE  /\ edges \in Seq(Edge) /\ Once(edges)
         /\ Held(edges) \subseteq EdgesFrom(TRUE, depth + 1, Held(sources))
         /\ ~Crowded => EdgesFrom(FALSE, depth + 1, Held(sources)) \subseteq Held(edges)
<1> DEFINE all == Pool(DOMAIN sources)
<1>1. /\ IsFiniteSet(all) /\ all = EdgesFrom(TRUE, depth + 1, Held(sources)) /\ all \in SUBSET Edge
  BY PoolIs
<1>2. found \in SUBSET all
  BY DEF Expansions
<1>3. IsFiniteSet(found)
  BY <1>1, <1>2, FS_Subset
<1>4. edges \in Seq(found) /\ Once(edges) /\ Held(edges) = found
  BY <1>3, ListIs
<1>5. edges \in Seq(Edge)
  BY <1>1, <1>2, <1>4
<1>6. ASSUME ~Crowded, NEW e \in EdgesFrom(FALSE, depth + 1, Held(sources)) PROVE e \in found
  <2>1. PICK s \in Held(sources) : e \in Held(Found(FALSE, Hops[depth + 1], s))
    BY DEF EdgesFrom
  <2>2. PICK k \in DOMAIN sources : s = sources[k]
    BY <2>1 DEF Held
  <2> DEFINE K == Together(k)
             P == Pool(K)
  <2>3. s \in Source /\ e \in Held(Found(TRUE, hop, sources[k]))
    <3>1. s \in Source
      BY <2>2
    <3> QED
      BY <2>1, <2>2, <3>1, PartFound DEF FindEdges, hop
  <2>4. K \in SUBSET DOMAIN sources /\ k \in K
    BY DEF Together
  <2>5. IsFiniteSet(P)
    BY <2>4, PoolIs
  <2>6. e \in P
    BY <2>3, <2>4 DEF Pool, Held, Range
  <2>7. Cardinality(found \cap P) = AtMost(Cardinality(P), Most(K))
    BY DEF Expansions
  <2>8. ~(Cardinality(P) > Most(K))
    BY <1>6 DEF Crowded
  <2> HIDE DEF K, P
  <2>9. Cardinality(P) \in Nat
    BY <2>5, FS_CardinalityType
  <2>10. Most(K) \in Int
    <3>1. IsFiniteSet(DOMAIN sources)
      <4>1. DOMAIN sources = 1..Len(sources) /\ Len(sources) \in Nat
        OBVIOUS
      <4> QED
        BY <4>1, FS_Interval
    <3>2. IsFiniteSet(K) /\ IsFiniteSet(Pool(K))
      BY <2>4, <3>1, FS_Subset, PoolIs
    <3>3. Cardinality(K) \in Nat /\ Cardinality(Pool(K)) \in Nat
      BY <3>2, FS_CardinalityType
    <3>4. hop.limit \in Nat
      BY HopIs DEF hop, HopType
    <3> QED
      BY <3>3, <3>4 DEF Most
  <2>11. Cardinality(found \cap P) = Cardinality(P)
    BY <2>7, <2>8, <2>9, <2>10 DEF AtMost
  <2>12. found \cap P \in SUBSET P
    OBVIOUS
  <2>13. found \cap P = P
    BY <2>5, <2>11, <2>12, FS_Subset
  <2> QED
    BY <2>6, <2>13
<1> QED
  BY <1>1, <1>2, <1>4, <1>5, <1>6

-----------------------------------------------------------------------------
(* What the hops reach one after the other.                                 *)

\* The targets and the answers of a source, as Reached and EdgesOf write them.
LEMMA LookedUp ==
  ASSUME NEW w \in BOOLEAN, NEW d \in DOMAIN Hops, NEW s \in Source
  PROVE  LET r == HopReader(Hops[d], s)
             targets == MatchesOf(w, Hops[d], r, s.uid)
         IN  /\ {[uid |-> t, reader |-> r] : t \in targets} =
                  {Next1(e) : e \in Held(Found(w, Hops[d], s))}
             /\ {[graph |-> r, from |-> s.uid, to |-> t] : t \in targets} =
                  {Bare(e) : e \in Held(Found(w, Hops[d], s))}
<1> DEFINE r == HopReader(Hops[d], s)
           targets == MatchesOf(w, Hops[d], r, s.uid)
           edge(t) == [graph |-> r, from |-> s.uid, to |-> t, reader |-> r]
           E == Held(Found(w, Hops[d], s))
<1>1. E = {edge(t) : t \in targets}
  BY FoundIs
<1> HIDE DEF r, targets, E
<1>2. \A t : Next1(edge(t)) = [uid |-> t, reader |-> r]
             /\ Bare(edge(t)) = [graph |-> r, from |-> s.uid, to |-> t]
  BY DEF Next1, Bare
<1> HIDE DEF edge
<1>3. {[uid |-> t, reader |-> r] : t \in targets} = {Next1(e) : e \in E}
  BY <1>1, <1>2
<1>4. {[graph |-> r, from |-> s.uid, to |-> t] : t \in targets} = {Bare(e) : e \in E}
  BY <1>1, <1>2
<1> QED
  BY <1>3, <1>4 DEF r, targets, E

\* One hop from the sources before: all there is to find.
LEMMA ReachedIs ==
  ASSUME NEW w \in BOOLEAN
  PROVE  /\ Reached(w)[0] = {[uid |-> Start, reader |-> Root]}
         /\ \A d \in 0..Len(Hops) : Reached(w)[d] \in SUBSET Source
         /\ \A d \in DOMAIN Hops :
              /\ Reached(w)[d] = {Next1(e) : e \in EdgesFrom(w, d, Reached(w)[d - 1])}
              /\ EdgesOf(w, d) = {Bare(e) : e \in EdgesFrom(w, d, Reached(w)[d - 1])}
<1> DEFINE n == Len(Hops)
           first == {[uid |-> Start, reader |-> Root]}
           Onwards(d, R) ==
             UNION {{[uid |-> t, reader |-> HopReader(Hops[d], s)] :
                       t \in MatchesOf(w, Hops[d], HopReader(Hops[d], s), s.uid)} :
                    s \in R}
           F(g) == [d \in 0..Len(Hops) |->
             IF d = 0 THEN {[uid |-> Start, reader |-> Root]}
             ELSE UNION {{[uid |-> t, reader |-> HopReader(Hops[d], s)] :
                            t \in MatchesOf(w, Hops[d], HopReader(Hops[d], s), s.uid)} :
                         s \in g[d - 1]}]
           reached == Reached(w)
<1>0. n \in Nat /\ DOMAIN Hops = 1..n
  BY HopsAssumption
<1>1. ASSUME NEW d \in 1..n, NEW R \in SUBSET Source
      PROVE  Onwards(d, R) = {Next1(e) : e \in EdgesFrom(w, d, R)} /\ Onwards(d, R) \in SUBSET Source
  <2> DEFINE one(s) == {[uid |-> t, reader |-> HopReader(Hops[d], s)] :
                          t \in MatchesOf(w, Hops[d], HopReader(Hops[d], s), s.uid)}
             found(s) == Held(Found(w, Hops[d], s))
  <2>1. \A s \in R : one(s) = {Next1(e) : e \in found(s)}
    BY <1>0, LookedUp
  <2>2. Onwards(d, R) = UNION {one(s) : s \in R}
    OBVIOUS
  <2>3. EdgesFrom(w, d, R) = UNION {found(s) : s \in R}
    BY DEF EdgesFrom
  <2>4. \A s \in R : \A e \in found(s) : Next1(e) \in Source
    <3>1. \A s \in R : \A e \in found(s) : e \in Edge
      BY <1>0, FoundIs
    <3> HIDE DEF found
    <3> QED
      BY <3>1 DEF Edge, Source, Next1
  <2> HIDE DEF one, found, Onwards
  <2>5. Onwards(d, R) = {Next1(e) : e \in EdgesFrom(w, d, R)}
    BY <2>1, <2>2, <2>3
  <2>6. \A x \in Onwards(d, R) : x \in Source
    BY <2>3, <2>4, <2>5
  <2> QED
    BY <2>5, <2>6
<1>2. first \in SUBSET Source
  BY ReadersAssumption DEF Source
<1>3. \E g \in [0..n -> SUBSET Source] : g = F(g)
  <2> DEFINE step == [d \in 1..n |-> [R \in SUBSET Source |-> Onwards(d, R)]]
             S == SUBSET Source
  <2>1. \A d \in 1..n : step[d] \in [S -> S]
    <3> HIDE DEF Onwards
    <3> QED
      BY <1>1
  <2>2. \E g \in [0..n -> S] : Goes(g, n, first, step)
    <3>1. first \in S
      BY <1>2
    <3> HIDE DEF n, first, S, step
    <3> QED
      BY <1>0, <2>1, <3>1, Recursion, Zenon
  <2>3. PICK g \in [0..n -> S] : g[0] = first /\ \A d \in 1..n : g[d] = step[d][g[d - 1]]
    BY <2>2 DEF Goes
  <2>4. \A d \in 1..n : g[d] = Onwards(d, g[d - 1])
    <3> SUFFICES ASSUME NEW d \in 1..n PROVE g[d] = Onwards(d, g[d - 1])
      OBVIOUS
    <3>1. g[d - 1] \in S
      BY <1>0
    <3> HIDE DEF Onwards
    <3> QED
      BY <2>3, <3>1
  <2>5. g = [d \in 0..n |-> g[d]]
    BY <2>3
  <2>6. \A d \in 0..n : g[d] = IF d = 0 THEN first ELSE Onwards(d, g[d - 1])
    <3> HIDE DEF Onwards, first
    <3> QED
      BY <1>0, <2>3, <2>4
  <2>7. F(g) = [d \in 0..n |-> IF d = 0 THEN first ELSE Onwards(d, g[d - 1])]
    OBVIOUS
  <2>8. g = F(g)
    <3> HIDE DEF F, Onwards, first, n
    <3> QED
      BY <2>5, <2>6, <2>7
  <2> QED
    BY <2>8 DEF S
<1>4. reached = F(reached)
  <2>1. reached = CHOOSE g : g = F(g)
    BY DEF Reached
  <2> HIDE DEF F
  <2> QED
    BY <1>3, <2>1
<1>5. reached[0] = first /\ \A d \in 1..n : reached[d] = Onwards(d, reached[d - 1])
  <2>1. F(reached) = [d \in 0..n |-> IF d = 0 THEN first ELSE Onwards(d, reached[d - 1])]
    OBVIOUS
  <2>2. 0 \in 0..n /\ \A d \in 1..n : d \in 0..n /\ d # 0
    BY <1>0
  <2> HIDE DEF F, Onwards, first, n
  <2> QED
    BY <1>4, <2>1, <2>2
<1> HIDE DEF F, reached
<1> DEFINE I == {d \in Nat : d <= n => reached[d] \in SUBSET Source}
<1>6. I = Nat
  <2>1. 0 \in I
    BY <1>2, <1>5
  <2>2. ASSUME NEW d \in I PROVE d + 1 \in I
    <3>1. d \in Nat /\ (d <= n => reached[d] \in SUBSET Source)
      OBVIOUS
    <3>2. SUFFICES ASSUME d + 1 <= n PROVE reached[d + 1] \in SUBSET Source
      BY <3>1
    <3>3. d + 1 \in 1..n /\ (d + 1) - 1 = d /\ d <= n
      BY <1>0, <3>1, <3>2
    <3> HIDE DEF Onwards, n
    <3>4. reached[d + 1] = Onwards(d + 1, reached[d])
      BY <1>5, <3>3
    <3> QED
      BY <1>1, <3>1, <3>3, <3>4
  <2>3. I \in SUBSET Nat
    OBVIOUS
  <2> HIDE DEF I
  <2> QED
    BY <2>1, <2>2, <2>3, Induction
<1>7. \A d \in 0..n : reached[d] \in SUBSET Source
  <2> HIDE DEF n
  <2>1. \A d \in 0..n : d \in I /\ d <= n
    BY <1>0, <1>6
  <2> QED
    BY <2>1
<1>8. ASSUME NEW d \in DOMAIN Hops
      PROVE  /\ reached[d] = {Next1(e) : e \in EdgesFrom(w, d, reached[d - 1])}
             /\ EdgesOf(w, d) = {Bare(e) : e \in EdgesFrom(w, d, reached[d - 1])}
  <2>1. d \in 1..n /\ d - 1 \in 0..n
    BY <1>0
  <2>2. reached[d - 1] \in SUBSET Source
    BY <1>7, <2>1
  <2>3. reached[d] = {Next1(e) : e \in EdgesFrom(w, d, reached[d - 1])}
    <3> HIDE DEF Onwards
    <3> QED
      BY <1>1, <1>5, <2>1, <2>2
  <2> DEFINE one(s) == {[graph |-> HopReader(Hops[d], s), from |-> s.uid,
                         to |-> t] :
                          t \in MatchesOf(w, Hops[d], HopReader(Hops[d], s), s.uid)}
             found(s) == Held(Found(w, Hops[d], s))
             R == reached[d - 1]
  <2>4. EdgesOf(w, d) = UNION {one(s) : s \in R}
    BY DEF EdgesOf, reached
  <2>5. \A s \in R : one(s) = {Bare(e) : e \in found(s)}
    BY <2>2, LookedUp
  <2>6. EdgesFrom(w, d, R) = UNION {found(s) : s \in R}
    BY DEF EdgesFrom
  <2> HIDE DEF one, found, R
  <2>7. EdgesOf(w, d) = {Bare(e) : e \in EdgesFrom(w, d, R)}
    BY <2>4, <2>5, <2>6
  <2> QED
    BY <2>3, <2>7 DEF R
<1> QED
  BY <1>5, <1>7, <1>8 DEF reached

\* More sources find more.
LEMMA MoreFound ==
  ASSUME NEW w, NEW d, NEW R, NEW S, R \subseteq S
  PROVE  EdgesFrom(w, d, R) \subseteq EdgesFrom(w, d, S)
BY DEF EdgesFrom

-----------------------------------------------------------------------------
(* The invariant of a run.                                                  *)

Working == {k \in DOMAIN task : task[k] \in {"ready", "reading"}}

\* The slots in use are those of the tasks at work; who waits for one is queued once.
Semaphored ==
  /\ Cardinality(Working) = active
  /\ Once(queue)
  /\ Held(queue) = {k \in DOMAIN task : task[k] = "queued"}

\* A task belongs to a source, and the last hop leaves none behind.
Paced ==
  /\ task # << >> => depth < Len(Hops) /\ Len(task) = Len(sources)
  /\ status = "resolved" => task = << >> /\ depth = Len(Hops)

\* The run's limits all held, and no hop clashes: w is whether hops may be expanded.
Uncut(w) == ~truncated /\ ~capped /\ NoClash(w)

\* The sources are what the hops so far reach: all of it unless cut.
FollowedIn(w) ==
  /\ Apart(sources)
  /\ Held(sources) \subseteq Reached(w)[depth]
  /\ Uncut(w) /\ depth < Len(Hops) => Reached(FALSE)[depth] \subseteq Held(sources)

Followed == \A w \in BOOLEAN : w = MayExpand => FollowedIn(w)

\* Amid a hop its edges are those of the tasks that are done: all of them unless
\* one gave up or failed.
Collecting ==
  /\ \A e \in Held(hopEdges) :
       \E k \in DOMAIN task : task[k] = "done" /\ e \in Held(FindEdges(hop, sources[k]))
  /\ status = "running" /\ ~hopTruncated =>
       \A k \in DOMAIN task : task[k] = "done" => Held(FindEdges(hop, sources[k])) \subseteq Held(hopEdges)

\* Between hops its edges are those the sources before lead to.
CollectedIn(w) ==
  /\ Held(hopEdges) \subseteq EdgesFrom(w, depth, Reached(w)[depth - 1])
  /\ Uncut(w) => EdgesFrom(FALSE, depth, Reached(FALSE)[depth - 1]) \subseteq Held(hopEdges)

Collected == \A w \in BOOLEAN : w = MayExpand => CollectedIn(w)

TraversalInv ==
  /\ TypeOK /\ Semaphored /\ Paced /\ Followed
  /\ Once(hopEdges)
  /\ task # << >> => Collecting
  /\ task = << >> /\ depth > 0 => Collected

\* What leaving the queue does to it.
LEMMA TailIs ==
  ASSUME NEW S, NEW s \in Seq(S), s # << >>, Once(s)
  PROVE  /\ Tail(s) \in Seq(S) /\ Once(Tail(s))
         /\ s[1] \in Held(s) /\ Held(Tail(s)) = Held(s) \ {s[1]}
<1>1. /\ Tail(s) \in Seq(S) /\ DOMAIN s = 1..Len(s) /\ Len(s) \in Nat /\ Len(s) > 0
      /\ DOMAIN Tail(s) = 1..(Len(s) - 1)
      /\ \A k \in 1..(Len(s) - 1) : Tail(s)[k] = s[k + 1]
  OBVIOUS
<1>2. \A k \in 1..(Len(s) - 1) : k + 1 \in DOMAIN s /\ k + 1 # 1
  BY <1>1
<1>3. Once(Tail(s))
  BY <1>1, <1>2 DEF Once
<1>4. s[1] \in Held(s)
  BY <1>1 DEF Held
<1>5. \A x \in Held(Tail(s)) : x \in Held(s) /\ x # s[1]
  BY <1>1, <1>2 DEF Held, Once
<1>6. ASSUME NEW x \in Held(s), x # s[1] PROVE x \in Held(Tail(s))
  <2>1. PICK k \in DOMAIN s : x = s[k]
    BY DEF Held
  <2>2. k # 1
    BY <1>6, <2>1
  <2>3. k - 1 \in 1..(Len(s) - 1) /\ (k - 1) + 1 = k
    BY <1>1, <2>1, <2>2
  <2> QED
    BY <1>1, <2>1, <2>3 DEF Held
<1> QED
  BY <1>1, <1>3, <1>4, <1>5, <1>6

\* Tasks are finitely many.
LEMMA WorkingIsFinite ==
  ASSUME NEW S, task \in Seq(S)
  PROVE  IsFiniteSet(Working)
<1>1. DOMAIN task = 1..Len(task) /\ Len(task) \in Nat
  OBVIOUS
<1>2. IsFiniteSet(1..Len(task))
  BY <1>1, FS_Interval
<1> QED
  BY <1>1, <1>2, FS_Subset DEF Working

\* A task that ends gives its slot to the first in the queue, or back.
LEMMA ReleaseKeeps ==
  ASSUME TypeOK, Semaphored, NEW k \in DOMAIN task, task[k] \in {"ready", "reading"},
         Release(k, "done"), slots' = slots
  PROVE  /\ task' \in Seq({"queued", "ready", "reading", "done"}) /\ DOMAIN task' = DOMAIN task
         /\ Len(task') = Len(task)
         /\ queue' \in Seq(DOMAIN task) /\ active' \in 0..slots
         /\ Semaphored'
         /\ task'[k] = "done"
         /\ \A j \in DOMAIN task \ {k} : task'[j] = "done" <=> task[j] = "done"
<1> DEFINE St == {"queued", "ready", "reading", "done"}
<1>0. /\ task \in Seq(St) /\ queue \in Seq(DOMAIN task) /\ active \in 0..slots /\ slots \in Nat
      /\ DOMAIN task = 1..Len(task) /\ Len(task) \in Nat
  BY OptionsAssumption DEF TypeOK
<1>1. IsFiniteSet(Working) /\ Cardinality(Working) = active /\ k \in Working
  BY <1>0, WorkingIsFinite DEF Semaphored, Working
<1>2. Cardinality(Working \ {k}) = active - 1 /\ IsFiniteSet(Working \ {k}) /\ active # 0
  BY <1>0, <1>1, FS_RemoveElement, FS_CardinalityType, FS_EmptySet
<1>3. /\ task' = [j \in DOMAIN task |-> CASE j = k -> "done"
                                        [] queue # << >> /\ j = queue[1] -> "ready"
                                        [] OTHER -> task[j]]
      /\ active' = (IF queue = << >> THEN active - 1 ELSE active)
      /\ queue' = (IF queue = << >> THEN queue ELSE Tail(queue))
  BY DEF Release, Used
<1>4. CASE queue = << >>
  <2>1. /\ task' = [j \in DOMAIN task |-> IF j = k THEN "done" ELSE task[j]]
        /\ active' = active - 1 /\ queue' = queue
    BY <1>3, <1>4
  <2>2. task' \in Seq(St) /\ DOMAIN task' = DOMAIN task /\ Len(task') = Len(task)
    BY <1>0, <2>1
  <2>3. Working' = Working \ {k}
    BY <2>1 DEF Working
  <2>4. Held(queue)' = {j \in DOMAIN task' : task'[j] = "queued"}
    BY <2>1, <2>2 DEF Semaphored
  <2>5. Semaphored'
    BY <1>2, <2>1, <2>3, <2>4 DEF Semaphored
  <2> QED
    BY <1>0, <1>2, <2>1, <2>2, <2>5
<1>5. CASE queue # << >>
  <2> DEFINE q == queue[1]
  <2>1. /\ queue' \in Seq(DOMAIN task) /\ Once(queue') /\ q \in Held(queue)
        /\ Held(queue') = Held(queue) \ {q} /\ active' = active
    BY <1>0, <1>3, <1>5, TailIs DEF Semaphored
  <2>2. q \in DOMAIN task /\ task[q] = "queued" /\ q # k
    BY <2>1 DEF Semaphored
  <2>3. task' = [j \in DOMAIN task |-> IF j = k THEN "done" ELSE IF j = q THEN "ready" ELSE task[j]]
    BY <1>3, <1>5, <2>2
  <2> HIDE DEF q
  <2>4. task' \in Seq(St) /\ DOMAIN task' = DOMAIN task /\ Len(task') = Len(task)
    BY <1>0, <2>3
  <2>5. Working' = (Working \ {k}) \cup {q} /\ q \notin Working \ {k}
    BY <2>2, <2>3 DEF Working
  <2>6. Cardinality(Working') = active
    <3> DEFINE W == Working \ {k}
    <3>1. Cardinality(W \cup {q}) = Cardinality(W) + 1
      <4> HIDE DEF W
      <4>1. IsFiniteSet(W) /\ q \notin W
        BY <1>2, <2>5 DEF W
      <4> QED
        BY <4>1, FS_AddElement
    <3>2. Cardinality(W) = active - 1 /\ Working' = W \cup {q} /\ active \in Nat
      BY <1>0, <1>2, <2>5
    <3> HIDE DEF W
    <3> QED
      BY <3>1, <3>2
  <2>7. Held(queue') = {j \in DOMAIN task' : task'[j] = "queued"}
    BY <2>1, <2>2, <2>3, <2>4 DEF Semaphored
  <2>8. Semaphored'
    BY <2>1, <2>6, <2>7 DEF Semaphored
  <2> QED
    BY <1>0, <2>1, <2>2, <2>3, <2>4, <2>8
<1> QED
  BY <1>4, <1>5

\* It holds at the start.
LEMMA TraversalInit == ASSUME Init PROVE TraversalInv
<1> DEFINE first == [uid |-> Start, reader |-> Root]
<1>1. first \in Source /\ sources = << first >> /\ sources \in Seq(Source)
  BY ReadersAssumption DEF Init, Source
<1>2. Len(Hops) \in Nat
  BY HopsAssumption
<1>3. /\ task \in Seq({"queued", "ready", "reading", "done"}) /\ queue \in Seq(DOMAIN task)
      /\ hopEdges \in Seq(Edge) /\ active \in 0..slots
  BY OptionsAssumption DEF Init
<1>4. TypeOK
  <2>1. /\ maxReads \in Budgets /\ slots \in Slots /\ expands \in Backends /\ depth = 0
        /\ hopTruncated = FALSE /\ truncated = FALSE /\ capped = FALSE /\ totalReads = 0
        /\ status = "running" /\ failures = 0
    BY DEF Init
  <2>2. depth \in 0..Len(Hops) /\ failures \in 0..MaxFailures
    BY <1>2, <2>1, OptionsAssumption
  <2> QED
    BY <1>1, <1>3, <2>1, <2>2 DEF TypeOK
<1>5. Working = {}
  BY DEF Init, Working
<1>6. Semaphored
  BY <1>5, FS_EmptySet DEF Init, Semaphored, Once, Held
<1>7. Held(sources) = {first}
  BY <1>1 DEF Held
<1>8. ASSUME NEW w \in BOOLEAN PROVE FollowedIn(w)
  <2>1. Reached(w)[0] = {first} /\ Reached(FALSE)[0] = {first}
    BY ReachedIs
  <2>2. Apart(sources) /\ depth = 0
    BY <1>1 DEF Apart, Init
  <2> HIDE DEF first
  <2> QED
    BY <1>7, <2>1, <2>2 DEF FollowedIn
<1>9. Followed
  BY <1>8 DEF Followed
<1> QED
  BY <1>4, <1>6, <1>9 DEF TraversalInv, Paced, Init, Once

\* Between hops no task works or waits.
LEMMA Quiet ==
  ASSUME TypeOK, Semaphored, \A k \in DOMAIN task : task[k] = "done"
  PROVE  active = 0 /\ queue = << >>
<1>1. Working = {}
  BY DEF Working
<1>2. active = 0
  BY <1>1, FS_EmptySet DEF Semaphored
<1>3. Held(queue) = {}
  BY DEF Semaphored
<1>4. queue \in Seq(DOMAIN task)
  BY DEF TypeOK
<1>5. DOMAIN queue = {}
  BY <1>3 DEF Held
<1> QED
  BY <1>2, <1>4, <1>5

\* A hop is over: its targets are the next sources.
LEMMA HopEnds ==
  ASSUME TypeOK, Followed, NEW d, d = depth + 1, d \in DOMAIN Hops,
         NEW w \in BOOLEAN, w = MayExpand, expands' = expands,
         NEW edges \in Seq(Edge), Held(edges) \subseteq EdgesFrom(w, d, Held(sources)),
         depth' = d, hopEdges' = edges, sources' = NextSources(edges),
         truncated' \in BOOLEAN, truncated => truncated',
         capped' \in BOOLEAN, capped => capped',
         ~truncated' /\ ~capped' => EdgesFrom(FALSE, d, Held(sources)) \subseteq Held(edges)
  PROVE  /\ sources' \in Seq(Source) /\ depth' \in 0..Len(Hops)
         /\ Followed' /\ Collected'
<1> DEFINE All == Reached(w)
           Own == Reached(FALSE)
           whole == ~truncated' /\ ~capped' /\ NoClash(w)
<1>0. /\ depth \in Nat /\ Len(Hops) \in Nat /\ DOMAIN Hops = 1..Len(Hops) /\ d - 1 = depth
      /\ d \in 1..Len(Hops) /\ depth < Len(Hops) /\ depth \in 0..Len(Hops)
  BY HopsAssumption DEF TypeOK
<1>1. /\ sources' \in Seq(Source) /\ Apart(sources')
      /\ \A s \in Held(sources') : \E e \in Held(edges) : s = Next1(e)
      /\ \A e \in Held(edges) : \E s \in Held(sources') : s.uid = e.to
  BY NextSourcesIs
<1>2. /\ Held(sources) \subseteq All[depth]
      /\ whole => Own[depth] \subseteq Held(sources)
  BY <1>0 DEF Followed, FollowedIn, Uncut, TypeOK
<1>3. Held(edges) \subseteq EdgesFrom(w, d, All[depth])
  <2> HIDE DEF All
  <2> QED
    BY <1>2, MoreFound
<1>4. whole => EdgesFrom(FALSE, d, Own[depth]) \subseteq Held(edges)
  <2> HIDE DEF Own
  <2> QED
    BY <1>2, MoreFound
<1>5. All[d] = {Next1(e) : e \in EdgesFrom(w, d, All[depth])}
  BY <1>0, ReachedIs
<1>6. Own[d] = {Next1(e) : e \in EdgesFrom(FALSE, d, Own[depth])}
  BY <1>0, ReachedIs
<1> HIDE DEF All, Own
<1>7. Held(sources') \subseteq All[d]
  BY <1>1, <1>3, <1>5
<1>8. ASSUME whole, d < Len(Hops) PROVE Own[d] \subseteq Held(sources')
  <2> SUFFICES ASSUME NEW r \in Own[d] PROVE r \in Held(sources')
    OBVIOUS
  <2>1. PICK e \in Held(edges) : r = Next1(e)
    BY <1>4, <1>6, <1>8
  <2>2. PICK s \in Held(sources') : s.uid = e.to
    BY <1>1
  <2>3. s \in All[d] /\ r \in All[d] /\ s.uid = r.uid
    BY <1>3, <1>5, <1>7, <2>1, <2>2 DEF Next1
  <2>4. d \in 1..(Len(Hops) - 1)
    BY <1>0, <1>8
  <2>5. s = r
    BY <1>8, <2>3, <2>4 DEF NoClash, All
  <2> QED
    BY <2>2, <2>5
<1>9. ASSUME NEW v \in BOOLEAN, (v = MayExpand)' PROVE v = w
  BY <1>9 DEF MayExpand
<1>10. NoClash(w)' <=> NoClash(w)
  BY DEF NoClash, Reached, HopReader, MatchesOf
<1>11. FollowedIn(w)'
  BY <1>1, <1>7, <1>8, <1>10 DEF FollowedIn, Uncut, All, Own
<1>12. CollectedIn(w)'
  BY <1>0, <1>3, <1>4, <1>10 DEF CollectedIn, Uncut, All, Own
<1> QED
  BY <1>0, <1>1, <1>9, <1>11, <1>12 DEF Followed, Collected

\* The tasks of a hop find no more than an expand would.
LEMMA PartFrom ==
  ASSUME NEW w \in BOOLEAN, NEW d \in DOMAIN Hops, NEW R \in SUBSET Source
  PROVE  EdgesFrom(FALSE, d, R) \subseteq EdgesFrom(w, d, R)
<1>1. \A s \in R : Held(Found(FALSE, Hops[d], s)) \subseteq Held(Found(w, Hops[d], s))
  BY PartFound DEF FindEdges
<1> QED
  BY <1>1 DEF EdgesFrom

\* What the sources and the edges are stays so while they stay.
LEMMA FollowedStays ==
  ASSUME Followed, UNCHANGED <<expands, depth, sources, truncated, capped>>
  PROVE  Followed'
<1>1. SUFFICES ASSUME NEW w \in BOOLEAN, (w = MayExpand)' PROVE FollowedIn(w)'
  BY DEF Followed
<1>2. w = MayExpand
  BY <1>1 DEF MayExpand
<1>3. FollowedIn(w)
  BY <1>2 DEF Followed
<1>4. NoClash(w)' <=> NoClash(w)
  BY DEF NoClash, Reached, HopReader, MatchesOf
<1> QED
  BY <1>3, <1>4 DEF FollowedIn, Uncut

LEMMA CollectedStays ==
  ASSUME Collected, UNCHANGED <<expands, depth, hopEdges, truncated, capped>>
  PROVE  Collected'
<1>1. SUFFICES ASSUME NEW w \in BOOLEAN, (w = MayExpand)' PROVE CollectedIn(w)'
  BY DEF Collected
<1>2. w = MayExpand
  BY <1>1 DEF MayExpand
<1>3. CollectedIn(w)
  BY <1>2 DEF Collected
<1>4. NoClash(w)' <=> NoClash(w)
  BY DEF NoClash, Reached, HopReader, MatchesOf
<1> QED
  BY <1>3, <1>4 DEF CollectedIn, Uncut

LEMMA SourcesApart == ASSUME Followed PROVE Apart(sources)
<1>1. PICK w \in BOOLEAN : w = MayExpand
  BY DEF MayExpand
<1> QED
  BY <1>1 DEF Followed, FollowedIn

-----------------------------------------------------------------------------
(* Each step keeps it.                                                      *)

\* Where a hop would begin there is no task, and there is a hop.
LEMMA AtHop ==
  ASSUME TraversalInv, BetweenHops
  PROVE  /\ depth \in Nat /\ depth + 1 \in DOMAIN Hops /\ active = 0 /\ queue = << >>
         /\ task = << >> /\ status = "running" /\ depth + 1 \in 0..Len(Hops)
         /\ sources \in Seq(Source) /\ Apart(sources)
<1>1. /\ Len(Hops) \in Nat /\ DOMAIN Hops = 1..Len(Hops) /\ depth < Len(Hops)
      /\ depth \in 0..Len(Hops) /\ task = << >> /\ status = "running"
  BY HopsAssumption DEF BetweenHops, TraversalInv, TypeOK
<1>2. \A k \in DOMAIN task : task[k] = "done"
  BY <1>1
<1> QED
  BY <1>1, <1>2, Quiet, SourcesApart DEF TraversalInv, TypeOK

\* The rest of the invariant where no task is left.
LEMMA NoTasks ==
  ASSUME task' = << >>, active' = 0, queue' = << >>
  PROVE  Semaphored' /\ task' \in Seq({"queued", "ready", "reading", "done"})
         /\ queue' \in Seq(DOMAIN task')
<1>1. Working' = {}
  BY DEF Working
<1> QED
  BY <1>1, FS_EmptySet DEF Semaphored, Once, Held

\* A hop without sources ends at once.
LEMMA SkipKeeps == ASSUME TraversalInv, SkipEmptyHop PROVE TraversalInv'
<1>1. /\ BetweenHops /\ sources = << >> /\ depth' = depth + 1 /\ hopEdges' = << >>
      /\ hopTruncated' = FALSE
      /\ UNCHANGED <<maxReads, slots, expands, sources, task, queue, active, totalReads,
                     truncated, status, failures, capped>>
  BY DEF SkipEmptyHop
<1>2. /\ depth \in Nat /\ depth + 1 \in DOMAIN Hops /\ active = 0 /\ queue = << >>
      /\ task = << >> /\ status = "running" /\ depth + 1 \in 0..Len(Hops)
  BY <1>1, AtHop
<1>3. Held(sources) = {} /\ Held(hopEdges') = {} /\ hopEdges' \in Seq(Edge) /\ Once(hopEdges')
  BY <1>1 DEF Held, Once
<1>4. NextSources(hopEdges') = << >>
  <2> DEFINE edges == hopEdges'
  <2>1. edges \in Seq(Edge) /\ Held(edges) = {}
    BY <1>3
  <2> HIDE DEF edges
  <2>2. NextSources(edges) \in Seq(Source)
        /\ \A s \in Held(NextSources(edges)) : \E e \in Held(edges) : s = Next1(e)
    BY <2>1, NextSourcesIs
  <2>3. Held(NextSources(edges)) = {}
    BY <2>1, <2>2
  <2>4. DOMAIN NextSources(edges) = {}
    BY <2>3 DEF Held
  <2> QED
    BY <2>2, <2>4 DEF edges
<1>5. \A w \in BOOLEAN : EdgesFrom(w, depth + 1, Held(sources)) = {}
  BY <1>3 DEF EdgesFrom
<1>6. sources' \in Seq(Source) /\ depth' \in 0..Len(Hops) /\ Followed' /\ Collected'
  <2> DEFINE d == depth + 1
             edges == hopEdges'
  <2>1. d = depth + 1 /\ d \in DOMAIN Hops /\ depth' = d /\ hopEdges' = edges
        /\ sources' = NextSources(edges) /\ edges \in Seq(Edge) /\ Held(edges) = {}
        /\ \A w \in BOOLEAN : EdgesFrom(w, d, Held(sources)) = {}
    BY <1>1, <1>2, <1>3, <1>4, <1>5
  <2>2. /\ TypeOK /\ Followed /\ truncated' = truncated /\ truncated \in BOOLEAN
        /\ capped' = capped /\ capped \in BOOLEAN /\ expands' = expands
    BY <1>1 DEF TraversalInv, TypeOK
  <2>3. PICK w \in BOOLEAN : w = MayExpand
    BY DEF MayExpand
  <2>4. Held(edges) \subseteq EdgesFrom(w, d, Held(sources))
        /\ EdgesFrom(FALSE, d, Held(sources)) \subseteq Held(edges)
    BY <2>1
  <2> HIDE DEF d, edges
  <2> QED
    BY <2>1, <2>2, <2>3, <2>4, HopEnds
<1>7. TypeOK'
  BY <1>1, <1>2, <1>3, <1>6 DEF TraversalInv, TypeOK
<1>8. Semaphored' /\ Paced'
  BY <1>1, <1>2, NoTasks DEF Paced
<1> QED
  BY <1>1, <1>2, <1>3, <1>6, <1>7, <1>8 DEF TraversalInv

\* A hop that expand answers has edges of its sources, and all that each would have on
\* its own unless a query had more than it may return; or none and a mark.
LEMMA ExpandKeeps == ASSUME TraversalInv, ExpandHop PROVE TraversalInv'
<1>1. /\ BetweenHops /\ FastPath /\ sources # << >>
      /\ depth' = depth + 1 /\ sources' = NextSources(hopEdges')
      /\ IF Spent THEN hopEdges' = << >> ELSE \E found \in Expansions : hopEdges' \in SetToSeqs(found)
      /\ hopTruncated' = Spent /\ truncated' = (truncated \/ Spent)
      /\ capped' = (capped \/ (~Spent /\ Crowded))
      /\ totalReads' = (IF Spent THEN totalReads ELSE totalReads + 1)
      /\ UNCHANGED <<maxReads, slots, expands, task, queue, active, status, failures>>
  BY DEF ExpandHop
<1>2. /\ depth \in Nat /\ depth + 1 \in DOMAIN Hops /\ active = 0 /\ queue = << >>
      /\ task = << >> /\ status = "running" /\ depth + 1 \in 0..Len(Hops)
      /\ sources \in Seq(Source) /\ Apart(sources)
  BY <1>1, AtHop
<1>3. TRUE = MayExpand
  BY <1>1 DEF FastPath, MayExpand
<1>4. /\ hopEdges' \in Seq(Edge) /\ Once(hopEdges')
      /\ Held(hopEdges') \subseteq EdgesFrom(TRUE, depth + 1, Held(sources))
      /\ ~Spent /\ ~Crowded => EdgesFrom(FALSE, depth + 1, Held(sources)) \subseteq Held(hopEdges')
  <2>1. CASE Spent
    BY <1>1, <2>1 DEF Once, Held
  <2>2. CASE ~Spent
    <3>1. PICK found \in Expansions : hopEdges' \in SetToSeqs(found)
      BY <1>1, <2>2
    <3>2. expands \in Backends
      BY DEF TraversalInv, TypeOK
    <3> QED
      BY <1>2, <3>1, <3>2, ExpansionIs
  <2> QED
    BY <2>1, <2>2
<1>5. Spent \in BOOLEAN /\ truncated' \in BOOLEAN /\ capped' \in BOOLEAN /\ totalReads' \in Nat
  BY <1>1 DEF Spent, Crowded, TraversalInv, TypeOK
<1>6. sources' \in Seq(Source) /\ depth' \in 0..Len(Hops) /\ Followed' /\ Collected'
  <2> DEFINE d == depth + 1
             edges == hopEdges'
  <2>1. /\ d = depth + 1 /\ d \in DOMAIN Hops /\ depth' = d /\ hopEdges' = edges
        /\ sources' = NextSources(edges) /\ edges \in Seq(Edge) /\ expands' = expands
        /\ Held(edges) \subseteq EdgesFrom(TRUE, d, Held(sources))
        /\ truncated' \in BOOLEAN /\ (truncated => truncated')
        /\ capped' \in BOOLEAN /\ (capped => capped')
        /\ ~truncated' /\ ~capped' => EdgesFrom(FALSE, d, Held(sources)) \subseteq Held(edges)
    BY <1>1, <1>2, <1>4, <1>5
  <2>2. TypeOK /\ Followed
    BY DEF TraversalInv
  <2> HIDE DEF d, edges
  <2> QED
    BY <1>3, <2>1, <2>2, HopEnds
<1>7. TypeOK'
  BY <1>1, <1>2, <1>4, <1>5, <1>6 DEF TraversalInv, TypeOK
<1>8. Semaphored' /\ Paced'
  BY <1>1, <1>2, NoTasks DEF Paced
<1> QED
  BY <1>1, <1>2, <1>4, <1>6, <1>7, <1>8 DEF TraversalInv

\* A failed expand ends the run.
LEMMA ExpandFailsKeeps == ASSUME TraversalInv, ExpandFails PROVE TraversalInv'
<1>1. /\ BetweenHops /\ totalReads' = totalReads + 1 /\ status' = "rejected"
      /\ failures' = failures + 1 /\ failures < MaxFailures
      /\ UNCHANGED <<maxReads, slots, expands, depth, sources, task, queue, active, hopEdges,
                     hopTruncated, truncated, capped>>
  BY DEF ExpandFails
<1>2. TypeOK'
  BY <1>1, OptionsAssumption DEF TraversalInv, TypeOK
<1>3. Semaphored' /\ Paced' /\ Followed'
  BY <1>1, FollowedStays DEF TraversalInv, Semaphored, Working, Paced, BetweenHops
<1>4. task = << >>
  BY <1>1 DEF BetweenHops
<1>5. Collected => Collected'
  BY <1>1, CollectedStays
<1> QED
  BY <1>1, <1>2, <1>3, <1>4, <1>5 DEF TraversalInv

\* The last hop's edges are the result.
LEMMA FinishKeeps == ASSUME TraversalInv, Finish PROVE TraversalInv'
<1>1. /\ status = "running" /\ depth = Len(Hops) /\ status' = "resolved"
      /\ UNCHANGED <<maxReads, slots, expands, depth, sources, task, queue, active, hopEdges,
                     hopTruncated, totalReads, truncated, failures, capped>>
  BY DEF Finish
<1>2. TypeOK'
  BY <1>1 DEF TraversalInv, TypeOK
<1>3. task = << >>
  BY <1>1, HopsAssumption DEF TraversalInv, Paced
<1>4. Semaphored' /\ Paced' /\ Followed'
  BY <1>1, <1>3, FollowedStays DEF TraversalInv, Semaphored, Working, Paced
<1>5. Collected => Collected'
  BY <1>1, CollectedStays
<1> QED
  BY <1>1, <1>2, <1>3, <1>4, <1>5 DEF TraversalInv

\* The first tasks take the slots, and the others queue in order.
LEMMA StartKeeps == ASSUME TraversalInv, StartHop PROVE TraversalInv'
<1> DEFINE n == Len(sources)
           St == {"queued", "ready", "reading", "done"}
           G == IF n <= slots THEN n ELSE slots
<1>1. /\ BetweenHops /\ sources # << >>
      /\ hopEdges' = << >> /\ hopTruncated' = Spent
      /\ UNCHANGED <<maxReads, slots, expands, depth, sources, totalReads, truncated, status, failures, capped>>
  BY DEF StartHop
<1>2. /\ depth \in Nat /\ depth + 1 \in DOMAIN Hops /\ active = 0 /\ queue = << >>
      /\ task = << >> /\ status = "running"
      /\ sources \in Seq(Source) /\ Apart(sources) /\ depth < Len(Hops)
  BY <1>1, AtHop DEF BetweenHops
<1>3. n \in Nat /\ n > 0 /\ slots \in Nat /\ slots > 0 /\ G \in 0..n /\ G \in 0..slots
  BY <1>1, <1>2, OptionsAssumption DEF TraversalInv, TypeOK
<1>4. Granted(n) = G
  BY <1>2, <1>3 DEF Granted
<1>5. /\ task' = [k \in 1..n |-> IF Spent THEN "done" ELSE IF k <= G THEN "ready" ELSE "queued"]
      /\ active' = (IF Spent THEN 0 ELSE G)
      /\ queue' = (IF Spent THEN << >> ELSE [k \in 1..(n - G) |-> G + k])
  BY <1>2, <1>3, <1>4 DEF StartHop
<1> HIDE DEF G, n
<1>6. task' \in Seq(St) /\ DOMAIN task' = 1..n /\ Len(task') = n /\ task' # << >>
  BY <1>3, <1>5
<1>7. /\ queue' \in Seq(DOMAIN task') /\ Once(queue')
      /\ Held(queue') = {k \in DOMAIN task' : task'[k] = "queued"}
      /\ Cardinality(Working') = active'
  <2>1. CASE Spent
    <3>1. Working' = {} /\ {k \in DOMAIN task' : task'[k] = "queued"} = {}
      BY <1>5, <2>1 DEF Working
    <3> QED
      BY <1>5, <2>1, <3>1, FS_EmptySet DEF Once, Held
  <2>2. CASE ~Spent
    <3>1. queue' = [k \in 1..(n - G) |-> G + k] /\ n - G \in Nat /\ active' = G
          /\ \A k \in 1..(n - G) : G + k \in 1..n
      BY <1>3, <1>5, <2>2
    <3>2. queue' \in Seq(DOMAIN task')
      BY <1>6, <3>1
    <3>3. Once(queue')
      BY <1>3, <3>1 DEF Once
    <3>4. \A k \in 1..n : /\ task'[k] = "queued" <=> k > G
                          /\ task'[k] \in {"ready", "reading"} <=> k <= G
      BY <1>3, <1>5, <2>2
    <3>5. Held(queue') = {G + k : k \in 1..(n - G)}
      BY <3>1 DEF Held
    <3>6. {G + k : k \in 1..(n - G)} = {k \in 1..n : k > G}
      <4>1. \A k \in 1..n : k > G => k - G \in 1..(n - G) /\ k = G + (k - G)
        BY <1>3
      <4> QED
        BY <1>3, <3>1, <4>1
    <3>7. Held(queue') = {k \in DOMAIN task' : task'[k] = "queued"}
      BY <1>6, <3>4, <3>5, <3>6
    <3>8. Working' = 1..G
      BY <1>3, <1>6, <3>4 DEF Working
    <3>9. Cardinality(1..G) = G
      BY <1>3, FS_Interval
    <3> QED
      BY <3>1, <3>2, <3>3, <3>7, <3>8, <3>9
  <2> QED
    BY <2>1, <2>2
<1>8. active' \in 0..slots
  BY <1>3, <1>5
<1>9. hopEdges' \in Seq(Edge) /\ Once(hopEdges') /\ Held(hopEdges') = {}
  BY <1>1 DEF Once, Held
<1>10. TypeOK'
  <2>1. hopTruncated' \in BOOLEAN
    BY <1>1 DEF Spent
  <2> QED
    BY <1>1, <1>6, <1>7, <1>8, <1>9, <2>1 DEF TraversalInv, TypeOK
<1>11. Semaphored'
  BY <1>7 DEF Semaphored
<1>12. Paced'
  BY <1>1, <1>2, <1>6 DEF Paced, n
<1>13. Followed'
  BY <1>1, FollowedStays DEF TraversalInv
<1>14. Collecting'
  <2>1. ~hopTruncated' => \A k \in DOMAIN task' : task'[k] # "done"
    BY <1>1, <1>5
  <2> QED
    BY <1>9, <2>1 DEF Collecting
<1> QED
  BY <1>6, <1>9, <1>10, <1>11, <1>12, <1>13, <1>14 DEF TraversalInv

\* A hop ends when its tasks have: what they kept is what its sources have, or the hop is marked.
LEMMA DoneKeeps == ASSUME TraversalInv, HopDone PROVE TraversalInv'
<1>1. /\ status = "running" /\ task # << >> /\ \A k \in DOMAIN task : task[k] = "done"
      /\ truncated' = (truncated \/ hopTruncated) /\ sources' = NextSources(hopEdges)
      /\ task' = << >> /\ depth' = depth + 1
      /\ UNCHANGED <<maxReads, slots, expands, queue, active, hopEdges, hopTruncated, totalReads,
                     status, failures, capped>>
  BY DEF HopDone
<1>2. active' = 0 /\ queue' = << >>
  BY <1>1, Quiet DEF TraversalInv
<1>3. /\ depth < Len(Hops) /\ Len(task) = Len(sources) /\ depth \in Nat
      /\ Len(Hops) \in Nat /\ DOMAIN Hops = 1..Len(Hops) /\ Collecting
  BY <1>1, HopsAssumption DEF TraversalInv, Paced, TypeOK
<1>4. DOMAIN task = DOMAIN sources
  BY <1>3 DEF TraversalInv, TypeOK
<1>5. Held(hopEdges) \subseteq EdgesFrom(FALSE, depth + 1, Held(sources))
  <2> SUFFICES ASSUME NEW e \in Held(hopEdges) PROVE e \in EdgesFrom(FALSE, depth + 1, Held(sources))
    OBVIOUS
  <2>1. PICK k \in DOMAIN task : e \in Held(FindEdges(hop, sources[k]))
    BY <1>3 DEF Collecting
  <2>2. sources[k] \in Held(sources)
    BY <1>4 DEF Held
  <2> QED
    BY <2>1, <2>2 DEF EdgesFrom, FindEdges, hop
<1>6. ~hopTruncated => EdgesFrom(FALSE, depth + 1, Held(sources)) \subseteq Held(hopEdges)
  <2> SUFFICES ASSUME ~hopTruncated, NEW e \in EdgesFrom(FALSE, depth + 1, Held(sources))
               PROVE  e \in Held(hopEdges)
    OBVIOUS
  <2>1. PICK s \in Held(sources) : e \in Held(FindEdges(Hops[depth + 1], s))
    BY DEF EdgesFrom, FindEdges
  <2>2. PICK k \in DOMAIN sources : s = sources[k]
    BY DEF Held
  <2>3. Held(FindEdges(hop, sources[k])) \subseteq Held(hopEdges)
    BY <1>1, <1>3, <1>4 DEF Collecting
  <2> QED
    BY <2>1, <2>2, <2>3 DEF hop
<1>7. sources' \in Seq(Source) /\ depth' \in 0..Len(Hops) /\ Followed' /\ Collected'
  <2> DEFINE d == depth + 1
             edges == hopEdges
  <2>1. /\ d = depth + 1 /\ d \in DOMAIN Hops /\ depth' = d /\ hopEdges' = edges
        /\ sources' = NextSources(edges) /\ edges \in Seq(Edge) /\ expands' = expands
        /\ Held(edges) \subseteq EdgesFrom(FALSE, d, Held(sources))
        /\ truncated' \in BOOLEAN /\ (truncated => truncated')
        /\ capped' \in BOOLEAN /\ (capped => capped')
        /\ ~truncated' => EdgesFrom(FALSE, d, Held(sources)) \subseteq Held(edges)
    <3>1. /\ truncated \in BOOLEAN /\ hopTruncated \in BOOLEAN /\ capped \in BOOLEAN
          /\ hopEdges \in Seq(Edge)
      BY DEF TraversalInv, TypeOK
    <3>2. truncated' = (truncated \/ hopTruncated)
      BY <1>1
    <3>3. truncated' \in BOOLEAN /\ (truncated => truncated') /\ (hopTruncated => truncated')
      BY <3>1, <3>2
    <3>4. /\ d = depth + 1 /\ d \in DOMAIN Hops /\ depth' = d /\ hopEdges' = edges
          /\ sources' = NextSources(edges) /\ edges \in Seq(Edge) /\ expands' = expands
          /\ capped' = capped
      BY <1>1, <1>3, <3>1
    <3>5. ~truncated' => EdgesFrom(FALSE, d, Held(sources)) \subseteq Held(edges)
      BY <1>6, <3>3
    <3> HIDE DEF d, edges
    <3>6. Held(edges) \subseteq EdgesFrom(FALSE, d, Held(sources))
      BY <1>5 DEF d, edges
    <3> QED
      BY <3>1, <3>3, <3>4, <3>5, <3>6
  <2>2. TypeOK /\ Followed
    BY DEF TraversalInv
  <2>3. PICK w \in BOOLEAN : w = MayExpand
    BY DEF MayExpand
  <2>4. Held(sources) \in SUBSET Source
    BY DEF TraversalInv, TypeOK, Held
  <2> HIDE DEF d, edges
  <2>5. Held(edges) \subseteq EdgesFrom(w, d, Held(sources))
    BY <2>1, <2>4, PartFrom
  <2> QED
    BY <2>1, <2>2, <2>3, <2>5, HopEnds
<1>8. Semaphored' /\ task' \in Seq({"queued", "ready", "reading", "done"}) /\ queue' \in Seq(DOMAIN task')
  BY <1>1, <1>2, NoTasks
<1>9. TypeOK'
  BY <1>1, <1>7, <1>8 DEF TraversalInv, TypeOK
<1>10. Paced'
  BY <1>1 DEF Paced
<1> QED
  BY <1>1, <1>7, <1>8, <1>9, <1>10 DEF TraversalInv

\* While tasks go on they have their sources, and the hop is theirs.
LEMMA TaskHas ==
  ASSUME TraversalInv, NEW k \in DOMAIN task
  PROVE  /\ task # << >> /\ DOMAIN task = DOMAIN sources
         /\ depth \in Nat /\ depth + 1 \in DOMAIN Hops /\ depth < Len(Hops)
         /\ sources \in Seq(Source) /\ Apart(sources) /\ Len(task) = Len(sources)
         /\ Collecting /\ status # "resolved"
<1>1. task # << >>
  OBVIOUS
<1>2. /\ depth < Len(Hops) /\ Len(task) = Len(sources) /\ depth \in Nat
      /\ Len(Hops) \in Nat /\ DOMAIN Hops = 1..Len(Hops) /\ Collecting /\ status # "resolved"
  BY <1>1, HopsAssumption DEF TraversalInv, Paced, TypeOK
<1> QED
  BY <1>1, <1>2, SourcesApart DEF TraversalInv, TypeOK

\* A task that finds the budget spent marks the hop and leaves its edges out.
LEMMA GiveUpKeeps ==
  ASSUME TraversalInv, NEW k \in DOMAIN task, GiveUp(k) PROVE TraversalInv'
<1>1. /\ task[k] = "ready" /\ hopTruncated' = TRUE /\ Release(k, "done")
      /\ UNCHANGED <<maxReads, slots, expands, depth, sources, hopEdges, totalReads, truncated,
                     status, failures, capped>>
  BY DEF GiveUp, TruncatedBySkip
<1>2. /\ depth < Len(Hops) /\ Len(task) = Len(sources) /\ Collecting /\ status # "resolved"
      /\ task # << >>
  BY TaskHas
<1>3. /\ task' \in Seq({"queued", "ready", "reading", "done"}) /\ DOMAIN task' = DOMAIN task
      /\ Len(task') = Len(task) /\ queue' \in Seq(DOMAIN task) /\ active' \in 0..slots
      /\ Semaphored' /\ task'[k] = "done"
      /\ \A j \in DOMAIN task \ {k} : task'[j] = "done" <=> task[j] = "done"
  BY <1>1, ReleaseKeeps DEF TraversalInv
<1>4. TypeOK'
  BY <1>1, <1>3 DEF TraversalInv, TypeOK
<1>5. Paced' /\ Followed'
  BY <1>1, <1>2, <1>3, FollowedStays DEF TraversalInv, Paced
<1>6. Collecting'
  BY <1>1, <1>2, <1>3 DEF Collecting, hop
<1>7. task' # << >>
  BY <1>3
<1> QED
  BY <1>1, <1>3, <1>4, <1>5, <1>6, <1>7 DEF TraversalInv

\* A task that may spend starts to read.
LEMMA ReadKeeps ==
  ASSUME TraversalInv, NEW k \in DOMAIN task, Read(k) PROVE TraversalInv'
<1>1. /\ task[k] = "ready" /\ totalReads' = totalReads + 1
      /\ task' = [task EXCEPT ![k] = "reading"]
      /\ UNCHANGED <<maxReads, slots, expands, depth, sources, queue, active, hopEdges, hopTruncated,
                     truncated, status, failures, capped>>
  BY DEF Read
<1>2. /\ depth < Len(Hops) /\ Len(task) = Len(sources) /\ Collecting /\ status # "resolved"
      /\ task # << >>
  BY TaskHas
<1>3. /\ task' \in Seq({"queued", "ready", "reading", "done"}) /\ DOMAIN task' = DOMAIN task
      /\ Len(task') = Len(task)
  BY <1>1 DEF TraversalInv, TypeOK
<1>4. \A j \in DOMAIN task : /\ task'[j] = "done" <=> task[j] = "done"
                             /\ task'[j] = "queued" <=> task[j] = "queued"
                             /\ task'[j] \in {"ready", "reading"} <=> task[j] \in {"ready", "reading"}
  BY <1>1
<1>5. Working' = Working /\ Semaphored'
  <2>1. Working' = Working
    BY <1>3, <1>4 DEF Working
  <2> QED
    BY <1>1, <1>3, <1>4, <2>1 DEF TraversalInv, Semaphored
<1>6. TypeOK'
  BY <1>1, <1>3 DEF TraversalInv, TypeOK
<1>7. Paced' /\ Followed'
  BY <1>1, <1>2, <1>3, FollowedStays DEF TraversalInv, Paced
<1>8. Collecting'
  BY <1>1, <1>2, <1>3, <1>4 DEF Collecting, hop
<1>9. task' # << >>
  BY <1>3
<1> QED
  BY <1>1, <1>5, <1>6, <1>7, <1>8, <1>9 DEF TraversalInv

\* A task adds its source's edges, which no other task has.
LEMMA AnswerKeeps ==
  ASSUME TraversalInv, NEW k \in DOMAIN task, Answer(k) PROVE TraversalInv'
<1> DEFINE new == FindEdges(hop, sources[k])
           T == {j \in DOMAIN task : task[j] = "done"}
<1>1. /\ task[k] = "reading" /\ hopEdges' = hopEdges \o new /\ Release(k, "done")
      /\ UNCHANGED <<maxReads, slots, expands, depth, sources, hopTruncated, totalReads, truncated,
                     status, failures, capped>>
  BY DEF Answer
<1>2. /\ task # << >> /\ DOMAIN task = DOMAIN sources
      /\ depth \in Nat /\ depth + 1 \in DOMAIN Hops /\ depth < Len(Hops)
      /\ sources \in Seq(Source) /\ Apart(sources) /\ Len(task) = Len(sources)
      /\ Collecting /\ status # "resolved"
  BY TaskHas
<1>3. /\ task' \in Seq({"queued", "ready", "reading", "done"}) /\ DOMAIN task' = DOMAIN task
      /\ Len(task') = Len(task) /\ queue' \in Seq(DOMAIN task) /\ active' \in 0..slots
      /\ Semaphored' /\ task'[k] = "done"
      /\ \A j \in DOMAIN task \ {k} : task'[j] = "done" <=> task[j] = "done"
  BY <1>1, ReleaseKeeps DEF TraversalInv
<1>4. new \in Seq(Edge) /\ Once(new)
  <2>1. sources[k] \in Source
    BY <1>2
  <2> QED
    BY <1>2, <2>1, FoundIs DEF hop, FindEdges
<1>5. Held(hopEdges) \cap Held(new) = {}
  <2> DEFINE found == Held(hopEdges)
  <2>1. T \in SUBSET (DOMAIN sources) /\ k \in (DOMAIN sources) \ T
    BY <1>1, <1>2
  <2>2. \A e \in found : \E j \in T : e \in Held(FindEdges(Hops[depth + 1], sources[j]))
    BY <1>2 DEF Collecting, hop
  <2> HIDE DEF T, found
  <2>3. \A e \in found : \E j \in T : e \in Held(Found(FALSE, Hops[depth + 1], sources[j]))
    BY <2>2 DEF FindEdges
  <2>4. ASSUME NEW j \in T
        PROVE  Held(Found(FALSE, Hops[depth + 1], sources[j]))
                 \cap Held(Found(FALSE, Hops[depth + 1], sources[k])) = {}
    <3>1. sources[j] \in Source /\ sources[k] \in Source /\ sources[j].uid # sources[k].uid
      BY <1>2, <2>1 DEF Apart
    <3> QED
      BY <1>2, <3>1, OtherEdges
  <2> QED
    BY <2>3, <2>4 DEF found, hop, FindEdges
<1> HIDE DEF new, T
<1>6. hopEdges' \in Seq(Edge) /\ Once(hopEdges') /\ Held(hopEdges') = Held(hopEdges) \cup Held(new)
  BY <1>1, <1>4, <1>5, ConcatIs DEF TraversalInv, TypeOK
<1>7. TypeOK'
  BY <1>1, <1>3, <1>6 DEF TraversalInv, TypeOK
<1>8. Paced' /\ Followed'
  BY <1>1, <1>2, <1>3, FollowedStays DEF TraversalInv, Paced
<1>9. Collecting'
  <2>1. hop' = hop /\ \A j \in DOMAIN task : FindEdges(hop, sources[j])' = FindEdges(hop, sources[j])
    BY <1>1 DEF hop
  <2>2. ASSUME NEW e \in Held(hopEdges')
        PROVE  \E j \in DOMAIN task' : task'[j] = "done" /\ e \in Held(FindEdges(hop', sources'[j]))
    <3>1. CASE e \in Held(new)
      BY <1>1, <1>3, <2>1, <3>1 DEF new
    <3>2. CASE e \in Held(hopEdges)
      <4>1. PICK j \in DOMAIN task : task[j] = "done" /\ e \in Held(FindEdges(hop, sources[j]))
        BY <1>2, <3>2 DEF Collecting
      <4>2. task'[j] = "done"
        BY <1>3, <4>1
      <4> QED
        BY <1>1, <1>3, <2>1, <4>1, <4>2
    <3> QED
      BY <1>6, <3>1, <3>2
  <2>3. ASSUME status' = "running", ~hopTruncated', NEW j \in DOMAIN task', task'[j] = "done"
        PROVE  Held(FindEdges(hop', sources'[j])) \subseteq Held(hopEdges')
    <3>1. CASE j = k
      BY <1>1, <1>6, <2>1, <3>1 DEF new
    <3>2. CASE j # k
      <4>1. j \in DOMAIN task /\ task[j] = "done"
        BY <1>3, <2>3, <3>2
      <4>2. Held(FindEdges(hop, sources[j])) \subseteq Held(hopEdges)
        BY <1>1, <1>2, <2>3, <4>1 DEF Collecting
      <4> QED
        BY <1>1, <1>6, <2>1, <4>2
    <3> QED
      BY <3>1, <3>2
  <2> QED
    BY <2>2, <2>3 DEF Collecting
<1>10. task' # << >>
  BY <1>3
<1> QED
  BY <1>1, <1>3, <1>6, <1>7, <1>8, <1>9, <1>10 DEF TraversalInv

\* A failed read ends the run.
LEMMA ReadFailsKeeps ==
  ASSUME TraversalInv, NEW k \in DOMAIN task, ReadFails(k) PROVE TraversalInv'
<1>1. /\ task[k] = "reading" /\ failures < MaxFailures /\ failures' = failures + 1
      /\ status' = "rejected" /\ Release(k, "done")
      /\ UNCHANGED <<maxReads, slots, expands, depth, sources, hopEdges, hopTruncated, totalReads,
                     truncated, capped>>
  BY DEF ReadFails, AfterFailure
<1>2. /\ depth < Len(Hops) /\ Len(task) = Len(sources) /\ Collecting /\ task # << >>
  BY TaskHas
<1>3. /\ task' \in Seq({"queued", "ready", "reading", "done"}) /\ DOMAIN task' = DOMAIN task
      /\ Len(task') = Len(task) /\ queue' \in Seq(DOMAIN task) /\ active' \in 0..slots
      /\ Semaphored' /\ task'[k] = "done"
      /\ \A j \in DOMAIN task \ {k} : task'[j] = "done" <=> task[j] = "done"
  BY <1>1, ReleaseKeeps DEF TraversalInv
<1>4. TypeOK'
  BY <1>1, <1>3, OptionsAssumption DEF TraversalInv, TypeOK
<1>5. Paced' /\ Followed'
  BY <1>1, <1>2, <1>3, FollowedStays DEF TraversalInv, Paced
<1>6. Collecting'
  BY <1>1, <1>2, <1>3 DEF Collecting, hop
<1>7. task' # << >>
  BY <1>3
<1> QED
  BY <1>1, <1>3, <1>4, <1>5, <1>6, <1>7 DEF TraversalInv

\* Every step keeps the invariant.
LEMMA TraversalStep == ASSUME TraversalInv, [Next]_vars PROVE TraversalInv'
<1>1. CASE UNCHANGED vars
  BY <1>1, FollowedStays, CollectedStays
  DEF vars, TraversalInv, TypeOK, Semaphored, Working, Paced, Collecting, hop
<1> QED
  BY <1>1, SkipKeeps, ExpandKeeps, ExpandFailsKeeps, StartKeeps, DoneKeeps, FinishKeeps,
     GiveUpKeeps, ReadKeeps, AnswerKeeps, ReadFailsKeeps DEF Next

\* A result answers with the edges collected last.
LEMMA ResolvedAnswers ==
  ASSUME TraversalInv, status = "resolved"
  PROVE  NothingInvented /\ CompleteUnlessTruncated
<1> DEFINE n == Len(Hops)
<1>1. n \in Nat /\ n \in DOMAIN Hops /\ n > 0
  BY HopsAssumption
<1>2. PICK w \in BOOLEAN : w = MayExpand
  BY DEF MayExpand
<1> DEFINE all == EdgesFrom(w, n, Reached(w)[n - 1])
           own == EdgesFrom(FALSE, n, Reached(FALSE)[n - 1])
<1>3. task = << >> /\ depth = n /\ CollectedIn(w)
  BY <1>1, <1>2 DEF TraversalInv, Paced, Collected
<1>4. EdgesOf(w, n) = {Bare(e) : e \in all} /\ EdgesOf(FALSE, n) = {Bare(e) : e \in own}
  BY <1>1, ReachedIs
<1>5. Answers = {Bare(e) : e \in Held(hopEdges)}
  BY DEF Answers, Held, Bare
<1>6. Held(hopEdges) \subseteq all /\ (Uncut(w) => own \subseteq Held(hopEdges))
  BY <1>3 DEF CollectedIn
<1> HIDE DEF all, own
<1>7. Answers \subseteq EdgesOf(w, n)
  BY <1>4, <1>5, <1>6
<1>8. Uncut(w) => EdgesOf(FALSE, n) \subseteq Answers
  BY <1>4, <1>5, <1>6
<1> QED
  BY <1>2, <1>7, <1>8 DEF NothingInvented, CompleteUnlessTruncated, Uncut

\* A run uses no more slots than it has; what a resolved run returns was found in the
\* graphs its hops lead through, each edge of a hop once, and is all there is unless it
\* says truncated or the limit that an expand shares out among its sources was reached
\* (run and Semaphore, traverse.ts; expand, firestore-classic-expand.ts), for any graph,
\* hops, budget, backend and concurrency and whatever order the reads answer in.
THEOREM SoundTheorem == Spec => []TraversalSound
<1>1. Init => TraversalInv
  BY TraversalInit
<1>2. TraversalInv /\ [Next]_vars => TraversalInv'
  BY TraversalStep
<1>3. TraversalInv => TraversalSound
  <2> SUFFICES ASSUME TraversalInv PROVE TraversalSound
    OBVIOUS
  <2>1. SlotsKept
    <3>1. active <= slots
      BY OptionsAssumption DEF TraversalInv, TypeOK
    <3> QED
      BY <3>1 DEF TraversalInv, Semaphored, Working, SlotsKept
  <2>2. NoDuplicates
    BY DEF TraversalInv, Once, NoDuplicates
  <2>3. CompleteUnlessTruncated /\ NothingInvented
    BY ResolvedAnswers DEF CompleteUnlessTruncated, NothingInvented
  <2> QED
    BY <2>1, <2>2, <2>3 DEF TraversalInv, TraversalSound
<1> QED
  BY <1>1, <1>2, <1>3, PTL DEF Spec

-----------------------------------------------------------------------------
(* Sorting, cutting and joining sequences.                                  *)

\* What comes before position i, by keys and then in turn.
Ahead(K, key, i) == {j \in K : key[j] < key[i] \/ (key[j] = key[i] /\ j < i)}

\* Every place is taken, by one position.
LEMMA PlacesAre ==
  ASSUME NEW n \in Nat, NEW K \in SUBSET (1..n), NEW key \in [1..n -> Int]
  PROVE  /\ IsFiniteSet(K) /\ Cardinality(K) \in Nat
         /\ \A i \in K : Cardinality(Ahead(K, key, i)) \in 0..(Cardinality(K) - 1)
         /\ \A i, j \in K : Cardinality(Ahead(K, key, i)) = Cardinality(Ahead(K, key, j)) => i = j
         /\ \A p \in 1..Cardinality(K) : \E i \in K : Cardinality(Ahead(K, key, i)) = p - 1
<1>1. IsFiniteSet(K) /\ Cardinality(K) \in Nat
  <2>1. IsFiniteSet(1..n)
    BY FS_Interval
  <2>2. IsFiniteSet(K)
    BY <2>1, FS_Subset
  <2> QED
    BY <2>2, FS_CardinalityType
<1>2. \A i \in K : i \in Int /\ key[i] \in Int
  OBVIOUS
<1>3. \A i \in K : Ahead(K, key, i) \in SUBSET K /\ i \notin Ahead(K, key, i)
  BY <1>2 DEF Ahead
<1>4. ASSUME NEW T \in SUBSET K, NEW U \in SUBSET T, T # U
      PROVE  Cardinality(U) \in Nat /\ Cardinality(T) \in Nat /\ Cardinality(U) < Cardinality(T)
  <2>1. IsFiniteSet(T)
    BY <1>1, FS_Subset
  <2>2. IsFiniteSet(U) /\ Cardinality(U) <= Cardinality(T) /\ (Cardinality(T) = Cardinality(U) => T = U)
    BY <2>1, FS_Subset
  <2>3. Cardinality(T) \in Nat /\ Cardinality(U) \in Nat
    BY <2>1, <2>2, FS_CardinalityType
  <2> QED
    BY <1>4, <2>2, <2>3
<1>5. \A i \in K : Cardinality(Ahead(K, key, i)) \in 0..(Cardinality(K) - 1)
  <2> SUFFICES ASSUME NEW i \in K PROVE Cardinality(Ahead(K, key, i)) \in 0..(Cardinality(K) - 1)
    OBVIOUS
  <2>1. Ahead(K, key, i) \in SUBSET K /\ K # Ahead(K, key, i)
    BY <1>3
  <2>2. Cardinality(Ahead(K, key, i)) \in Nat /\ Cardinality(Ahead(K, key, i)) < Cardinality(K)
    BY <1>4, <2>1
  <2> QED
    BY <1>1, <2>2
<1>6. ASSUME NEW i \in K, NEW j \in K, i \in Ahead(K, key, j)
      PROVE  Cardinality(Ahead(K, key, i)) # Cardinality(Ahead(K, key, j))
  <2>1. Ahead(K, key, i) \in SUBSET Ahead(K, key, j)
    <3> SUFFICES ASSUME NEW x \in Ahead(K, key, i) PROVE x \in Ahead(K, key, j)
      OBVIOUS
    <3>1. x \in K /\ (key[x] < key[i] \/ (key[x] = key[i] /\ x < i))
      BY DEF Ahead
    <3>2. key[i] < key[j] \/ (key[i] = key[j] /\ i < j)
      BY <1>6 DEF Ahead
    <3>3. /\ x \in Int /\ i \in Int /\ j \in Int
          /\ key[x] \in Int /\ key[i] \in Int /\ key[j] \in Int
      BY <1>2, <3>1
    <3>4. key[x] < key[j] \/ (key[x] = key[j] /\ x < j)
      BY <3>1, <3>2, <3>3
    <3> QED
      BY <3>1, <3>4 DEF Ahead
  <2>2. Ahead(K, key, j) \in SUBSET K /\ Ahead(K, key, j) # Ahead(K, key, i)
    BY <1>3, <1>6
  <2>3. /\ Cardinality(Ahead(K, key, i)) \in Nat /\ Cardinality(Ahead(K, key, j)) \in Nat
        /\ Cardinality(Ahead(K, key, i)) < Cardinality(Ahead(K, key, j))
    BY <1>4, <2>1, <2>2
  <2> QED
    BY <2>3
<1>7. \A i, j \in K : Cardinality(Ahead(K, key, i)) = Cardinality(Ahead(K, key, j)) => i = j
  <2> SUFFICES ASSUME NEW i \in K, NEW j \in K, i # j
               PROVE  Cardinality(Ahead(K, key, i)) # Cardinality(Ahead(K, key, j))
    OBVIOUS
  <2>1. i \in Ahead(K, key, j) \/ j \in Ahead(K, key, i)
    BY <1>2 DEF Ahead
  <2> QED
    BY <1>6, <2>1
<1>8. \A p \in 1..Cardinality(K) : \E i \in K : Cardinality(Ahead(K, key, i)) = p - 1
  <2> DEFINE T == 1..Cardinality(K)
             f == [i \in K |-> Cardinality(Ahead(K, key, i)) + 1]
  <2>1. IsFiniteSet(T) /\ Cardinality(T) = Cardinality(K)
    <3>1. \A c \in Int : IsFiniteSet(1..c) /\ Cardinality(1..c) = IF 1 > c THEN 0 ELSE c - 1 + 1
      BY FS_Interval
    <3>2. \A c \in Nat : IsFiniteSet(1..c) /\ Cardinality(1..c) = c
      BY <3>1
    <3> QED
      BY <1>1, <3>2
  <2>2. \A i \in K : Cardinality(Ahead(K, key, i)) + 1 \in T
    BY <1>1, <1>5
  <2>3. f \in [K -> T]
    BY <2>2
  <2>4. \A i, j \in K : f[i] = f[j] => i = j
    <3> SUFFICES ASSUME NEW i \in K, NEW j \in K, f[i] = f[j] PROVE i = j
      OBVIOUS
    <3>1. Cardinality(Ahead(K, key, i)) \in Int /\ Cardinality(Ahead(K, key, j)) \in Int
      BY <1>1, <1>5
    <3>2. Cardinality(Ahead(K, key, i)) = Cardinality(Ahead(K, key, j))
      BY <3>1
    <3> QED
      BY <1>7, <3>2
  <2> HIDE DEF f, T
  <2>5. f \in Injection(K, T)
    BY <2>3, <2>4 DEF Injection, IsInjective
  <2>6. f \in Surjection(K, T)
    BY <2>1, <2>5, FS_Injection
  <2>7. \A p \in T : \E i \in K : f[i] = p
    BY <2>6 DEF Surjection
  <2>8. ASSUME NEW p \in T PROVE \E i \in K : Cardinality(Ahead(K, key, i)) = p - 1
    <3>1. PICK i \in K : f[i] = p
      BY <2>7
    <3>2. Cardinality(Ahead(K, key, i)) + 1 = p /\ Cardinality(Ahead(K, key, i)) \in Int
      BY <1>1, <1>5, <3>1 DEF f
    <3> QED
      BY <3>2
  <2> QED
    BY <2>8 DEF T
<1> QED
  BY <1>1, <1>5, <1>7, <1>8

\* A sorted sequence holds what it was told to keep, and nothing twice that was
\* there once.
LEMMA SortedIs ==
  ASSUME NEW S, NEW s \in Seq(S), NEW K \in SUBSET DOMAIN s, NEW key \in [DOMAIN s -> Int]
  PROVE  /\ IsFiniteSet(K) /\ Cardinality(K) \in Nat
         /\ Sorted(s, K, key) \in Seq(S) /\ Len(Sorted(s, K, key)) = Cardinality(K)
         /\ Held(Sorted(s, K, key)) = {s[k] : k \in K}
         /\ Once(s) => Once(Sorted(s, K, key))
<1> DEFINE n == Len(s)
           place(i) == Cardinality(Ahead(K, key, i))
           c == Cardinality(K)
           at(p) == CHOOSE i \in K : place(i) = p - 1
           t == Sorted(s, K, key)
<1>1. n \in Nat /\ DOMAIN s = 1..n /\ \A k \in 1..n : s[k] \in S
  OBVIOUS
<1>2. /\ IsFiniteSet(K) /\ c \in Nat
      /\ \A i \in K : place(i) \in 0..(c - 1)
      /\ \A i, j \in K : place(i) = place(j) => i = j
      /\ \A p \in 1..c : \E i \in K : place(i) = p - 1
  <2>1. \A m \in Nat : DOMAIN s = 1..m => K \in SUBSET (1..m) /\ key \in [1..m -> Int]
    OBVIOUS
  <2>0. PICK m \in Nat : DOMAIN s = 1..m
    BY <1>1
  <2>2. /\ IsFiniteSet(K) /\ Cardinality(K) \in Nat
        /\ \A i \in K : Cardinality(Ahead(K, key, i)) \in 0..(Cardinality(K) - 1)
        /\ \A i, j \in K : Cardinality(Ahead(K, key, i)) = Cardinality(Ahead(K, key, j)) => i = j
        /\ \A p \in 1..Cardinality(K) : \E i \in K : Cardinality(Ahead(K, key, i)) = p - 1
    BY <2>0, <2>1, PlacesAre
  <2> QED
    BY <2>2
<1>3. t = [p \in 1..c |-> s[at(p)]]
  BY DEF Sorted, Ahead
<1> HIDE DEF t, place, c, n
<1>4. \A p \in 1..c : at(p) \in K /\ place(at(p)) = p - 1
  BY <1>2
<1>5. \A i \in K : \E p \in 1..c : at(p) = i
  <2> SUFFICES ASSUME NEW i \in K PROVE \E p \in 1..c : at(p) = i
    OBVIOUS
  <2>1. place(i) + 1 \in 1..c /\ (place(i) + 1) - 1 = place(i)
    BY <1>2
  <2>2. at(place(i) + 1) \in K /\ place(at(place(i) + 1)) = place(i)
    BY <1>4, <2>1
  <2> QED
    BY <1>2, <2>1, <2>2
<1> HIDE DEF at
<1>6. t \in Seq(S) /\ Len(t) = c /\ DOMAIN t = 1..c
  <2>1. \A p \in 1..c : s[at(p)] \in S
    BY <1>1, <1>4
  <2> QED
    BY <1>2, <1>3, <2>1
<1>7. Held(t) = {s[k] : k \in K}
  <2>1. \A x \in Held(t) : x \in {s[k] : k \in K}
    BY <1>3, <1>4, <1>6 DEF Held
  <2>2. \A x \in {s[k] : k \in K} : x \in Held(t)
    BY <1>3, <1>5, <1>6 DEF Held
  <2> QED
    BY <2>1, <2>2
<1>8. ASSUME Once(s) PROVE Once(t)
  <2> SUFFICES ASSUME NEW p \in 1..c, NEW q \in 1..c, t[p] = t[q] PROVE p = q
    BY <1>6 DEF Once
  <2>1. s[at(p)] = s[at(q)] /\ at(p) \in DOMAIN s /\ at(q) \in DOMAIN s
    BY <1>3, <1>4
  <2>2. at(p) = at(q)
    BY <1>8, <2>1 DEF Once
  <2>3. p - 1 = q - 1 /\ p \in Int /\ q \in Int
    BY <1>2, <1>4, <2>2
  <2> QED
    BY <2>3
<1> QED
  BY <1>2, <1>6, <1>7, <1>8 DEF t, c

LEMMA InTurnIs ==
  ASSUME NEW S, NEW s \in Seq(S), NEW K \in SUBSET DOMAIN s
  PROVE  /\ IsFiniteSet(K) /\ Cardinality(K) \in Nat
         /\ InTurn(s, K) \in Seq(S) /\ Len(InTurn(s, K)) = Cardinality(K)
         /\ Held(InTurn(s, K)) = {s[k] : k \in K}
         /\ Once(s) => Once(InTurn(s, K))
<1> DEFINE key == [k \in DOMAIN s |-> 0]
<1>1. key \in [DOMAIN s -> Int] /\ InTurn(s, K) = Sorted(s, K, key)
  BY DEF InTurn
<1> HIDE DEF key
<1>2. /\ IsFiniteSet(K) /\ Cardinality(K) \in Nat
      /\ Sorted(s, K, key) \in Seq(S) /\ Len(Sorted(s, K, key)) = Cardinality(K)
      /\ Held(Sorted(s, K, key)) = {s[k] : k \in K}
      /\ Once(s) => Once(Sorted(s, K, key))
  BY <1>1, SortedIs, Zenon
<1> QED
  BY <1>1, <1>2, Zenon

\* Records in the order of a hop are the same records.
LEMMA OrderedIs ==
  ASSUME NEW h, NEW s \in Seq(Record)
  PROVE  /\ Ordered(h, s) \in Seq(Record) /\ Len(Ordered(h, s)) = Len(s)
         /\ Held(Ordered(h, s)) = Held(s)
         /\ Once(s) => Once(Ordered(h, s))
<1>1. CASE ~h.ordered
  BY <1>1 DEF Ordered
<1>2. CASE h.ordered
  <2> DEFINE key == [k \in DOMAIN s |-> Rank[s[k].b]]
             K == DOMAIN s
             n == Len(s)
  <2>1. Ordered(h, s) = Sorted(s, K, key)
    BY <1>2 DEF Ordered
  <2>2. key \in [DOMAIN s -> Int]
    <3>1. \A k \in DOMAIN s : s[k] \in Record
      OBVIOUS
    <3>2. \A e \in Record : e.b \in Nodes
      BY DEF Record
    <3> QED
      BY <3>1, <3>2, GraphAssumption
  <2>3. n \in Nat /\ K = 1..n /\ K \in SUBSET DOMAIN s
    OBVIOUS
  <2>4. Cardinality(1..n) = n
    <3>1. \A c \in Int : Cardinality(1..c) = IF 1 > c THEN 0 ELSE c - 1 + 1
      BY FS_Interval
    <3> QED
      BY <2>3, <3>1
  <2> HIDE DEF key, n
  <2>5. Cardinality(K) = n
    BY <2>3, <2>4
  <2> HIDE DEF K
  <2>6. /\ Ordered(h, s) \in Seq(Record) /\ Len(Ordered(h, s)) = n
        /\ Held(Ordered(h, s)) = {s[k] : k \in K}
        /\ Once(s) => Once(Ordered(h, s))
    <3>1. /\ Sorted(s, K, key) \in Seq(Record) /\ Len(Sorted(s, K, key)) = Cardinality(K)
          /\ Held(Sorted(s, K, key)) = {s[k] : k \in K}
          /\ Once(s) => Once(Sorted(s, K, key))
      BY <2>2, <2>3, SortedIs, Zenon
    <3> QED
      BY <2>1, <2>5, <3>1, Zenon
  <2>7. Held(s) = {s[k] : k \in K}
    BY DEF Held, K
  <2> QED
    BY <2>6, <2>7, Zenon DEF n
<1> QED
  BY <1>1, <1>2

\* A cut keeps the first ones.
LEMMA TakeIs ==
  ASSUME NEW S, NEW s \in Seq(S), NEW n \in Nat \cup {NoLimit}
  PROVE  /\ Take(s, n) \in Seq(S)
         /\ Held(Take(s, n)) \subseteq Held(s)
         /\ Once(s) => Once(Take(s, n))
         /\ n = NoLimit => Take(s, n) = s
         /\ n # NoLimit => Len(Take(s, n)) <= n
         /\ n # NoLimit /\ Len(s) > n => Len(Take(s, n)) = n
<1>1. CASE n = NoLimit \/ n >= Len(s)
  BY <1>1 DEF Take, NoLimit
<1>2. CASE n # NoLimit /\ n < Len(s)
  <2>1. n \in Nat /\ Take(s, n) = SubSeq(s, 1, n)
    BY <1>2 DEF Take, NoLimit
  <2>2. /\ Take(s, n) \in Seq(S) /\ Len(Take(s, n)) = n /\ DOMAIN Take(s, n) = 1..n
        /\ \A k \in 1..n : Take(s, n)[k] = s[k] /\ k \in DOMAIN s
    BY <1>2, <2>1
  <2> QED
    BY <1>2, <2>1, <2>2 DEF Held, Once
<1> QED
  <2>1. Len(s) \in Int /\ (n = NoLimit \/ n \in Int)
    OBVIOUS
  <2> QED
    BY <1>1, <1>2, <2>1

\* Parts joined hold what the parts hold, once if no two parts share anything.
LEMMA FlattenIs ==
  ASSUME NEW S, NEW parts \in Seq(Seq(S))
  PROVE  /\ FlattenSeq(parts) \in Seq(S)
         /\ Held(FlattenSeq(parts)) = UNION {Held(parts[i]) : i \in DOMAIN parts}
         /\ (/\ \A i \in DOMAIN parts : Once(parts[i])
             /\ \A i, j \in DOMAIN parts : i # j => Held(parts[i]) \cap Held(parts[j]) = {})
              => Once(FlattenSeq(parts))
<1> DEFINE n == Len(parts)
           F(g) == [i \in 1..Len(parts) |-> IF i = 1 THEN parts[i] ELSE g[i - 1] \o parts[i]]
           flatten == CHOOSE g : g = F(g)
           Apart1 == /\ \A i \in DOMAIN parts : Once(parts[i])
                     /\ \A i, j \in DOMAIN parts : i # j => Held(parts[i]) \cap Held(parts[j]) = {}
<1>0. n \in Nat /\ DOMAIN parts = 1..n /\ \A k \in 1..n : parts[k] \in Seq(S)
  OBVIOUS
<1>1. CASE n = 0
  <2>1. FlattenSeq(parts) = parts /\ parts = << >>
    BY <1>0, <1>1 DEF FlattenSeq
  <2> QED
    BY <2>1 DEF Held, Once
<1>2. CASE n # 0
  <2>1. FlattenSeq(parts) = flatten[n]
    BY <1>2 DEF FlattenSeq
  <2>2. \E g : g = F(g)
    <3> DEFINE m == n - 1
               T == Seq(S)
               first == parts[1]
               step == [k \in 1..m |-> [x \in T |-> x \o parts[k + 1]]]
    <3>1. m \in Nat /\ first \in T
      BY <1>0, <1>2
    <3>2. \A k \in 1..m : step[k] \in [T -> T]
      BY <1>0, <1>2
    <3>3. \E g \in [0..m -> T] : Goes(g, m, first, step)
      <4> HIDE DEF m, T, first, step
      <4> QED
        BY <3>1, <3>2, Recursion, Zenon
    <3>4. PICK g \in [0..m -> T] : g[0] = first /\ \A k \in 1..m : g[k] = step[k][g[k - 1]]
      BY <3>3 DEF Goes
    <3>5. \A k \in 1..m : g[k] = g[k - 1] \o parts[k + 1]
      <4> SUFFICES ASSUME NEW k \in 1..m PROVE g[k] = g[k - 1] \o parts[k + 1]
        OBVIOUS
      <4>1. k - 1 \in 0..m
        BY <3>1
      <4>2. g[k - 1] \in T
        BY <3>4, <4>1
      <4> HIDE DEF T
      <4> QED
        BY <3>4, <4>2
    <3> DEFINE f == [i \in 1..n |-> g[i - 1]]
    <3>6. \A i \in 1..n : f[i] = IF i = 1 THEN parts[i] ELSE f[i - 1] \o parts[i]
      <4> SUFFICES ASSUME NEW i \in 1..n PROVE f[i] = IF i = 1 THEN parts[i] ELSE f[i - 1] \o parts[i]
        OBVIOUS
      <4>1. CASE i = 1
        BY <3>4, <4>1
      <4>2. CASE i # 1
        <5>1. i - 1 \in 1..m /\ i - 1 \in 1..n /\ (i - 1) + 1 = i /\ i \in 1..n
          BY <1>0, <4>2
        <5>2. g[i - 1] = g[(i - 1) - 1] \o parts[i]
          BY <3>5, <5>1
        <5>3. f[i] = g[i - 1] /\ f[i - 1] = g[(i - 1) - 1]
          BY <5>1
        <5> QED
          BY <4>2, <5>2, <5>3
      <4> QED
        BY <4>1, <4>2
    <3>7. f = F(f)
      <4> HIDE DEF f
      <4>1. F(f) = [i \in 1..n |-> IF i = 1 THEN parts[i] ELSE f[i - 1] \o parts[i]]
        OBVIOUS
      <4>2. f = [i \in 1..n |-> f[i]]
        BY DEF f
      <4> HIDE DEF F
      <4> QED
        BY <3>6, <4>1, <4>2
    <3> QED
      BY <3>7
  <2>3. flatten = F(flatten)
    BY <2>2
  <2> HIDE DEF flatten
  <2>4. flatten[1] = parts[1] /\ \A i \in 1..n : i # 1 => flatten[i] = flatten[i - 1] \o parts[i]
    <3>1. F(flatten) = [i \in 1..n |-> IF i = 1 THEN parts[i] ELSE flatten[i - 1] \o parts[i]]
      OBVIOUS
    <3> HIDE DEF F
    <3>2. 1 \in 1..n
      BY <1>0, <1>2
    <3>3. \A i \in 1..n : flatten[i] = IF i = 1 THEN parts[i] ELSE flatten[i - 1] \o parts[i]
      BY <2>3, <3>1
    <3> QED
      BY <3>2, <3>3
  <2> HIDE DEF F
  <2> DEFINE P(k) ==
        /\ flatten[k] \in Seq(S)
        /\ Held(flatten[k]) = UNION {Held(parts[i]) : i \in 1..k}
        /\ Apart1 => Once(flatten[k])
  <2>5. P(1)
    <3>1. 1 \in 1..n /\ 1..1 = {1}
      BY <1>0, <1>2
    <3>2. UNION {Held(parts[i]) : i \in 1..1} = Held(parts[1])
      BY <3>1
    <3> QED
      BY <1>0, <2>4, <3>1, <3>2
  <2>6. ASSUME NEW k \in 1..n, k # 1, P(k - 1) PROVE P(k)
    <3>1. flatten[k] = flatten[k - 1] \o parts[k]
      BY <2>4, <2>6
    <3>2. /\ flatten[k] \in Seq(S)
          /\ Held(flatten[k]) = Held(flatten[k - 1]) \cup Held(parts[k])
          /\ (Once(flatten[k - 1]) /\ Once(parts[k]) /\ Held(flatten[k - 1]) \cap Held(parts[k]) = {}) => Once(flatten[k])
      BY <1>0, <2>6, <3>1, ConcatIs
    <3>3. 1..k = (1..(k - 1)) \cup {k}
      BY <1>0
    <3>4. Held(flatten[k]) = UNION {Held(parts[i]) : i \in 1..k}
      <4>1. Held(flatten[k - 1]) = UNION {Held(parts[i]) : i \in 1..(k - 1)}
        BY <2>6
      <4> QED
        BY <3>2, <3>3, <4>1
    <3>5. ASSUME Apart1 PROVE Once(flatten[k])
      <4>1. \A i \in 1..(k - 1) : i \in DOMAIN parts /\ i # k /\ k \in DOMAIN parts
        BY <1>0
      <4>2. \A i \in 1..(k - 1) : Held(parts[i]) \cap Held(parts[k]) = {}
        BY <3>5, <4>1
      <4>3. Held(flatten[k - 1]) \cap Held(parts[k]) = {}
        BY <2>6, <4>2
      <4>4. Once(flatten[k - 1]) /\ Once(parts[k])
        BY <1>0, <2>6, <3>5
      <4> QED
        BY <3>2, <4>3, <4>4
    <3> QED
      BY <3>2, <3>4, <3>5
  <2> DEFINE I == {k \in Nat : k + 1 <= n => P(k + 1)}
  <2>7. I = Nat
    <3> HIDE DEF P
    <3>1. 0 \in I
      BY <2>5
    <3>2. ASSUME NEW k \in I PROVE k + 1 \in I
      <4>1. k \in Nat /\ (k + 1 <= n => P(k + 1))
        OBVIOUS
      <4>2. SUFFICES ASSUME (k + 1) + 1 <= n PROVE P((k + 1) + 1)
        BY <4>1
      <4>3. (k + 1) + 1 \in 1..n /\ ((k + 1) + 1) - 1 = k + 1 /\ (k + 1) + 1 # 1 /\ k + 1 <= n
        BY <1>0, <4>1, <4>2
      <4> QED
        BY <2>6, <4>1, <4>3
    <3>3. I \in SUBSET Nat
      OBVIOUS
    <3> HIDE DEF I
    <3> QED
      BY <3>1, <3>2, <3>3, Induction
  <2>8. P(n)
    <3> HIDE DEF P
    <3>1. n - 1 \in Nat /\ (n - 1) + 1 = n
      BY <1>0, <1>2
    <3>2. n - 1 \in I
      BY <2>7, <3>1
    <3>3. n <= n => P(n)
      BY <3>1, <3>2
    <3> QED
      BY <1>0, <3>3
  <2> QED
    BY <1>0, <2>1, <2>8
<1> QED
  BY <1>1, <1>2

-----------------------------------------------------------------------------
(* A graph, and what a query finds in it.                                   *)

\* GraphTypeOK: a graph is a sequence of records, none of them there twice.
THEOREM GraphTheorem == GraphSpec => []GraphTypeOK
<1>1. GraphInit => GraphTypeOK
  BY GraphAssumption DEF GraphInit, GraphTypeOK
<1>2. GraphTypeOK /\ [GraphNext]_rows => GraphTypeOK'
  <2> SUFFICES ASSUME GraphTypeOK, [GraphNext]_rows PROVE GraphTypeOK'
    OBVIOUS
  <2>0. /\ rows \in Seq(Record) /\ Len(rows) \in Nat /\ DOMAIN rows = 1..Len(rows)
        /\ Len(rows) <= MaxRows /\ MaxRows \in Nat
        /\ \A j, k \in DOMAIN rows : rows[j] = rows[k] => j = k
    BY GraphAssumption DEF GraphTypeOK
  <2>1. CASE UNCHANGED rows
    BY <2>1 DEF GraphTypeOK
  <2>2. ASSUME NEW e \in Record, Put(e) PROVE GraphTypeOK'
    <3>1. /\ rows' = Append(rows, e) /\ Len(rows) < MaxRows
          /\ \A k \in DOMAIN rows : rows[k] # e
      BY <2>2 DEF Put
    <3> DEFINE new == Append(rows, e)
    <3>2. /\ new \in Seq(Record) /\ Len(new) = Len(rows) + 1 /\ DOMAIN new = 1..(Len(rows) + 1)
          /\ \A k \in 1..Len(rows) : new[k] = rows[k]
          /\ new[Len(rows) + 1] = e
      BY <2>0, <2>2
    <3> HIDE DEF new
    <3>3. ASSUME NEW j \in DOMAIN new, NEW k \in DOMAIN new, new[j] = new[k] PROVE j = k
      <4>1. (j \in 1..Len(rows) \/ j = Len(rows) + 1) /\ (k \in 1..Len(rows) \/ k = Len(rows) + 1)
        BY <2>0, <3>2
      <4>2. CASE j = Len(rows) + 1 /\ k = Len(rows) + 1
        BY <4>2
      <4>3. CASE j \in 1..Len(rows) /\ k \in 1..Len(rows)
        <5>1. rows[j] = rows[k]
          BY <3>2, <3>3, <4>3
        <5> QED
          BY <2>0, <4>3, <5>1
      <4>4. CASE j \in 1..Len(rows) /\ k = Len(rows) + 1
        <5>1. rows[j] = e /\ j \in DOMAIN rows
          BY <2>0, <3>2, <3>3, <4>4
        <5> QED
          BY <3>1, <5>1
      <4>5. CASE j = Len(rows) + 1 /\ k \in 1..Len(rows)
        <5>1. rows[k] = e /\ k \in DOMAIN rows
          BY <2>0, <3>2, <3>3, <4>5
        <5> QED
          BY <3>1, <5>1
      <4> QED
        BY <4>1, <4>2, <4>3, <4>4, <4>5
    <3>4. Len(new) <= MaxRows
      <4>1. Len(new) = Len(rows) + 1 /\ Len(rows) < MaxRows
        BY <3>1, <3>2
      <4>2. Len(rows) \in Nat /\ MaxRows \in Nat
        BY <2>0
      <4> QED
        BY <4>1, <4>2
    <3>5. rows' = new
      BY <3>1 DEF new
    <3> QED
      BY <3>2, <3>3, <3>4, <3>5 DEF GraphTypeOK
  <2>3. ASSUME NEW i \in DOMAIN rows, Delete(i) PROVE GraphTypeOK'
    <3> DEFINE before == SubSeq(rows, 1, i - 1)
               after == SubSeq(rows, i + 1, Len(rows))
    <3>1. rows' = before \o after
      BY <2>3 DEF Delete, RemoveAt
    <3>2. /\ before \in Seq(Record) /\ Len(before) = i - 1
          /\ \A k \in 1..(i - 1) : before[k] = rows[k]
      BY <2>0
    <3>3. /\ after \in Seq(Record) /\ Len(after) = Len(rows) - i
          /\ \A k \in 1..(Len(rows) - i) : after[k] = rows[i + k]
      BY <2>0
    <3> HIDE DEF before, after
    <3>4. rows' \in Seq(Record) /\ Len(rows') = Len(rows) - 1 /\ DOMAIN rows' = 1..(Len(rows) - 1)
      <4> DEFINE new == before \o after
      <4>1. new \in Seq(Record) /\ Len(new) = (i - 1) + (Len(rows) - i)
        <5>1. \A s, t \in Seq(Record) : s \o t \in Seq(Record) /\ Len(s \o t) = Len(s) + Len(t)
          OBVIOUS
        <5>2. before \in Seq(Record) /\ after \in Seq(Record)
          BY <3>2, <3>3
        <5>3. new \in Seq(Record) /\ Len(new) = Len(before) + Len(after)
          BY <5>1, <5>2
        <5> QED
          BY <3>2, <3>3, <5>3
      <4>2. Len(new) = Len(rows) - 1
        BY <2>0, <4>1
      <4>3. DOMAIN new = 1..Len(new)
        BY <4>1
      <4>4. rows' = new
        BY <3>1
      <4> HIDE DEF new
      <4> QED
        BY <4>1, <4>2, <4>3, <4>4
    <3>5. \A k \in 1..(Len(rows) - 1) :
            rows'[k] = IF k < i THEN rows[k] ELSE rows[k + 1]
      <4> SUFFICES ASSUME NEW k \in 1..(Len(rows) - 1)
                   PROVE  rows'[k] = IF k < i THEN rows[k] ELSE rows[k + 1]
        OBVIOUS
      <4>1. CASE k < i
        <5>1. k \in 1..(i - 1) /\ k <= Len(before)
          BY <2>0, <3>2, <4>1
        <5> QED
          BY <3>1, <3>2, <3>3, <4>1, <5>1
      <4>2. CASE ~(k < i)
        <5>1. k - (i - 1) \in 1..(Len(rows) - i) /\ i + (k - (i - 1)) = k + 1 /\ k > Len(before)
          BY <2>0, <3>2, <4>2
        <5>2. (before \o after)[k] = after[k - Len(before)]
          BY <2>0, <3>2, <3>3, <5>1
        <5> QED
          BY <3>1, <3>2, <3>3, <4>2, <5>1, <5>2
      <4> QED
        BY <4>1, <4>2
    <3>6. ASSUME NEW j \in DOMAIN rows', NEW k \in DOMAIN rows', rows'[j] = rows'[k] PROVE j = k
      <4> DEFINE was(x) == IF x < i THEN x ELSE x + 1
      <4>1. j \in 1..(Len(rows) - 1) /\ k \in 1..(Len(rows) - 1)
        BY <3>4
      <4>2. was(j) \in DOMAIN rows /\ was(k) \in DOMAIN rows
        BY <2>0, <4>1
      <4>3. rows'[j] = rows[was(j)] /\ rows'[k] = rows[was(k)]
        BY <3>5, <4>1
      <4>4. was(j) = was(k)
        <5> HIDE DEF was
        <5> QED
          BY <2>0, <3>6, <4>2, <4>3
      <4>5. i \in Int /\ j \in Int /\ k \in Int
        BY <2>0, <4>1
      <4> QED
        BY <4>4, <4>5
    <3> QED
      BY <2>0, <3>4, <3>6 DEF GraphTypeOK
  <2> QED
    BY <2>1, <2>2, <2>3 DEF GraphNext
<1> QED
  BY <1>1, <1>2, PTL DEF GraphSpec

\* The records a hop asks for at nodes R, and the ones that are not nodes.
Asked(h, R) == {e \in Held(rows) : Matching(h, e) /\ From(h, e) \in R}
Unlooped(h, E) == {e \in E : h.axb = Is => ~Loop(e)}

\* A query answers what it is asked, each record once; a limit only cuts.
LEMMA QueryIs ==
  ASSUME GraphTypeOK, NEW h, NEW R, NEW limit \in Nat \cup {NoLimit}
  PROVE  /\ Query(h, R, limit) \in Seq(Record)
         /\ Held(Query(h, R, limit)) \subseteq Asked(h, R)
         /\ Once(Query(h, R, limit))
         /\ limit = NoLimit => Held(Query(h, R, limit)) = Asked(h, R)
         /\ limit # NoLimit => Len(Query(h, R, limit)) <= limit
         /\ limit # NoLimit /\ Len(Query(h, R, NoLimit)) > limit => Len(Query(h, R, limit)) = limit
<1> DEFINE K == Wanted(h, R)
           t == InTurn(rows, K)
           s == Ordered(h, t)
<1>1. rows \in Seq(Record) /\ K \in SUBSET DOMAIN rows /\ Once(rows)
  BY DEF GraphTypeOK, Wanted, Once
<1>2. {rows[k] : k \in K} = Asked(h, R)
  BY DEF Wanted, Asked, Held
<1> HIDE DEF K
<1>3. t \in Seq(Record) /\ Held(t) = Asked(h, R) /\ Once(t)
  BY <1>1, <1>2, InTurnIs
<1> HIDE DEF t
<1>4. s \in Seq(Record) /\ Held(s) = Asked(h, R) /\ Once(s)
  BY <1>3, OrderedIs
<1>5. \A l : Query(h, R, l) = Take(s, l)
  BY DEF Query, t, K
<1> HIDE DEF s
<1>6. NoLimit \in Nat \cup {NoLimit}
  OBVIOUS
<1>7. /\ Take(s, limit) \in Seq(Record) /\ Held(Take(s, limit)) \subseteq Held(s)
      /\ Once(Take(s, limit))
      /\ limit = NoLimit => Take(s, limit) = s
      /\ limit # NoLimit => Len(Take(s, limit)) <= limit
      /\ limit # NoLimit /\ Len(s) > limit => Len(Take(s, limit)) = limit
  BY <1>4, TakeIs
<1>8. Take(s, NoLimit) = s
  BY <1>4, <1>6, TakeIs
<1> QED
  BY <1>4, <1>5, <1>7, <1>8

\* Dropping the records of nodes drops nothing else.
LEMMA NoLoopsIs ==
  ASSUME NEW h, NEW s \in Seq(Record)
  PROVE  /\ NoLoops(h, s) \in Seq(Record) /\ Len(NoLoops(h, s)) <= Len(s)
         /\ Held(NoLoops(h, s)) = Unlooped(h, Held(s))
         /\ Once(s) => Once(NoLoops(h, s))
         /\ h.axb # Is => NoLoops(h, s) = s
<1>1. CASE h.axb # Is
  BY <1>1 DEF NoLoops, Unlooped
<1>2. CASE h.axb = Is
  <2> DEFINE K == {k \in DOMAIN s : ~Loop(s[k])}
  <2>1. NoLoops(h, s) = InTurn(s, K) /\ K \in SUBSET DOMAIN s
    BY <1>2 DEF NoLoops
  <2>2. {s[k] : k \in K} = Unlooped(h, Held(s))
    BY <1>2 DEF Unlooped, Held
  <2> HIDE DEF K
  <2>3. /\ InTurn(s, K) \in Seq(Record) /\ Len(InTurn(s, K)) = Cardinality(K)
        /\ Held(InTurn(s, K)) = {s[k] : k \in K}
        /\ Once(s) => Once(InTurn(s, K))
    BY <2>1, InTurnIs
  <2>4. Cardinality(K) <= Len(s)
    <3>1. \A c \in Int : IsFiniteSet(1..c) /\ Cardinality(1..c) = IF 1 > c THEN 0 ELSE c - 1 + 1
      BY FS_Interval
    <3>2. Len(s) \in Nat /\ DOMAIN s = 1..Len(s)
      OBVIOUS
    <3>3. IsFiniteSet(DOMAIN s) /\ Cardinality(DOMAIN s) = Len(s)
      BY <3>1, <3>2
    <3>4. Cardinality(K) <= Cardinality(DOMAIN s)
      BY <2>1, <3>3, FS_Subset
    <3> QED
      BY <3>3, <3>4
  <2> QED
    BY <1>2, <2>1, <2>2, <2>3, <2>4
<1> QED
  BY <1>1, <1>2

-----------------------------------------------------------------------------
(* The ways to expand.                                                      *)

\* Rounding up, as chunks are counted.
LEMMA Ceiling ==
  ASSUME NEW n \in Nat, NEW c \in Nat \ {0}
  PROVE  /\ (n + c - 1) \div c \in Nat
         /\ n <= ((n + c - 1) \div c) * c
         /\ n \div c \in Nat /\ (n \div c) * c <= n /\ n < (n \div c) * c + c
<1>1. \A x \in Nat : x \div c \in Int /\ (x \div c) * c <= x /\ x < (x \div c) * c + c
  OBVIOUS
<1>2. \A x \in Nat : x \div c \in Nat
  OBVIOUS
<1>3. n + c - 1 \in Nat
  OBVIOUS
<1> DEFINE m == (n + c - 1) \div c
<1>4. m \in Nat /\ m * c \in Int /\ n + c - 1 < m * c + c
  BY <1>1, <1>2, <1>3
<1> HIDE DEF m
<1>5. n <= m * c
  BY <1>4
<1> QED
  BY <1>1, <1>2, <1>4, <1>5 DEF m

\* A product is no smaller for a larger factor.
LEMMA Larger == ASSUME NEW x \in Nat, NEW y \in Nat, NEW c \in Nat, x <= y PROVE x * c <= y * c
<1>1. (y - x) \in Nat /\ (y - x) * c >= 0
  OBVIOUS
<1>2. (y - x) * c = y * c - x * c
  OBVIOUS
<1>3. x * c \in Int /\ y * c \in Int
  OBVIOUS
<1> QED
  BY <1>1, <1>2, <1>3

\* Chunks leave out no source, and share none.
LEMMA ChunksAre ==
  ASSUME NEW list \in Seq(Nodes)
  PROVE  /\ ChunkUids(list) \in Seq(Seq(Nodes))
         /\ UNION {Held(ChunkUids(list)[i]) : i \in DOMAIN ChunkUids(list)} = Held(list)
         /\ Once(list) =>
              \A i, j \in DOMAIN ChunkUids(list) :
                i # j => Held(ChunkUids(list)[i]) \cap Held(ChunkUids(list)[j]) = {}
<1> DEFINE n == Len(list)
           c == ChunkSize
           m == (n + c - 1) \div c
           low(i) == (i - 1) * c
           high(i) == Smaller(i * c, n)
           chunk(i) == SubSeq(list, low(i) + 1, high(i))
           chunks == ChunkUids(list)
<1>1. n \in Nat /\ DOMAIN list = 1..n /\ c \in Nat \ {0}
  BY QuestionsAssumption
<1>2. m \in Nat /\ n <= m * c
  BY <1>1, Ceiling
<1>3. chunks = [i \in 1..m |-> chunk(i)]
  BY DEF ChunkUids
<1> HIDE DEF n, c, m, chunks
<1>4. ASSUME NEW i \in 1..m
      PROVE  /\ low(i) \in Nat /\ i * c \in Nat /\ low(i) + c = i * c
             /\ high(i) \in Nat /\ high(i) <= n /\ high(i) <= i * c
             /\ \A p \in 1..n : p <= i * c => p <= high(i)
  <2>1. i \in Nat /\ i - 1 \in Nat /\ c \in Nat
    BY <1>1, <1>2
  <2>2. low(i) \in Nat /\ i * c \in Nat
    BY <2>1
  <2>3. (i - 1) * c + c = i * c
    BY <2>1
  <2> QED
    BY <1>1, <2>1, <2>2, <2>3 DEF Smaller
<1>5. ASSUME NEW i \in 1..m
      PROVE  /\ chunk(i) \in Seq(Nodes)
             /\ Held(chunk(i)) = {list[p] : p \in (low(i) + 1)..high(i)}
             /\ \A p \in (low(i) + 1)..high(i) : p \in 1..n
  <2> DEFINE a == low(i) + 1
             b == high(i)
  <2>1. a \in Nat /\ a >= 1 /\ b \in Nat /\ b <= n
    BY <1>4
  <2> HIDE DEF a, b
  <2>2. \A p \in a..b : p \in 1..n
    BY <1>1, <2>1
  <2> DEFINE t == SubSeq(list, a, b)
  <2>3. /\ t \in Seq(Nodes) /\ DOMAIN t = 1..Len(t) /\ Len(t) = IF a <= b THEN b - a + 1 ELSE 0
        /\ \A k \in 1..Len(t) : t[k] = list[a + k - 1]
    <3>1. \A k \in 1..(b - a + 1) : a + k - 1 \in 1..n
      BY <1>1, <2>1
    <3> QED
      BY <1>1, <2>1, <3>1 DEF n
  <2> HIDE DEF t
  <2>4. \A k \in DOMAIN t : a + k - 1 \in a..b
    BY <2>1, <2>3
  <2>5. \A p \in a..b : p - a + 1 \in DOMAIN t /\ a + (p - a + 1) - 1 = p
    BY <2>1, <2>3
  <2>6. \A x \in Held(t) : x \in {list[p] : p \in a..b}
    BY <2>3, <2>4 DEF Held
  <2>7. \A x \in {list[p] : p \in a..b} : x \in Held(t)
    BY <2>3, <2>5 DEF Held
  <2>8. Held(t) = {list[p] : p \in a..b}
    BY <2>6, <2>7
  <2> QED
    BY <2>2, <2>3, <2>8 DEF t, a, b
<1> HIDE DEF chunk
<1>6. chunks \in Seq(Seq(Nodes)) /\ DOMAIN chunks = 1..m /\ \A i \in 1..m : chunks[i] = chunk(i)
  BY <1>2, <1>3, <1>5
<1>7. ASSUME NEW p \in 1..n PROVE \E i \in 1..m : p \in (low(i) + 1)..high(i)
  <2> DEFINE q == (p - 1) \div c
  <2>1. p - 1 \in Nat
    BY <1>1
  <2>2. q \in Nat /\ q * c <= p - 1 /\ p - 1 < q * c + c
    BY <1>1, <2>1, Ceiling
  <2> HIDE DEF q
  <2>3. q < m
    <3> SUFFICES ASSUME m <= q PROVE FALSE
      BY <1>2, <2>2
    <3>1. m * c <= q * c
      BY <1>1, <1>2, <2>2, Larger
    <3>2. m * c \in Int /\ q * c \in Int
      BY <1>1, <1>2, <2>2
    <3> QED
      BY <1>1, <1>2, <2>2, <3>1, <3>2
  <2>4. q + 1 \in 1..m /\ low(q + 1) = q * c
    BY <1>2, <2>2, <2>3
  <2>5. q * c \in Int /\ (q + 1) * c = q * c + c
    BY <1>1, <2>2
  <2>6. p <= (q + 1) * c
    BY <1>1, <2>2, <2>5
  <2>7. p <= high(q + 1)
    BY <1>4, <2>4, <2>6
  <2>8. high(q + 1) \in Nat
    BY <1>4, <2>4
  <2>9. p \in (low(q + 1) + 1)..high(q + 1)
    BY <1>1, <2>2, <2>4, <2>5, <2>7, <2>8
  <2> QED
    BY <2>4, <2>9
<1>8. UNION {Held(chunks[i]) : i \in DOMAIN chunks} = Held(list)
  <2>1. ASSUME NEW i \in 1..m, NEW x \in Held(chunks[i]) PROVE x \in Held(list)
    <3> HIDE DEF low, high
    <3>1. PICK p \in (low(i) + 1)..high(i) : x = list[p]
      BY <1>5, <1>6
    <3>2. p \in DOMAIN list
      BY <1>1, <1>5
    <3> QED
      BY <3>1, <3>2 DEF Held
  <2>2. ASSUME NEW x \in Held(list) PROVE \E i \in 1..m : x \in Held(chunks[i])
    <3>1. PICK p \in 1..n : x = list[p]
      BY <1>1 DEF Held
    <3>2. PICK i \in 1..m : p \in (low(i) + 1)..high(i)
      BY <1>7
    <3> HIDE DEF low, high
    <3>3. x \in {list[r] : r \in (low(i) + 1)..high(i)}
      BY <3>1, <3>2
    <3> QED
      BY <1>5, <1>6, <3>3
  <2> QED
    BY <1>6, <2>1, <2>2
<1>9. ASSUME NEW i \in 1..m, NEW j \in 1..m, i < j PROVE high(i) <= low(j)
  <2>1. i \in Nat /\ j - 1 \in Nat /\ i <= j - 1 /\ c \in Nat
    BY <1>1, <1>2, <1>9
  <2>2. i * c <= (j - 1) * c
    BY <2>1, Larger
  <2>3. high(i) \in Nat /\ high(i) <= i * c /\ i * c \in Nat /\ low(j) \in Nat
    BY <1>4
  <2>4. low(j) = (j - 1) * c
    OBVIOUS
  <2> HIDE DEF low, high
  <2> QED
    BY <2>2, <2>3, <2>4
<1>10. ASSUME Once(list), NEW i \in 1..m, NEW j \in 1..m, i < j
       PROVE  Held(chunks[i]) \cap Held(chunks[j]) = {}
  <2> SUFFICES ASSUME NEW x \in Held(chunks[i]), x \in Held(chunks[j]) PROVE FALSE
    OBVIOUS
  <2>0. high(i) <= low(j) /\ low(i) \in Nat /\ high(i) \in Nat /\ low(j) \in Nat /\ high(j) \in Nat
    BY <1>4, <1>9, <1>10
  <2> HIDE DEF low, high
  <2>1. PICK p \in (low(i) + 1)..high(i) : x = list[p]
    BY <1>5, <1>6
  <2>2. PICK q \in (low(j) + 1)..high(j) : x = list[q]
    BY <1>5, <1>6
  <2>3. p \in DOMAIN list /\ q \in DOMAIN list
    BY <1>1, <1>5
  <2>4. p = q
    BY <1>10, <2>1, <2>2, <2>3 DEF Once
  <2> QED
    BY <2>0, <2>4
<1>11. ASSUME Once(list), NEW i \in 1..m, NEW j \in 1..m, i # j
       PROVE  Held(chunks[i]) \cap Held(chunks[j]) = {}
  <2>1. i < j \/ j < i
    BY <1>2, <1>11
  <2> QED
    BY <1>10, <1>11, <2>1
<1> QED
  BY <1>6, <1>8, <1>11 DEF chunks

\* How many records a hop may answer for n sources.
LEMMA TimesIs ==
  ASSUME NEW h \in Hop, NEW n \in Nat
  PROVE  /\ h.limit \in Nat \cup {NoLimit}
         /\ Times(n, h.limit) \in Nat \cup {NoLimit}
         /\ (Times(n, h.limit) = NoLimit) <=> (h.limit = NoLimit)
         /\ h.limit # NoLimit => Times(n, h.limit) = n * h.limit /\ n * h.limit \in Nat
<1>1. h.limit \in Nat \/ h.limit = NoLimit
  BY QuestionsAssumption DEF Hop
<1>2. \A l \in Nat : n * l \in Nat /\ l # NoLimit
  BY DEF NoLimit
<1> QED
  BY <1>1, <1>2 DEF Times, NoLimit

\* The records that a hop finds from nodes R, loops left out.
Expanded(h, R) == Unlooped(h, Asked(h, R))

\* s is an answer to h for a list of sources: records that match, each once
\* when every source is listed once, all of them unless there is a limit.
Expands(h, list, s) ==
    /\ s \in Seq(Record)
    /\ Held(s) \subseteq Expanded(h, Held(list))
    /\ h.limit = NoLimit => Held(s) = Expanded(h, Held(list))
    /\ h.limit # NoLimit => Len(s) <= Len(list) * h.limit
    /\ Once(list) => Once(s)

LEMMA SqlExpands ==
  ASSUME GraphTypeOK, NEW h \in Hop, NEW list \in Seq(Nodes)
  PROVE  Expands(h, list, SqlExpand(h, list)) /\ Once(SqlExpand(h, list))
<1> DEFINE R == Held(list)
           t == InTurn(rows, Wanted(h, R))
           u == NoLoops(h, t)
           s == Ordered(h, u)
           l == Times(Len(list), h.limit)
<1>1. Wanted(h, R) \in SUBSET DOMAIN rows /\ rows \in Seq(Record) /\ Once(rows)
  BY DEF Wanted, GraphTypeOK, Once
<1>2. {rows[k] : k \in Wanted(h, R)} = Asked(h, R)
  BY DEF Wanted, Asked, Held
<1>3. SqlExpand(h, list) = Take(s, l)
  BY DEF SqlExpand, Range, Held
<1> HIDE DEF R
<1>4. t \in Seq(Record) /\ Held(t) = Asked(h, R) /\ Once(t)
  BY <1>1, <1>2, InTurnIs
<1> HIDE DEF t
<1>5. u \in Seq(Record) /\ Held(u) = Expanded(h, R) /\ Once(u)
  BY <1>4, NoLoopsIs DEF Expanded
<1> HIDE DEF u
<1>6. s \in Seq(Record) /\ Held(s) = Expanded(h, R) /\ Once(s)
  BY <1>5, OrderedIs
<1> HIDE DEF s
<1>7. Len(list) \in Nat
  OBVIOUS
<1>8. /\ l \in Nat \cup {NoLimit} /\ (l = NoLimit <=> h.limit = NoLimit)
      /\ h.limit # NoLimit => l = Len(list) * h.limit
  BY <1>7, TimesIs
<1> HIDE DEF l
<1>9. /\ Take(s, l) \in Seq(Record) /\ Held(Take(s, l)) \subseteq Held(s) /\ Once(Take(s, l))
      /\ l = NoLimit => Take(s, l) = s
      /\ l # NoLimit => Len(Take(s, l)) <= l
  BY <1>6, <1>8, TakeIs
<1> QED
  BY <1>3, <1>6, <1>8, <1>9 DEF Expands, R

LEMMA PipelineExpands ==
  ASSUME GraphTypeOK, NEW h \in Hop, NEW list \in Seq(Nodes)
  PROVE  Expands(h, list, PipelineExpand(h, list))
<1> DEFINE R == Held(list)
           l == Times(Len(list), h.limit)
           q == Query(h, R, l)
<1>1. PipelineExpand(h, list) = NoLoops(h, q)
  BY DEF PipelineExpand, Range, Held
<1>2. Len(list) \in Nat
  OBVIOUS
<1>3. /\ l \in Nat \cup {NoLimit} /\ (l = NoLimit <=> h.limit = NoLimit)
      /\ h.limit # NoLimit => l = Len(list) * h.limit /\ l \in Nat
  BY <1>2, TimesIs
<1> HIDE DEF l, R
<1>4. /\ q \in Seq(Record) /\ Held(q) \subseteq Asked(h, R) /\ Once(q)
      /\ l = NoLimit => Held(q) = Asked(h, R)
      /\ l # NoLimit => Len(q) <= l
  BY <1>3, QueryIs
<1> HIDE DEF q
<1>5. /\ NoLoops(h, q) \in Seq(Record) /\ Len(NoLoops(h, q)) <= Len(q) /\ Len(NoLoops(h, q)) \in Nat
      /\ Held(NoLoops(h, q)) = Unlooped(h, Held(q)) /\ Once(NoLoops(h, q))
  BY <1>4, NoLoopsIs
<1>6. Held(NoLoops(h, q)) \subseteq Expanded(h, R)
  BY <1>4, <1>5 DEF Expanded, Unlooped
<1>7. h.limit = NoLimit => Held(NoLoops(h, q)) = Expanded(h, R)
  BY <1>3, <1>4, <1>5 DEF Expanded
<1>8. h.limit # NoLimit => Len(NoLoops(h, q)) <= Len(list) * h.limit
  <2> SUFFICES ASSUME h.limit # NoLimit PROVE Len(NoLoops(h, q)) <= l
    BY <1>3
  <2>1. Len(q) \in Nat /\ Len(q) <= l /\ l \in Nat
    BY <1>3, <1>4
  <2> QED
    BY <1>5, <2>1
<1> QED
  BY <1>1, <1>5, <1>6, <1>7, <1>8 DEF Expands, R

\* Chunks: what they find together is what one query finds.
LEMMA ClassicExpands ==
  ASSUME GraphTypeOK, NEW h \in Hop, NEW list \in Seq(Nodes)
  PROVE  Expands(h, list, ClassicExpand(h, list))
<1> DEFINE R == Held(list)
           chunks == ChunkUids(list)
           l(i) == Times(Len(chunks[i]), h.limit)
           piece(i) == Query(h, Held(chunks[i]), l(i))
           parts == [i \in DOMAIN chunks |-> piece(i)]
           found == FlattenSeq(parts)
           u == NoLoops(h, found)
           s == Ordered(h, u)
           most == Times(Len(list), h.limit)
<1>1. ClassicExpand(h, list) = Take(s, most)
  BY DEF ClassicExpand, Range, Held
<1>2. /\ chunks \in Seq(Seq(Nodes))
      /\ UNION {Held(chunks[i]) : i \in DOMAIN chunks} = R
      /\ Once(list) => \A i, j \in DOMAIN chunks : i # j => Held(chunks[i]) \cap Held(chunks[j]) = {}
  BY ChunksAre
<1> HIDE DEF chunks, R
<1>3. ASSUME NEW i \in DOMAIN chunks
      PROVE  /\ piece(i) \in Seq(Record) /\ Held(piece(i)) \subseteq Asked(h, Held(chunks[i])) /\ Once(piece(i))
             /\ h.limit = NoLimit => Held(piece(i)) = Asked(h, Held(chunks[i]))
  <2>1. chunks[i] \in Seq(Nodes)
    BY <1>2
  <2>2. Len(chunks[i]) \in Nat
    BY <2>1
  <2>3. l(i) \in Nat \cup {NoLimit} /\ (l(i) = NoLimit <=> h.limit = NoLimit)
    BY <2>2, TimesIs
  <2> HIDE DEF l
  <2> QED
    BY <2>3, QueryIs
<1> HIDE DEF piece
<1>4. parts \in Seq(Seq(Record)) /\ DOMAIN parts = DOMAIN chunks /\ \A i \in DOMAIN chunks : parts[i] = piece(i)
  <2>1. DOMAIN chunks = 1..Len(chunks) /\ Len(chunks) \in Nat
    BY <1>2
  <2> QED
    BY <1>3, <2>1
<1> HIDE DEF parts
<1>5. /\ found \in Seq(Record)
      /\ Held(found) = UNION {Held(parts[i]) : i \in DOMAIN parts}
      /\ (/\ \A i \in DOMAIN parts : Once(parts[i])
          /\ \A i, j \in DOMAIN parts : i # j => Held(parts[i]) \cap Held(parts[j]) = {})
           => Once(found)
  BY <1>4, FlattenIs
<1> HIDE DEF found
<1>6. Asked(h, R) = UNION {Asked(h, Held(chunks[i])) : i \in DOMAIN chunks}
  BY <1>2 DEF Asked
<1>7. Held(found) \subseteq Asked(h, R)
  BY <1>3, <1>4, <1>5, <1>6
<1>8. h.limit = NoLimit => Held(found) = Asked(h, R)
  BY <1>3, <1>4, <1>5, <1>6
<1>9. ASSUME Once(list) PROVE Once(found)
  <2>1. ASSUME NEW i \in DOMAIN chunks, NEW j \in DOMAIN chunks, i # j
        PROVE  Held(parts[i]) \cap Held(parts[j]) = {}
    <3>1. Held(chunks[i]) \cap Held(chunks[j]) = {}
      BY <1>2, <1>9, <2>1
    <3>2. Asked(h, Held(chunks[i])) \cap Asked(h, Held(chunks[j])) = {}
      BY <3>1 DEF Asked
    <3> QED
      BY <1>3, <1>4, <3>2
  <2>2. \A i \in DOMAIN parts : Once(parts[i])
    BY <1>3, <1>4
  <2> QED
    BY <1>4, <1>5, <2>1, <2>2
<1>10. u \in Seq(Record) /\ Held(u) = Unlooped(h, Held(found)) /\ (Once(list) => Once(u))
  BY <1>5, <1>9, NoLoopsIs
<1> HIDE DEF u
<1>11. s \in Seq(Record) /\ Held(s) = Unlooped(h, Held(found)) /\ (Once(list) => Once(s))
  BY <1>10, OrderedIs
<1> HIDE DEF s
<1>12. Len(list) \in Nat
  OBVIOUS
<1>13. /\ most \in Nat \cup {NoLimit} /\ (most = NoLimit <=> h.limit = NoLimit)
       /\ h.limit # NoLimit => most = Len(list) * h.limit
  BY <1>12, TimesIs
<1> HIDE DEF most
<1>14. /\ Take(s, most) \in Seq(Record) /\ Held(Take(s, most)) \subseteq Held(s)
       /\ Once(s) => Once(Take(s, most))
       /\ most = NoLimit => Take(s, most) = s
       /\ most # NoLimit => Len(Take(s, most)) <= most
  BY <1>11, <1>13, TakeIs
<1>15. Held(s) \subseteq Expanded(h, R) /\ (h.limit = NoLimit => Held(s) = Expanded(h, R))
  BY <1>7, <1>8, <1>11 DEF Expanded, Unlooped
<1> QED
  BY <1>1, <1>11, <1>13, <1>14, <1>15 DEF Expands, R

\* How often a sequence that holds nothing twice holds something.
LEMMA OnceIs ==
  ASSUME NEW S, NEW s \in Seq(S)
  PROVE  /\ Once(s) => Cardinality(Held(s)) = Len(s)
         /\ Cardinality(Held(s)) = Len(s) => Once(s)
<1> DEFINE D == 1..Len(s)
<1>1. Len(s) \in Nat /\ DOMAIN s = D
  OBVIOUS
<1>2. IsFiniteSet(D) /\ Cardinality(D) = Len(s)
  <2>1. \A c \in Int : IsFiniteSet(1..c) /\ Cardinality(1..c) = IF 1 > c THEN 0 ELSE c - 1 + 1
    BY FS_Interval
  <2> QED
    BY <1>1, <2>1
<1>3. s = [k \in D |-> s[k]]
  BY <1>1
<1> HIDE DEF D
<1>4. Held(s) = {s[k] : k \in D}
  BY <1>1 DEF Held
<1>5. s \in Surjection(D, Held(s))
  BY <1>3, <1>4 DEF Surjection
<1>6. Cardinality(Held(s)) = Cardinality(D) <=> s \in Injection(D, Held(s))
  BY <1>2, <1>5, FS_Surjection
<1>7. s \in Injection(D, Held(s)) <=> Once(s)
  <2>1. s \in [D -> Held(s)]
    BY <1>3, <1>4
  <2> QED
    BY <1>1, <2>1 DEF Injection, IsInjective, Once
<1> QED
  BY <1>2, <1>6, <1>7

\* Without limits all ways to expand answer what is asked.
LEMMA UnlimitedAgree == ASSUME GraphTypeOK PROVE UnlimitedExpandsAgree
<1> SUFFICES ASSUME NEW list \in Sources, NEW h \in Hop, h.limit = NoLimit
             PROVE  /\ Held(ClassicExpand(h, list)) = Held(SqlExpand(h, list))
                    /\ Held(PipelineExpand(h, list)) = Held(SqlExpand(h, list))
                    /\ UNION {Held(NoLoops(h, Query(h, {u}, NoLimit))) : u \in Held(list)}
                         = Held(SqlExpand(h, list))
  BY DEF UnlimitedExpandsAgree, Range, Held
<1>1. list \in Seq(Nodes)
  BY QuestionsAssumption
<1> DEFINE R == Held(list)
<1>2. Held(SqlExpand(h, list)) = Expanded(h, R)
  BY <1>1, SqlExpands DEF Expands
<1>3. Held(ClassicExpand(h, list)) = Expanded(h, R)
  BY <1>1, ClassicExpands DEF Expands
<1>4. Held(PipelineExpand(h, list)) = Expanded(h, R)
  BY <1>1, PipelineExpands DEF Expands
<1>5. ASSUME NEW u PROVE Held(NoLoops(h, Query(h, {u}, NoLimit))) = Expanded(h, {u})
  <2>1. NoLimit \in Nat \cup {NoLimit}
    OBVIOUS
  <2>2. Query(h, {u}, NoLimit) \in Seq(Record) /\ Held(Query(h, {u}, NoLimit)) = Asked(h, {u})
    BY <2>1, QueryIs
  <2> QED
    BY <2>2, NoLoopsIs DEF Expanded
<1>6. UNION {Expanded(h, {u}) : u \in R} = Expanded(h, R)
  BY DEF Expanded, Unlooped, Asked
<1> HIDE DEF R
<1>7. UNION {Held(NoLoops(h, Query(h, {u}, NoLimit))) : u \in R} = Expanded(h, R)
  BY <1>5, <1>6
<1> QED
  BY <1>2, <1>3, <1>4, <1>7 DEF R

\* A limit only cuts.
LEMMA LimitsOnlyCut == ASSUME GraphTypeOK PROVE LimitsCap
<1> DEFINE Whole(h) == [h EXCEPT !.limit = NoLimit]
<1> SUFFICES ASSUME NEW list \in Sources, NEW h \in Hop, h.limit # NoLimit, Cardinality(Held(list)) = Len(list),
                    NEW found \in {SqlExpand(h, list), ClassicExpand(h, list), PipelineExpand(h, list)}
             PROVE  /\ Len(found) <= Len(list) * h.limit
                    /\ Len(found) = Cardinality(Held(found))
                    /\ Held(found) \subseteq Held(SqlExpand(Whole(h), list))
  BY DEF LimitsCap, Range, Held
<1>1. list \in Seq(Nodes)
  BY QuestionsAssumption
<1>2. Once(list)
  BY <1>1, OnceIs
<1>3. Expands(h, list, found)
  BY <1>1, SqlExpands, ClassicExpands, PipelineExpands
<1>4. found \in Seq(Record) /\ Once(found) /\ Len(found) <= Len(list) * h.limit
      /\ Held(found) \subseteq Expanded(h, Held(list))
  BY <1>2, <1>3 DEF Expands
<1>5. Len(found) = Cardinality(Held(found))
  BY <1>4, OnceIs
<1>6. /\ Whole(h) \in Hop /\ Whole(h).limit = NoLimit /\ Whole(h).axb = h.axb /\ Whole(h).forward = h.forward
      /\ Whole(h).aType = h.aType /\ Whole(h).bType = h.bType
  BY DEF Hop
<1> HIDE DEF Whole
<1>7. Expanded(Whole(h), Held(list)) = Expanded(h, Held(list))
  BY <1>6 DEF Expanded, Unlooped, Asked, Matching, From
<1>8. Held(SqlExpand(Whole(h), list)) = Expanded(h, Held(list))
  BY <1>1, <1>6, <1>7, SqlExpands DEF Expands
<1> QED
  BY <1>4, <1>5, <1>8

\* Targets keep the places of their edges.
LEMMA TargetsStay == ASSUME GraphTypeOK PROVE TargetsAligned
<1> SUFFICES ASSUME NEW list \in Sources, NEW h \in Hop
             PROVE  LET edges == SqlExpand(h, list)
                        targets == Hydrate(h, edges)
                    IN  /\ Len(targets) = Len(edges)
                        /\ \A k \in DOMAIN targets : targets[k] \in {To(h, edges[k]), Missing}
  BY DEF TargetsAligned
<1> DEFINE edges == SqlExpand(h, list)
           S == {To(h, edges[k]) : k \in DOMAIN edges} \cup {Missing}
           targets == Hydrate(h, edges)
<1>1. edges \in Seq(Record)
  <2>1. list \in Seq(Nodes)
    BY QuestionsAssumption
  <2> QED
    BY <2>1, SqlExpands DEF Expands
<1> HIDE DEF edges
<1>2. /\ DOMAIN targets = DOMAIN edges
      /\ \A k \in DOMAIN edges : targets[k] \in {To(h, edges[k]), Missing}
  BY DEF Hydrate
<1>3. targets \in [DOMAIN edges -> S]
  BY DEF Hydrate
<1>4. DOMAIN edges = 1..Len(edges) /\ Len(edges) \in Nat
  BY <1>1
<1> HIDE DEF targets, S
<1>5. Len(targets) = Len(edges)
  BY <1>3, <1>4
<1> QED
  BY <1>2, <1>5 DEF targets, edges

\* ExpandsAgree: for any graph, any sources and chunks of any size, one SQL
\* statement, chunks of a classic query and one pipeline find the same edges;
\* a limit only cuts them, and each target stays with its edge.
THEOREM ExpandsTheorem == GraphSpec => []ExpandsAgree
<1>1. GraphTypeOK => ExpandsAgree
  BY UnlimitedAgree, LimitsOnlyCut, TargetsStay DEF ExpandsAgree
<1> QED
  BY <1>1, GraphTheorem, PTL

-----------------------------------------------------------------------------
(* Walks.                                                                   *)

\* The nodes that records lead to.
Ends(h, E) == {To(h, e) : e \in E}

\* A hop of a walk that one pipeline may answer.
Limited(h) == h.axb # Is /\ h.limit \in Nat

\* The first edge to each target: every target stays, and there are no fewer
\* edges than there are targets.
LEMMA FirstToIs ==
  ASSUME NEW h, NEW s \in Seq(Record)
  PROVE  /\ FirstTo(h, s) \in Seq(Record) /\ Held(FirstTo(h, s)) \subseteq Held(s)
         /\ Ends(h, Held(FirstTo(h, s))) = Ends(h, Held(s))
         /\ Cardinality(Ends(h, Held(s))) <= Len(FirstTo(h, s))
         /\ IsFiniteSet(Ends(h, Held(s)))
<1> DEFINE K == {k \in DOMAIN s : \A j \in 1..(k - 1) : To(h, s[j]) # To(h, s[k])}
<1>1. FirstTo(h, s) = InTurn(s, K) /\ K \in SUBSET DOMAIN s
  BY DEF FirstTo
<1>2. DOMAIN s = 1..Len(s) /\ Len(s) \in Nat
  OBVIOUS
<1>3. ASSUME NEW k \in DOMAIN s PROVE \E i \in K : To(h, s[i]) = To(h, s[k])
  <2> DEFINE T == {j \in DOMAIN s : To(h, s[j]) = To(h, s[k])}
  <2>1. T \in SUBSET Nat /\ T # {}
    BY <1>2
  <2>2. PICK i \in T : \A j \in T : i <= j
    <3> HIDE DEF T
    <3> QED
      BY <2>1, Least
  <2>3. ASSUME NEW j \in 1..(i - 1) PROVE To(h, s[j]) # To(h, s[i])
    <3>1. i \in 1..Len(s)
      BY <1>2, <2>2
    <3>2. j \in DOMAIN s /\ ~(i <= j)
      BY <1>2, <3>1
    <3> QED
      BY <2>2, <3>2
  <2>4. i \in K
    BY <2>2, <2>3
  <2> QED
    BY <2>2, <2>4
<1> HIDE DEF K
<1>4. /\ IsFiniteSet(K) /\ Cardinality(K) \in Nat
      /\ InTurn(s, K) \in Seq(Record) /\ Len(InTurn(s, K)) = Cardinality(K)
      /\ Held(InTurn(s, K)) = {s[k] : k \in K}
  BY <1>1, InTurnIs
<1>5. Held(InTurn(s, K)) \subseteq Held(s)
  BY <1>1, <1>4 DEF Held
<1>6. Ends(h, Held(s)) = {To(h, s[k]) : k \in DOMAIN s}
  BY DEF Ends, Held
<1>7. Ends(h, Held(InTurn(s, K))) = {To(h, s[k]) : k \in K}
  BY <1>4 DEF Ends
<1>8. {To(h, s[k]) : k \in K} = {To(h, s[k]) : k \in DOMAIN s}
  BY <1>1, <1>3
<1>9. IsFiniteSet(Ends(h, Held(s))) /\ Cardinality(Ends(h, Held(s))) <= Cardinality(K)
  <2> DEFINE T == Ends(h, Held(s))
             f == [k \in K |-> To(h, s[k])]
  <2>1. T = {To(h, s[k]) : k \in K}
    BY <1>6, <1>8
  <2>2. f \in Surjection(K, T)
    BY <2>1 DEF Surjection
  <2> HIDE DEF T, f
  <2>3. IsFiniteSet(T) /\ Cardinality(T) <= Cardinality(K)
    BY <1>4, <2>2, FS_Surjection
  <2> QED
    BY <2>3 DEF T
<1> QED
  BY <1>1, <1>4, <1>5, <1>6, <1>7, <1>8, <1>9

\* What a hop finds from a set of nodes, each with its own limit.
Reaches(h, R) == UNION {Held(Query(h, {u}, h.limit)) : u \in R}

LEMMA FromEachIs ==
  ASSUME GraphTypeOK, NEW h, Limited(h), NEW from \in Seq(Nodes)
  PROVE  FromEach(h, from) \in Seq(Record) /\ Held(FromEach(h, from)) = Reaches(h, Held(from))
<1> DEFINE piece(k) == Query(h, {from[k]}, h.limit)
           parts == [k \in DOMAIN from |-> piece(k)]
<1>1. DOMAIN from = 1..Len(from) /\ Len(from) \in Nat
  OBVIOUS
<1>2. h.limit \in Nat \cup {NoLimit}
  BY DEF Limited
<1>3. \A k \in DOMAIN from : piece(k) \in Seq(Record)
  BY <1>2, QueryIs
<1>4. FromEach(h, from) = FlattenSeq(parts)
  BY DEF FromEach
<1>5. {Held(piece(k)) : k \in DOMAIN from} = {Held(Query(h, {u}, h.limit)) : u \in Held(from)}
  <2> DEFINE answer(u) == Held(Query(h, {u}, h.limit))
  <2>1. \A k \in DOMAIN from : from[k] \in Held(from) /\ Held(piece(k)) = answer(from[k])
    BY DEF Held
  <2>2. \A u \in Held(from) : \E k \in DOMAIN from : u = from[k]
    BY DEF Held
  <2> HIDE DEF answer, piece
  <2>3. {Held(piece(k)) : k \in DOMAIN from} = {answer(u) : u \in Held(from)}
    BY <2>1, <2>2
  <2> QED
    BY <2>3 DEF answer
<1> HIDE DEF piece
<1>6. parts \in Seq(Seq(Record)) /\ DOMAIN parts = DOMAIN from /\ \A k \in DOMAIN from : parts[k] = piece(k)
  BY <1>1, <1>3
<1> HIDE DEF parts
<1>7. FlattenSeq(parts) \in Seq(Record) /\ Held(FlattenSeq(parts)) = UNION {Held(parts[k]) : k \in DOMAIN parts}
  BY <1>6, FlattenIs
<1>8. {Held(parts[k]) : k \in DOMAIN parts} = {Held(piece(k)) : k \in DOMAIN from}
  BY <1>6
<1> QED
  BY <1>4, <1>5, <1>7, <1>8 DEF Reaches

\* The nodes that the rows of a pipeline lead to, and those of the loop.
Keys(h, s) == [k \in DOMAIN s |-> JoinKey(h, s[k])]
Targets(h, s) == [k \in DOMAIN FirstTo(h, s) |-> To(h, FirstTo(h, s)[k])]

LEMMA EndsAre ==
  ASSUME NEW h, NEW s \in Seq(Record)
  PROVE  /\ Keys(h, s) \in Seq(Nodes) /\ Held(Keys(h, s)) = Ends(h, Held(s))
         /\ Targets(h, s) \in Seq(Nodes) /\ Held(Targets(h, s)) = Ends(h, Held(s))
<1>1. \A e \in Record : To(h, e) \in Nodes
  BY DEF Record, To
<1>2. ASSUME NEW t \in Seq(Record)
      PROVE  /\ [k \in DOMAIN t |-> To(h, t[k])] \in Seq(Nodes)
             /\ Held([k \in DOMAIN t |-> To(h, t[k])]) = Ends(h, Held(t))
  <2>1. DOMAIN t = 1..Len(t) /\ Len(t) \in Nat /\ \A k \in DOMAIN t : t[k] \in Record
    OBVIOUS
  <2>2. [k \in DOMAIN t |-> To(h, t[k])] \in Seq(Nodes)
    BY <1>1, <2>1
  <2>3. Held([k \in DOMAIN t |-> To(h, t[k])]) = {To(h, t[k]) : k \in DOMAIN t}
    BY DEF Held
  <2>4. Ends(h, Held(t)) = {To(h, t[k]) : k \in DOMAIN t}
    BY DEF Ends, Held
  <2> QED
    BY <2>2, <2>3, <2>4
<1>3. FirstTo(h, s) \in Seq(Record) /\ Ends(h, Held(FirstTo(h, s))) = Ends(h, Held(s))
  BY FirstToIs
<1>4. Keys(h, s) = [k \in DOMAIN s |-> To(h, s[k])]
  BY DEF Keys, JoinKey
<1>5. Targets(h, s) \in Seq(Nodes) /\ Held(Targets(h, s)) = Ends(h, Held(s))
  <2> DEFINE t == FirstTo(h, s)
  <2>1. Targets(h, s) = [k \in DOMAIN t |-> To(h, t[k])]
    BY DEF Targets
  <2> HIDE DEF t
  <2>2. t \in Seq(Record) /\ Ends(h, Held(t)) = Ends(h, Held(s))
    BY <1>3 DEF t
  <2> QED
    BY <1>2, <2>1, <2>2
<1> QED
  BY <1>2, <1>4, <1>5

\* The loop, hop by hop: the walk that LoopHops goes.
Loops(start, hops, walk) ==
    /\ walk[0] = [edges |-> << >>, sources |-> <<start>>]
    /\ \A d \in 1..Len(hops) :
         walk[d] = [edges   |-> FromEach(hops[d], walk[d - 1].sources),
                    sources |-> Targets(hops[d], FromEach(hops[d], walk[d - 1].sources))]

LEMMA LoopHopsIs ==
  ASSUME GraphTypeOK, NEW start \in Nodes, NEW hops \in Seq(Hop), \A d \in DOMAIN hops : Limited(hops[d])
  PROVE  \E walk : Loops(start, hops, walk) /\ LoopHops(start, hops) = [d \in 1..Len(hops) |-> walk[d].edges]
<1> DEFINE n == Len(hops)
           After(h, w) == [edges |-> FromEach(h, w.sources), sources |-> Targets(h, FromEach(h, w.sources))]
           first == [edges |-> << >>, sources |-> <<start>>]
           F(g) == [d \in 0..Len(hops) |->
                      IF d = 0 THEN [edges |-> << >>, sources |-> <<start>>]
                      ELSE LET h == hops[d]
                               edges == FromEach(h, g[d - 1].sources)
                               next == FirstTo(h, edges)
                           IN [edges |-> edges, sources |-> [k \in DOMAIN next |-> To(h, next[k])]]]
           walk == CHOOSE g : g = F(g)
<1>0. n \in Nat /\ DOMAIN hops = 1..n
  OBVIOUS
<1>1. ASSUME NEW g PROVE F(g) = [d \in 0..n |-> IF d = 0 THEN first ELSE After(hops[d], g[d - 1])]
  BY DEF Targets
<1>2. LoopHops(start, hops) = [d \in 1..n |-> walk[d].edges]
  BY DEF LoopHops
<1>3. \E g : g = F(g)
  <2> DEFINE S == [edges : Seq(Record), sources : Seq(Nodes)]
             step == [d \in 1..n |-> [w \in S |-> After(hops[d], w)]]
  <2>1. first \in S
    OBVIOUS
  <2>2. ASSUME NEW d \in 1..n, NEW w \in S PROVE After(hops[d], w) \in S
    <3>1. w.sources \in Seq(Nodes) /\ Limited(hops[d])
      BY <1>0
    <3>2. FromEach(hops[d], w.sources) \in Seq(Record)
      BY <3>1, FromEachIs
    <3>3. Targets(hops[d], FromEach(hops[d], w.sources)) \in Seq(Nodes)
      BY <3>2, EndsAre
    <3> QED
      BY <3>2, <3>3
  <2> HIDE DEF After, S, first, n, F
  <2>3. \A d \in 1..n : step[d] \in [S -> S]
    BY <2>2
  <2>4. \E g \in [0..n -> S] : Goes(g, n, first, step)
    <3> HIDE DEF step
    <3> QED
      BY <1>0, <2>1, <2>3, Recursion, Zenon
  <2>5. PICK g \in [0..n -> S] : g[0] = first /\ \A d \in 1..n : g[d] = step[d][g[d - 1]]
    BY <2>4 DEF Goes
  <2>6. \A d \in 1..n : g[d] = After(hops[d], g[d - 1])
    <3> SUFFICES ASSUME NEW d \in 1..n PROVE g[d] = After(hops[d], g[d - 1])
      OBVIOUS
    <3>1. d - 1 \in 0..n
      BY <1>0
    <3>2. g[d - 1] \in S
      BY <2>5, <3>1
    <3> QED
      BY <2>5, <3>2
  <2>7. \A d \in 0..n : g[d] = IF d = 0 THEN first ELSE After(hops[d], g[d - 1])
    BY <1>0, <2>5, <2>6
  <2>8. g = [d \in 0..n |-> g[d]]
    BY <2>5
  <2>9. g = F(g)
    BY <1>1, <2>7, <2>8
  <2> QED
    BY <2>9
<1>4. walk = F(walk)
  BY <1>3
<1> HIDE DEF walk, F
<1>5. walk = [d \in 0..n |-> IF d = 0 THEN first ELSE After(hops[d], walk[d - 1])]
  BY <1>1, <1>4
<1> HIDE DEF After, first, n
<1>6. walk[0] = first /\ \A d \in 1..n : walk[d] = After(hops[d], walk[d - 1])
  <2>1. \A d \in 0..n : walk[d] = IF d = 0 THEN first ELSE After(hops[d], walk[d - 1])
    BY <1>5
  <2>2. 0 \in 0..n /\ \A d \in 1..n : d \in 0..n /\ d # 0
    BY <1>0
  <2> QED
    BY <2>1, <2>2
<1>7. Loops(start, hops, walk)
  BY <1>6 DEF Loops, After, first, n
<1> QED
  BY <1>2, <1>7 DEF n

\* The pipeline, hop by hop: the rows of each depth.
Nests(start, hops, frontier) ==
    /\ 1 \in DOMAIN hops => frontier[1] = FromEach(hops[1], <<start>>)
    /\ \A d \in DOMAIN hops :
         d # 1 => frontier[d] = FromEach(hops[d], Keys(hops[d - 1], frontier[d - 1]))

LEMMA EngineHopsIs ==
  ASSUME GraphTypeOK, NEW start \in Nodes, NEW hops \in Seq(Hop), Len(hops) # 0,
         \A d \in DOMAIN hops : Limited(hops[d])
  PROVE  \E frontier :
           /\ Nests(start, hops, frontier)
           /\ EngineHops(start, hops) = [d \in 1..Len(hops) |-> FirstTo(hops[d], NoLoops(hops[d], frontier[d]))]
<1> DEFINE n == Len(hops)
           first == FromEach(hops[1], <<start>>)
           After(d, s) == FromEach(hops[d], Keys(hops[d - 1], s))
           F(g) == [d \in 1..Len(hops) |->
                      FromEach(hops[d], IF d = 1 THEN <<start>>
                                        ELSE [k \in DOMAIN g[d - 1] |-> JoinKey(hops[d - 1], g[d - 1][k])])]
           frontier == CHOOSE g : g = F(g)
<1>0. n \in Nat /\ n # 0 /\ DOMAIN hops = 1..n
  OBVIOUS
<1>1. ASSUME NEW g PROVE F(g) = [d \in 1..n |-> IF d = 1 THEN first ELSE After(d, g[d - 1])]
  <2>1. F(g) = [d \in 1..n |-> FromEach(hops[d], IF d = 1 THEN <<start>> ELSE Keys(hops[d - 1], g[d - 1]))]
    BY DEF Keys
  <2>2. \A d \in 1..n : FromEach(hops[d], IF d = 1 THEN <<start>> ELSE Keys(hops[d - 1], g[d - 1]))
                          = IF d = 1 THEN first ELSE After(d, g[d - 1])
    OBVIOUS
  <2> HIDE DEF F, first, After
  <2> QED
    BY <2>1, <2>2
<1>2. EngineHops(start, hops) = [d \in 1..n |-> FirstTo(hops[d], NoLoops(hops[d], frontier[d]))]
  BY DEF EngineHops
<1>3. \E g : g = F(g)
  <2> DEFINE S == Seq(Record)
             m == n - 1
             step == [d \in 1..m |-> [s \in S |-> After(d + 1, s)]]
  <2>1. first \in S
    <3>1. <<start>> \in Seq(Nodes) /\ Limited(hops[1])
      BY <1>0
    <3> QED
      BY <3>1, FromEachIs
  <2>2. ASSUME NEW d \in 1..n, NEW s \in S PROVE After(d, s) \in S
    <3>1. Keys(hops[d - 1], s) \in Seq(Nodes) /\ Limited(hops[d])
      BY <1>0, EndsAre
    <3> QED
      BY <3>1, FromEachIs
  <2> HIDE DEF After, S, first, n, F
  <2>3. m \in Nat /\ \A d \in 1..m : step[d] \in [S -> S]
    BY <1>0, <2>2
  <2>4. \E g \in [0..m -> S] : Goes(g, m, first, step)
    <3> HIDE DEF step, m
    <3> QED
      BY <2>1, <2>3, Recursion, Zenon
  <2>5. PICK g \in [0..m -> S] : g[0] = first /\ \A d \in 1..m : g[d] = step[d][g[d - 1]]
    BY <2>4 DEF Goes
  <2>6. \A d \in 1..m : g[d] = After(d + 1, g[d - 1])
    <3> SUFFICES ASSUME NEW d \in 1..m PROVE g[d] = After(d + 1, g[d - 1])
      OBVIOUS
    <3>1. d - 1 \in 0..m
      BY <2>3
    <3>2. g[d - 1] \in S
      BY <2>5, <3>1
    <3> QED
      BY <2>5, <3>2
  <2> DEFINE f == [d \in 1..n |-> g[d - 1]]
  <2>7. ASSUME NEW d \in 1..n PROVE f[d] = IF d = 1 THEN first ELSE After(d, f[d - 1])
    <3>1. CASE d = 1
      BY <2>5, <3>1
    <3>2. CASE d # 1
      <4>1. d - 1 \in 1..m /\ (d - 1) + 1 = d /\ d - 1 \in 1..n
        BY <1>0, <3>2
      <4>2. g[d - 1] = After(d, g[(d - 1) - 1])
        BY <2>6, <4>1
      <4>3. f[d] = g[d - 1] /\ f[d - 1] = g[(d - 1) - 1]
        BY <4>1
      <4> QED
        BY <3>2, <4>2, <4>3
    <3> QED
      BY <3>1, <3>2
  <2>8. f = [d \in 1..n |-> f[d]]
    OBVIOUS
  <2> HIDE DEF f
  <2>9. f = F(f)
    BY <1>1, <2>7, <2>8
  <2> QED
    BY <2>9
<1>4. frontier = F(frontier)
  BY <1>3
<1> HIDE DEF frontier, F
<1>5. frontier = [d \in 1..n |-> IF d = 1 THEN first ELSE After(d, frontier[d - 1])]
  BY <1>1, <1>4
<1> HIDE DEF After, first
<1>6. frontier[1] = first /\ \A d \in 1..n : d # 1 => frontier[d] = After(d, frontier[d - 1])
  <2>1. \A d \in 1..n : frontier[d] = IF d = 1 THEN first ELSE After(d, frontier[d - 1])
    BY <1>5
  <2>2. 1 \in 1..n
    BY <1>0
  <2> QED
    BY <2>1, <2>2
<1>7. Nests(start, hops, frontier)
  BY <1>0, <1>6 DEF Nests, After, first
<1> QED
  BY <1>2, <1>7

\* Depth by depth, the pipeline holds the edges that the loop holds.
LEMMA SameEdges ==
  ASSUME GraphTypeOK, NEW start \in Nodes, NEW hops \in Seq(Hop), Len(hops) # 0,
         \A d \in DOMAIN hops : Limited(hops[d]),
         NEW walk, Loops(start, hops, walk), NEW frontier, Nests(start, hops, frontier),
         NEW d \in 1..Len(hops)
  PROVE  /\ walk[d].edges \in Seq(Record) /\ frontier[d] \in Seq(Record)
         /\ Held(frontier[d]) = Held(walk[d].edges)
<1> DEFINE n == Len(hops)
           P(k) == /\ walk[k].edges \in Seq(Record) /\ frontier[k] \in Seq(Record)
                   /\ Held(frontier[k]) = Held(walk[k].edges)
                   /\ walk[k].sources = Targets(hops[k], walk[k].edges)
<1>0. n \in Nat /\ n # 0 /\ DOMAIN hops = 1..n /\ \A k \in 1..n : Limited(hops[k])
  OBVIOUS
<1>1. ASSUME NEW k \in 1..n
      PROVE  /\ walk[k].edges = FromEach(hops[k], walk[k - 1].sources)
             /\ walk[k].sources = Targets(hops[k], walk[k].edges)
  <2> DEFINE e == FromEach(hops[k], walk[k - 1].sources)
  <2>1. walk[k] = [edges |-> e, sources |-> Targets(hops[k], e)]
    BY DEF Loops
  <2> HIDE DEF e
  <2>2. walk[k].edges = e /\ walk[k].sources = Targets(hops[k], e)
    BY <2>1
  <2> QED
    BY <2>2 DEF e
<1>2. P(1)
  <2>1. walk[0].sources = <<start>>
    BY DEF Loops
  <2>2. 1 \in 1..n /\ 1 - 1 = 0
    BY <1>0
  <2>3. walk[1].edges = FromEach(hops[1], <<start>>)
    BY <1>1, <2>1, <2>2
  <2>4. frontier[1] = FromEach(hops[1], <<start>>)
    BY <1>0, <2>2 DEF Nests
  <2>5. FromEach(hops[1], <<start>>) \in Seq(Record)
    <3>1. <<start>> \in Seq(Nodes) /\ Limited(hops[1])
      BY <1>0, <2>2
    <3> QED
      BY <3>1, FromEachIs
  <2> QED
    BY <1>1, <2>2, <2>3, <2>4, <2>5
<1>3. ASSUME NEW k \in 1..n, k # 1, P(k - 1) PROVE P(k)
  <2> DEFINE h == hops[k]
             e == walk[k - 1].edges
             r == frontier[k - 1]
             old == hops[k - 1]
  <2>1. e \in Seq(Record) /\ r \in Seq(Record) /\ Held(r) = Held(e)
    BY <1>3
  <2>2. walk[k].edges = FromEach(h, Targets(old, e))
    BY <1>1, <1>3
  <2>3. frontier[k] = FromEach(h, Keys(old, r))
    BY <1>0, <1>3 DEF Nests
  <2>4. Limited(h)
    BY <1>0
  <2> HIDE DEF h, e, r, old
  <2>5. /\ Targets(old, e) \in Seq(Nodes) /\ Held(Targets(old, e)) = Ends(old, Held(e))
        /\ Keys(old, r) \in Seq(Nodes) /\ Held(Keys(old, r)) = Ends(old, Held(r))
    BY <2>1, EndsAre
  <2>6. /\ FromEach(h, Targets(old, e)) \in Seq(Record)
        /\ Held(FromEach(h, Targets(old, e))) = Reaches(h, Ends(old, Held(e)))
        /\ FromEach(h, Keys(old, r)) \in Seq(Record)
        /\ Held(FromEach(h, Keys(old, r))) = Reaches(h, Ends(old, Held(r)))
    BY <2>4, <2>5, FromEachIs
  <2> QED
    BY <1>1, <2>1, <2>2, <2>3, <2>6
<1> HIDE DEF P
<1> DEFINE I == {k \in Nat : k + 1 <= n => P(k + 1)}
<1>4. I = Nat
  <2>1. 0 \in I
    BY <1>2
  <2>2. ASSUME NEW k \in I PROVE k + 1 \in I
    <3>1. k \in Nat /\ (k + 1 <= n => P(k + 1))
      OBVIOUS
    <3>2. SUFFICES ASSUME (k + 1) + 1 <= n PROVE P((k + 1) + 1)
      BY <3>1
    <3>3. (k + 1) + 1 \in 1..n /\ ((k + 1) + 1) - 1 = k + 1 /\ (k + 1) + 1 # 1 /\ k + 1 <= n
      BY <1>0, <3>1, <3>2
    <3> QED
      BY <1>3, <3>1, <3>3
  <2>3. I \in SUBSET Nat
    OBVIOUS
  <2> HIDE DEF I
  <2> QED
    BY <2>1, <2>2, <2>3, Induction
<1>5. P(d)
  <2>1. d - 1 \in Nat /\ (d - 1) + 1 = d /\ d <= n
    BY <1>0
  <2>2. d - 1 \in I
    BY <1>4, <2>1
  <2>3. d <= n => P(d)
    BY <2>1, <2>2
  <2> QED
    BY <2>1, <2>3
<1> QED
  BY <1>5 DEF P

\* The hops of the walks asked for follow relations, and the ones that a
\* pipeline answers have a limit.
LEMMA WalkIs ==
  ASSUME NEW hops \in Walks, NEW most, Eligible(hops, most)
  PROVE  /\ hops \in Seq(Hop) /\ Len(hops) # 0
         /\ \A d \in DOMAIN hops : Limited(hops[d]) /\ hops[d].limit > 0
<1> DEFINE H == {h \in Hop : h.axb \in Relations}
<1>1. hops \in Seq(H)
  BY QuestionsAssumption
<1>2. H \subseteq Hop
  OBVIOUS
<1>3. hops \in Seq(Hop)
  <2> HIDE DEF H
  <2>1. DOMAIN hops = 1..Len(hops) /\ Len(hops) \in Nat /\ \A d \in DOMAIN hops : hops[d] \in Hop
    BY <1>1, <1>2
  <2>2. hops \in [1..Len(hops) -> Hop]
    BY <1>1, <2>1
  <2> QED
    BY <2>1, <2>2
<1>4. Len(hops) # 0 /\ \A d \in DOMAIN hops : hops[d].limit # NoLimit /\ hops[d].limit > 0
  BY DEF Eligible
<1>5. \A h \in H : h.axb # Is /\ h.limit \in Nat \cup {NoLimit}
  BY GraphAssumption, QuestionsAssumption DEF Hop
<1>6. \A d \in DOMAIN hops : hops[d] \in H
  <2> HIDE DEF H
  <2> QED
    BY <1>1
<1> QED
  BY <1>3, <1>4, <1>5, <1>6 DEF Limited

LEMMA EngineReaches == ASSUME GraphTypeOK PROVE EngineReachesWhatHopsReach
<1> SUFFICES ASSUME NEW start \in Nodes, NEW hops \in Walks, NEW m \in MaxReads, Eligible(hops, m),
                    NEW d \in DOMAIN hops
             PROVE  Ends(hops[d], Held(EngineHops(start, hops)[d])) = Ends(hops[d], Held(LoopHops(start, hops)[d]))
  BY DEF EngineReachesWhatHopsReach, Ends, Range, Held
<1>1. hops \in Seq(Hop) /\ Len(hops) # 0 /\ \A k \in DOMAIN hops : Limited(hops[k])
  BY WalkIs
<1>2. PICK walk : /\ Loops(start, hops, walk)
                  /\ LoopHops(start, hops) = [k \in 1..Len(hops) |-> walk[k].edges]
  BY <1>1, LoopHopsIs
<1>3. PICK frontier :
        /\ Nests(start, hops, frontier)
        /\ EngineHops(start, hops) = [k \in 1..Len(hops) |-> FirstTo(hops[k], NoLoops(hops[k], frontier[k]))]
  BY <1>1, EngineHopsIs
<1>4. d \in 1..Len(hops)
  BY <1>1
<1>5. /\ walk[d].edges \in Seq(Record) /\ frontier[d] \in Seq(Record)
      /\ Held(frontier[d]) = Held(walk[d].edges)
  BY <1>1, <1>2, <1>3, <1>4, SameEdges
<1>6. NoLoops(hops[d], frontier[d]) = frontier[d]
  BY <1>1, <1>5, NoLoopsIs DEF Limited
<1>7. EngineHops(start, hops)[d] = FirstTo(hops[d], frontier[d]) /\ LoopHops(start, hops)[d] = walk[d].edges
  BY <1>2, <1>3, <1>4, <1>6
<1>8. Ends(hops[d], Held(FirstTo(hops[d], frontier[d]))) = Ends(hops[d], Held(frontier[d]))
  BY <1>5, FirstToIs
<1> QED
  BY <1>5, <1>7, <1>8

\* Records that one node has for one hop lead to different nodes.
LEMMA OtherEnds ==
  ASSUME NEW h, NEW u, NEW e \in Asked(h, {u}), NEW f \in Asked(h, {u}), To(h, e) = To(h, f),
         e \in Record, f \in Record
  PROVE  e = f
<1>1. e.axb = f.axb /\ From(h, e) = From(h, f)
  BY DEF Asked, Matching
<1>2. e.a = f.a /\ e.b = f.b
  BY <1>1 DEF From, To
<1>3. \A r \in Record : r = [a |-> r.a, axb |-> r.axb, b |-> r.b]
  BY DEF Record
<1> QED
  BY <1>1, <1>2, <1>3

\* A source that a limit cut fills the limit with edges to different nodes.
LEMMA FullSource ==
  ASSUME GraphTypeOK, NEW h, Limited(h), NEW u, Len(Query(h, {u}, NoLimit)) > h.limit
  PROVE  /\ IsFiniteSet(Ends(h, Held(Query(h, {u}, h.limit))))
         /\ Cardinality(Ends(h, Held(Query(h, {u}, h.limit)))) = h.limit
<1> DEFINE q == Query(h, {u}, h.limit)
           n == h.limit
           T == Ends(h, Held(q))
           D == 1..n
           f == [k \in D |-> To(h, q[k])]
<1>1. n \in Nat /\ n \in Nat \cup {NoLimit} /\ n # NoLimit
  BY DEF Limited, NoLimit
<1>2. q \in Seq(Record) /\ Held(q) \subseteq Asked(h, {u}) /\ Once(q) /\ Len(q) = n
  BY <1>1, QueryIs
<1> HIDE DEF q, n
<1>3. DOMAIN q = D
  BY <1>2
<1>4. IsFiniteSet(D) /\ Cardinality(D) = n
  <2>1. \A c \in Int : IsFiniteSet(1..c) /\ Cardinality(1..c) = IF 1 > c THEN 0 ELSE c - 1 + 1
    BY FS_Interval
  <2> QED
    BY <1>1, <2>1
<1> HIDE DEF D
<1>5. T = {To(h, q[k]) : k \in D}
  BY <1>3 DEF Ends, Held
<1>6. ASSUME NEW k \in D PROVE q[k] \in Asked(h, {u}) /\ q[k] \in Record
  <2>1. k \in DOMAIN q /\ q[k] \in Held(q)
    BY <1>3 DEF Held
  <2>2. \A t \in Seq(Record) : \A i \in DOMAIN t : t[i] \in Record
    OBVIOUS
  <2>3. q[k] \in Record
    BY <1>2, <2>1, <2>2
  <2> QED
    BY <1>2, <2>1, <2>3
<1>7. \A j, k \in D : To(h, q[j]) = To(h, q[k]) => j = k
  <2> SUFFICES ASSUME NEW j \in D, NEW k \in D, To(h, q[j]) = To(h, q[k]) PROVE j = k
    OBVIOUS
  <2>1. q[j] = q[k]
    BY <1>6, OtherEnds
  <2> QED
    BY <1>2, <1>3, <2>1 DEF Once
<1>8. f \in Surjection(D, T)
  BY <1>5 DEF Surjection
<1>9. f \in Injection(D, T)
  BY <1>5, <1>7 DEF Injection, IsInjective
<1> HIDE DEF T, f
<1>10. IsFiniteSet(T) /\ Cardinality(T) = Cardinality(D)
  BY <1>4, <1>8, <1>9, FS_Surjection
<1> QED
  BY <1>4, <1>10 DEF T, q, n

LEMMA CutsReported == ASSUME GraphTypeOK PROVE CutsAreReported
<1> DEFINE Before(start, hops, d) ==
      IF d = 1 THEN {start} ELSE Ends(hops[d - 1], Held(EngineHops(start, hops)[d - 1]))
<1> SUFFICES ASSUME NEW start \in Nodes, NEW hops \in Walks, Eligible(hops, Product(1, hops)),
                    NEW d \in DOMAIN hops, NEW u \in Before(start, hops, d),
                    Len(Query(hops[d], {u}, NoLimit)) > hops[d].limit
             PROVE  HopTruncated(hops[d], EngineHops(start, hops)[d])
  BY DEF CutsAreReported, Ends, Range, Held
<1>1. hops \in Seq(Hop) /\ Len(hops) # 0 /\ \A k \in DOMAIN hops : Limited(hops[k])
  BY WalkIs
<1>2. PICK walk : /\ Loops(start, hops, walk)
                  /\ LoopHops(start, hops) = [k \in 1..Len(hops) |-> walk[k].edges]
  BY <1>1, LoopHopsIs
<1>3. PICK frontier :
        /\ Nests(start, hops, frontier)
        /\ EngineHops(start, hops) = [k \in 1..Len(hops) |-> FirstTo(hops[k], NoLoops(hops[k], frontier[k]))]
  BY <1>1, EngineHopsIs
<1>4. DOMAIN hops = 1..Len(hops) /\ Len(hops) \in Nat
  BY <1>1
<1>5. ASSUME NEW k \in DOMAIN hops
      PROVE  frontier[k] \in Seq(Record) /\ EngineHops(start, hops)[k] = FirstTo(hops[k], frontier[k])
  <2>1. frontier[k] \in Seq(Record)
    BY <1>1, <1>2, <1>3, <1>4, SameEdges
  <2>2. NoLoops(hops[k], frontier[k]) = frontier[k]
    BY <1>1, <2>1, NoLoopsIs DEF Limited
  <2> QED
    BY <1>3, <1>4, <2>1, <2>2
<1> DEFINE h == hops[d]
           q == Query(h, {u}, h.limit)
<1>6. Limited(h)
  BY <1>1
\* the rows of u are among the rows of this depth
<1>7. Held(q) \subseteq Held(frontier[d])
  <2>1. CASE d = 1
    <3>1. <<start>> \in Seq(Nodes) /\ Held(<<start>>) = {start}
      BY DEF Held
    <3>2. frontier[d] = FromEach(h, <<start>>) /\ u = start
      BY <1>3, <2>1 DEF Nests
    <3> HIDE DEF h
    <3>3. Held(frontier[d]) = Reaches(h, {start})
      BY <1>6, <3>1, <3>2, FromEachIs
    <3> QED
      BY <3>2, <3>3 DEF Reaches
  <2>2. CASE d # 1
    <3> DEFINE old == hops[d - 1]
               r == frontier[d - 1]
    <3>1. d - 1 \in DOMAIN hops
      BY <1>4, <2>2
    <3>2. r \in Seq(Record) /\ EngineHops(start, hops)[d - 1] = FirstTo(old, r)
      BY <1>5, <3>1
    <3>3. frontier[d] = FromEach(h, Keys(old, r))
      BY <1>3, <2>2 DEF Nests
    <3>4. u \in Ends(old, Held(FirstTo(old, r)))
      BY <2>2, <3>2
    <3> HIDE DEF h, old, r
    <3>5. Keys(old, r) \in Seq(Nodes) /\ Held(Keys(old, r)) = Ends(old, Held(r))
      BY <3>2, EndsAre
    <3>6. u \in Held(Keys(old, r))
      BY <3>2, <3>4, <3>5, FirstToIs
    <3>7. Held(frontier[d]) = Reaches(h, Held(Keys(old, r)))
      BY <1>6, <3>3, <3>5, FromEachIs
    <3> QED
      BY <3>6, <3>7 DEF Reaches
  <2> QED
    BY <2>1, <2>2
<1> HIDE DEF h
<1>8. IsFiniteSet(Ends(h, Held(q))) /\ Cardinality(Ends(h, Held(q))) = h.limit
  BY <1>6, FullSource DEF h
<1>9. Ends(h, Held(q)) \subseteq Ends(h, Held(frontier[d]))
  BY <1>7 DEF Ends
<1> HIDE DEF q
<1>10. /\ IsFiniteSet(Ends(h, Held(frontier[d])))
       /\ Cardinality(Ends(h, Held(frontier[d]))) <= Len(FirstTo(h, frontier[d]))
       /\ FirstTo(h, frontier[d]) \in Seq(Record)
  BY <1>5, FirstToIs
<1>11. Cardinality(Ends(h, Held(q))) <= Cardinality(Ends(h, Held(frontier[d])))
  BY <1>9, <1>10, FS_Subset
<1>12. /\ h.limit \in Nat /\ Cardinality(Ends(h, Held(frontier[d]))) \in Nat
       /\ Len(FirstTo(h, frontier[d])) \in Nat
  BY <1>6, <1>10, FS_CardinalityType DEF Limited
<1>13. h.limit <= Len(FirstTo(h, frontier[d]))
  BY <1>8, <1>10, <1>11, <1>12
<1>14. EngineHops(start, hops)[d] = FirstTo(h, frontier[d])
  BY <1>5 DEF h
<1> QED
  BY <1>12, <1>13, <1>14 DEF HopTruncated, h

\* WalksAgree: for any graph, any walk that one pipeline may answer, and any
\* limits, each hop of the pipeline reaches the nodes that the loop's hop
\* reaches, and a hop that left out edges of some node is reported.
THEOREM WalksTheorem == GraphSpec => []WalksAgree
<1>1. GraphTypeOK => WalksAgree
  BY EngineReaches, CutsReported DEF WalksAgree
<1> QED
  BY <1>1, GraphTheorem, PTL

-----------------------------------------------------------------------------
(* The traversals of the builder (EditorTraverse).                          *)

\* The edges that the registry admits.
Fitting == {e \in Builder!Admitted : Builder!Fits(e)}

\* The names of EditorTraverse.
LEMMA BuilderNames ==
    /\ \A S : Builder!Cardinality(S) = Cardinality(S)
    /\ \A s : Builder!FlattenSeq(s) = FlattenSeq(s)
    /\ \A s : Builder!ToSet(s) = Held(s)
    /\ \A h, e : Builder!From(h, e) = From(h, e) /\ Builder!To(h, e) = To(h, e)
<1>1. \A S : Builder!Cardinality(S) = Cardinality(S)
  BY DEF Builder!Cardinality, Cardinality
<1>2. \A s : Builder!FlattenSeq(s) = FlattenSeq(s)
  BY DEF Builder!FlattenSeq, FlattenSeq
<1>3. \A s : Builder!ToSet(s) = Held(s)
  BY DEF Builder!ToSet, Held
<1>4. \A h, e : Builder!From(h, e) = From(h, e) /\ Builder!To(h, e) = To(h, e)
  BY DEF Builder!From, Builder!To, From, To
<1> QED
  BY <1>1, <1>2, <1>3, <1>4

\* A sequence that holds nothing is empty.
LEMMA NothingHeld == ASSUME NEW S, NEW s \in Seq(S), Held(s) = {} PROVE s = << >>
<1>1. Len(s) \in Nat /\ DOMAIN s = 1..Len(s)
  OBVIOUS
<1>2. DOMAIN s = {}
  BY DEF Held
<1>3. Len(s) = 0
  <2>1. ~(1 <= Len(s))
    BY <1>1, <1>2
  <2> QED
    BY <1>1, <2>1
<1> QED
  BY <1>3

\* The positions of a sequence in turn, as in FanOut.
LEMMA BuilderInTurn ==
    ASSUME NEW S, NEW s \in Seq(S), NEW K \in SUBSET DOMAIN s
    PROVE  /\ Builder!InTurn(s, K) \in Seq(S)
           /\ Held(Builder!InTurn(s, K)) = {s[k] : k \in K}
<1> DEFINE key == [k \in DOMAIN s |-> 0]
           ahead(i) == {j \in K : key[j] < key[i] \/ (key[j] = key[i] /\ j < i)}
           before(i) == {j \in K : j < i}
           pos(k) == CHOOSE i \in K : Cardinality(ahead(i)) = k - 1
           pos1(k) == CHOOSE i \in K : Builder!Cardinality(before(i)) = k - 1
<1>1. \A i \in K : ahead(i) = before(i)
  <2>1. \A j \in K : key[j] = 0
    OBVIOUS
  <2> QED
    BY <2>1
<1>2. InTurn(s, K) = [k \in 1..Cardinality(K) |-> s[pos(k)]]
  BY DEF InTurn, Sorted
<1>3. Builder!InTurn(s, K) = [k \in 1..Builder!Cardinality(K) |-> s[pos1(k)]]
  BY DEF Builder!InTurn
<1>4. \A k : pos(k) = pos1(k)
  <2> HIDE DEF ahead, before
  <2>1. \A k : \A i : (i \in K /\ Cardinality(ahead(i)) = k - 1) <=> (i \in K /\ Builder!Cardinality(before(i)) = k - 1)
    BY <1>1, BuilderNames
  <2> QED
    BY <2>1
<1>6. Builder!Cardinality(K) = Cardinality(K)
  BY BuilderNames
<1> HIDE DEF ahead, before, pos, pos1, key
<1>5. Builder!InTurn(s, K) = InTurn(s, K)
  BY <1>2, <1>3, <1>4, <1>6
<1> QED
  BY <1>5, InTurnIs, Zenon

\* A cut keeps the first ones.
LEMMA AtmostIs ==
    ASSUME NEW S, NEW s \in Seq(S), NEW n \in Nat
    PROVE  /\ Builder!Atmost(s, n) \in Seq(S)
           /\ Held(Builder!Atmost(s, n)) \subseteq Held(s)
           /\ Len(Builder!Atmost(s, n)) = IF Len(s) <= n THEN Len(s) ELSE n
<1>1. CASE Len(s) <= n
  BY <1>1 DEF Builder!Atmost
<1>2. CASE ~(Len(s) <= n)
  <2>1. Builder!Atmost(s, n) = SubSeq(s, 1, n)
    BY <1>2 DEF Builder!Atmost
  <2>2. /\ SubSeq(s, 1, n) \in Seq(S) /\ Len(SubSeq(s, 1, n)) = n /\ DOMAIN SubSeq(s, 1, n) = 1..n
        /\ \A k \in 1..n : SubSeq(s, 1, n)[k] = s[k] /\ k \in DOMAIN s
    BY <1>2
  <2> QED
    BY <1>2, <2>1, <2>2 DEF Held
<1> QED
  BY <1>1, <1>2

\* Edges have their ends in the graph.
LEMMA FittingEnds ==
    ASSUME NEW e \in Fitting, NEW h
    PROVE  e.a \in Nodes /\ e.b \in Nodes /\ From(h, e) \in Nodes /\ To(h, e) \in Nodes
<1>1. PICK a \in Nodes : \E b \in Nodes : \E i \in DOMAIN schema : e = Builder!Edge(a, schema[i].axb, b)
  BY DEF Fitting, Builder!Admitted
<1>2. PICK b \in Nodes : \E i \in DOMAIN schema : e = Builder!Edge(a, schema[i].axb, b)
  BY <1>1
<1>3. e.a = a /\ e.b = b
  BY <1>2 DEF Builder!Edge
<1> QED
  BY <1>3 DEF From, To

\* What one source gives: edges from it.
LEMMA EdgesOfIs ==
    ASSUME Builder!TypeOK, NEW h, h.limit \in Nat, NEW uid
    PROVE  /\ Builder!EdgesOf(h, uid) \in Seq(Fitting)
           /\ \A e \in Held(Builder!EdgesOf(h, uid)) : e.axb = h.axb /\ From(h, e) = uid
<1> DEFINE K == {k \in DOMAIN stock : stock[k].axb = h.axb /\ Builder!From(h, stock[k]) = uid}
           list == Builder!InTurn(stock, K)
<1>1. stock \in Seq(Fitting) /\ K \in SUBSET DOMAIN stock
  BY DEF Builder!TypeOK, Fitting
<1>2. list \in Seq(Fitting) /\ Held(list) = {stock[k] : k \in K}
  <2> HIDE DEF K
  <2> QED
    BY <1>1, BuilderInTurn
<1>3. \A e \in Held(list) : e.axb = h.axb /\ From(h, e) = uid
  BY <1>2, BuilderNames
<1>4. Builder!EdgesOf(h, uid) = Builder!Atmost(list, h.limit)
  BY DEF Builder!EdgesOf
<1> HIDE DEF list
<1> QED
  BY <1>2, <1>3, <1>4, AtmostIs

\* What a hop finds: edges from its sources.
LEMMA HopFinds ==
    ASSUME Builder!TypeOK, NEW h, h.limit \in Nat, NEW S, NEW from \in Seq(S)
    PROVE  /\ Builder!Found(h, from) \in Seq(Fitting)
           /\ \A e \in Held(Builder!Found(h, from)) : e.axb = h.axb /\ From(h, e) \in Held(from)
           /\ from = << >> => Builder!Found(h, from) = << >>
<1> DEFINE parts == [i \in DOMAIN from |-> Builder!EdgesOf(h, from[i])]
<1>1. parts \in Seq(Seq(Fitting)) /\ DOMAIN parts = DOMAIN from
  <2>1. Len(from) \in Nat /\ DOMAIN from = 1..Len(from)
    OBVIOUS
  <2>2. \A i \in DOMAIN from : parts[i] \in Seq(Fitting)
    BY EdgesOfIs
  <2> QED
    BY <2>1, <2>2
<1>2. \A i \in DOMAIN from : \A e \in Held(parts[i]) : e.axb = h.axb /\ From(h, e) = from[i]
  BY EdgesOfIs
<1>3. Builder!Found(h, from) = FlattenSeq(parts)
  BY BuilderNames DEF Builder!Found
<1> HIDE DEF parts
<1>4. FlattenSeq(parts) \in Seq(Fitting) /\ Held(FlattenSeq(parts)) = UNION {Held(parts[i]) : i \in DOMAIN parts}
  BY <1>1, FlattenIs, Zenon
<1>5. \A e \in Held(FlattenSeq(parts)) : e.axb = h.axb /\ From(h, e) \in Held(from)
  <2> SUFFICES ASSUME NEW e \in Held(FlattenSeq(parts)) PROVE e.axb = h.axb /\ From(h, e) \in Held(from)
    OBVIOUS
  <2>1. PICK i \in DOMAIN parts : e \in Held(parts[i])
    BY <1>4
  <2> QED
    BY <1>1, <1>2, <2>1 DEF Held
<1>6. ASSUME from = << >> PROVE FlattenSeq(parts) = << >>
  <2>1. Held(FlattenSeq(parts)) = {}
    BY <1>1, <1>4, <1>6
  <2> QED
    BY <1>4, <2>1, NothingHeld
<1> QED
  BY <1>3, <1>4, <1>5, <1>6

\* The next sources are ends of what was found.
LEMMA NextOnes ==
    ASSUME NEW h, NEW found \in Seq(Fitting)
    PROVE  /\ Builder!NextSources(h, found) \in Seq(Nodes)
           /\ \A u \in Held(Builder!NextSources(h, found)) : \E e \in Held(found) : To(h, e) = u
           /\ found = << >> => Builder!NextSources(h, found) = << >>
<1> DEFINE ends == [i \in DOMAIN found |-> Builder!To(h, found[i])]
           K == {k \in DOMAIN ends : \A j \in 1..(k - 1) : ends[j] # ends[k]}
           next == Builder!InTurn(ends, K)
<1>1. ends \in Seq(Nodes) /\ DOMAIN ends = DOMAIN found /\ K \in SUBSET DOMAIN ends
  <2>1. Len(found) \in Nat /\ DOMAIN found = 1..Len(found) /\ \A i \in DOMAIN found : found[i] \in Fitting
    OBVIOUS
  <2>2. \A i \in DOMAIN found : Builder!To(h, found[i]) \in Nodes
    BY <2>1, FittingEnds, BuilderNames
  <2> QED
    BY <2>1, <2>2
<1>2. \A k \in DOMAIN found : ends[k] = To(h, found[k])
  BY BuilderNames
<1>3. Builder!NextSources(h, found) = next
  BY DEF Builder!NextSources, Builder!Distinct
<1>4. next \in Seq(Nodes) /\ Held(next) = {ends[k] : k \in K}
  <2> HIDE DEF ends, K
  <2> QED
    BY <1>1, BuilderInTurn
<1>5. \A u \in Held(next) : \E e \in Held(found) : To(h, e) = u
  <2> HIDE DEF ends, next
  <2> SUFFICES ASSUME NEW u \in Held(next) PROVE \E e \in Held(found) : To(h, e) = u
    OBVIOUS
  <2>1. PICK k \in K : u = ends[k]
    BY <1>4
  <2>2. k \in DOMAIN found
    BY <1>1
  <2>3. found[k] \in Held(found) /\ To(h, found[k]) = u
    BY <1>2, <2>1, <2>2 DEF Held
  <2> QED
    BY <2>3
<1>6. ASSUME found = << >> PROVE next = << >>
  <2>1. Held(next) = {}
    BY <1>5, <1>6 DEF Held
  <2> QED
    BY <1>4, <2>1, NothingHeld
<1> QED
  BY <1>3, <1>4, <1>5, <1>6

\* A traversal after some hops, within its budget, and one without a budget.
Walking(m) ==
    {w \in [sources : Seq(Nodes), reads : Nat, truncated : BOOLEAN, found : Seq(Fitting)] : w.reads <= m}
Unbounded == [sources : Seq(Nodes), found : Seq(Fitting)]

\* Each of the next sources is an end found.
Leads(h, found, next) == \A u \in Held(next) : \E e \in Held(found) : To(h, e) = u

\* What a hop keeps: the budget; reads only grow, a cut stays; what it finds
\* begins at its sources, and where it was not cut the next ones are found ends.
LEMMA HopWalks ==
    ASSUME Builder!TypeOK, NEW h, h.limit \in Nat, NEW m \in Nat, NEW batch \in Nat \ {0}, NEW w \in Walking(m),
           NEW new, new = Builder!Hop(w, h, m, batch)
    PROVE  /\ new \in Walking(m)
           /\ w.reads <= new.reads /\ (w.truncated => new.truncated)
           /\ \A e \in Held(new.found) : ~w.truncated /\ e.axb = h.axb /\ From(h, e) \in Held(w.sources)
           /\ ~new.truncated => Leads(h, new.found, new.sources)
<1> DEFINE left == m - w.reads
           asked == Builder!Atmost(w.sources, left)
           found == Builder!Found(h, asked)
<1>1. /\ w.sources \in Seq(Nodes) /\ w.reads \in Nat /\ w.truncated \in BOOLEAN
      /\ w.reads <= m /\ left \in Nat
  BY DEF Walking
<1>2. CASE w.truncated \/ w.sources = << >>
  <2>1. new = [w EXCEPT !.found = << >>]
    BY <1>2 DEF Builder!Hop
  <2>2. /\ new.sources = w.sources /\ new.reads = w.reads /\ new.truncated = w.truncated /\ new.found = << >>
        /\ new = [sources |-> w.sources, reads |-> w.reads, truncated |-> w.truncated, found |-> << >>]
    BY <2>1 DEF Walking
  <2>3. << >> \in Seq(Fitting)
    OBVIOUS
  <2>4. new \in Walking(m)
    BY <1>1, <2>2, <2>3 DEF Walking
  <2>5. Held(new.found) = {} /\ (~new.truncated => Held(new.sources) = {})
    BY <1>2, <2>2 DEF Held
  <2>6. \A e \in Held(new.found) : ~w.truncated /\ e.axb = h.axb /\ From(h, e) \in Held(w.sources)
    BY <2>5
  <2>7. ~new.truncated => Leads(h, new.found, new.sources)
    BY <2>5 DEF Leads
  <2>8. w.reads <= new.reads /\ (w.truncated => new.truncated)
    BY <1>1, <2>2
  <2> QED
    BY <2>4, <2>6, <2>7, <2>8
<1>3. CASE ~w.truncated /\ w.sources # << >>
  <2>1. new = [sources |-> Builder!NextSources(h, found), reads |-> w.reads + Len(asked),
               truncated |-> Builder!Cut(w.sources, left, batch), found |-> found]
    BY <1>3 DEF Builder!Hop, Builder!Asked
  <2>2. /\ asked \in Seq(Nodes) /\ Held(asked) \subseteq Held(w.sources) /\ Len(asked) \in Nat /\ Len(asked) <= left
    <3>1. Len(w.sources) \in Nat
      BY <1>1
    <3> HIDE DEF left
    <3> QED
      BY <1>1, <3>1, AtmostIs
  <2> HIDE DEF asked
  <2>3. found \in Seq(Fitting) /\ \A e \in Held(found) : e.axb = h.axb /\ From(h, e) \in Held(asked)
    BY <2>2, HopFinds
  <2> HIDE DEF found
  <2>4. /\ Builder!NextSources(h, found) \in Seq(Nodes)
        /\ Leads(h, found, Builder!NextSources(h, found))
    BY <2>3, NextOnes DEF Leads
  <2>5. Builder!Cut(w.sources, left, batch) \in BOOLEAN
    BY DEF Builder!Cut
  <2>6. w.reads + Len(asked) \in Nat /\ w.reads + Len(asked) <= m /\ w.reads <= w.reads + Len(asked)
    BY <1>1, <2>2
  <2>7. /\ new.sources = Builder!NextSources(h, found) /\ new.reads = w.reads + Len(asked)
        /\ new.found = found
    BY <2>1
  <2>8. new \in Walking(m)
    BY <2>1, <2>3, <2>4, <2>5, <2>6 DEF Walking
  <2> QED
    BY <1>3, <2>2, <2>3, <2>4, <2>6, <2>7, <2>8
<1> QED
  BY <1>1, <1>2, <1>3

\* A traversal, hop by hop.
Travels(got, hops, m, batch) ==
    /\ got \in [0..Len(hops) -> Walking(m)]
    /\ got[0] = [sources |-> <<First>>, reads |-> 0, truncated |-> FALSE, found |-> << >>]
    /\ \A d \in 1..Len(hops) : got[d] = Builder!Hop(got[d - 1], hops[d], m, batch)

\* What the constants are.
Route(hops) ==
    /\ Len(hops) \in Nat \ {0} /\ DOMAIN hops = 1..Len(hops)
    /\ \A d \in 1..Len(hops) : hops[d].limit \in Nat

\* The constants of a traversal.
LEMMA BuilderConstants ==
    /\ First \in Nodes
    /\ \A hops \in Routes : Route(hops)
    /\ \A m \in Allowances : m \in Nat
    /\ \A batch \in BatchSizes : batch \in Nat \ {0}
<1>1. Builder!EditorAssumption
  BY PartsAssumption
<1>2. ASSUME NEW hops \in Routes PROVE Route(hops)
  <2>1. /\ hops \in Seq({hops[d] : d \in DOMAIN hops}) /\ hops # << >>
        /\ \A d \in DOMAIN hops : hops[d].limit \in Nat
    BY <1>1 DEF Builder!EditorAssumption
  <2> DEFINE T == {hops[d] : d \in DOMAIN hops}
  <2> HIDE DEF T
  <2>2. hops \in Seq(T)
    BY <2>1 DEF T
  <2>3. Len(hops) \in Nat /\ DOMAIN hops = 1..Len(hops) /\ (Len(hops) = 0 => hops = << >>)
    BY <2>2
  <2> QED
    BY <2>1, <2>3 DEF Route
<1> QED
  BY <1>1, <1>2 DEF Builder!EditorAssumption

\* The recursive function is there, and goes hop by hop.
LEMMA TraverseIs ==
    ASSUME Builder!TypeOK, NEW hops, Route(hops), NEW m \in Nat, NEW batch \in Nat \ {0}
    PROVE  Travels(Builder!Traverse(hops, m, batch), hops, m, batch)
<1> DEFINE n == Len(hops)
           S == Walking(m)
           first == [sources |-> <<First>>, reads |-> 0, truncated |-> FALSE, found |-> << >>]
           step == [d \in 1..n |-> [w \in S |-> Builder!Hop(w, hops[d], m, batch)]]
           F(g) == [d \in 0..Len(hops) |-> IF d = 0 THEN first ELSE Builder!Hop(g[d - 1], hops[d], m, batch)]
<1>1. n \in Nat /\ \A d \in 1..n : hops[d].limit \in Nat
  BY DEF Route
<1>2. first \in S
  <2>1. <<First>> \in Seq(Nodes) /\ << >> \in Seq(Fitting)
    BY BuilderConstants
  <2> QED
    BY <2>1 DEF Walking
<1>3. ASSUME NEW d \in 1..n, NEW w \in S PROVE Builder!Hop(w, hops[d], m, batch) \in S
  BY <1>1, HopWalks
<1>4. \A d \in 1..n : step[d] \in [S -> S]
  BY <1>3
<1> HIDE DEF S
<1>5. PICK g \in [0..n -> S] : Goes(g, n, first, step)
  <2> HIDE DEF n, step, first
  <2> QED
    BY <1>1, <1>2, <1>4, Recursion, Zenon
<1>6. \A d \in 1..n : g[d] = Builder!Hop(g[d - 1], hops[d], m, batch)
  <2> SUFFICES ASSUME NEW d \in 1..n PROVE g[d] = Builder!Hop(g[d - 1], hops[d], m, batch)
    OBVIOUS
  <2>1. d - 1 \in 0..n
    BY <1>1
  <2>2. g[d - 1] \in S /\ g[d] = step[d][g[d - 1]]
    BY <2>1, <1>5 DEF Goes
  <2> QED
    BY <2>2
<1>7. g[0] = first
  BY <1>5 DEF Goes
<1> HIDE DEF first, step
<1>8. g = F(g)
  <2>1. \A d \in 0..n : g[d] = IF d = 0 THEN first ELSE Builder!Hop(g[d - 1], hops[d], m, batch)
    BY <1>1, <1>6, <1>7
  <2>2. g = [d \in 0..n |-> g[d]]
    OBVIOUS
  <2> QED
    BY <2>1, <2>2
<1> DEFINE got == CHOOSE f : f = F(f)
<1>9. got = F(got)
  <2> HIDE DEF F
  <2> QED
    BY <1>8
<1>10. Builder!Traverse(hops, m, batch) = got
  BY DEF Builder!Traverse, first
<1> HIDE DEF got
<1>11. \A d \in 0..n : got[d] = IF d = 0 THEN first ELSE Builder!Hop(got[d - 1], hops[d], m, batch)
  BY <1>9
<1>12. got[0] = first /\ \A d \in 1..n : got[d] = Builder!Hop(got[d - 1], hops[d], m, batch)
  BY <1>1, <1>11
<1>13. \A d \in 0..n : got[d] \in S
  <2> DEFINE I == {d \in Nat : d <= n => got[d] \in S}
  <2>1. 0 \in I
    BY <1>2, <1>12
  <2>2. ASSUME NEW d \in I PROVE d + 1 \in I
    <3>1. CASE d + 1 <= n
      <4>1. d + 1 \in 1..n /\ (d + 1) - 1 = d /\ d <= n
        BY <1>1, <3>1
      <4>2. got[d] \in S /\ got[d + 1] = Builder!Hop(got[d], hops[d + 1], m, batch)
        BY <4>1, <1>12
      <4>3. got[d + 1] \in S
        BY <1>3, <4>1, <4>2
      <4> QED
        BY <4>3
    <3> QED
      BY <3>1
  <2>3. I \in SUBSET Nat
    OBVIOUS
  <2>4. I = Nat
    <3> HIDE DEF I
    <3> QED
      BY <2>1, <2>2, <2>3, Induction
  <2> QED
    BY <1>1, <2>4
<1>14. got \in [0..n -> S]
  <2>1. F(got) = [d \in 0..n |-> (IF d = 0 THEN first ELSE Builder!Hop(got[d - 1], hops[d], m, batch))]
    OBVIOUS
  <2>2. got = [d \in 0..n |-> got[d]]
    BY <1>9, <1>11, <2>1
  <2> QED
    BY <1>13, <2>2
<1> QED
  BY <1>10, <1>12, <1>14 DEF Travels, S, first

\* A traversal without a budget, hop by hop.
Roams(walk, hops) ==
    /\ walk \in [0..Len(hops) -> Unbounded]
    /\ walk[0] = [sources |-> <<First>>, found |-> << >>]
    /\ \A d \in 1..Len(hops) : /\ walk[d].found = Builder!Found(hops[d], walk[d - 1].sources)
                               /\ walk[d].sources = Builder!NextSources(hops[d], walk[d].found)

\* So is the one without a budget.
LEMMA UnlimitedIs ==
    ASSUME Builder!TypeOK, NEW hops, Route(hops)
    PROVE  Roams(Builder!Unlimited(hops), hops)
<1> DEFINE n == Len(hops)
           S == Unbounded
           first == [sources |-> <<First>>, found |-> << >>]
           After(w, d) == LET found == Builder!Found(hops[d], w.sources)
                          IN  [sources |-> Builder!NextSources(hops[d], found), found |-> found]
           step == [d \in 1..n |-> [w \in S |-> After(w, d)]]
           F(g) == [d \in 0..Len(hops) |-> IF d = 0 THEN first ELSE After(g[d - 1], d)]
<1>1. n \in Nat /\ \A d \in 1..n : hops[d].limit \in Nat
  BY DEF Route
<1>2. first \in S
  <2>1. <<First>> \in Seq(Nodes) /\ << >> \in Seq(Fitting)
    BY BuilderConstants
  <2> QED
    BY <2>1 DEF Unbounded
<1>3. ASSUME NEW d \in 1..n, NEW w \in S PROVE After(w, d) \in S
  <2>1. w.sources \in Seq(Nodes)
    BY DEF Unbounded
  <2>2. Builder!Found(hops[d], w.sources) \in Seq(Fitting)
    BY <1>1, <2>1, HopFinds
  <2>3. Builder!NextSources(hops[d], Builder!Found(hops[d], w.sources)) \in Seq(Nodes)
    BY <2>2, NextOnes
  <2> QED
    BY <2>2, <2>3 DEF Unbounded
<1>4. \A d \in 1..n : step[d] \in [S -> S]
  <2> HIDE DEF S, After
  <2> QED
    BY <1>3
<1> HIDE DEF S, After
<1>5. PICK g \in [0..n -> S] : Goes(g, n, first, step)
  <2> HIDE DEF n, step, first
  <2> QED
    BY <1>1, <1>2, <1>4, Recursion, Zenon
<1>6. \A d \in 1..n : g[d] = After(g[d - 1], d)
  <2> SUFFICES ASSUME NEW d \in 1..n PROVE g[d] = After(g[d - 1], d)
    OBVIOUS
  <2>1. d - 1 \in 0..n
    BY <1>1
  <2>2. g[d - 1] \in S /\ g[d] = step[d][g[d - 1]]
    BY <2>1, <1>5 DEF Goes
  <2> QED
    BY <2>2
<1>7. g[0] = first
  BY <1>5 DEF Goes
<1> HIDE DEF first, step
<1>8. g = F(g)
  <2>1. \A d \in 0..n : g[d] = IF d = 0 THEN first ELSE After(g[d - 1], d)
    BY <1>1, <1>6, <1>7
  <2>2. g = [d \in 0..n |-> g[d]]
    OBVIOUS
  <2> QED
    BY <2>1, <2>2
<1> DEFINE got == CHOOSE f : f = F(f)
<1>9. got = F(got)
  <2> HIDE DEF F
  <2> QED
    BY <1>8
<1>10. Builder!Unlimited(hops) = got
  BY DEF Builder!Unlimited, first, After
<1> HIDE DEF got
<1>11. \A d \in 0..n : got[d] = IF d = 0 THEN first ELSE After(got[d - 1], d)
  BY <1>9
<1>12. got[0] = first /\ \A d \in 1..n : got[d] = After(got[d - 1], d)
  BY <1>1, <1>11
<1>13. \A d \in 0..n : got[d] \in S
  <2> DEFINE I == {d \in Nat : d <= n => got[d] \in S}
  <2>1. 0 \in I
    BY <1>2, <1>12
  <2>2. ASSUME NEW d \in I PROVE d + 1 \in I
    <3>1. CASE d + 1 <= n
      <4>1. d + 1 \in 1..n /\ (d + 1) - 1 = d /\ d <= n
        BY <1>1, <3>1
      <4>2. got[d] \in S /\ got[d + 1] = After(got[d], d + 1)
        BY <4>1, <1>12
      <4>3. got[d + 1] \in S
        BY <1>3, <4>1, <4>2
      <4> QED
        BY <4>3
    <3> QED
      BY <3>1
  <2>3. I \in SUBSET Nat
    OBVIOUS
  <2>4. I = Nat
    <3> HIDE DEF I
    <3> QED
      BY <2>1, <2>2, <2>3, Induction
  <2> QED
    BY <1>1, <2>4
<1>14. got \in [0..n -> S]
  <2>1. F(got) = [d \in 0..n |-> (IF d = 0 THEN first ELSE After(got[d - 1], d))]
    OBVIOUS
  <2>2. got = [d \in 0..n |-> got[d]]
    BY <1>9, <1>11, <2>1
  <2> QED
    BY <1>13, <2>2
<1>15. \A d \in 1..n : /\ got[d].found = Builder!Found(hops[d], got[d - 1].sources)
                       /\ got[d].sources = Builder!NextSources(hops[d], got[d].found)
  <2>1. \A w, d : /\ After(w, d).found = Builder!Found(hops[d], w.sources)
                  /\ After(w, d).sources = Builder!NextSources(hops[d], After(w, d).found)
    BY DEF After
  <2> QED
    BY <1>12, <2>1
<1> QED
  BY <1>10, <1>12, <1>14, <1>15 DEF Roams, S, first

\* What holds at the end of a countdown holds all the way.
LEMMA Backwards ==
    ASSUME NEW n \in Nat, NEW T \in SUBSET (0..n), n \in T, \A d \in 1..n : d \in T => d - 1 \in T
    PROVE  \A d \in 0..n : d \in T
<1> DEFINE I == {k \in Nat : k <= n => n - k \in T}
<1>1. 0 \in I
  OBVIOUS
<1>2. ASSUME NEW k \in I PROVE k + 1 \in I
  <2>1. CASE k + 1 <= n
    <3>1. n - k \in 1..n /\ (n - k) - 1 = n - (k + 1) /\ n - k \in T
      BY <2>1
    <3> QED
      BY <3>1
  <2> QED
    BY <2>1
<1>3. I \in SUBSET Nat
  OBVIOUS
<1>4. I = Nat
  <2> HIDE DEF I
  <2> QED
    BY <1>1, <1>2, <1>3, Induction
<1>5. SUFFICES ASSUME NEW d \in 0..n PROVE d \in T
  OBVIOUS
<1>6. n - d \in I /\ n - d <= n /\ n - (n - d) = d
  BY <1>4
<1> QED
  BY <1>6

\* Where a hop was not cut and the budget is not used up, or sources are read
\* one by one, all of its sources were read.
LEMMA NothingLeftOut ==
    ASSUME NEW m \in Nat, NEW w \in Walking(m), NEW h, NEW batch, w.sources # << >>,
           LET new == Builder!Hop(w, h, m, batch)
           IN  ~new.truncated /\ (new.reads < m \/ batch = 1)
    PROVE  Builder!Hop(w, h, m, batch).found = Builder!Found(h, w.sources)
           /\ Builder!Hop(w, h, m, batch).sources = Builder!NextSources(h, Builder!Found(h, w.sources))
<1> DEFINE new == Builder!Hop(w, h, m, batch)
           left == m - w.reads
           asked == Builder!Atmost(w.sources, left)
<1>1. /\ w.sources \in Seq(Nodes) /\ w.reads \in Nat /\ w.reads <= m /\ left \in Nat
      /\ Len(w.sources) \in Nat /\ Len(w.sources) # 0
  <2>1. w.sources \in Seq(Nodes) /\ w.reads \in Nat /\ w.reads <= m
    BY DEF Walking
  <2>2. Len(w.sources) \in Nat /\ (Len(w.sources) = 0 => w.sources = << >>)
    BY <2>1
  <2> QED
    BY <2>1, <2>2
<1>2. ~w.truncated
  <2>1. w.truncated => new = [w EXCEPT !.found = << >>]
    BY DEF Builder!Hop
  <2>2. w.truncated => new.truncated = w.truncated
    BY <2>1 DEF Walking
  <2> QED
    BY <2>2
<1>3. new = [sources |-> Builder!NextSources(h, Builder!Found(h, asked)), reads |-> w.reads + Len(asked),
             truncated |-> Builder!Cut(w.sources, left, batch), found |-> Builder!Found(h, asked)]
  BY <1>2 DEF Builder!Hop, Builder!Asked
<1>4. Len(asked) = IF Len(w.sources) <= left THEN Len(w.sources) ELSE left
  <2> HIDE DEF left
  <2> QED
    BY <1>1, AtmostIs
<1>5. Len(w.sources) <= left
  <2>1. SUFFICES ASSUME Len(w.sources) > left PROVE FALSE
    BY <1>1
  <2>2. new.reads = m
    <3>1. Len(asked) = left
      BY <1>1, <1>4, <2>1
    <3> QED
      BY <1>1, <1>3, <3>1
  <2>3. batch = 1 /\ ~Builder!Cut(w.sources, left, 1)
    BY <1>3, <2>2
  <2>4. Len(w.sources) - 1 \in 0..(Len(w.sources) - 1) /\ Len(w.sources) - 1 >= left
    BY <1>1, <2>1
  <2>5. (Len(w.sources) - 1) % 1 = 0
    <3>1. \A x \in Nat : x % 1 = 0
      OBVIOUS
    <3>2. Len(w.sources) - 1 \in Nat
      BY <1>1
    <3> QED
      BY <3>1, <3>2
  <2> QED
    BY <2>3, <2>4, <2>5 DEF Builder!Cut
<1>6. asked = w.sources
  BY <1>5 DEF Builder!Atmost
<1> QED
  BY <1>3, <1>6

\* BudgetIsKept: by the hops before the last, none of which was cut.
LEMMA BudgetHolds == ASSUME Builder!TypeOK PROVE Builder!BudgetIsKept
<1> SUFFICES ASSUME NEW hops \in Routes, NEW m \in Allowances, NEW batch \in BatchSizes
    PROVE  LET got == Builder!Traverse(hops, m, batch)
               end == got[Len(hops)]
           IN  /\ end.reads <= m
               /\ ~end.truncated /\ (end.reads < m \/ batch = 1) =>
                    \A d \in DOMAIN hops : got[d].found = Builder!Unlimited(hops)[d].found
  BY DEF Builder!BudgetIsKept
<1> DEFINE got == Builder!Traverse(hops, m, batch)
           walk == Builder!Unlimited(hops)
           n == Len(hops)
           end == got[n]
<1>1. Route(hops) /\ m \in Nat /\ batch \in Nat \ {0}
  BY BuilderConstants
<1>2. Travels(got, hops, m, batch) /\ Roams(walk, hops)
  BY <1>1, TraverseIs, UnlimitedIs
<1> HIDE DEF got, walk
<1>3. n \in Nat \ {0} /\ DOMAIN hops = 1..n /\ \A d \in 1..n : hops[d].limit \in Nat
  BY <1>1 DEF Route
<1>4. \A d \in 0..n : got[d] \in Walking(m) /\ walk[d] \in Unbounded
  BY <1>2 DEF Travels, Roams
<1>5. end.reads <= m
  BY <1>3, <1>4 DEF Walking
<1>6. ASSUME ~end.truncated, end.reads < m \/ batch = 1
      PROVE  \A d \in DOMAIN hops : got[d].found = walk[d].found
  <2> DEFINE fine(d) == ~got[d].truncated /\ (got[d].reads < m \/ batch = 1)
             T == {d \in 0..n : fine(d)}
  <2>1. \A d \in 0..n : fine(d)
    <3>1. ASSUME NEW d \in 1..n, d \in T PROVE d - 1 \in T
      <4>1. d - 1 \in 0..n /\ d \in 0..n
        BY <1>3
      <4>2. got[d] = Builder!Hop(got[d - 1], hops[d], m, batch)
        BY <1>2 DEF Travels
      <4>3. got[d - 1].reads <= got[d].reads /\ (got[d - 1].truncated => got[d].truncated)
        BY <1>1, <1>3, <1>4, <4>1, <4>2, HopWalks
      <4>4. got[d - 1].reads \in Nat /\ got[d].reads \in Nat
        BY <1>4, <4>1 DEF Walking
      <4> QED
        BY <1>1, <3>1, <4>1, <4>3, <4>4
    <3>2. n \in T /\ T \in SUBSET (0..n) /\ n \in Nat
      BY <1>3, <1>6
    <3>3. \A d \in 1..n : d \in T => d - 1 \in T
      <4> HIDE DEF T
      <4> QED
        BY <3>1
    <3>4. \A d \in 0..n : d \in T
      <4> HIDE DEF T, n
      <4> QED
        BY <3>2, <3>3, Backwards
    <3> QED
      BY <3>4
  <2> DEFINE same(d) == got[d].sources = walk[d].sources /\ got[d].found = walk[d].found
             I == {d \in Nat : d <= n => same(d)}
  <2>2. 0 \in I
    BY <1>2 DEF Travels, Roams
  <2>3. ASSUME NEW d \in I PROVE d + 1 \in I
    <3> SUFFICES ASSUME d + 1 <= n PROVE same(d + 1)
      OBVIOUS
    <3>1. d \in Nat /\ d \in 0..n /\ d + 1 \in 1..n /\ d + 1 \in 0..n /\ (d + 1) - 1 = d /\ same(d)
      BY <1>3
    <3> DEFINE w == got[d]
               h == hops[d + 1]
    <3>2. got[d + 1] = Builder!Hop(w, h, m, batch)
      BY <1>2, <3>1 DEF Travels
    <3>3. /\ walk[d + 1].found = Builder!Found(h, w.sources)
          /\ walk[d + 1].sources = Builder!NextSources(h, Builder!Found(h, w.sources))
      BY <1>2, <3>1 DEF Roams
    <3>4. CASE w.sources = << >>
      <4>1. got[d + 1] = [w EXCEPT !.found = << >>]
        BY <3>2, <3>4 DEF Builder!Hop
      <4>2. got[d + 1].sources = << >> /\ got[d + 1].found = << >>
        BY <1>4, <3>1, <3>4, <4>1 DEF Walking
      <4>3. << >> \in Seq(Nodes) /\ << >> \in Seq(Fitting) /\ h.limit \in Nat
        BY <1>3, <3>1
      <4>4. Builder!Found(h, << >>) = << >>
        BY <4>3, HopFinds
      <4>5. Builder!NextSources(h, << >>) = << >>
        BY <4>3, NextOnes
      <4> QED
        BY <3>3, <3>4, <4>2, <4>4, <4>5
    <3>5. CASE w.sources # << >>
      <4>1. fine(d + 1)
        BY <2>1, <3>1
      <4>2. w \in Walking(m)
        BY <1>4, <3>1
      <4>3. /\ Builder!Hop(w, h, m, batch).found = Builder!Found(h, w.sources)
            /\ Builder!Hop(w, h, m, batch).sources = Builder!NextSources(h, Builder!Found(h, w.sources))
        <5> HIDE DEF w, h
        <5> QED
          BY <1>1, <3>2, <3>5, <4>1, <4>2, NothingLeftOut
      <4> QED
        BY <3>2, <3>3, <4>3
    <3> QED
      BY <3>4, <3>5
  <2>4. I = Nat
    <3>1. I \in SUBSET Nat
      OBVIOUS
    <3> HIDE DEF I
    <3> QED
      BY <2>2, <2>3, <3>1, Induction
  <2>5. ASSUME NEW d \in DOMAIN hops PROVE got[d].found = walk[d].found
    <3>1. d \in Nat /\ d <= n /\ d \in I
      BY <1>3, <2>4
    <3> QED
      BY <3>1
  <2> QED
    BY <2>5
<1> QED
  BY <1>5, <1>6 DEF got, walk

\* No edge is unknown.
LEMMA EdgesKnown == ASSUME Builder!TypeOK PROVE Absent \notin Fitting
<1>1. SUFFICES ASSUME Absent \in Fitting PROVE FALSE
  OBVIOUS
<1>2. PICK a \in Nodes : \E b \in Nodes : \E i \in DOMAIN schema : Absent = Builder!Edge(a, schema[i].axb, b)
  BY <1>1 DEF Fitting, Builder!Admitted
<1>3. PICK b \in Nodes : \E i \in DOMAIN schema : Absent = Builder!Edge(a, schema[i].axb, b)
  BY <1>2
<1>4. PICK i \in DOMAIN schema : Absent = Builder!Edge(a, schema[i].axb, b)
  BY <1>3
<1>5. Absent \in [a : Nodes, axb : {schema[j].axb : j \in DOMAIN schema}, b : Nodes]
  BY <1>4 DEF Builder!Edge
<1>6. \A s \in Schemas : Absent \notin [a : Nodes, axb : {s[j].axb : j \in DOMAIN s}, b : Nodes]
  BY PartsAssumption DEF Builder!EditorAssumption
<1> QED
  BY <1>5, <1>6 DEF Builder!TypeOK

\* There is a first position.
LEMMA FirstIs == ASSUME NEW K \in SUBSET Nat, K # {} PROVE Builder!FirstOf(K) \in K
<1>1. \E k \in K : \A j \in K : k <= j
  BY Least
<1> QED
  BY <1>1 DEF Builder!FirstOf

\* The edge before is one that leads there, if there is one.
LEMMA LeadingIs ==
    ASSUME NEW h, NEW found \in Seq(Fitting), NEW uid
    PROVE  /\ Builder!Leading(h, found, uid) \in Fitting \cup {Absent}
           /\ (\E e \in Held(found) : To(h, e) = uid) =>
                /\ Builder!Leading(h, found, uid) \in Held(found)
                /\ To(h, Builder!Leading(h, found, uid)) = uid
<1> DEFINE here == {k \in DOMAIN found : Builder!To(h, found[k]) = uid}
           lead == Builder!Leading(h, found, uid)
<1>1. lead = IF here = {} THEN Absent ELSE found[Builder!FirstOf(here)]
  BY DEF Builder!Leading
<1>2. /\ here \in SUBSET Nat /\ DOMAIN found = 1..Len(found) /\ Len(found) \in Nat
      /\ \A k \in DOMAIN found : found[k] \in Fitting
  OBVIOUS
<1>3. \A k \in here : k \in DOMAIN found /\ To(h, found[k]) = uid
  BY BuilderNames
<1>4. \A k \in DOMAIN found : To(h, found[k]) = uid => k \in here
  BY BuilderNames
<1> HIDE DEF here, lead
<1>5. CASE here = {}
  <2>1. lead = Absent
    BY <1>1, <1>5
  <2>2. ~\E e \in Held(found) : To(h, e) = uid
    BY <1>4, <1>5 DEF Held
  <2> QED
    BY <2>1, <2>2 DEF lead
<1>6. CASE here # {}
  <2>1. Builder!FirstOf(here) \in here
    BY <1>2, <1>6, FirstIs
  <2>2. lead = found[Builder!FirstOf(here)]
    BY <1>1, <1>6
  <2>3. lead \in Fitting /\ lead \in Held(found) /\ To(h, lead) = uid
    BY <1>2, <1>3, <2>1, <2>2 DEF Held
  <2> QED
    BY <2>3 DEF lead
<1> QED
  BY <1>5, <1>6

\* From an edge back, link by link.
Chains(f, hops, got, last, e) ==
    /\ f[last] = e
    /\ \A g \in 1..(last - 1) :
         f[g] = IF f[g + 1] = Absent THEN Absent
                ELSE Builder!Leading(hops[g], got[g].found, From(hops[g + 1], f[g + 1]))

\* The recursive function is there, and goes link by link.
LEMMA PathToIs ==
    ASSUME NEW hops, NEW got, NEW last \in Nat \ {0}, NEW e \in Fitting,
           \A g \in 1..last : got[g].found \in Seq(Fitting)
    PROVE  Chains(Builder!PathTo(hops, got, last, e), hops, got, last, e)
<1> DEFINE S == Fitting \cup {Absent}
           back(x, g) == IF x = Absent THEN Absent
                         ELSE Builder!Leading(hops[g], got[g].found, Builder!From(hops[g + 1], x))
           F(f) == [g \in 1..last |-> IF g = last THEN e ELSE back(f[g + 1], g)]
           n == last - 1
           step == [k \in 1..n |-> [x \in S |-> back(x, last - k)]]
<1>1. n \in Nat /\ e \in S
  OBVIOUS
<1>2. ASSUME NEW g \in 1..last, NEW x \in S PROVE back(x, g) \in S
  <2>1. got[g].found \in Seq(Fitting)
    OBVIOUS
  <2>2. Builder!Leading(hops[g], got[g].found, Builder!From(hops[g + 1], x)) \in S
    BY <2>1, LeadingIs
  <2> HIDE DEF S
  <2>3. Absent \in S
    BY DEF S
  <2> QED
    BY <2>2, <2>3
<1>3. \A k \in 1..n : step[k] \in [S -> S]
  <2>1. \A k \in 1..n : last - k \in 1..last
    OBVIOUS
  <2> HIDE DEF S, back
  <2> QED
    BY <1>2, <2>1
<1> HIDE DEF S, back
<1>4. PICK h \in [0..n -> S] : Goes(h, n, e, step)
  <2> HIDE DEF n, step
  <2> QED
    BY <1>1, <1>3, Recursion, Zenon
<1>5. h[0] = e /\ \A k \in 1..n : h[k] = back(h[k - 1], last - k)
  <2>1. h[0] = e
    BY <1>4 DEF Goes
  <2>2. ASSUME NEW k \in 1..n PROVE h[k] = back(h[k - 1], last - k)
    <3>1. k - 1 \in 0..n
      BY <1>1
    <3>2. h[k - 1] \in S /\ h[k] = step[k][h[k - 1]]
      BY <3>1, <1>4 DEF Goes
    <3> QED
      BY <3>2
  <2> QED
    BY <2>1, <2>2
<1> DEFINE f0 == [g \in 1..last |-> h[last - g]]
<1>6. f0 = F(f0)
  <2>1. ASSUME NEW g \in 1..last PROVE f0[g] = IF g = last THEN e ELSE back(f0[g + 1], g)
    <3>1. CASE g = last
      BY <1>5, <3>1
    <3>2. CASE g # last
      <4>1. /\ last - g \in 1..n /\ last - (last - g) = g /\ (last - g) - 1 = last - (g + 1)
            /\ g + 1 \in 1..last
        <5>1. last \in Int /\ g \in Int /\ 1 <= g /\ g <= last /\ g # last
          BY <3>2
        <5>2. /\ last - g \in Int /\ 1 <= last - g /\ last - g <= last - 1
              /\ g + 1 \in Int /\ 1 <= g + 1 /\ g + 1 <= last
          BY <5>1
        <5>3. last - (last - g) = g /\ (last - g) - 1 = last - (g + 1)
          BY <5>1
        <5>4. last - g \in 1..n /\ g + 1 \in 1..last
          BY <5>1, <5>2
        <5> QED
          BY <5>3, <5>4
      <4>2. h[last - g] = back(h[(last - g) - 1], last - (last - g))
        BY <1>5, <4>1
      <4>3. f0[g] = h[last - g] /\ f0[g + 1] = h[last - (g + 1)]
        BY <4>1
      <4> HIDE DEF f0, n
      <4> QED
        BY <3>2, <4>1, <4>2, <4>3
    <3> QED
      BY <3>1, <3>2
  <2>2. f0 = [g \in 1..last |-> f0[g]]
    OBVIOUS
  <2> HIDE DEF f0
  <2> QED
    BY <2>1, <2>2
<1> HIDE DEF f0
<1> DEFINE chain == CHOOSE f : f = F(f)
<1>7. chain = F(chain)
  <2> HIDE DEF F
  <2> QED
    BY <1>6
<1>8. Builder!PathTo(hops, got, last, e) = chain
  BY DEF Builder!PathTo, back
<1> HIDE DEF chain
<1>9. \A g \in 1..last : chain[g] = IF g = last THEN e ELSE back(chain[g + 1], g)
  BY <1>7
<1>10. chain[last] = e /\ \A g \in 1..(last - 1) : chain[g] = back(chain[g + 1], g)
  BY <1>9
<1>11. \A x, g : back(x, g) = IF x = Absent THEN Absent
                             ELSE Builder!Leading(hops[g], got[g].found, From(hops[g + 1], x))
  BY BuilderNames DEF back
<1> QED
  BY <1>8, <1>10, <1>11 DEF Chains

\* PathsLeadFromStart: backwards from the edge, each link has the one before.
LEMMA PathsHold == ASSUME Builder!TypeOK PROVE Builder!PathsLeadFromStart
<1> SUFFICES ASSUME NEW hops \in Routes, NEW m \in Allowances, NEW batch \in BatchSizes,
                    NEW last \in DOMAIN hops,
                    NEW e \in Builder!ToSet(Builder!Traverse(hops, m, batch)[last].found)
    PROVE  LET got == Builder!Traverse(hops, m, batch)
               path == Builder!PathTo(hops, got, last, e)
           IN  /\ \A g \in 1..last : path[g] # Absent /\ path[g] \in Builder!ToSet(got[g].found)
               /\ Builder!From(hops[1], path[1]) = First
               /\ \A g \in 1..(last - 1) : Builder!To(hops[g], path[g]) = Builder!From(hops[g + 1], path[g + 1])
  BY DEF Builder!PathsLeadFromStart
<1> DEFINE got == Builder!Traverse(hops, m, batch)
           n == Len(hops)
           path == Builder!PathTo(hops, got, last, e)
<1>1. Route(hops) /\ m \in Nat /\ batch \in Nat \ {0}
  BY BuilderConstants
<1>2. Travels(got, hops, m, batch)
  BY <1>1, TraverseIs
<1>3. e \in Held(got[last].found)
  BY BuilderNames
<1> HIDE DEF got
<1>4. n \in Nat \ {0} /\ DOMAIN hops = 1..n /\ last \in 1..n /\ \A d \in 1..n : hops[d].limit \in Nat
  BY <1>1 DEF Route
<1>5. \A d \in 0..n : got[d] \in Walking(m) /\ got[d].found \in Seq(Fitting)
  BY <1>2 DEF Travels, Walking
<1>6. ASSUME NEW d \in 1..n, NEW x \in Held(got[d].found)
      PROVE  /\ x \in Fitting /\ x # Absent /\ From(hops[d], x) \in Held(got[d - 1].sources)
             /\ d > 1 => \E y \in Held(got[d - 1].found) : To(hops[d - 1], y) = From(hops[d], x)
  <2>1. d - 1 \in 0..n /\ d \in 0..n /\ got[d] = Builder!Hop(got[d - 1], hops[d], m, batch)
    BY <1>2, <1>4 DEF Travels
  <2>2. got[d - 1] \in Walking(m) /\ hops[d].limit \in Nat /\ got[d].found \in Seq(Fitting)
    BY <1>4, <1>5, <2>1
  <2>3. \A z \in Held(got[d].found) : ~got[d - 1].truncated /\ From(hops[d], z) \in Held(got[d - 1].sources)
    BY <1>1, <2>1, <2>2, HopWalks
  <2>4. x \in Fitting
    BY <2>2 DEF Held
  <2>5. ASSUME d > 1 PROVE \E y \in Held(got[d - 1].found) : To(hops[d - 1], y) = From(hops[d], x)
    <3>1. d - 1 \in 1..n /\ (d - 1) - 1 \in 0..n
      BY <1>4, <2>5
    <3>2. /\ got[d - 1] = Builder!Hop(got[(d - 1) - 1], hops[d - 1], m, batch)
          /\ got[(d - 1) - 1] \in Walking(m) /\ hops[d - 1].limit \in Nat
      BY <1>2, <1>4, <1>5, <3>1 DEF Travels
    <3>3. ~got[d - 1].truncated => Leads(hops[d - 1], got[d - 1].found, got[d - 1].sources)
      BY <1>1, <3>2, HopWalks
    <3> QED
      BY <2>3, <3>3 DEF Leads
  <2> QED
    BY <2>3, <2>4, <2>5, EdgesKnown
<1>7. Chains(path, hops, got, last, e)
  <2>1. \A g \in 1..last : got[g].found \in Seq(Fitting)
    BY <1>4, <1>5
  <2>2. e \in Fitting
    BY <1>3, <1>4, <1>6
  <2>3. last \in Nat \ {0}
    BY <1>4
  <2> QED
    BY <2>1, <2>2, <2>3, PathToIs
<1> HIDE DEF path
<1>8. ASSUME NEW g \in 1..(last - 1), path[g + 1] \in Held(got[g + 1].found)
      PROVE  path[g] \in Held(got[g].found) /\ To(hops[g], path[g]) = From(hops[g + 1], path[g + 1])
  <2>1. g + 1 \in 1..n /\ (g + 1) - 1 = g /\ g + 1 > 1 /\ g \in 0..n
    BY <1>4
  <2>2. /\ path[g + 1] # Absent
        /\ \E y \in Held(got[g].found) : To(hops[g], y) = From(hops[g + 1], path[g + 1])
    BY <1>6, <1>8, <2>1
  <2>3. path[g] = Builder!Leading(hops[g], got[g].found, From(hops[g + 1], path[g + 1]))
    BY <1>7, <2>2 DEF Chains
  <2>4. got[g].found \in Seq(Fitting)
    BY <1>5, <2>1
  <2> QED
    BY <2>2, <2>3, <2>4, LeadingIs
<1> DEFINE T == {g \in 0..last : g = 0 \/ path[g] \in Held(got[g].found)}
<1>9. \A g \in 0..last : g \in T
  <2>1. last \in T /\ T \in SUBSET (0..last) /\ last \in Nat
    BY <1>3, <1>4, <1>7 DEF Chains
  <2>2. ASSUME NEW g \in 1..last, g \in T PROVE g - 1 \in T
    <3>1. CASE g = 1
      BY <1>4, <3>1
    <3>2. CASE g # 1
      <4>1. g - 1 \in 1..(last - 1) /\ (g - 1) + 1 = g /\ g - 1 \in 0..last
        BY <1>4, <3>2
      <4>2. path[g] \in Held(got[g].found)
        BY <2>2
      <4>3. path[g - 1] \in Held(got[g - 1].found)
        BY <1>8, <4>1, <4>2
      <4> QED
        BY <4>1, <4>3
    <3> QED
      BY <3>1, <3>2
  <2> HIDE DEF T
  <2> QED
    BY <2>1, <2>2, Backwards
<1>10. \A g \in 1..last : path[g] \in Held(got[g].found) /\ path[g] # Absent
  <2>1. \A g \in 1..last : g \in 0..last /\ g # 0 /\ g \in 1..n
    BY <1>4
  <2> QED
    BY <1>6, <1>9, <2>1
<1>11. From(hops[1], path[1]) = First
  <2>1. 1 \in 1..last /\ 1 \in 1..n /\ 1 - 1 = 0
    BY <1>4
  <2>2. From(hops[1], path[1]) \in Held(got[0].sources)
    BY <1>6, <1>10, <2>1
  <2>3. got[0].sources = <<First>>
    BY <1>2 DEF Travels
  <2> QED
    BY <2>2, <2>3 DEF Held
<1>12. \A g \in 1..(last - 1) : To(hops[g], path[g]) = From(hops[g + 1], path[g + 1])
  <2>1. \A g \in 1..(last - 1) : g + 1 \in 1..last
    BY <1>4
  <2> QED
    BY <1>8, <1>10, <2>1
<1> QED
  BY <1>10, <1>11, <1>12, BuilderNames DEF got, path

\* The types of a registry.
TypesOf(start) == {start, Absent} \cup {schema[i].a : i \in DOMAIN schema} \cup {schema[i].b : i \in DOMAIN schema}

\* A registry has finitely many edge types.
LEMMA SchemaIs ==
    ASSUME Builder!TypeOK
    PROVE  IsFiniteSet(DOMAIN schema) /\ DOMAIN schema \in SUBSET Nat
<1>1. schema \in Schemas
  BY DEF Builder!TypeOK
<1>2. schema \in Seq({schema[i] : i \in DOMAIN schema})
  BY <1>1, PartsAssumption DEF Builder!EditorAssumption
<1> DEFINE T == {schema[i] : i \in DOMAIN schema}
<1> HIDE DEF T
<1>3. schema \in Seq(T)
  BY <1>2 DEF T
<1>4. Len(schema) \in Nat /\ DOMAIN schema = 1..Len(schema)
  BY <1>3
<1>5. IsFiniteSet(1..Len(schema))
  BY <1>4, FS_Interval
<1> QED
  BY <1>4, <1>5

\* What is inferred is a type of the registry, or unknown.
LEMMA InferredType ==
    ASSUME Builder!TypeOK, NEW h, NEW start, NEW type \in TypesOf(start)
    PROVE  Builder!Inferred(h, type) \in TypesOf(start)
<1> DEFINE matching == {i \in DOMAIN schema : schema[i].axb = h.axb}
           fitting == {i \in matching : Builder!From(h, schema[i]) = type}
<1>1. Builder!Inferred(h, type) =
        IF type # Absent
          THEN IF fitting = {} THEN Absent ELSE Builder!To(h, schema[Builder!FirstOf(fitting)])
          ELSE IF Builder!Cardinality(matching) = 1 THEN Builder!To(h, schema[Builder!FirstOf(matching)]) ELSE Absent
  BY DEF Builder!Inferred
<1>2. \A i \in DOMAIN schema : Builder!To(h, schema[i]) \in TypesOf(start)
  BY DEF Builder!To, TypesOf
<1>3. Absent \in TypesOf(start)
  BY DEF TypesOf
<1>4. DOMAIN schema \in SUBSET Nat /\ matching \in SUBSET DOMAIN schema /\ fitting \in SUBSET DOMAIN schema
  BY SchemaIs
<1>5. fitting # {} => Builder!FirstOf(fitting) \in DOMAIN schema
  <2> HIDE DEF fitting
  <2> QED
    BY <1>4, FirstIs
<1>6. Builder!Cardinality(matching) = 1 => Builder!FirstOf(matching) \in DOMAIN schema
  <2>1. Builder!Cardinality(matching) = 1 => matching # {}
    <3>1. Cardinality({}) = 0 /\ Builder!Cardinality({}) = Cardinality({})
      BY FS_EmptySet, BuilderNames
    <3> HIDE DEF matching
    <3> SUFFICES ASSUME matching = {} PROVE Builder!Cardinality(matching) # 1
      OBVIOUS
    <3>2. Builder!Cardinality(matching) = 0
      BY <3>1
    <3> QED
      BY <3>2
  <2> HIDE DEF matching
  <2> QED
    BY <1>4, <2>1, FirstIs
<1> HIDE DEF matching, fitting
<1> QED
  BY <1>1, <1>2, <1>3, <1>5, <1>6

\* The inferred type before a hop carries over to the ends of its edges.
LEMMA InferredIs ==
    ASSUME Builder!TypeOK, Builder!Unambiguous, NEW h, NEW e \in Fitting, e.axb = h.axb,
           NEW type \in {Absent, TypeOf[From(h, e)]}
    PROVE  Builder!Inferred(h, type) \in {Absent, TypeOf[To(h, e)]}
<1> DEFINE matching == {i \in DOMAIN schema : schema[i].axb = h.axb}
           fitting == {i \in matching : Builder!From(h, schema[i]) = type}
<1>1. Builder!Inferred(h, type) =
        IF type # Absent
          THEN IF fitting = {} THEN Absent ELSE Builder!To(h, schema[Builder!FirstOf(fitting)])
          ELSE IF Builder!Cardinality(matching) = 1 THEN Builder!To(h, schema[Builder!FirstOf(matching)]) ELSE Absent
  BY DEF Builder!Inferred
<1>2. PICK i \in DOMAIN schema : schema[i] = Builder!Edge(TypeOf[e.a], e.axb, TypeOf[e.b])
  BY DEF Fitting, Builder!Fits
<1>3. schema[i].a = TypeOf[e.a] /\ schema[i].axb = h.axb /\ schema[i].b = TypeOf[e.b]
  BY <1>2 DEF Builder!Edge
<1>4. From(h, schema[i]) = TypeOf[From(h, e)] /\ To(h, schema[i]) = TypeOf[To(h, e)]
  BY <1>3 DEF From, To
<1>5. i \in matching /\ DOMAIN schema \in SUBSET Nat /\ matching \in SUBSET Nat /\ fitting \in SUBSET Nat
  BY <1>3, SchemaIs
<1>6. CASE type # Absent
  <2>1. i \in fitting
    BY <1>4, <1>5, <1>6, BuilderNames
  <2>2. \A j \in fitting : j = i
    <3> SUFFICES ASSUME NEW j \in fitting, j # i PROVE FALSE
      OBVIOUS
    <3>1. j \in DOMAIN schema /\ schema[j].axb = schema[i].axb /\ From(h, schema[j]) = From(h, schema[i])
      BY <1>3, <2>1, BuilderNames
    <3>2. schema[i].a # schema[j].a /\ schema[i].b # schema[j].b
      BY <3>1 DEF Builder!Unambiguous
    <3> QED
      BY <3>1, <3>2 DEF From
  <2>3. Builder!FirstOf(fitting) \in fitting
    <3> HIDE DEF fitting
    <3> QED
      BY <1>5, <2>1, FirstIs
  <2>4. Builder!Inferred(h, type) = Builder!To(h, schema[i])
    <3> HIDE DEF fitting
    <3> QED
      BY <1>1, <1>6, <2>1, <2>2, <2>3
  <2> QED
    BY <1>4, <2>4, BuilderNames
<1>7. CASE type = Absent /\ Builder!Cardinality(matching) = 1
  <2>1. IsFiniteSet(matching)
    BY SchemaIs, FS_Subset
  <2>2. Cardinality(matching) = 1
    BY <1>7, BuilderNames
  <2>3. \E x : matching = {x}
    <3> HIDE DEF matching
    <3> QED
      BY <2>1, <2>2, FS_Singleton
  <2>4. Builder!FirstOf(matching) = i
    <3> HIDE DEF matching
    <3>1. Builder!FirstOf(matching) \in matching
      BY <1>5, FirstIs
    <3> QED
      BY <1>5, <2>3, <3>1
  <2>5. Builder!Inferred(h, type) = Builder!To(h, schema[i])
    <3> HIDE DEF matching, fitting
    <3> QED
      BY <1>1, <1>7, <2>4
  <2> QED
    BY <1>4, <2>5, BuilderNames
<1>8. CASE type = Absent /\ Builder!Cardinality(matching) # 1
  BY <1>1, <1>8
<1> QED
  BY <1>6, <1>7, <1>8

\* The recursive function is there, and goes hop by hop.
LEMMA TypeFlowIs ==
    ASSUME Builder!TypeOK, NEW hops, Route(hops), NEW start
    PROVE  LET flow == Builder!TypeFlow(hops, start)
           IN  flow[0] = start /\ \A d \in 1..Len(hops) : flow[d] = Builder!Inferred(hops[d], flow[d - 1])
<1> DEFINE n == Len(hops)
           S == TypesOf(start)
           step == [d \in 1..n |-> [type \in S |-> Builder!Inferred(hops[d], type)]]
           F(g) == [d \in 0..Len(hops) |-> IF d = 0 THEN start ELSE Builder!Inferred(hops[d], g[d - 1])]
<1>1. n \in Nat
  BY DEF Route
<1>2. start \in S
  BY DEF TypesOf
<1>3. \A d \in 1..n : step[d] \in [S -> S]
  BY InferredType
<1> HIDE DEF S
<1>4. PICK g \in [0..n -> S] : Goes(g, n, start, step)
  <2> HIDE DEF n, step
  <2> QED
    BY <1>1, <1>2, <1>3, Recursion, Zenon
<1>5. g[0] = start /\ \A d \in 1..n : g[d] = Builder!Inferred(hops[d], g[d - 1])
  <2>1. g[0] = start
    BY <1>4 DEF Goes
  <2>2. ASSUME NEW d \in 1..n PROVE g[d] = Builder!Inferred(hops[d], g[d - 1])
    <3>1. d - 1 \in 0..n
      BY <1>1
    <3>2. g[d - 1] \in S /\ g[d] = step[d][g[d - 1]]
      BY <3>1, <1>4 DEF Goes
    <3> QED
      BY <3>2
  <2> QED
    BY <2>1, <2>2
<1> HIDE DEF step
<1>6. g = F(g)
  <2>1. \A d \in 0..n : g[d] = IF d = 0 THEN start ELSE Builder!Inferred(hops[d], g[d - 1])
    BY <1>1, <1>5
  <2>2. g = [d \in 0..n |-> g[d]]
    OBVIOUS
  <2> QED
    BY <2>1, <2>2
<1> DEFINE flow == CHOOSE f : f = F(f)
<1>7. flow = F(flow)
  <2> HIDE DEF F
  <2> QED
    BY <1>6
<1>8. Builder!TypeFlow(hops, start) = flow
  BY DEF Builder!TypeFlow
<1> HIDE DEF flow
<1>9. \A d \in 0..n : flow[d] = IF d = 0 THEN start ELSE Builder!Inferred(hops[d], flow[d - 1])
  BY <1>7
<1>10. flow[0] = start /\ \A d \in 1..n : flow[d] = Builder!Inferred(hops[d], flow[d - 1])
  BY <1>1, <1>9
<1> QED
  BY <1>8, <1>10

\* TypesAreInferred: along the hops, from the type of the start.
LEMMA TypesHold == ASSUME Builder!TypeOK PROVE Builder!TypesAreInferred
<1> SUFFICES ASSUME Builder!Unambiguous, NEW hops \in Routes, NEW start \in {TypeOf[First], Absent},
                    NEW last \in DOMAIN hops, NEW x \in Builder!ToSet(Builder!Unlimited(hops)[last].found)
    PROVE  Builder!TypeFlow(hops, start)[last] \in {Absent, TypeOf[Builder!To(hops[last], x)]}
  BY DEF Builder!TypesAreInferred
<1> DEFINE walk == Builder!Unlimited(hops)
           flow == Builder!TypeFlow(hops, start)
           n == Len(hops)
<1>1. Route(hops)
  BY BuilderConstants
<1>2. Roams(walk, hops)
  BY <1>1, UnlimitedIs
<1>3. flow[0] = start /\ \A d \in 1..n : flow[d] = Builder!Inferred(hops[d], flow[d - 1])
  BY <1>1, TypeFlowIs
<1> HIDE DEF walk, flow
<1>4. n \in Nat \ {0} /\ DOMAIN hops = 1..n /\ \A d \in 1..n : hops[d].limit \in Nat
  BY <1>1 DEF Route
<1>5. \A d \in 0..n : walk[d].sources \in Seq(Nodes) /\ walk[d].found \in Seq(Fitting)
  BY <1>2 DEF Roams, Unbounded
<1> DEFINE typed(d) == \A u \in Held(walk[d].sources) : flow[d] \in {Absent, TypeOf[u]}
<1>6. ASSUME NEW d \in 1..n, typed(d - 1), NEW e \in Held(walk[d].found)
      PROVE  flow[d] \in {Absent, TypeOf[To(hops[d], e)]}
  <2>1. d - 1 \in 0..n /\ d \in 0..n
    BY <1>4
  <2>2. /\ walk[d].found = Builder!Found(hops[d], walk[d - 1].sources)
        /\ walk[d - 1].sources \in Seq(Nodes) /\ walk[d].found \in Seq(Fitting) /\ hops[d].limit \in Nat
    BY <1>2, <1>4, <1>5, <2>1 DEF Roams
  <2>3. e.axb = hops[d].axb /\ From(hops[d], e) \in Held(walk[d - 1].sources)
    BY <2>2, HopFinds
  <2>4. flow[d - 1] \in {Absent, TypeOf[From(hops[d], e)]}
    BY <1>6, <2>3
  <2>5. e \in Fitting
    BY <2>2 DEF Held
  <2>6. Builder!Inferred(hops[d], flow[d - 1]) \in {Absent, TypeOf[To(hops[d], e)]}
    <3> HIDE DEF typed
    <3> QED
      BY <2>3, <2>4, <2>5, InferredIs
  <2> QED
    BY <1>3, <2>6
<1>7. \A d \in 0..n : typed(d)
  <2> DEFINE I == {d \in Nat : d <= n => typed(d)}
  <2>1. 0 \in I
    <3>1. walk[0].sources = <<First>>
      BY <1>2 DEF Roams
    <3>2. Held(walk[0].sources) = {First}
      BY <3>1 DEF Held
    <3> QED
      BY <1>3, <3>2
  <2>2. ASSUME NEW d \in I PROVE d + 1 \in I
    <3> SUFFICES ASSUME d + 1 <= n PROVE typed(d + 1)
      OBVIOUS
    <3>1. d + 1 \in 1..n /\ d + 1 \in 0..n /\ (d + 1) - 1 = d /\ typed(d)
      BY <1>4
    <3>2. ASSUME NEW u \in Held(walk[d + 1].sources) PROVE flow[d + 1] \in {Absent, TypeOf[u]}
      <4>1. /\ walk[d + 1].sources = Builder!NextSources(hops[d + 1], walk[d + 1].found)
            /\ walk[d + 1].found \in Seq(Fitting)
        BY <1>2, <1>5, <3>1 DEF Roams
      <4>2. PICK e \in Held(walk[d + 1].found) : To(hops[d + 1], e) = u
        BY <4>1, NextOnes
      <4>3. typed((d + 1) - 1)
        BY <3>1
      <4>4. flow[d + 1] \in {Absent, TypeOf[To(hops[d + 1], e)]}
        <5> HIDE DEF typed
        <5> QED
          BY <1>6, <3>1, <4>3
      <4> QED
        BY <4>2, <4>4
    <3> QED
      BY <3>2
  <2>3. I \in SUBSET Nat
    OBVIOUS
  <2>4. I = Nat
    <3> HIDE DEF I
    <3> QED
      BY <2>1, <2>2, <2>3, Induction
  <2>5. ASSUME NEW d \in 0..n PROVE typed(d)
    <3> HIDE DEF typed
    <3>1. d \in I /\ d <= n
      BY <1>4, <2>4
    <3> QED
      BY <3>1
  <2> QED
    BY <2>5
<1>8. last \in 1..n /\ last - 1 \in 0..n /\ x \in Held(walk[last].found)
  BY <1>4, BuilderNames DEF walk
<1>9. flow[last] \in {Absent, TypeOf[To(hops[last], x)]}
  <2> HIDE DEF typed
  <2> QED
    BY <1>6, <1>7, <1>8
<1> QED
  BY <1>9, BuilderNames DEF flow

\* No edges at first.
LEMMA BuilderStarts == ASSUME Builder!Init PROVE Builder!TypeOK
BY DEF Builder!Init, Builder!TypeOK

\* Edges come and go as the registry admits.
LEMMA BuilderKeeps ==
    ASSUME Builder!TypeOK, Builder!Next \/ UNCHANGED builderVars
    PROVE  Builder!TypeOK'
<1>1. schema \in Schemas /\ stock \in Seq(Fitting)
  BY DEF Builder!TypeOK, Fitting
<1>2. CASE UNCHANGED builderVars
  BY <1>1, <1>2 DEF builderVars, Builder!TypeOK, Fitting, Builder!Admitted, Builder!Fits
<1>3. ASSUME UNCHANGED schema, stock' \in Seq(Fitting) PROVE Builder!TypeOK'
  <2>1. Fitting' = Fitting
    BY <1>3 DEF Fitting, Builder!Admitted, Builder!Fits
  <2>2. schema' \in Schemas /\ stock' \in Seq(Fitting')
    BY <1>1, <1>3, <2>1
  <2> QED
    BY <2>2 DEF Builder!TypeOK, Fitting
<1>4. CASE Builder!Put
  <2>1. PICK e \in Builder!Admitted : Builder!Fits(e) /\ stock' = Append(stock, e)
    BY <1>4 DEF Builder!Put
  <2>2. e \in Fitting
    BY <2>1 DEF Fitting
  <2>3. stock' \in Seq(Fitting)
    BY <1>1, <2>1, <2>2
  <2> QED
    BY <1>3, <1>4, <2>3 DEF Builder!Put
<1>5. CASE Builder!Delete
  <2>1. PICK k \in DOMAIN stock : stock' = Builder!RemoveAt(stock, k) /\ UNCHANGED schema
    BY <1>5 DEF Builder!Delete
  <2>2. stock' = SubSeq(stock, 1, k - 1) \o SubSeq(stock, k + 1, Len(stock))
    BY <2>1 DEF Builder!RemoveAt
  <2>3. SubSeq(stock, 1, k - 1) \in Seq(Fitting)
    BY <1>1
  <2>4. SubSeq(stock, k + 1, Len(stock)) \in Seq(Fitting)
    BY <1>1
  <2>5. stock' \in Seq(Fitting)
    BY <2>2, <2>3, <2>4
  <2> QED
    BY <1>3, <2>1, <2>5
<1> QED
  BY <1>2, <1>4, <1>5 DEF Builder!Next

-----------------------------------------------------------------------------
(* The lanes of a page (EditorDrill).                                       *)

LaneSet == [id : Nat, frames : Seq(Nodes)]

\* Lanes with ids of their own, up to c, that start at r.
Whole(ls, c, r) ==
    /\ ls \in Seq(LaneSet) /\ ls # << >> /\ c \in Nat /\ r \in Nodes
    /\ \A i \in DOMAIN ls : ls[i].id \in 1..c /\ ls[i].frames # << >> /\ ls[i].frames[1] = r
    /\ \A i, j \in DOMAIN ls : ls[i].id = ls[j].id => i = j

Ids(ls) == {ls[i].id : i \in DOMAIN ls}
LaneAt(ls, id) == IF id \in Ids(ls) THEN ls[CHOOSE i \in DOMAIN ls : ls[i].id = id] ELSE ls[1]

\* A preview is the last frame of a lane that holds it once.
Previewed(ls, p) ==
    \A i \in DOMAIN ls : ls[i].id = p =>
        /\ Len(ls[i].frames) > 1
        /\ \A j \in 1..(Len(ls[i].frames) - 1) : ls[i].frames[j] # ls[i].frames[Len(ls[i].frames)]

DrillInv ==
    /\ Whole(lanes, counter, page)
    /\ current \in 1..counter /\ preview \in {Absent} \cup (1..counter) /\ astray \in BOOLEAN
    /\ preview # Absent => Previewed(lanes, preview)
    /\ peek \in {Absent} \cup [lane : 1..counter, index : Nat]
    /\ ~astray => /\ current \in Ids(lanes)
                  /\ preview # Absent => preview \in Ids(lanes)
                  /\ peek # Absent => /\ peek.lane \in Ids(lanes)
                                      /\ peek.index \in DOMAIN LaneAt(lanes, peek.lane).frames

\* A lane is found by its id.
LEMMA LaneAtIs ==
    ASSUME NEW ls, NEW c, NEW r, Whole(ls, c, r)
    PROVE  /\ DOMAIN ls = 1..Len(ls) /\ Len(ls) \in Nat /\ 1 \in DOMAIN ls
           /\ \A i \in DOMAIN ls : /\ ls[i] \in LaneSet /\ ls[i].frames \in Seq(Nodes)
                                   /\ DOMAIN ls[i].frames = 1..Len(ls[i].frames)
                                   /\ Len(ls[i].frames) \in Nat /\ Len(ls[i].frames) > 0
           /\ \A i \in DOMAIN ls : LaneAt(ls, ls[i].id) = ls[i] /\ ls[i].id \in Ids(ls)
           /\ \A id : \E i \in DOMAIN ls : LaneAt(ls, id) = ls[i] /\ (id \in Ids(ls) => ls[i].id = id)
<1>1. DOMAIN ls = 1..Len(ls) /\ Len(ls) \in Nat /\ 1 \in DOMAIN ls /\ \A i \in DOMAIN ls : ls[i] \in LaneSet
  BY DEF Whole
<1>2. ASSUME NEW i \in DOMAIN ls
      PROVE  /\ ls[i].frames \in Seq(Nodes) /\ DOMAIN ls[i].frames = 1..Len(ls[i].frames)
             /\ Len(ls[i].frames) \in Nat /\ Len(ls[i].frames) > 0
  <2>1. ls[i].frames \in Seq(Nodes) /\ ls[i].frames # << >>
    BY <1>1 DEF Whole, LaneSet
  <2> QED
    BY <2>1
<1>3. ASSUME NEW i \in DOMAIN ls PROVE LaneAt(ls, ls[i].id) = ls[i] /\ ls[i].id \in Ids(ls)
  BY DEF LaneAt, Ids, Whole
<1>4. ASSUME NEW id PROVE \E i \in DOMAIN ls : LaneAt(ls, id) = ls[i] /\ (id \in Ids(ls) => ls[i].id = id)
  <2>1. CASE id \in Ids(ls)
    <3>1. PICK i \in DOMAIN ls : ls[i].id = id
      BY <2>1 DEF Ids
    <3> QED
      BY <1>3, <3>1
  <2>2. CASE id \notin Ids(ls)
    BY <1>1, <2>2 DEF LaneAt
  <2> QED
    BY <2>1, <2>2
<1> QED
  BY <1>1, <1>2, <1>3, <1>4

\* The names of EditorDrill.
LEMMA DrillNames ==
    /\ Drill!LaneIds = Ids(lanes) /\ Drill!LaneIds' = Ids(lanes')
    /\ \A id : Drill!LaneOf(id) = LaneAt(lanes, id)
    /\ Drill!LaneOf(current)' = LaneAt(lanes', current')
BY DEF Drill!LaneIds, Drill!LaneOf, Ids, LaneAt

\* Lanes that keep their ids and get other frames.
LEMMA WithFrames ==
    ASSUME NEW ls, NEW c, NEW r, Whole(ls, c, r), NEW fs,
           \A i \in DOMAIN ls : fs[i] \in Seq(Nodes) /\ fs[i] # << >> /\ fs[i][1] = r,
           NEW new, new = [i \in DOMAIN ls |-> [ls[i] EXCEPT !.frames = fs[i]]]
    PROVE  /\ Whole(new, c, r) /\ DOMAIN new = DOMAIN ls /\ Ids(new) = Ids(ls) /\ Len(new) = Len(ls)
           /\ \A i \in DOMAIN ls : new[i].id = ls[i].id /\ new[i].frames = fs[i]
<1>1. DOMAIN ls = 1..Len(ls) /\ Len(ls) \in Nat /\ 1 \in DOMAIN ls /\ \A i \in DOMAIN ls : ls[i] \in LaneSet
  BY LaneAtIs
<1>2. \A i \in DOMAIN ls : new[i] \in LaneSet /\ new[i].id = ls[i].id /\ new[i].frames = fs[i]
  BY <1>1 DEF LaneSet
<1>3. DOMAIN new = DOMAIN ls /\ new = [i \in 1..Len(ls) |-> new[i]]
  BY <1>1
<1>4. new \in Seq(LaneSet) /\ Len(new) = Len(ls) /\ new # << >>
  BY <1>1, <1>2, <1>3
<1>5. Ids(new) = Ids(ls)
  BY <1>2, <1>3 DEF Ids
<1>6. /\ \A i \in DOMAIN new : new[i].id \in 1..c /\ new[i].frames # << >> /\ new[i].frames[1] = r
      /\ \A i, j \in DOMAIN new : new[i].id = new[j].id => i = j
  BY <1>2, <1>3 DEF Whole
<1>7. c \in Nat /\ r \in Nodes
  BY DEF Whole
<1>8. Whole(new, c, r)
  BY <1>4, <1>6, <1>7 DEF Whole
<1> QED
  BY <1>2, <1>3, <1>4, <1>5, <1>8

\* A lane more.
LEMMA WithLane ==
    ASSUME NEW ls, NEW c, NEW r, Whole(ls, c, r), NEW frames \in Seq(Nodes), frames # << >>, frames[1] = r
    PROVE  LET new == Append(ls, Drill!Lane(c + 1, frames))
           IN  /\ Whole(new, c + 1, r) /\ DOMAIN new = DOMAIN ls \cup {Len(ls) + 1}
               /\ Ids(new) = Ids(ls) \cup {c + 1}
               /\ \A i \in DOMAIN ls : new[i] = ls[i]
               /\ LaneAt(new, c + 1).frames = frames
<1> DEFINE lane == Drill!Lane(c + 1, frames)
           new == Append(ls, lane)
           n == Len(ls) + 1
<1>1. DOMAIN ls = 1..Len(ls) /\ Len(ls) \in Nat /\ ls \in Seq(LaneSet) /\ c \in Nat
  BY LaneAtIs DEF Whole
<1>2. lane \in LaneSet /\ lane.id = c + 1 /\ lane.frames = frames
  BY <1>1 DEF Drill!Lane, LaneSet
<1> HIDE DEF lane
<1>3. /\ new \in Seq(LaneSet) /\ new # << >> /\ DOMAIN new = 1..n /\ new[n] = lane
      /\ \A i \in DOMAIN ls : new[i] = ls[i]
  <2>1. new \in Seq(LaneSet) /\ Len(new) = n
    BY <1>1, <1>2
  <2>2. DOMAIN new = 1..n /\ new[n] = lane /\ \A i \in 1..Len(ls) : new[i] = ls[i]
    BY <1>1, <1>2
  <2>3. 1 \in DOMAIN new
    BY <1>1, <2>2
  <2> QED
    BY <1>1, <2>1, <2>2, <2>3
<1>4. DOMAIN new = DOMAIN ls \cup {n} /\ n \notin DOMAIN ls
  BY <1>1, <1>3
<1> HIDE DEF new, n
<1>5. \A i \in DOMAIN ls : ls[i].id \in 1..c /\ ls[i].id # c + 1 /\ ls[i].id \in 1..(c + 1)
  BY <1>1 DEF Whole
<1>6. Ids(new) = Ids(ls) \cup {c + 1}
  <2>1. \A x \in Ids(new) : x \in Ids(ls) \cup {c + 1}
    BY <1>2, <1>3, <1>4 DEF Ids
  <2>2. \A x \in Ids(ls) : x \in Ids(new)
    BY <1>3, <1>4 DEF Ids
  <2>3. c + 1 \in Ids(new)
    BY <1>2, <1>3, <1>4 DEF Ids
  <2> QED
    BY <2>1, <2>2, <2>3
<1>7. Whole(new, c + 1, r)
  <2>1. c + 1 \in Nat /\ c + 1 \in 1..(c + 1) /\ r \in Nodes
    BY <1>1 DEF Whole
  <2>2. \A i \in DOMAIN new : new[i].id \in 1..(c + 1) /\ new[i].frames # << >> /\ new[i].frames[1] = r
    BY <1>2, <1>3, <1>4, <1>5, <2>1 DEF Whole
  <2>3. \A i, j \in DOMAIN new : new[i].id = new[j].id => i = j
    BY <1>2, <1>3, <1>4, <1>5 DEF Whole
  <2> QED
    BY <1>3, <2>1, <2>2, <2>3 DEF Whole
<1>8. LaneAt(new, c + 1) = lane
  <2>1. n \in DOMAIN new /\ new[n].id = c + 1
    BY <1>2, <1>3, <1>4
  <2>2. \A i \in DOMAIN new : LaneAt(new, new[i].id) = new[i]
    BY <1>7, LaneAtIs
  <2> QED
    BY <1>3, <2>1, <2>2
<1> QED
  BY <1>2, <1>3, <1>4, <1>6, <1>7, <1>8 DEF new, lane, n

\* A lane less, of several.
LEMMA WithoutLane ==
    ASSUME NEW ls, NEW c, NEW r, Whole(ls, c, r), Len(ls) > 1, NEW k \in DOMAIN ls
    PROVE  LET new == Drill!RemoveAt(ls, k)
           IN  /\ Whole(new, c, r) /\ Ids(new) = Ids(ls) \ {ls[k].id} /\ 1 \in DOMAIN new
               /\ \A i \in DOMAIN new : \E j \in DOMAIN ls : j # k /\ new[i] = ls[j]
<1> DEFINE new == Drill!RemoveAt(ls, k)
           n == Len(ls) - 1
           from(i) == IF i < k THEN i ELSE i + 1
<1>1. DOMAIN ls = 1..Len(ls) /\ Len(ls) \in Nat /\ ls \in Seq(LaneSet) /\ k \in Nat /\ k \in 1..Len(ls)
  BY LaneAtIs DEF Whole
<1>2. /\ new \in Seq(LaneSet) /\ Len(new) = n /\ DOMAIN new = 1..n
      /\ \A i \in 1..n : new[i] = ls[from(i)]
  <2> DEFINE s == SubSeq(ls, 1, k - 1)
             t == SubSeq(ls, k + 1, Len(ls))
  <2>1. /\ s \in Seq(LaneSet) /\ Len(s) = k - 1 /\ \A i \in 1..(k - 1) : s[i] = ls[i]
        /\ t \in Seq(LaneSet) /\ Len(t) = Len(ls) - k /\ \A i \in 1..(Len(ls) - k) : t[i] = ls[k + i]
    <3>1. s \in Seq(LaneSet) /\ Len(s) = k - 1
      BY <1>1
    <3>2. \A i \in 1..(k - 1) : s[i] = ls[i]
      BY <1>1
    <3>3. t \in Seq(LaneSet) /\ Len(t) = Len(ls) - k
      BY <1>1
    <3>4. \A i \in 1..(Len(ls) - k) : t[i] = ls[k + i]
      BY <1>1
    <3> HIDE DEF s, t
    <3> QED
      BY <3>1, <3>2, <3>3, <3>4
  <2>2. new = s \o t
    BY DEF Drill!RemoveAt
  <2> HIDE DEF s, t, new
  <2>3. new \in Seq(LaneSet) /\ Len(new) = n /\ DOMAIN new = 1..n
    <3>1. new \in Seq(LaneSet) /\ Len(new) = Len(s) + Len(t)
      BY <2>1, <2>2
    <3>2. Len(s) + Len(t) = n
      BY <1>1, <2>1
    <3> QED
      BY <3>1, <3>2
  <2>4. \A i \in 1..n : new[i] = IF i <= k - 1 THEN s[i] ELSE t[i - (k - 1)]
    BY <1>1, <2>1, <2>2
  <2>5. ASSUME NEW i \in 1..n PROVE new[i] = ls[from(i)]
    <3>1. CASE i < k
      BY <1>1, <2>1, <2>4, <3>1
    <3>2. CASE i >= k
      <4>1. i - (k - 1) \in 1..(Len(ls) - k) /\ k + (i - (k - 1)) = i + 1 /\ ~(i <= k - 1)
        BY <1>1, <3>2
      <4>2. new[i] = t[i - (k - 1)]
        BY <2>4, <4>1
      <4>3. t[i - (k - 1)] = ls[k + (i - (k - 1))]
        <5> DEFINE at == i - (k - 1)
        <5> HIDE DEF at
        <5>1. at \in 1..(Len(ls) - k)
          BY <4>1 DEF at
        <5>2. t[at] = ls[k + at]
          BY <2>1, <5>1
        <5> QED
          BY <5>2 DEF at
      <4>4. ls[k + (i - (k - 1))] = ls[i + 1]
        BY <4>1
      <4>5. from(i) = i + 1
        BY <1>1, <3>2
      <4> QED
        BY <4>2, <4>3, <4>4, <4>5
    <3> QED
      BY <1>1, <3>1, <3>2
  <2> QED
    BY <2>3, <2>5
<1> HIDE DEF new
<1>3. /\ \A i \in 1..n : from(i) \in DOMAIN ls /\ from(i) # k
      /\ \A i, j \in 1..n : from(i) = from(j) => i = j
      /\ \A j \in DOMAIN ls : j # k => \E i \in 1..n : from(i) = j
  <2>1. /\ \A i \in 1..n : from(i) \in DOMAIN ls /\ from(i) # k
        /\ \A i, j \in 1..n : from(i) = from(j) => i = j
    BY <1>1
  <2>2. ASSUME NEW j \in DOMAIN ls, j # k PROVE \E i \in 1..n : from(i) = j
    <3>1. CASE j < k
      BY <1>1, <3>1
    <3>2. CASE j > k
      <4>1. j - 1 \in 1..n /\ from(j - 1) = j
        BY <1>1, <3>2
      <4> QED
        BY <4>1
    <3> QED
      BY <1>1, <2>2, <3>1, <3>2
  <2> QED
    BY <2>1, <2>2
<1>4. n \in Nat /\ 1 \in 1..n
  BY <1>1
<1>5. Whole(new, c, r)
  <2> HIDE DEF from
  <2>1. new # << >>
    BY <1>2, <1>4
  <2>2. ASSUME NEW i \in 1..n PROVE new[i].id \in 1..c /\ new[i].frames # << >> /\ new[i].frames[1] = r
    <3>1. new[i] = ls[from(i)] /\ from(i) \in DOMAIN ls
      BY <1>2, <1>3
    <3> QED
      BY <3>1 DEF Whole
  <2>3. ASSUME NEW i \in 1..n, NEW j \in 1..n, new[i].id = new[j].id PROVE i = j
    <3>1. new[i] = ls[from(i)] /\ from(i) \in DOMAIN ls /\ new[j] = ls[from(j)] /\ from(j) \in DOMAIN ls
      BY <1>2, <1>3
    <3>2. from(i) = from(j)
      BY <2>3, <3>1 DEF Whole
    <3> QED
      BY <1>3, <3>2
  <2>4. c \in Nat /\ r \in Nodes
    BY DEF Whole
  <2> QED
    BY <1>2, <2>1, <2>2, <2>3, <2>4 DEF Whole
<1>6. Ids(new) = Ids(ls) \ {ls[k].id}
  <2> HIDE DEF from
  <2>1. \A x \in Ids(new) : x \in Ids(ls) /\ x # ls[k].id
    <3> SUFFICES ASSUME NEW i \in 1..n PROVE new[i].id \in Ids(ls) /\ new[i].id # ls[k].id
      BY <1>2 DEF Ids
    <3>1. from(i) \in DOMAIN ls /\ from(i) # k /\ new[i] = ls[from(i)]
      BY <1>2, <1>3
    <3> QED
      BY <3>1 DEF Ids, Whole
  <2>2. ASSUME NEW x \in Ids(ls), x # ls[k].id PROVE x \in Ids(new)
    <3>1. PICK j \in DOMAIN ls : ls[j].id = x
      BY DEF Ids
    <3>2. PICK i \in 1..n : from(i) = j
      BY <1>3, <2>2, <3>1
    <3> QED
      BY <1>2, <3>1, <3>2 DEF Ids
  <2> QED
    BY <2>1, <2>2
<1>7. \A i \in DOMAIN new : \E j \in DOMAIN ls : j # k /\ new[i] = ls[j]
  <2> HIDE DEF from
  <2> QED
    BY <1>2, <1>3
<1> QED
  BY <1>2, <1>4, <1>5, <1>6, <1>7 DEF new

\* What the page's node is to all lanes, and the lane on display.
LEMMA VisualIs ==
    ASSUME DrillInv
    PROVE  /\ \E i \in DOMAIN lanes :
                /\ LaneAt(lanes, Drill!VisualId) = lanes[i] /\ Drill!VisualFrames = lanes[i].frames
                /\ Drill!VisualId \in Ids(lanes) => lanes[i].id = Drill!VisualId
           /\ Drill!VisualFrames \in Seq(Nodes) /\ Drill!VisualFrames # << >> /\ Drill!VisualFrames[1] = page
           /\ Drill!VisualIndex \in Nat /\ Drill!VisualId \in 1..counter
           /\ Drill!ActiveIndex \in Nat /\ Drill!ActiveIndex > 0
           /\ ~astray => Drill!VisualId \in Ids(lanes) /\ Drill!VisualIndex \in DOMAIN Drill!VisualFrames
           /\ Drill!Visible # Absent <=> Drill!VisualIndex \in DOMAIN Drill!VisualFrames
           /\ Drill!Visible # Absent => Drill!Visible \in Nodes /\ Drill!Visible = Drill!VisualFrames[Drill!VisualIndex]
<1> DEFINE V == Drill!VisualFrames
           v == Drill!VisualIndex
<1>1. Whole(lanes, counter, page)
  BY DEF DrillInv
<1>2. Absent \notin Nodes
  BY PartsAssumption DEF Drill!DrillAssumption
<1>3. /\ V = LaneAt(lanes, Drill!VisualId).frames
      /\ Drill!ActiveIndex = Len(LaneAt(lanes, current).frames)
  BY DrillNames DEF Drill!VisualFrames, Drill!ActiveIndex
<1>4. PICK i \in DOMAIN lanes : LaneAt(lanes, Drill!VisualId) = lanes[i] /\ (Drill!VisualId \in Ids(lanes) => lanes[i].id = Drill!VisualId)
  BY <1>1, LaneAtIs
<1>5. PICK k \in DOMAIN lanes : LaneAt(lanes, current) = lanes[k]
  BY <1>1, LaneAtIs
<1>6. ASSUME NEW j \in DOMAIN lanes
      PROVE  /\ lanes[j].frames \in Seq(Nodes) /\ DOMAIN lanes[j].frames = 1..Len(lanes[j].frames)
             /\ Len(lanes[j].frames) \in Nat /\ Len(lanes[j].frames) > 0
             /\ lanes[j].frames # << >> /\ lanes[j].frames[1] = page
  <2>1. lanes[j].frames # << >> /\ lanes[j].frames[1] = page
    BY <1>1 DEF Whole
  <2> QED
    BY <1>1, <2>1, LaneAtIs
<1>7. Drill!ActiveIndex \in Nat /\ Drill!ActiveIndex > 0
  BY <1>3, <1>5, <1>6
<1>8. /\ V \in Seq(Nodes) /\ V # << >> /\ V[1] = page /\ V = lanes[i].frames
  BY <1>3, <1>4, <1>6
<1>9. v \in Nat /\ Drill!VisualId \in 1..counter
  BY <1>7 DEF DrillInv, Drill!VisualIndex, Drill!VisualId
<1>10. ASSUME ~astray PROVE Drill!VisualId \in Ids(lanes) /\ v \in DOMAIN V
  <2>1. CASE peek = Absent
    <3>1. Drill!VisualId = current /\ v = Len(LaneAt(lanes, current).frames) /\ current \in Ids(lanes)
      BY <1>3, <1>10, <2>1 DEF Drill!VisualId, Drill!VisualIndex, DrillInv
    <3>2. v = Len(V) /\ DOMAIN V = 1..Len(V) /\ Len(V) > 0
      BY <1>3, <1>4, <1>6, <3>1
    <3> QED
      BY <1>9, <3>1, <3>2
  <2>2. CASE peek # Absent
    <3>1. Drill!VisualId = peek.lane /\ v = peek.index
      BY <2>2 DEF Drill!VisualId, Drill!VisualIndex
    <3> QED
      BY <1>3, <1>10, <2>2, <3>1 DEF DrillInv
  <2> QED
    BY <2>1, <2>2
<1>11. Drill!Visible = IF v \in DOMAIN V THEN V[v] ELSE Absent
  BY DEF Drill!Visible
<1> HIDE DEF V, v
<1>12. /\ Drill!Visible # Absent <=> v \in DOMAIN V
       /\ Drill!Visible # Absent => Drill!Visible \in Nodes /\ Drill!Visible = V[v]
  <2>1. v \in DOMAIN V => V[v] \in Nodes
    BY <1>8
  <2> QED
    BY <1>2, <1>11, <2>1
<1> QED
  BY <1>4, <1>7, <1>8, <1>9, <1>10, <1>12 DEF V, v

\* Frames that are cut, and go on.
LEMMA FirstFrames ==
    ASSUME NEW s \in Seq(Nodes), NEW n \in 1..Len(s)
    PROVE  /\ SubSeq(s, 1, n) \in Seq(Nodes) /\ Len(SubSeq(s, 1, n)) = n
           /\ DOMAIN SubSeq(s, 1, n) = 1..n /\ SubSeq(s, 1, n) # << >>
           /\ \A k \in 1..n : SubSeq(s, 1, n)[k] = s[k]
           /\ n = Len(s) => SubSeq(s, 1, n) = s
<1>1. n \in Nat /\ n <= Len(s) /\ n > 0 /\ Len(s) \in Nat
  OBVIOUS
<1>2. /\ SubSeq(s, 1, n) \in Seq(Nodes) /\ Len(SubSeq(s, 1, n)) = n
      /\ DOMAIN SubSeq(s, 1, n) = 1..n /\ \A k \in 1..n : SubSeq(s, 1, n)[k] = s[k]
  BY <1>1
<1>3. SubSeq(s, 1, n) # << >>
  BY <1>1, <1>2
<1>4. n = Len(s) => SubSeq(s, 1, n) = s
  BY <1>1, <1>2
<1> QED
  BY <1>2, <1>3, <1>4

\* Frames joined.
LEMMA MoreFrames ==
    ASSUME NEW s \in Seq(Nodes), s # << >>, NEW t \in Seq(Nodes)
    PROVE  /\ s \o t \in Seq(Nodes) /\ s \o t # << >> /\ (s \o t)[1] = s[1]
           /\ Len(s \o t) = Len(s) + Len(t)
           /\ \A k \in 1..Len(s) : (s \o t)[k] = s[k]
           /\ \A k \in 1..Len(t) : (s \o t)[Len(s) + k] = t[k]
<1>1. Len(s) \in Nat /\ Len(s) > 0 /\ Len(t) \in Nat
  OBVIOUS
<1>2. /\ s \o t \in Seq(Nodes) /\ Len(s \o t) = Len(s) + Len(t) /\ DOMAIN (s \o t) = 1..(Len(s) + Len(t))
      /\ \A k \in 1..Len(s) : (s \o t)[k] = s[k]
      /\ \A k \in 1..Len(t) : (s \o t)[Len(s) + k] = t[k]
  BY <1>1
<1>3. 1 \in 1..Len(s) /\ 1 \in DOMAIN (s \o t)
  BY <1>1, <1>2
<1>4. s \o t # << >>
  BY <1>2, <1>3
<1> QED
  BY <1>2, <1>3, <1>4

\* A lane made longer.
LEMMA ExtendedIs ==
    ASSUME DrillInv, NEW id, NEW frames \in Seq(Nodes)
    PROVE  LET new == Drill!Extended(id, frames)
           IN  /\ Whole(new, counter, page) /\ DOMAIN new = DOMAIN lanes /\ Ids(new) = Ids(lanes)
               /\ \A i \in DOMAIN lanes :
                    /\ new[i].id = lanes[i].id
                    /\ new[i].frames = IF lanes[i].id = id THEN lanes[i].frames \o frames ELSE lanes[i].frames
<1> DEFINE new == Drill!Extended(id, frames)
           fs == [i \in DOMAIN lanes |-> IF lanes[i].id = id THEN lanes[i].frames \o frames ELSE lanes[i].frames]
<1>1. Whole(lanes, counter, page)
  BY DEF DrillInv
<1>2. ASSUME NEW i \in DOMAIN lanes PROVE fs[i] \in Seq(Nodes) /\ fs[i] # << >> /\ fs[i][1] = page
  <2>1. lanes[i].frames \in Seq(Nodes) /\ lanes[i].frames # << >> /\ lanes[i].frames[1] = page
    BY <1>1, LaneAtIs DEF Whole
  <2> QED
    BY <2>1, MoreFrames
<1>3. new = [i \in DOMAIN lanes |-> [lanes[i] EXCEPT !.frames = fs[i]]]
  <2>1. \A i \in DOMAIN lanes : lanes[i] \in LaneSet
    BY <1>1, LaneAtIs
  <2>2. \A i \in DOMAIN lanes : lanes[i] = [lanes[i] EXCEPT !.frames = lanes[i].frames]
    BY <2>1 DEF LaneSet
  <2> QED
    BY <2>2 DEF Drill!Extended
<1> HIDE DEF new
<1>4. \A i \in DOMAIN lanes : fs[i] = IF lanes[i].id = id THEN lanes[i].frames \o frames ELSE lanes[i].frames
  OBVIOUS
<1> HIDE DEF fs
<1>5. /\ Whole(new, counter, page) /\ DOMAIN new = DOMAIN lanes /\ Ids(new) = Ids(lanes)
      /\ \A i \in DOMAIN lanes : new[i].id = lanes[i].id /\ new[i].frames = fs[i]
  BY <1>1, <1>2, <1>3, WithFrames
<1> QED
  BY <1>4, <1>5 DEF new

Cut(frames, n) == SubSeq(frames, 1, IF n < Len(frames) THEN n ELSE Len(frames))

\* A lane cut.
LEMMA CutIs ==
    ASSUME NEW s \in Seq(Nodes), s # << >>, NEW n \in Nat, n > 0
    PROVE  /\ Cut(s, n) \in Seq(Nodes) /\ Cut(s, n) # << >> /\ Cut(s, n)[1] = s[1]
           /\ n <= Len(s) => Cut(s, n) = SubSeq(s, 1, n)
           /\ \A k \in 1..n : k \in DOMAIN s => k \in DOMAIN Cut(s, n)
<1> DEFINE m == IF n < Len(s) THEN n ELSE Len(s)
<1>1. Len(s) \in Nat /\ Len(s) > 0 /\ DOMAIN s = 1..Len(s)
  OBVIOUS
<1>2. m \in 1..Len(s) /\ 1 \in 1..m /\ (n <= Len(s) => m = n) /\ \A k \in 1..n : k \in 1..Len(s) => k \in 1..m
  <2> DEFINE L == Len(s)
  <2>1. L \in Nat /\ L > 0 /\ m = IF n < L THEN n ELSE L
    BY <1>1
  <2> HIDE DEF L, m
  <2>2. m \in 1..L /\ 1 \in 1..m
    BY <2>1
  <2>3. n <= L => m = n
    BY <2>1
  <2>4. \A k \in 1..n : k \in 1..L => k \in 1..m
    BY <2>1
  <2> QED
    BY <2>2, <2>3, <2>4 DEF L
<1>3. Cut(s, n) = SubSeq(s, 1, m)
  BY DEF Cut
<1> HIDE DEF m
<1> QED
  BY <1>1, <1>2, <1>3, FirstFrames

\* Lanes after a pop.
LEMMA PoppedIs ==
    ASSUME DrillInv, NEW id, NEW index \in Nat, index > 0
    PROVE  LET new == Drill!Popped(id, index)
           IN  /\ Whole(new, counter, page) /\ DOMAIN new = DOMAIN lanes /\ Ids(new) = Ids(lanes)
               /\ \A i \in DOMAIN lanes :
                    /\ new[i].id = lanes[i].id
                    /\ new[i].frames = IF lanes[i].id = id THEN Cut(lanes[i].frames, index) ELSE lanes[i].frames
<1> DEFINE new == Drill!Popped(id, index)
           fs == [i \in DOMAIN lanes |-> IF lanes[i].id = id THEN Cut(lanes[i].frames, index) ELSE lanes[i].frames]
<1>1. Whole(lanes, counter, page)
  BY DEF DrillInv
<1>2. ASSUME NEW i \in DOMAIN lanes PROVE fs[i] \in Seq(Nodes) /\ fs[i] # << >> /\ fs[i][1] = page
  <2>1. lanes[i].frames \in Seq(Nodes) /\ lanes[i].frames # << >> /\ lanes[i].frames[1] = page
    BY <1>1, LaneAtIs DEF Whole
  <2> QED
    BY <2>1, CutIs
<1>3. new = [i \in DOMAIN lanes |-> [lanes[i] EXCEPT !.frames = fs[i]]]
  <2>1. \A i \in DOMAIN lanes : lanes[i] \in LaneSet
    BY <1>1, LaneAtIs
  <2>2. \A i \in DOMAIN lanes : lanes[i] = [lanes[i] EXCEPT !.frames = lanes[i].frames]
    BY <2>1 DEF LaneSet
  <2> QED
    BY <2>2 DEF Drill!Popped, Cut
<1> HIDE DEF new
<1>4. \A i \in DOMAIN lanes : fs[i] = IF lanes[i].id = id THEN Cut(lanes[i].frames, index) ELSE lanes[i].frames
  OBVIOUS
<1> HIDE DEF fs
<1>5. /\ Whole(new, counter, page) /\ DOMAIN new = DOMAIN lanes /\ Ids(new) = Ids(lanes)
      /\ \A i \in DOMAIN lanes : new[i].id = lanes[i].id /\ new[i].frames = fs[i]
  BY <1>1, <1>2, <1>3, WithFrames
<1> QED
  BY <1>4, <1>5 DEF new

\* Lanes without the preview.
LEMMA WithoutPreviewIs ==
    ASSUME DrillInv
    PROVE  LET new == Drill!WithoutPreview
           IN  /\ Whole(new, counter, page) /\ DOMAIN new = DOMAIN lanes /\ Ids(new) = Ids(lanes)
               /\ \A i \in DOMAIN lanes :
                    /\ new[i].id = lanes[i].id
                    /\ new[i].frames = IF preview # Absent /\ lanes[i].id = preview
                                         THEN Cut(lanes[i].frames, Len(lanes[i].frames) - 1) ELSE lanes[i].frames
                    /\ DOMAIN new[i].frames \subseteq DOMAIN lanes[i].frames
<1> DEFINE new == Drill!WithoutPreview
           fs == [i \in DOMAIN lanes |-> IF preview # Absent /\ lanes[i].id = preview
                    THEN Cut(lanes[i].frames, Len(lanes[i].frames) - 1) ELSE lanes[i].frames]
<1>1. Whole(lanes, counter, page)
  BY DEF DrillInv
<1>2. \A i \in DOMAIN lanes : /\ lanes[i] \in LaneSet /\ lanes[i].frames \in Seq(Nodes) /\ lanes[i].frames # << >>
                              /\ lanes[i].frames[1] = page /\ Len(lanes[i].frames) \in Nat
                              /\ preview # Absent /\ lanes[i].id = preview => Len(lanes[i].frames) > 1
  BY ZenonT(30), <1>1, LaneAtIs DEF Whole, DrillInv, Previewed
<1>3. ASSUME NEW i \in DOMAIN lanes
      PROVE  /\ fs[i] \in Seq(Nodes) /\ fs[i] # << >> /\ fs[i][1] = page
             /\ DOMAIN fs[i] \subseteq DOMAIN lanes[i].frames
  <2>1. CASE preview # Absent /\ lanes[i].id = preview
    <3> DEFINE n == Len(lanes[i].frames) - 1
    <3>1. n \in Nat /\ n > 0 /\ n <= Len(lanes[i].frames) /\ n \in 1..Len(lanes[i].frames)
      BY <1>2, <2>1
    <3>2. fs[i] = Cut(lanes[i].frames, n)
      BY <2>1
    <3> HIDE DEF n, fs
    <3>6. lanes[i].frames \in Seq(Nodes) /\ lanes[i].frames # << >> /\ lanes[i].frames[1] = page
      BY <1>2
    <3>3. fs[i] = SubSeq(lanes[i].frames, 1, n)
      BY <3>1, <3>2, <3>6, CutIs
    <3>0. fs[i] \in Seq(Nodes) /\ fs[i] # << >> /\ fs[i][1] = page
      BY <3>1, <3>2, <3>6, CutIs
    <3>4. DOMAIN fs[i] = 1..n /\ DOMAIN lanes[i].frames = 1..Len(lanes[i].frames)
      BY <1>2, <3>1, <3>3, FirstFrames
    <3>5. 1..n \subseteq 1..Len(lanes[i].frames)
      BY <1>2, <3>1
    <3> QED
      BY <3>0, <3>4, <3>5
  <2>2. CASE ~(preview # Absent /\ lanes[i].id = preview)
    BY <1>2, <2>2
  <2> QED
    BY <2>1, <2>2
<1>4. new = [i \in DOMAIN lanes |-> [lanes[i] EXCEPT !.frames = fs[i]]]
  <2>2. \A i \in DOMAIN lanes : lanes[i] = [lanes[i] EXCEPT !.frames = lanes[i].frames]
    BY <1>2 DEF LaneSet
  <2>3. CASE preview = Absent
    <3>1. new = lanes /\ \A i \in DOMAIN lanes : fs[i] = lanes[i].frames
      BY <2>3 DEF Drill!WithoutPreview
    <3>2. lanes = [i \in DOMAIN lanes |-> lanes[i]]
      BY <1>1 DEF Whole
    <3> HIDE DEF new, fs
    <3> QED
      BY <2>2, <3>1, <3>2
  <2>4. CASE preview # Absent
    <3>1. new = [i \in DOMAIN lanes |-> IF lanes[i].id = preview
                   THEN [lanes[i] EXCEPT !.frames = SubSeq(lanes[i].frames, 1, Len(lanes[i].frames) - 1)] ELSE lanes[i]]
      BY <2>4 DEF Drill!WithoutPreview, Drill!Front
    <3>2. \A i \in DOMAIN lanes : lanes[i].id = preview => fs[i] = SubSeq(lanes[i].frames, 1, Len(lanes[i].frames) - 1)
      <4> SUFFICES ASSUME NEW i \in DOMAIN lanes, lanes[i].id = preview
                   PROVE  fs[i] = SubSeq(lanes[i].frames, 1, Len(lanes[i].frames) - 1)
        OBVIOUS
      <4>1. Len(lanes[i].frames) - 1 < Len(lanes[i].frames)
        BY <1>2
      <4> QED
        BY <2>4, <4>1 DEF Cut
    <3>3. \A i \in DOMAIN lanes : lanes[i].id # preview => fs[i] = lanes[i].frames
      OBVIOUS
    <3> HIDE DEF new, fs
    <3> QED
      BY <2>2, <3>1, <3>2, <3>3
  <2> QED
    BY <2>3, <2>4
<1> HIDE DEF new
<1>5. \A i \in DOMAIN lanes : fs[i] = IF preview # Absent /\ lanes[i].id = preview
                    THEN Cut(lanes[i].frames, Len(lanes[i].frames) - 1) ELSE lanes[i].frames
  OBVIOUS
<1> HIDE DEF fs
<1>6. /\ Whole(new, counter, page) /\ DOMAIN new = DOMAIN lanes /\ Ids(new) = Ids(lanes)
      /\ \A i \in DOMAIN lanes : new[i].id = lanes[i].id /\ new[i].frames = fs[i]
  BY <1>1, <1>3, <1>4, WithFrames
<1> QED
  BY <1>3, <1>5, <1>6 DEF new
\* A larger counter.
LEMMA Renumbered ==
    ASSUME NEW ls, NEW c, NEW r, Whole(ls, c, r)
    PROVE  Whole(ls, c + 1, r) /\ 1..c \subseteq 1..(c + 1) /\ c + 1 \in 1..(c + 1)
<1>1. c \in Nat
  BY DEF Whole
<1>2. 1..c \subseteq 1..(c + 1) /\ c + 1 \in Nat /\ c + 1 \in 1..(c + 1)
  BY <1>1
<1> QED
  BY <1>2 DEF Whole

\* A page with one lane.
LEMMA FirstLane ==
    ASSUME NEW u \in Nodes
    PROVE  /\ Whole(<< Drill!Lane(1, <<u>>) >>, 1, u) /\ Ids(<< Drill!Lane(1, <<u>>) >>) = {1}
           /\ LaneAt(<< Drill!Lane(1, <<u>>) >>, 1).frames = <<u>> /\ 1 \in 1..1
<1> DEFINE lane == Drill!Lane(1, <<u>>)
           new == <<lane>>
<1>1. lane \in LaneSet /\ lane.id = 1 /\ lane.frames = <<u>> /\ <<u>> # << >> /\ <<u>>[1] = u
  BY DEF Drill!Lane, LaneSet
<1> HIDE DEF lane
<1>2. DOMAIN new = {1} /\ new[1] = lane /\ new \in Seq(LaneSet) /\ new # << >>
  BY <1>1
<1> HIDE DEF new
<1>3. Ids(new) = {1}
  BY <1>1, <1>2 DEF Ids
<1>4. Whole(new, 1, u)
  BY <1>1, <1>2 DEF Whole
<1>5. LaneAt(new, 1) = lane
  BY <1>1, <1>2, <1>3 DEF LaneAt
<1> QED
  BY <1>1, <1>3, <1>4, <1>5 DEF new, lane

\* What is true of a lane by its id.
LEMMA LaneOfIs ==
    ASSUME NEW ls, NEW c, NEW r, Whole(ls, c, r), NEW i \in DOMAIN ls
    PROVE  /\ ls[i] = LaneAt(ls, ls[i].id) /\ ls[i].id \in Ids(ls) /\ ls[i].id \in 1..c
           /\ \A j \in DOMAIN ls : ls[j].id = ls[i].id => j = i
BY LaneAtIs DEF Whole

\* Another active lane, nothing peeked at, no preview.
LEMMA Rests ==
    ASSUME DrillInv, Whole(lanes', counter', page'), current' \in 1..counter', peek' = Absent, preview' = Absent,
           astray' \in BOOLEAN, ~astray' => current' \in Ids(lanes')
    PROVE  DrillInv'
BY DEF DrillInv

\* The steps of the reducer: EXTEND.
LEMMA ExtendStep ==
    ASSUME DrillInv, NEW id \in 1..counter, NEW frames \in Seq(Nodes), Drill!EXTEND(id, frames), page' = page
    PROVE  /\ Whole(lanes', counter', page') /\ DOMAIN lanes' = DOMAIN lanes /\ Ids(lanes') = Ids(lanes)
           /\ current' \in 1..counter' /\ preview' = Absent /\ current' = id /\ counter' = counter
           /\ \A i \in DOMAIN lanes :
                /\ lanes'[i].id = lanes[i].id
                /\ lanes'[i].frames = IF lanes[i].id = id THEN lanes[i].frames \o frames ELSE lanes[i].frames
<1>1. lanes' = Drill!Extended(id, frames) /\ current' = id /\ preview' = Absent /\ counter' = counter
  BY DEF Drill!EXTEND
<1> QED
  BY <1>1, ExtendedIs

\* CREATE_LANE.
LEMMA CreateStep ==
    ASSUME DrillInv, NEW frames \in Seq(Nodes), frames # << >>, frames[1] = page, Drill!CREATE(frames), page' = page
    PROVE  /\ Whole(lanes', counter', page') /\ current' \in 1..counter' /\ preview' = Absent
           /\ current' \in Ids(lanes') /\ LaneAt(lanes', current').frames = frames
           /\ DOMAIN lanes \subseteq DOMAIN lanes' /\ \A i \in DOMAIN lanes : lanes'[i] = lanes[i]
<1>1. Whole(lanes, counter, page)
  BY DEF DrillInv
<1>2. /\ lanes' = Append(lanes, Drill!Lane(counter + 1, frames)) /\ current' = counter + 1
      /\ preview' = Absent /\ counter' = counter + 1
  BY DEF Drill!CREATE
<1>3. current' \in 1..counter'
  BY <1>1, <1>2, Renumbered
<1> QED
  BY <1>1, <1>2, <1>3, WithLane

\* POP_TO.
LEMMA PopStep ==
    ASSUME DrillInv, NEW id \in 1..counter, NEW index \in Nat, index > 0, Drill!POP_TO(id, index), page' = page
    PROVE  /\ Whole(lanes', counter', page') /\ DOMAIN lanes' = DOMAIN lanes /\ Ids(lanes') = Ids(lanes)
           /\ current' \in 1..counter' /\ preview' = Absent /\ current' = id /\ counter' = counter
           /\ \A i \in DOMAIN lanes :
                /\ lanes'[i].id = lanes[i].id
                /\ lanes'[i].frames = IF lanes[i].id = id THEN Cut(lanes[i].frames, index) ELSE lanes[i].frames
<1>1. lanes' = Drill!Popped(id, index) /\ current' = id /\ preview' = Absent /\ counter' = counter
  BY DEF Drill!POP_TO
<1> QED
  BY <1>1, PoppedIs

\* CLEAR_PREVIEW.
LEMMA ClearStep ==
    ASSUME DrillInv, Drill!CLEAR_PREVIEW, page' = page
    PROVE  /\ Whole(lanes', counter', page') /\ DOMAIN lanes' = DOMAIN lanes /\ Ids(lanes') = Ids(lanes)
           /\ current' = current /\ current' \in 1..counter' /\ preview' = Absent /\ counter' = counter
           /\ \A i \in DOMAIN lanes :
                /\ lanes'[i].id = lanes[i].id
                /\ lanes'[i].frames = IF preview # Absent /\ lanes[i].id = preview
                                        THEN Cut(lanes[i].frames, Len(lanes[i].frames) - 1) ELSE lanes[i].frames
<1>1. lanes' = Drill!WithoutPreview /\ current' = current /\ preview' = Absent /\ counter' = counter
  BY DEF Drill!CLEAR_PREVIEW
<1>2. current \in 1..counter
  BY DEF DrillInv
<1> QED
  BY <1>1, <1>2, WithoutPreviewIs

\* A page is opened.
LEMMA PageStep ==
    ASSUME DrillInv, NEW u \in Nodes, Drill!OpenPage(u)
    PROVE  \/ u = page /\ page' = page /\ lanes' = lanes /\ current' = current /\ preview' = preview /\ counter' = counter
           \/ /\ Whole(lanes', counter', page') /\ current' \in 1..counter' /\ preview' = Absent
              /\ current' \in Ids(lanes') /\ current' = 1 /\ page' # page
<1>1. CASE u = page
  BY <1>1 DEF Drill!OpenPage
<1>2. CASE u # page
  <2>1. lanes' = << Drill!Lane(1, <<u>>) >> /\ current' = 1 /\ counter' = 1 /\ preview' = Absent /\ page' = u
    BY <1>2 DEF Drill!OpenPage
  <2>2. 1 \in {1}
    OBVIOUS
  <2> QED
    BY <1>2, <2>1, <2>2, FirstLane
<1> QED
  BY <1>1, <1>2

\* Where a uid of a sequence is first.
LEMMA FirstAt ==
    ASSUME NEW s \in Seq(Nodes), NEW u \in ToSet(s)
    PROVE  LET at == CHOOSE i \in DOMAIN s : s[i] = u /\ \A j \in 1..(i - 1) : s[j] # u
           IN  at \in DOMAIN s /\ s[at] = u /\ at \in Nat
<1> DEFINE P == {i \in DOMAIN s : s[i] = u}
<1>1. DOMAIN s = 1..Len(s) /\ Len(s) \in Nat
  OBVIOUS
<1>2. P # {} /\ P \subseteq Nat
  BY <1>1 DEF ToSet
<1>3. PICK i \in P : \A j \in P : i <= j
  BY <1>2, Least
<1>4. \A j \in 1..(i - 1) : s[j] # u
  <2> SUFFICES ASSUME NEW j \in 1..(i - 1), s[j] = u PROVE FALSE
    OBVIOUS
  <2>1. i \in 1..Len(s) /\ j \in 1..Len(s) /\ ~(i <= j)
    BY <1>1
  <2> QED
    BY <1>1, <1>3, <2>1
<1>5. \E k \in DOMAIN s : s[k] = u /\ \A j \in 1..(k - 1) : s[j] # u
  BY <1>4
<1> QED
  BY <1>1, <1>5

\* A drill from the lane that is shown.
LEMMA DrillInKeeps ==
    ASSUME DrillInv, NEW u \in Nodes, Drill!DrillIn(u)
    PROVE  DrillInv'
<1> DEFINE V == Drill!VisualFrames
           v == Drill!VisualIndex
           at == CHOOSE i \in DOMAIN V : V[i] = u /\ \A j \in 1..(i - 1) : V[j] # u
<1>1. page' = page /\ astray' = astray /\ Drill!Visible # Absent /\ Whole(lanes, counter, page) /\ astray \in BOOLEAN
  BY DEF Drill!DrillIn, DrillInv
<1>2. PICK i \in DOMAIN lanes : LaneAt(lanes, Drill!VisualId) = lanes[i] /\ V = lanes[i].frames
                                /\ (Drill!VisualId \in Ids(lanes) => lanes[i].id = Drill!VisualId)
  BY VisualIs
<1>3. /\ V \in Seq(Nodes) /\ V # << >> /\ V[1] = page /\ v \in DOMAIN V /\ Drill!VisualId \in 1..counter
      /\ ~astray => Drill!VisualId \in Ids(lanes)
      /\ DOMAIN V = 1..Len(V)
  BY <1>1, VisualIs
<1> HIDE DEF V
<1>4. CASE u \in ToSet(V)
  <2>1. /\ peek' = Drill!PeekAt(lanes[i].id, at)
        /\ lanes' = lanes /\ current' = current /\ preview' = preview /\ counter' = counter
    <3>1. Drill!LaneOf(Drill!VisualId) = lanes[i]
      BY <1>2, DrillNames
    <3>2. u \in ToSet(Drill!VisualFrames)
      BY <1>4 DEF V
    <3>3. /\ peek' = Drill!PeekAt(Drill!LaneOf(Drill!VisualId).id, at)
          /\ lanes' = lanes /\ current' = current /\ preview' = preview /\ counter' = counter
      BY <3>2 DEF Drill!DrillIn, V, ToSet, Drill!ToSet
    <3> QED
      BY <3>1, <3>3
  <2>2. at \in DOMAIN V /\ at \in Nat
    BY <1>3, <1>4, FirstAt
  <2> HIDE DEF at
  <2>3. /\ peek'.lane = lanes[i].id /\ peek'.index = at /\ peek' # Absent
        /\ peek' \in [lane : 1..counter, index : Nat]
    <3>1. lanes[i].id \in 1..counter /\ counter \in Nat
      BY <1>1, LaneOfIs DEF Whole
    <3>2. peek' \in [lane : 1..counter, index : Nat] /\ peek'.lane = lanes[i].id /\ peek'.index = at
      BY <2>1, <2>2, <3>1 DEF Drill!PeekAt
    <3>3. [lane : 1..counter, index : Nat] \subseteq [lane : Nat, index : Nat]
      BY <3>1
    <3> QED
      BY <3>2, <3>3, PartsAssumption DEF Drill!DrillAssumption
  <2>4. peek'.lane \in Ids(lanes) /\ peek'.index \in DOMAIN LaneAt(lanes, peek'.lane).frames
    BY <1>1, <1>2, <2>2, <2>3, LaneOfIs
  <2> QED
    BY <1>1, <2>1, <2>3, <2>4 DEF DrillInv
<1>5. CASE u \notin ToSet(V)
  <2>1. peek' = Absent /\ IF v < Len(V) THEN Drill!FORK(Drill!VisualId, v, <<u>>) ELSE Drill!EXTEND(Drill!VisualId, <<u>>)
    BY <1>5 DEF Drill!DrillIn, V, Drill!Peeks, ToSet, Drill!ToSet
  <2>2. CASE ~(v < Len(V))
    <3>1. Drill!EXTEND(Drill!VisualId, <<u>>) /\ <<u>> \in Seq(Nodes)
      BY <2>1, <2>2
    <3>2. /\ Whole(lanes', counter', page') /\ Ids(lanes') = Ids(lanes)
          /\ current' \in 1..counter' /\ preview' = Absent /\ current' = Drill!VisualId
      BY <1>1, <1>3, <3>1, ExtendStep
    <3> QED
      BY <1>1, <1>3, <2>1, <3>2, Rests
  <2>3. CASE v < Len(V)
    <3>1. Drill!FORK(Drill!VisualId, v, <<u>>)
      BY <2>1, <2>3
    <3>2. CASE Drill!VisualId \in Ids(lanes)
      <4> DEFINE kept == SubSeq(V, 1, v)
      <4>1. Drill!CREATE(kept \o <<u>>)
        BY <1>2, <3>1, <3>2, DrillNames DEF Drill!FORK
      <4>2. kept \in Seq(Nodes) /\ kept # << >> /\ kept[1] = V[1] /\ <<u>> \in Seq(Nodes)
        <5>1. v \in 1..Len(V) /\ Len(V) \in Nat
          BY <1>3
        <5>2. 1 \in 1..v
          BY <5>1
        <5> QED
          BY <1>3, <5>1, <5>2, FirstFrames
      <4> HIDE DEF kept
      <4>3. kept \o <<u>> \in Seq(Nodes) /\ kept \o <<u>> # << >> /\ (kept \o <<u>>)[1] = page
        BY <1>3, <4>2, MoreFrames
      <4>4. /\ Whole(lanes', counter', page') /\ current' \in 1..counter' /\ preview' = Absent
            /\ current' \in Ids(lanes')
        BY <1>1, <4>1, <4>3, CreateStep
      <4> QED
        BY <1>1, <2>1, <4>4, Rests
    <3>3. CASE Drill!VisualId \notin Ids(lanes)
      <4>1. counter' = counter + 1 /\ lanes' = lanes /\ current' = current /\ preview' = preview
        BY <3>1, <3>3, DrillNames DEF Drill!FORK
      <4>2. Whole(lanes', counter', page') /\ 1..counter \subseteq 1..counter' /\ astray'
        BY <1>1, <1>3, <3>3, <4>1, Renumbered
      <4> QED
        BY <1>1, <2>1, <4>1, <4>2 DEF DrillInv
    <3> QED
      BY <3>2, <3>3
  <2> QED
    BY <2>2, <2>3
<1> QED
  BY <1>4, <1>5

\* A node of a lane is deleted.
LEMMA AfterDeleteKeeps ==
    ASSUME DrillInv, NEW id \in 1..counter, NEW index \in 1..MaxFrames, Drill!AfterDelete(id, index)
    PROVE  DrillInv'
<1>1. /\ Drill!POP_TO(id, index) /\ page' = page /\ peek' = Absent
      /\ astray' = (astray \/ id \notin Ids(lanes)) /\ astray \in BOOLEAN
  BY DrillNames DEF Drill!AfterDelete, Drill!Peeks, DrillInv
<1>2. index \in Nat /\ index > 0
  BY PartsAssumption DEF Drill!DrillAssumption
<1>3. /\ Whole(lanes', counter', page') /\ Ids(lanes') = Ids(lanes)
      /\ current' \in 1..counter' /\ preview' = Absent /\ current' = id
  BY <1>1, <1>2, PopStep
<1> QED
  BY <1>1, <1>3, Rests

\* Escape.
LEMMA EscapeKeeps ==
    ASSUME DrillInv, Drill!Escape
    PROVE  DrillInv'
<1>1. page' = page /\ astray' = astray /\ astray \in BOOLEAN
  BY DEF Drill!Escape, DrillInv
<1>2. CASE peek # Absent
  BY <1>1, <1>2 DEF Drill!Escape, DrillInv
<1>3. CASE peek = Absent
  <2> DEFINE index == Drill!ActiveIndex - 1
  <2>1. index \in Nat /\ index > 0 /\ Drill!POP_TO(current, index) /\ Drill!Peeks(peek)
    BY <1>3, VisualIs DEF Drill!Escape
  <2> HIDE DEF index
  <2>2. peek' = Absent
    BY <1>3, <2>1 DEF Drill!Peeks
  <2>3. /\ Whole(lanes', counter', page') /\ Ids(lanes') = Ids(lanes)
        /\ current' \in 1..counter' /\ preview' = Absent /\ current' = current
    BY <1>1, <2>1, PopStep DEF DrillInv
  <2>4. ~astray' => current' \in Ids(lanes')
    BY <1>1, <2>3 DEF DrillInv
  <2> QED
    BY <1>1, <2>2, <2>3, <2>4, Rests
<1> QED
  BY <1>2, <1>3

\* The crumbs are those of a lane.
LEMMA CrumbsAre ==
    ASSUME DrillInv, NEW i \in DOMAIN lanes
    PROVE  DOMAIN Drill!Crumbs[i].frames \subseteq DOMAIN lanes[i].frames
BY WithoutPreviewIs DEF Drill!Crumbs

\* A crumb under the pointer.
LEMMA HoverKeeps ==
    ASSUME DrillInv, NEW i \in DOMAIN lanes, NEW index \in 1..MaxFrames, Drill!Hover(i, index)
    PROVE  DrillInv'
<1>1. /\ peek' = Drill!PeekAt(lanes[i].id, index) /\ page' = page /\ lanes' = lanes /\ current' = current
      /\ preview' = preview /\ counter' = counter /\ astray' = astray /\ index \in DOMAIN lanes[i].frames
  BY CrumbsAre DEF Drill!Hover
<1>2. Whole(lanes, counter, page) /\ lanes[i].id \in 1..counter /\ index \in Nat
  BY LaneOfIs DEF DrillInv
<1>3. peek' \in [lane : 1..counter, index : Nat] /\ peek'.lane = lanes[i].id /\ peek'.index = index
  BY <1>1, <1>2 DEF Drill!PeekAt
<1>4. peek'.lane \in Ids(lanes) /\ peek'.index \in DOMAIN LaneAt(lanes, peek'.lane).frames
  BY <1>1, <1>2, <1>3, LaneOfIs
<1> QED
  BY <1>1, <1>3, <1>4 DEF DrillInv

\* A click on a lane.
LEMMA ClickKeeps ==
    ASSUME DrillInv, NEW i \in DOMAIN lanes, Drill!Click(i)
    PROVE  DrillInv'
<1>1. Whole(lanes, counter, page) /\ astray \in BOOLEAN /\ lanes[i].id \in 1..counter /\ lanes[i].id \in Ids(lanes)
  BY LaneOfIs DEF DrillInv
<1>2. /\ peek # Absent /\ peek.lane = lanes[i].id /\ peek.index \in DOMAIN lanes[i].frames
      /\ peek' = (IF current' # current THEN Absent ELSE peek)
      /\ astray' = (astray \/ (peek' # Absent /\ page' # page))
  BY CrumbsAre DEF Drill!Click, Drill!Peeks
<1>3. peek \in [lane : 1..counter, index : Nat]
  BY <1>2 DEF DrillInv
<1>4. astray' \in BOOLEAN
  BY <1>1, <1>2
<1>5. CASE current = lanes[i].id /\ peek.index = Drill!ActiveIndex
  <2> DEFINE u == Drill!Visible
  <2>1. u \in Nodes
    <3>1. Drill!VisualId = peek.lane /\ Drill!VisualIndex = peek.index
      BY <1>2 DEF Drill!VisualId, Drill!VisualIndex
    <3>2. Drill!VisualFrames = LaneAt(lanes, peek.lane).frames
      BY <3>1, DrillNames DEF Drill!VisualFrames
    <3>3. Drill!VisualFrames = lanes[i].frames
      BY <1>1, <1>2, <3>2, LaneOfIs
    <3> QED
      BY <1>2, <3>1, <3>3, VisualIs
  <2>2. Drill!OpenPage(u)
    BY <1>5 DEF Drill!Click
  <2> HIDE DEF u
  <2>3. CASE page' = page /\ lanes' = lanes /\ current' = current /\ preview' = preview /\ counter' = counter
    <3>1. peek' = peek /\ astray' = astray
      BY <1>1, <1>2, <2>3
    <3> QED
      BY <2>3, <3>1 DEF DrillInv
  <2>4. CASE /\ Whole(lanes', counter', page') /\ current' \in 1..counter' /\ preview' = Absent
             /\ current' \in Ids(lanes') /\ current' = 1 /\ page' # page
    <3>1. CASE peek' = Absent
      BY <1>4, <2>4, <3>1, Rests
    <3>2. CASE peek' # Absent
      <4>1. peek' = peek /\ astray' /\ current' = current
        BY <1>2, <2>4, <3>2
      <4>2. peek.lane \in 1..counter' /\ peek.index \in Nat /\ peek = [lane |-> peek.lane, index |-> peek.index]
        BY <1>2, <1>3, <1>5, <2>4, <4>1
      <4>3. peek' \in [lane : 1..counter', index : Nat]
        BY <4>1, <4>2
      <4> QED
        BY <1>4, <2>4, <4>1, <4>3 DEF DrillInv
    <3> QED
      BY <3>1, <3>2
  <2> QED
    BY <2>1, <2>2, <2>3, <2>4, PageStep
<1>6. CASE ~(current = lanes[i].id /\ peek.index = Drill!ActiveIndex)
  <2> DEFINE index == peek.index
  <2>1. Drill!POP_TO(lanes[i].id, index) /\ page' = page
    BY <1>6 DEF Drill!Click
  <2>2. index \in Nat /\ index > 0 /\ index \in DOMAIN lanes[i].frames /\ lanes[i].frames \in Seq(Nodes) /\ lanes[i].frames # << >>
    <3>1. index \in DOMAIN lanes[i].frames
      BY <1>2
    <3>2. index \in Nat
      BY <1>3
    <3>3. /\ lanes[i].frames \in Seq(Nodes) /\ DOMAIN lanes[i].frames = 1..Len(lanes[i].frames)
          /\ Len(lanes[i].frames) \in Nat /\ Len(lanes[i].frames) > 0
      BY <1>1, LaneAtIs
    <3> HIDE DEF index
    <3> QED
      BY <3>1, <3>2, <3>3
  <2> HIDE DEF index
  <2>3. /\ Whole(lanes', counter', page') /\ DOMAIN lanes' = DOMAIN lanes /\ Ids(lanes') = Ids(lanes)
        /\ current' \in 1..counter' /\ preview' = Absent /\ current' = lanes[i].id /\ counter' = counter
        /\ lanes'[i].id = lanes[i].id /\ lanes'[i].frames = Cut(lanes[i].frames, index)
    BY <1>1, <2>1, <2>2, PopStep
  <2>4. astray' = astray
    BY <1>1, <1>2, <2>1
  <2>5. CASE peek' = Absent
    BY <1>1, <1>4, <2>3, <2>5, Rests
  <2>6. CASE peek' # Absent
    <3>1. peek' = peek
      BY <1>2, <2>6
    <3>2. LaneAt(lanes', peek.lane) = lanes'[i]
      BY <1>2, <2>3, LaneAtIs
    <3>3. index \in DOMAIN Cut(lanes[i].frames, index)
      <4>1. index \in 1..index
        BY <2>2
      <4> QED
        BY <2>2, <4>1, CutIs
    <3>4. peek'.lane \in Ids(lanes') /\ peek'.index \in DOMAIN LaneAt(lanes', peek'.lane).frames
      BY <1>1, <1>2, <2>3, <3>1, <3>2, <3>3 DEF index
    <3> QED
      BY <1>1, <1>3, <2>3, <2>4, <3>1, <3>4 DEF DrillInv
  <2> QED
    BY <2>5, <2>6
<1> QED
  BY <1>5, <1>6

\* A lane is closed.
LEMMA CloseKeeps ==
    ASSUME DrillInv, NEW i \in DOMAIN lanes, Drill!Close(i)
    PROVE  DrillInv'
<1> DEFINE new == Drill!RemoveAt(lanes, i)
           id == lanes[i].id
<1>1. Whole(lanes, counter, page) /\ astray \in BOOLEAN /\ id \in 1..counter /\ Len(lanes) > 1 /\ current \in 1..counter
  BY LaneOfIs DEF DrillInv, Drill!Close
<1>2. (CHOOSE j \in DOMAIN lanes : lanes[j].id = id) = i
  BY <1>1, LaneOfIs
<1>3. /\ Whole(new, counter, page) /\ Ids(new) = Ids(lanes) \ {id} /\ 1 \in DOMAIN new
      /\ \A k \in DOMAIN new : \E j \in DOMAIN lanes : j # i /\ new[k] = lanes[j]
  BY <1>1, WithoutLane
<1>4. new # << >>
  BY <1>3
<1>5. /\ preview' = Absent /\ lanes' = new /\ counter' = counter
      /\ current' = IF current = id THEN new[1].id ELSE current
  BY <1>2, <1>4 DEF Drill!Close, Drill!CLOSE
<1>6. /\ page' = page /\ peek' = (IF current' # current THEN Absent ELSE peek)
      /\ astray' = (astray \/ (peek' # Absent /\ peek'.lane = id))
  BY DEF Drill!Close, Drill!Peeks
<1> HIDE DEF new
<1>7. Whole(lanes', counter', page') /\ astray' \in BOOLEAN
  BY <1>1, <1>3, <1>5, <1>6
<1>8. current' \in 1..counter' /\ (~astray' => current' \in Ids(lanes'))
  <2>1. new[1].id \in 1..counter /\ new[1].id \in Ids(new)
    BY <1>3, LaneOfIs
  <2>2. ~astray' => current \in Ids(lanes)
    BY <1>6 DEF DrillInv
  <2> QED
    BY <1>1, <1>3, <1>5, <2>1, <2>2
<1>9. CASE peek' = Absent
  BY <1>5, <1>7, <1>8, <1>9, Rests
<1>10. CASE peek' # Absent
  <2>1. peek' = peek /\ peek' \in [lane : 1..counter, index : Nat]
    BY <1>6, <1>10 DEF DrillInv
  <2>2. ASSUME ~astray' PROVE peek'.lane \in Ids(lanes') /\ peek'.index \in DOMAIN LaneAt(lanes', peek'.lane).frames
    <3>1. peek.lane \in Ids(lanes) /\ peek.lane # id /\ peek.index \in DOMAIN LaneAt(lanes, peek.lane).frames
      BY <1>6, <1>10, <2>1, <2>2 DEF DrillInv
    <3>2. PICK k \in DOMAIN new : new[k].id = peek.lane
      <4>1. peek.lane \in Ids(new)
        BY <1>3, <3>1
      <4> QED
        BY <4>1 DEF Ids
    <3>3. PICK j \in DOMAIN lanes : new[k] = lanes[j]
      BY <1>3
    <3>4. LaneAt(new, peek.lane) = new[k] /\ LaneAt(lanes, peek.lane) = lanes[j]
      BY <1>1, <1>3, <3>2, <3>3, LaneOfIs
    <3> QED
      BY <1>3, <1>5, <2>1, <3>1, <3>3, <3>4
  <2> QED
    BY <1>5, <1>7, <1>8, <2>1, <2>2 DEF DrillInv
<1> QED
  BY <1>9, <1>10

\* Another node is opened.
LEMMA OpenKeeps ==
    ASSUME DrillInv, NEW u \in Nodes, Drill!Open(u)
    PROVE  DrillInv'
<1>1. peek' = Absent /\ astray' = astray /\ astray \in BOOLEAN /\ current \in 1..counter /\ (~astray => current \in Ids(lanes))
  BY DEF Drill!Open, DrillInv
<1>2. CASE u = page
  <2>1. Drill!CLEAR_PREVIEW /\ page' = page
    BY <1>2 DEF Drill!Open
  <2>2. /\ Whole(lanes', counter', page') /\ Ids(lanes') = Ids(lanes)
        /\ current' = current /\ current' \in 1..counter' /\ preview' = Absent
    BY <2>1, ClearStep
  <2> QED
    BY <1>1, <2>2, Rests
<1>3. CASE u # page
  <2>1. Drill!OpenPage(u)
    BY <1>3 DEF Drill!Open
  <2>2. /\ Whole(lanes', counter', page') /\ current' \in 1..counter' /\ preview' = Absent /\ current' \in Ids(lanes')
    BY <1>3, <2>1, PageStep
  <2> QED
    BY <1>1, <2>2, Rests
<1> QED
  BY <1>2, <1>3

\* A lane that gets a uid which it does not hold.
LEMMA PreviewedIs ==
    ASSUME NEW ls, NEW c, NEW r, Whole(ls, c, r), NEW id, NEW u \in Nodes, ~Drill!Holds(ls, id, u), NEW new,
           new = [i \in DOMAIN ls |-> IF ls[i].id = id THEN [ls[i] EXCEPT !.frames = Append(ls[i].frames, u)] ELSE ls[i]]
    PROVE  Whole(new, c, r) /\ Ids(new) = Ids(ls) /\ Previewed(new, id)
<1> DEFINE fs == [i \in DOMAIN ls |-> IF ls[i].id = id THEN Append(ls[i].frames, u) ELSE ls[i].frames]
<1>1. ASSUME NEW i \in DOMAIN ls
      PROVE  /\ ls[i] \in LaneSet /\ ls[i].frames \in Seq(Nodes) /\ Len(ls[i].frames) > 0
             /\ ls[i].frames # << >> /\ ls[i].frames[1] = r
             /\ DOMAIN ls[i].frames = 1..Len(ls[i].frames) /\ Len(ls[i].frames) \in Nat
             /\ ls[i] = [ls[i] EXCEPT !.frames = ls[i].frames]
  <2>1. ls[i] \in LaneSet
    BY LaneAtIs
  <2>2. ls[i] = [ls[i] EXCEPT !.frames = ls[i].frames]
    BY <2>1 DEF LaneSet
  <2>3. ls[i].frames # << >> /\ ls[i].frames[1] = r
    BY DEF Whole
  <2> QED
    BY <2>1, <2>2, <2>3, LaneAtIs
<1>2. ASSUME NEW i \in DOMAIN ls
      PROVE  fs[i] \in Seq(Nodes) /\ fs[i] # << >> /\ fs[i][1] = r
  <2> DEFINE G == ls[i].frames
  <2>1. G \in Seq(Nodes) /\ Len(G) > 0 /\ Len(G) \in Nat /\ G # << >> /\ G[1] = r
    BY <1>1
  <2>2. fs[i] = IF ls[i].id = id THEN Append(G, u) ELSE G
    OBVIOUS
  <2> HIDE DEF G, fs
  <2>3. Append(G, u) \in Seq(Nodes) /\ Append(G, u) # << >> /\ Append(G, u)[1] = r
    <3>1. Append(G, u) = G \o <<u>> /\ <<u>> \in Seq(Nodes)
      BY <2>1
    <3> QED
      BY <2>1, <3>1, MoreFrames
  <2> QED
    BY <2>1, <2>2, <2>3
<1>3. \A i \in DOMAIN ls : fs[i] = IF ls[i].id = id THEN Append(ls[i].frames, u) ELSE ls[i].frames
  OBVIOUS
<1> HIDE DEF fs
<1>4. new = [i \in DOMAIN ls |-> [ls[i] EXCEPT !.frames = fs[i]]]
  BY <1>1, <1>3
<1>5. /\ Whole(new, c, r) /\ DOMAIN new = DOMAIN ls /\ Ids(new) = Ids(ls)
      /\ \A i \in DOMAIN ls : new[i].id = ls[i].id /\ new[i].frames = fs[i]
  <2>1. \A i \in DOMAIN ls : fs[i] \in Seq(Nodes) /\ fs[i] # << >> /\ fs[i][1] = r
    BY <1>2
  <2>2. Whole(ls, c, r)
    OBVIOUS
  <2> QED
    BY ONLY <1>4, <2>1, <2>2, WithFrames, SMTT(60)
<1>6. Previewed(new, id)
  <2> SUFFICES ASSUME NEW i \in DOMAIN new, new[i].id = id
               PROVE  /\ Len(new[i].frames) > 1
                      /\ \A j \in 1..(Len(new[i].frames) - 1) : new[i].frames[j] # new[i].frames[Len(new[i].frames)]
    BY DEF Previewed
  <2>6. i \in DOMAIN ls /\ ls[i].id = id /\ new[i].frames = fs[i]
    BY <1>5
  <2> DEFINE G == ls[i].frames
  <2>1. G \in Seq(Nodes) /\ Len(G) > 0 /\ Len(G) \in Nat /\ fs[i] = Append(G, u) /\ DOMAIN G = 1..Len(G)
    BY <1>1, <1>3, <2>6
  <2>2. \A j \in DOMAIN G : G[j] # u
    BY <2>6 DEF Drill!Holds, Drill!ToSet
  <2> HIDE DEF G
  <2>4. /\ Len(Append(G, u)) = Len(G) + 1 /\ Append(G, u)[Len(G) + 1] = u
        /\ \A j \in 1..Len(G) : Append(G, u)[j] = G[j]
    BY <2>1
  <2>5. Len(G) + 1 > 1 /\ (Len(G) + 1) - 1 = Len(G)
    BY <2>1
  <2> QED
    BY <2>1, <2>2, <2>4, <2>5, <2>6
<1> QED
  BY <1>5, <1>6

\* A nearby node is previewed or followed.
LEMMA NearbyKeeps ==
    ASSUME DrillInv, NEW u \in Nodes, Drill!Nearby(u)
    PROVE  DrillInv'
<1> DEFINE holding == {i \in DOMAIN lanes : u \in ToSet(lanes[i].frames)}
<1>1. Whole(lanes, counter, page) /\ astray \in BOOLEAN /\ page' = page
  BY DEF Drill!Nearby, DrillInv
<1>2. \A s : Drill!ToSet(s) = ToSet(s)
  BY DEF Drill!ToSet, ToSet
<1>3. CASE holding # {}
  <2> DEFINE i == CHOOSE i \in holding : \A j \in holding : i <= j
             F == lanes[i].frames
             at == CHOOSE k \in DOMAIN F : F[k] = u /\ \A j \in 1..(k - 1) : F[j] # u
  <2>1. /\ Drill!CLEAR_PREVIEW /\ peek' = Drill!PeekAt(lanes[i].id, at)
        /\ astray' = (astray \/ (lanes[i].id = preview /\ at = Len(F)))
    BY <1>2, <1>3 DEF Drill!Nearby
  <2>2. i \in DOMAIN lanes /\ u \in ToSet(F)
    <3>1. holding \subseteq Nat
      BY <1>1, LaneAtIs
    <3> HIDE DEF holding
    <3>2. i \in holding
      BY <1>3, <3>1, Least
    <3> QED
      BY <3>2 DEF holding
  <2> HIDE DEF i
  <2>3. F \in Seq(Nodes) /\ F # << >> /\ DOMAIN F = 1..Len(F) /\ Len(F) \in Nat /\ lanes[i].id \in 1..counter
    <3>1. F \in Seq(Nodes) /\ DOMAIN F = 1..Len(F) /\ Len(F) \in Nat
      BY <1>1, <2>2, LaneAtIs
    <3>2. F # << >> /\ lanes[i].id \in 1..counter
      BY <1>1, <2>2 DEF Whole
    <3> QED
      BY <3>1, <3>2
  <2>4. at \in DOMAIN F /\ at \in Nat
    BY <2>2, <2>3, FirstAt
  <2> HIDE DEF at
  <2>5. /\ Whole(lanes', counter', page') /\ DOMAIN lanes' = DOMAIN lanes /\ Ids(lanes') = Ids(lanes)
        /\ current' = current /\ current' \in 1..counter' /\ preview' = Absent /\ counter' = counter
        /\ lanes'[i].id = lanes[i].id
        /\ lanes'[i].frames = IF preview # Absent /\ lanes[i].id = preview THEN Cut(F, Len(F) - 1) ELSE F
    BY <1>1, <2>1, <2>2, ClearStep
  <2>6. peek' \in [lane : 1..counter, index : Nat] /\ peek'.lane = lanes[i].id /\ peek'.index = at
    BY <2>1, <2>3, <2>4 DEF Drill!PeekAt
  <2>7. LaneAt(lanes', lanes[i].id) = lanes'[i] /\ lanes[i].id \in Ids(lanes')
    BY <2>2, <2>5, LaneOfIs
  <2>8. ASSUME ~astray' PROVE at \in DOMAIN lanes'[i].frames
    <3>1. CASE preview # Absent /\ lanes[i].id = preview
      <4> DEFINE n == Len(F) - 1
      <4>1. at # Len(F)
        BY <2>1, <2>8, <3>1
      <4>2. n \in Nat /\ n > 0 /\ at \in 1..n
        BY <2>3, <2>4, <4>1
      <4> HIDE DEF n, F
      <4>3. at \in DOMAIN Cut(F, n)
        BY <2>3, <2>4, <4>2, CutIs
      <4> QED
        BY <2>5, <3>1, <4>3 DEF n
    <3>2. CASE ~(preview # Absent /\ lanes[i].id = preview)
      BY <2>4, <2>5, <3>2
    <3> QED
      BY <3>1, <3>2
  <2>9. ~astray' => current' \in Ids(lanes')
    BY <2>1, <2>5 DEF DrillInv
  <2>10. astray' \in BOOLEAN
    BY <1>1, <2>1
  <2> QED
    BY <2>5, <2>6, <2>7, <2>8, <2>9, <2>10 DEF DrillInv
<1>4. CASE holding = {}
  <2> DEFINE cleared == Drill!WithoutPreview
  <2>1. Drill!PREVIEW(u) /\ peek' = Absent /\ astray' = astray
    BY <1>2, <1>4 DEF Drill!Nearby
  <2>2. current' = current /\ counter' = counter /\ current \in 1..counter /\ (~astray => current \in Ids(lanes))
    BY <2>1 DEF Drill!PREVIEW, DrillInv
  <2>3. /\ Whole(cleared, counter, page) /\ DOMAIN cleared = DOMAIN lanes /\ Ids(cleared) = Ids(lanes)
        /\ \A i \in DOMAIN lanes : cleared[i].id = lanes[i].id
    BY WithoutPreviewIs
  <2>4. CASE Drill!Holds(cleared, current, u)
    <3>1. lanes' = cleared /\ preview' = Absent
      BY <2>1, <2>4 DEF Drill!PREVIEW
    <3> QED
      BY <1>1, <2>1, <2>2, <2>3, <3>1, Rests
  <2>5. CASE ~Drill!Holds(cleared, current, u)
    <3>1. /\ preview' = current
          /\ lanes' = [i \in DOMAIN lanes |-> IF lanes[i].id = current
                         THEN [cleared[i] EXCEPT !.frames = Append(cleared[i].frames, u)] ELSE cleared[i]]
      BY <2>1, <2>5 DEF Drill!PREVIEW
    <3> HIDE DEF cleared
    <3>2. lanes' = [i \in DOMAIN cleared |-> IF cleared[i].id = current
                      THEN [cleared[i] EXCEPT !.frames = Append(cleared[i].frames, u)] ELSE cleared[i]]
      BY <2>3, <3>1
    <3>5. Whole(lanes', counter, page) /\ Ids(lanes') = Ids(cleared) /\ Previewed(lanes', current)
      BY <2>3, <2>5, <3>2, PreviewedIs
    <3> QED
      BY <1>1, <2>1, <2>2, <2>3, <3>1, <3>5 DEF DrillInv
  <2> QED
    BY <2>4, <2>5
<1> QED
  BY <1>3, <1>4

\* Prefixes of the frames asked for.
LEMMA PrefixIs ==
    ASSUME NEW s \in Seq(Nodes), s # << >>
    PROVE  /\ Drill!HasPrefix(s, s)
           /\ \A t \in Seq(Nodes) : Drill!HasPrefix(s \o t, s)
           /\ \A t \in Seq(Nodes) : Drill!HasPrefix(t, s) /\ t # << >> => t[1] = s[1]
<1>1. Len(s) \in Nat /\ Len(s) > 0 /\ Len(s) \in 1..Len(s) /\ 1 \in 1..Len(s)
  OBVIOUS
<1>2. Drill!HasPrefix(s, s)
  BY <1>1, FirstFrames DEF Drill!HasPrefix
<1>3. ASSUME NEW t \in Seq(Nodes) PROVE Drill!HasPrefix(s \o t, s)
  <2> DEFINE st == s \o t
  <2>1. /\ st \in Seq(Nodes) /\ Len(st) = Len(s) + Len(t) /\ Len(t) \in Nat
        /\ \A k \in 1..Len(s) : st[k] = s[k]
    BY MoreFrames
  <2> HIDE DEF st
  <2>2. Len(s) \in 1..Len(st) /\ Len(s) <= Len(st)
    BY <1>1, <2>1
  <2>3. /\ SubSeq(st, 1, Len(s)) \in Seq(Nodes) /\ Len(SubSeq(st, 1, Len(s))) = Len(s)
        /\ \A k \in 1..Len(s) : SubSeq(st, 1, Len(s))[k] = st[k]
    BY <2>1, <2>2, FirstFrames
  <2>4. SubSeq(st, 1, Len(s)) = s
    BY <2>1, <2>3
  <2> QED
    BY <2>2, <2>4 DEF Drill!HasPrefix, st
<1>4. ASSUME NEW t \in Seq(Nodes), Drill!HasPrefix(t, s) PROVE t[1] = s[1]
  <2>1. Len(s) <= Len(t) /\ SubSeq(t, 1, Len(s)) = s /\ Len(t) \in Nat
    BY <1>4 DEF Drill!HasPrefix
  <2>2. Len(s) \in 1..Len(t)
    BY <1>1, <2>1
  <2> QED
    BY <1>1, <2>1, <2>2, FirstFrames
<1> QED
  BY <1>2, <1>3, <1>4

\* A lane that goes on to a path, with the frames it lacks.
LEMMA RemainingIs ==
    ASSUME NEW s \in Seq(Nodes), s # << >>, NEW w \in Seq(Nodes), Drill!HasPrefix(w, s)
    PROVE  Drill!Remaining(w, s) \in Seq(Nodes) /\ s \o Drill!Remaining(w, s) = w
<1> DEFINE n == Len(s)
           rest == SubSeq(w, n + 1, Len(w))
<1>1. n \in Nat /\ n > 0 /\ n <= Len(w) /\ Len(w) \in Nat /\ SubSeq(w, 1, n) = s
  BY DEF Drill!HasPrefix
<1>2. rest \in Seq(Nodes) /\ Len(rest) = Len(w) - n /\ \A k \in 1..(Len(w) - n) : rest[k] = w[n + k]
  BY <1>1
<1>3. \A k \in 1..n : s[k] = w[k]
  BY <1>1
<1> HIDE DEF rest
<1>4. /\ s \o rest \in Seq(Nodes) /\ Len(s \o rest) = n + (Len(w) - n)
      /\ \A k \in 1..n : (s \o rest)[k] = s[k]
      /\ \A k \in 1..(Len(w) - n) : (s \o rest)[n + k] = rest[k]
  BY <1>2, MoreFrames
<1> HIDE DEF n
<1>5. ASSUME NEW k \in 1..Len(w) PROVE (s \o rest)[k] = w[k]
  <2>1. CASE k <= n
    BY <1>1, <1>3, <1>4, <2>1
  <2>2. CASE ~(k <= n)
    <3>1. k - n \in 1..(Len(w) - n) /\ n + (k - n) = k
      BY <1>1, <2>2
    <3> QED
      BY <1>2, <1>4, <3>1
  <2> QED
    BY <2>1, <2>2
<1>6. n + (Len(w) - n) = Len(w)
  BY <1>1
<1>7. s \o rest = w
  BY <1>4, <1>5, <1>6
<1> QED
  BY <1>2, <1>7 DEF rest, n, Drill!Remaining

\* The longest of the lanes that agree.
LEMMA BestIs ==
    ASSUME DrillInv, NEW w \in Seq(Nodes), \E i \in DOMAIN lanes : Drill!HasPrefix(w, lanes[i].frames)
    PROVE  Drill!Best(w) \in DOMAIN lanes /\ Drill!HasPrefix(w, lanes[Drill!Best(w)].frames)
<1> DEFINE P == {i \in DOMAIN lanes : Drill!HasPrefix(w, lanes[i].frames)}
           size(i) == Len(lanes[i].frames)
           lack(i) == Len(w) - size(i)
           D == {lack(i) : i \in P}
<1>1. /\ P # {} /\ P \subseteq Nat
      /\ \A i \in P : size(i) \in Nat /\ lack(i) \in Nat
  <2>1. Whole(lanes, counter, page)
    BY DEF DrillInv
  <2>2. DOMAIN lanes \subseteq Nat /\ Len(w) \in Nat /\ \A i \in DOMAIN lanes : size(i) \in Nat
    BY <2>1, LaneAtIs
  <2> QED
    BY <2>2 DEF Drill!HasPrefix
<1> HIDE DEF P, size
<1>2. D # {} /\ D \subseteq Nat
  BY <1>1
<1>3. PICK m \in D : \A n \in D : m <= n
  BY <1>2, Least
<1> DEFINE S == {i \in P : lack(i) = m}
<1>4. S # {} /\ S \subseteq Nat
  BY <1>1, <1>3
<1>5. PICK i \in S : \A j \in S : i <= j
  BY <1>4, Least
<1>6. ASSUME NEW j \in P PROVE size(i) > size(j) \/ (size(i) = size(j) /\ i <= j)
  <2>1. lack(i) <= lack(j) /\ i \in P /\ size(i) \in Nat /\ size(j) \in Nat /\ Len(w) \in Nat
    BY <1>1, <1>3, <1>5, <1>6
  <2>2. lack(i) = lack(j) => i <= j
    BY <1>5, <1>6
  <2> QED
    BY <2>1, <2>2
<1>7. \E k \in P : \A j \in P : size(k) > size(j) \/ (size(k) = size(j) /\ k <= j)
  BY <1>5, <1>6
<1>8. Drill!Best(w) = CHOOSE k \in P : \A j \in P : size(k) > size(j) \/ (size(k) = size(j) /\ k <= j)
  BY DEF Drill!Best, P, size
<1>9. Drill!Best(w) \in P
  BY <1>7, <1>8
<1> QED
  BY <1>9 DEF P

\* A drill along a path.
LEMMA DrillPathKeeps ==
    ASSUME DrillInv, NEW path \in Paths, Drill!DrillPath(path)
    PROVE  /\ DrillInv'
           /\ LaneAt(lanes', current').frames = Drill!Desired(path)
           /\ \A i \in DOMAIN lanes : \E j \in DOMAIN lanes' :
                Drill!HasPrefix(lanes'[j].frames, lanes[i].frames) \/ Drill!HasPrefix(lanes[i].frames, Drill!Desired(path))
<1> DEFINE V == Drill!VisualFrames
           v == Drill!VisualIndex
           w == Drill!Desired(path)
           having == {i \in DOMAIN lanes : Drill!HasPrefix(lanes[i].frames, w)}
<1>1. /\ page' = page /\ astray' = astray /\ Drill!Visible # Absent /\ Whole(lanes, counter, page)
      /\ astray \in BOOLEAN /\ peek' = Absent
  BY DEF Drill!DrillPath, Drill!Peeks, DrillInv
<1>2. w \in Seq(Nodes) /\ w # << >> /\ w[1] = page
  <2>1. V \in Seq(Nodes) /\ V # << >> /\ V[1] = page /\ v \in DOMAIN V
    BY <1>1, VisualIs
  <2>2. w = SubSeq(V, 1, v) \o path /\ path \in Seq(Nodes)
    BY PartsAssumption DEF Drill!DrillAssumption, Drill!Desired
  <2> HIDE DEF V, v, w
  <2>3. v \in 1..Len(V) /\ 1 \in 1..v
    BY <2>1
  <2>4. SubSeq(V, 1, v) \in Seq(Nodes) /\ SubSeq(V, 1, v) # << >> /\ SubSeq(V, 1, v)[1] = page
    BY <2>1, <2>3, FirstFrames
  <2> QED
    BY <2>2, <2>4, MoreFrames
<1>3. ASSUME NEW i \in DOMAIN lanes
      PROVE  /\ lanes[i].frames \in Seq(Nodes) /\ lanes[i].frames # << >> /\ lanes[i].frames[1] = page
             /\ Len(lanes[i].frames) \in Nat /\ lanes[i].id \in 1..counter /\ lanes[i].id \in Ids(lanes)
             /\ Drill!HasPrefix(lanes[i].frames, lanes[i].frames)
  <2>1. lanes[i].frames \in Seq(Nodes) /\ Len(lanes[i].frames) \in Nat
    BY <1>1, LaneAtIs
  <2>2. lanes[i].frames # << >> /\ lanes[i].frames[1] = page
    BY <1>1 DEF Whole
  <2>3. lanes[i].id \in 1..counter /\ lanes[i].id \in Ids(lanes)
    BY <1>1, LaneOfIs
  <2> QED
    BY <2>1, <2>2, <2>3, PrefixIs
<1>4. CASE having # {}
  <2> DEFINE i == CHOOSE i \in having : \A j \in having : i <= j
  <2>1. /\ IF Len(lanes[i].frames) > Len(w) THEN Drill!POP_TO(lanes[i].id, Len(w)) ELSE Drill!SWITCH(lanes[i].id)
        /\ i \in having
    <3>1. IF Len(lanes[i].frames) > Len(w) THEN Drill!POP_TO(lanes[i].id, Len(w)) ELSE Drill!SWITCH(lanes[i].id)
      BY <1>4 DEF Drill!DrillPath
    <3>2. having \subseteq Nat
      BY <1>1, LaneAtIs
    <3> HIDE DEF having
    <3> QED
      BY <1>4, <3>1, <3>2, Least
  <2>2. i \in DOMAIN lanes /\ Drill!HasPrefix(lanes[i].frames, w)
    BY <2>1
  <2> HIDE DEF i, w
  <2> DEFINE F == lanes[i].frames
             L == Len(w)
  <2>3. F \in Seq(Nodes) /\ F # << >> /\ Len(F) \in Nat /\ L \in Nat /\ L > 0 /\ L <= Len(F) /\ SubSeq(F, 1, L) = w
    BY <1>2, <1>3, <2>2 DEF Drill!HasPrefix
  <2>4. CASE Len(F) > L
    <3>1. Drill!POP_TO(lanes[i].id, L)
      BY <2>1, <2>4
    <3>2. /\ Whole(lanes', counter', page') /\ DOMAIN lanes' = DOMAIN lanes /\ Ids(lanes') = Ids(lanes)
          /\ current' \in 1..counter' /\ preview' = Absent /\ current' = lanes[i].id
          /\ \A k \in DOMAIN lanes : /\ lanes'[k].id = lanes[k].id
               /\ lanes'[k].frames = IF lanes[k].id = lanes[i].id THEN Cut(lanes[k].frames, L) ELSE lanes[k].frames
      <4> HIDE DEF L
      <4> QED
        BY <1>1, <1>3, <2>2, <2>3, <3>1, PopStep
    <3>3. DrillInv'
      BY <1>1, <1>3, <2>2, <3>2, Rests
    <3>4. Cut(F, L) = w
      <4> HIDE DEF F, L
      <4> QED
        BY <2>3, CutIs
    <3>5. LaneAt(lanes', current') = lanes'[i] /\ lanes'[i].frames = w
      BY <2>2, <3>2, <3>4, LaneOfIs
    <3>6. ASSUME NEW k \in DOMAIN lanes
          PROVE  \E j \in DOMAIN lanes' :
                   Drill!HasPrefix(lanes'[j].frames, lanes[k].frames) \/ Drill!HasPrefix(lanes[k].frames, w)
      <4>1. CASE k = i
        BY <2>2, <3>2, <4>1
      <4>2. CASE k # i
        <5>1. lanes'[k].frames = lanes[k].frames /\ k \in DOMAIN lanes'
          BY <1>1, <2>2, <3>2, <4>2, LaneOfIs
        <5> QED
          BY <1>3, <5>1
      <4> QED
        BY <4>1, <4>2
    <3> QED
      BY <3>3, <3>5, <3>6 DEF w
  <2>5. CASE ~(Len(F) > L)
    <3>1. Drill!SWITCH(lanes[i].id)
      BY <2>1, <2>5
    <3>2. lanes' = lanes /\ preview' = preview /\ counter' = counter /\ current' = lanes[i].id
      BY <3>1 DEF Drill!SWITCH
    <3>3. DrillInv'
      BY <1>1, <1>3, <2>2, <3>2 DEF DrillInv
    <3>4. LaneAt(lanes', current').frames = w
      <4>1. LaneAt(lanes', current').frames = F
        BY <1>1, <2>2, <3>2, LaneOfIs
      <4> HIDE DEF F, L
      <4>2. L = Len(F) /\ L \in 1..Len(F)
        BY <2>3, <2>5
      <4>3. w = F
        BY <2>3, <4>2, FirstFrames
      <4> QED
        BY <4>1, <4>3
    <3> QED
      BY <1>3, <3>2, <3>3, <3>4 DEF w
  <2> QED
    BY <2>4, <2>5
<1>5. CASE having = {} /\ \E i \in DOMAIN lanes : Drill!HasPrefix(w, lanes[i].frames)
  <2> DEFINE i == Drill!Best(w)
             F == lanes[i].frames
             rest == Drill!Remaining(w, F)
  <2>1. Drill!EXTEND(lanes[i].id, rest)
    BY <1>5 DEF Drill!DrillPath
  <2>2. i \in DOMAIN lanes /\ Drill!HasPrefix(w, F)
    BY <1>2, <1>5, BestIs
  <2> HIDE DEF i, w, having
  <2>3. rest \in Seq(Nodes) /\ F \o rest = w
    BY <1>2, <1>3, <2>2, RemainingIs
  <2> HIDE DEF rest
  <2>4. /\ Whole(lanes', counter', page') /\ DOMAIN lanes' = DOMAIN lanes /\ Ids(lanes') = Ids(lanes)
        /\ current' \in 1..counter' /\ preview' = Absent /\ current' = lanes[i].id
        /\ \A k \in DOMAIN lanes :
             /\ lanes'[k].id = lanes[k].id
             /\ lanes'[k].frames = IF lanes[k].id = lanes[i].id THEN lanes[k].frames \o rest ELSE lanes[k].frames
    BY <1>1, <1>3, <2>1, <2>2, <2>3, ExtendStep
  <2>5. DrillInv'
    BY <1>1, <1>3, <2>2, <2>4, Rests
  <2>6. LaneAt(lanes', current') = lanes'[i] /\ lanes'[i].frames = w
    BY ZenonT(30), <2>2, <2>3, <2>4, LaneOfIs
  <2>7. ASSUME NEW k \in DOMAIN lanes PROVE k \in DOMAIN lanes' /\ Drill!HasPrefix(lanes'[k].frames, lanes[k].frames)
    BY <1>3, <2>3, <2>4, PrefixIs
  <2> QED
    BY <2>5, <2>6, <2>7 DEF w
<1>6. CASE having = {} /\ ~\E i \in DOMAIN lanes : Drill!HasPrefix(w, lanes[i].frames)
  <2>1. Drill!CREATE(w)
    BY <1>6 DEF Drill!DrillPath
  <2> HIDE DEF w, having
  <2>2. /\ Whole(lanes', counter', page') /\ current' \in 1..counter' /\ preview' = Absent
        /\ current' \in Ids(lanes') /\ LaneAt(lanes', current').frames = w
        /\ DOMAIN lanes \subseteq DOMAIN lanes' /\ \A i \in DOMAIN lanes : lanes'[i] = lanes[i]
    BY <1>1, <1>2, <2>1, CreateStep
  <2>3. DrillInv'
    BY <1>1, <2>2, Rests
  <2>4. ASSUME NEW k \in DOMAIN lanes PROVE k \in DOMAIN lanes' /\ Drill!HasPrefix(lanes'[k].frames, lanes[k].frames)
    BY <1>3, <2>2
  <2> QED
    BY <2>2, <2>3, <2>4 DEF w
<1> QED
  BY <1>4, <1>5, <1>6

\* A page starts with one whole lane.
LEMMA DrillStarts ==
    ASSUME Drill!Init
    PROVE  DrillInv
<1>1. /\ page \in Nodes /\ lanes = << Drill!Lane(1, <<page>>) >> /\ current = 1 /\ counter = 1
      /\ preview = Absent /\ peek = Absent /\ astray = FALSE
  BY DEF Drill!Init
<1>2. 1 \in {1}
  OBVIOUS
<1> QED
  BY <1>1, <1>2, FirstLane DEF DrillInv

\* Every step keeps the lanes whole.
LEMMA DrillKeeps ==
    ASSUME DrillInv, Drill!Next \/ UNCHANGED drillVars
    PROVE  DrillInv'
<1>1. CASE UNCHANGED drillVars
  BY <1>1 DEF drillVars, DrillInv
<1>2. CASE Drill!Next
  <2>1. ASSUME NEW u \in Nodes, Drill!DrillIn(u) PROVE DrillInv'
    BY <2>1, DrillInKeeps
  <2>2. ASSUME NEW u \in Nodes, Drill!Nearby(u) PROVE DrillInv'
    BY <2>2, NearbyKeeps
  <2>3. ASSUME NEW u \in Nodes, Drill!Open(u) PROVE DrillInv'
    BY <2>3, OpenKeeps
  <2>4. ASSUME NEW path \in Paths, Drill!DrillPath(path) PROVE DrillInv'
    BY <2>4, DrillPathKeeps
  <2>5. ASSUME NEW id \in 1..counter, NEW index \in 1..MaxFrames, Drill!AfterDelete(id, index) PROVE DrillInv'
    BY <2>5, AfterDeleteKeeps
  <2>6. ASSUME Drill!Escape PROVE DrillInv'
    BY <2>6, EscapeKeeps
  <2>7. ASSUME NEW i \in DOMAIN lanes, Drill!Click(i) PROVE DrillInv'
    BY <2>7, ClickKeeps
  <2>8. ASSUME NEW i \in DOMAIN lanes, Drill!Close(i) PROVE DrillInv'
    BY <2>8, CloseKeeps
  <2>9. ASSUME NEW i \in DOMAIN lanes, NEW index \in 1..MaxFrames, Drill!Hover(i, index) PROVE DrillInv'
    BY <2>9, HoverKeeps
  <2> QED
    BY <1>2, <2>1, <2>2, <2>3, <2>4, <2>5, <2>6, <2>7, <2>8, <2>9 DEF Drill!Next
<1> QED
  BY <1>1, <1>2

\* What the lanes promise.
LEMMA DrillHolds ==
    ASSUME DrillInv
    PROVE  Drill!TypeOK /\ Drill!LanesAreWhole /\ Drill!SomethingIsShown
<1>1. Whole(lanes, counter, page)
  BY DEF DrillInv
<1>2. Drill!TypeOK
  <2>1. page \in Nodes /\ \A i \in DOMAIN lanes : lanes[i].frames \in Seq(Nodes) /\ lanes[i].id \in 1..counter
    BY <1>1, LaneAtIs DEF Whole
  <2> QED
    BY <2>1 DEF DrillInv, Drill!TypeOK
<1>3. Drill!LanesAreWhole
  <2>1. ASSUME preview # Absent, ~astray
        PROVE  /\ preview \in Drill!LaneIds /\ Len(Drill!LaneOf(preview).frames) > 1
               /\ Drill!Last(Drill!LaneOf(preview).frames) \notin Drill!ToSet(Drill!Front(Drill!LaneOf(preview).frames))
    <3>1. preview \in Ids(lanes) /\ Previewed(lanes, preview)
      BY <2>1 DEF DrillInv
    <3>2. PICK i \in DOMAIN lanes : LaneAt(lanes, preview) = lanes[i] /\ lanes[i].id = preview
      BY <1>1, <3>1, LaneAtIs
    <3> DEFINE F == lanes[i].frames
               n == Len(F) - 1
    <3>3. /\ F \in Seq(Nodes) /\ Len(F) \in Nat /\ Len(F) > 1 /\ \A j \in 1..n : F[j] # F[Len(F)]
      BY <1>1, <3>1, <3>2, LaneAtIs DEF Previewed
    <3>4. Drill!LaneOf(preview).frames = F
      BY <3>2, DrillNames
    <3> HIDE DEF F
    <3>5. n \in Nat /\ n \in 1..Len(F)
      BY <3>3
    <3>6. Drill!Front(F) = SubSeq(F, 1, n) /\ Drill!Last(F) = F[Len(F)]
      BY DEF Drill!Front, Drill!Last
    <3> HIDE DEF n
    <3>7. DOMAIN SubSeq(F, 1, n) = 1..n /\ \A k \in 1..n : SubSeq(F, 1, n)[k] = F[k]
      BY <3>3, <3>5, FirstFrames
    <3>8. F[Len(F)] \notin Drill!ToSet(SubSeq(F, 1, n))
      BY <3>3, <3>7 DEF Drill!ToSet
    <3> QED
      BY <3>1, <3>3, <3>4, <3>6, <3>8, DrillNames
  <2>2. /\ \A i, j \in DOMAIN lanes : lanes[i].id = lanes[j].id => i = j
        /\ lanes # << >>
        /\ \A i \in DOMAIN lanes : lanes[i].frames # << >> /\ lanes[i].frames[1] = page
    BY <1>1 DEF Whole
  <2> QED
    BY <2>1, <2>2 DEF Drill!LanesAreWhole
<1>4. Drill!SomethingIsShown
  <2>1. ~astray => Drill!Visible # Absent
    BY VisualIs
  <2>2. ~astray => current \in Drill!LaneIds
    BY DrillNames DEF DrillInv
  <2> QED
    BY <2>1, <2>2 DEF Drill!SomethingIsShown
<1> QED
  BY <1>2, <1>3, <1>4

\* A drill along a path shows it.
LEMMA DrillLeads ==
    ASSUME DrillInv, NEW path \in Paths, Drill!DrillPath(path)
    PROVE  /\ Drill!LaneOf(current)'.frames = Drill!Desired(path)
           /\ \A i \in DOMAIN lanes : \E j \in DOMAIN lanes' :
                Drill!HasPrefix(lanes'[j].frames, lanes[i].frames) \/ Drill!HasPrefix(lanes[i].frames, Drill!Desired(path))
BY DrillPathKeeps, DrillNames

-----------------------------------------------------------------------------
(* The pages of a table (EditorPages).                                      *)

\* The order of a listing and what follows a cursor, in given rows.
KeyIn(v, l, d) == IF l.field = "uid" THEN Rank[d] ELSE v[d]

InFront(v, l, d, e) ==
    LET lower(r, q) == \/ KeyIn(v, l, r) < KeyIn(v, l, q)
                       \/ KeyIn(v, l, r) = KeyIn(v, l, q) /\ Rank[r] < Rank[q]
    IN  IF l.desc THEN lower(e, d) ELSE lower(d, e)

ByUid(l) == l.field = "uid"
OfDocs(l) == l.procedure = "getCollectionDocs"

Beyond(v, l, c, d) ==
    \/ c = Absent
    \/ /\ c # Absent
       /\ IF OfDocs(l) THEN c.row # d /\ InFront(v, l, c.row, d)
          ELSE IF l.field \in {"uid", "type"}
            THEN IF l.desc THEN KeyIn(v, l, d) < c.key ELSE KeyIn(v, l, d) > c.key
            ELSE l.desc

Beyonds(v, l, c) == {d \in DOMAIN v : Beyond(v, l, c, d)}

\* Rows with values.
RowSet == UNION {[S -> Values] : S \in SUBSET Nodes}
MaybeCursor == Pages!Cursor \cup {Absent}
Questions == [listing : Pages!Listings, after : MaybeCursor]
AnswerSet == [question : Questions \cup {Absent}, rows : Seq(Nodes), next : MaybeCursor, failed : BOOLEAN]

Rows(a) == {a.rows[k] : k \in DOMAIN a.rows}

\* Sets count the same in EditorPages.
LEMMA PagesCounts ==
    \A S : Pages!Cardinality(S) = Cardinality(S) /\ (Pages!IsFiniteSet(S) <=> IsFiniteSet(S))
BY DEF Pages!Cardinality, Cardinality, Pages!IsFiniteSet, IsFiniteSet

\* The names of EditorPages.
LEMMA PagesNames ==
    /\ \A l, d, e : Pages!Before(l, d, e) = InFront(value, l, d, e)
    /\ \A l, c : Pages!RowsLeft(l, c) = Beyonds(value, l, c)
    /\ \A a : Pages!ToSet(a.rows) = Rows(a)
<1>1. \A l, d, e : Pages!Before(l, d, e) = InFront(value, l, d, e)
  BY DEF Pages!Before, Pages!SortKey, InFront, KeyIn
<1>2. ASSUME NEW l, NEW c PROVE Pages!RowsLeft(l, c) = Beyonds(value, l, c)
  <2>1. ASSUME NEW d PROVE (c = Absent \/ (c # Absent /\ (IF Pages!ByDocument(l) THEN Pages!AfterDocument(l, c, d)
                                                  ELSE Pages!AfterValue(l, c, d)))) <=> Beyond(value, l, c, d)
    BY <1>1 DEF Pages!ByDocument, Pages!AfterDocument, Pages!AfterValue, Pages!IsText, Pages!SortKey, Beyond, OfDocs, KeyIn
  <2> QED
    BY <2>1 DEF Pages!RowsLeft, Beyonds
<1>3. \A a : Pages!ToSet(a.rows) = Rows(a)
  BY DEF Pages!ToSet, Rows
<1> QED
  BY <1>1, <1>2, <1>3

\* The rows of a table.
LEMMA RowSetIs ==
    ASSUME NEW v
    PROVE  v \in RowSet <=> DOMAIN v \subseteq Nodes /\ v \in [DOMAIN v -> Values]
BY DEF RowSet

\* A listing orders rows strictly, and any two of them.
LEMMA ListingOrders ==
    ASSUME NEW v \in RowSet, NEW l \in Pages!Listings
    PROVE  /\ \A d \in DOMAIN v : ~InFront(v, l, d, d)
           /\ \A d, e \in DOMAIN v : d # e => InFront(v, l, d, e) \/ InFront(v, l, e, d)
           /\ \A d, e, f \in DOMAIN v : InFront(v, l, d, e) /\ InFront(v, l, e, f) => InFront(v, l, d, f)
           /\ \A d, e \in DOMAIN v : InFront(v, l, d, e) => ~InFront(v, l, e, d)
<1>1. /\ \A d \in DOMAIN v : Rank[d] \in Int /\ KeyIn(v, l, d) \in Int
      /\ \A d, e \in DOMAIN v : Rank[d] = Rank[e] => d = e
  BY PartsAssumption, RowSetIs DEF Pages!PagesAssumption, KeyIn
<1> QED
  BY <1>1 DEF InFront

\* A strict order of finitely many gives each a place of its own.
Lower(K, R, x) == {y \in K : <<y, x>> \in R}

Strict(K, R) ==
    /\ \A x \in K : <<x, x>> \notin R
    /\ \A x, y \in K : x # y => <<x, y>> \in R \/ <<y, x>> \in R
    /\ \A x, y, z \in K : <<x, y>> \in R /\ <<y, z>> \in R => <<x, z>> \in R

Placed(K, R) ==
    /\ Cardinality(K) \in Nat
    /\ \A x \in K : Cardinality(Lower(K, R, x)) \in 0..(Cardinality(K) - 1)
    /\ \A x, y \in K : <<x, y>> \in R => Cardinality(Lower(K, R, x)) < Cardinality(Lower(K, R, y))
    /\ \A x, y \in K : Cardinality(Lower(K, R, x)) = Cardinality(Lower(K, R, y)) => x = y
    /\ \A p \in 1..Cardinality(K) : \E x \in K : Cardinality(Lower(K, R, x)) = p - 1

\* The places are those from one to the number of elements.
LEMMA RankedAre == ASSUME NEW K, IsFiniteSet(K), NEW R, Strict(K, R) PROVE Placed(K, R)
<1> DEFINE c == Cardinality(K)
           place(x) == Cardinality(Lower(K, R, x))
<1>1. c \in Nat
  BY FS_CardinalityType
<1>2. ASSUME NEW T \in SUBSET K, NEW U \in SUBSET T, T # U
      PROVE  Cardinality(U) \in Nat /\ Cardinality(T) \in Nat /\ Cardinality(U) < Cardinality(T)
  <2>1. IsFiniteSet(T)
    BY FS_Subset
  <2>2. IsFiniteSet(U) /\ Cardinality(U) <= Cardinality(T) /\ (Cardinality(T) = Cardinality(U) => T = U)
    BY <2>1, FS_Subset
  <2>3. Cardinality(T) \in Nat /\ Cardinality(U) \in Nat
    BY <2>1, <2>2, FS_CardinalityType
  <2> QED
    BY <1>2, <2>2, <2>3
<1>3. \A x \in K : Lower(K, R, x) \in SUBSET K /\ x \notin Lower(K, R, x)
  BY DEF Lower, Strict
<1>4. ASSUME NEW x \in K PROVE place(x) \in 0..(c - 1)
  <2>1. Lower(K, R, x) \in SUBSET K /\ K # Lower(K, R, x)
    BY <1>3
  <2>2. place(x) \in Nat /\ place(x) < c
    BY <1>2, <2>1
  <2> QED
    BY <1>1, <2>2
<1>5. ASSUME NEW x \in K, NEW y \in K, <<x, y>> \in R PROVE place(x) < place(y)
  <2>1. Lower(K, R, x) \in SUBSET Lower(K, R, y)
    BY <1>5 DEF Lower, Strict
  <2>2. Lower(K, R, y) \in SUBSET K /\ Lower(K, R, y) # Lower(K, R, x)
    BY <1>3, <1>5 DEF Lower
  <2> QED
    BY <1>2, <2>1, <2>2
<1> HIDE DEF c, place
<1>6. ASSUME NEW x \in K, NEW y \in K, place(x) = place(y) PROVE x = y
  <2>1. place(x) \in Int /\ place(y) \in Int /\ ~(place(x) < place(y)) /\ ~(place(y) < place(x))
    BY <1>4, <1>6
  <2> QED
    BY <1>5, <2>1 DEF Strict
<1>7. \A p \in 1..c : \E x \in K : place(x) = p - 1
  <2> DEFINE T == 1..c
             f == [x \in K |-> place(x) + 1]
  <2>1. IsFiniteSet(T) /\ Cardinality(T) = c
    <3>1. \A m \in Int : IsFiniteSet(1..m) /\ Cardinality(1..m) = IF 1 > m THEN 0 ELSE m - 1 + 1
      BY FS_Interval
    <3> QED
      BY <1>1, <3>1
  <2>2. \A x \in K : place(x) \in Int /\ place(x) + 1 \in T
    BY <1>1, <1>4
  <2>3. f \in [K -> T]
    BY <2>2
  <2>4. \A x, y \in K : f[x] = f[y] => x = y
    <3> SUFFICES ASSUME NEW x \in K, NEW y \in K, f[x] = f[y] PROVE x = y
      OBVIOUS
    <3>1. place(x) = place(y)
      BY <2>2
    <3> QED
      BY <1>6, <3>1
  <2>5. \A x \in K : f[x] = place(x) + 1
    OBVIOUS
  <2> HIDE DEF f, T
  <2>6. f \in Injection(K, T)
    BY <2>3, <2>4 DEF Injection, IsInjective
  <2>7. f \in Surjection(K, T)
    BY <2>1, <2>6, FS_Injection DEF c
  <2>8. ASSUME NEW p \in T PROVE \E x \in K : place(x) = p - 1
    <3>1. PICK x \in K : f[x] = p
      BY <2>7 DEF Surjection
    <3>2. place(x) + 1 = p /\ place(x) \in Int
      BY <2>2, <2>5, <3>1
    <3> QED
      BY <3>2
  <2> QED
    BY <2>8 DEF T
<1> QED
  BY <1>1, <1>4, <1>5, <1>6, <1>7 DEF c, place, Placed

\* The rows of a page, in order, none left out.
LEMMA InOrderIs ==
    ASSUME value \in RowSet, NEW l \in Pages!Listings, NEW S \in SUBSET DOMAIN value
    PROVE  LET s == Pages!InOrder(l, S)
           IN  /\ s \in Seq(Nodes) /\ Len(s) = Cardinality(S) /\ Cardinality(S) \in Nat
               /\ {s[k] : k \in DOMAIN s} = S
               /\ \A i, j \in DOMAIN s : i < j => InFront(value, l, s[i], s[j])
<1> DEFINE R == {x \in S \X S : InFront(value, l, x[1], x[2])}
           place(d) == Cardinality(Lower(S, R, d))
           ahead(d) == {e \in S : Pages!Before(l, e, d)}
           at(k) == CHOOSE d \in S : Pages!Cardinality(ahead(d)) = k - 1
           c == Cardinality(S)
           s == Pages!InOrder(l, S)
<1>1. S \subseteq Nodes /\ DOMAIN value \subseteq Nodes
  BY RowSetIs
<1>2. IsFiniteSet(S)
  <2>1. IsFiniteSet(Nodes)
    BY PartsAssumption, PagesCounts DEF Pages!PagesAssumption
  <2> QED
    BY <1>1, <2>1, FS_Subset
<1>3. \A x, y \in S : <<x, y>> \in R <=> InFront(value, l, x, y)
  OBVIOUS
<1>4. s = [k \in 1..c |-> at(k)]
  <2>1. s = [k \in 1..Pages!Cardinality(S) |-> at(k)]
    BY DEF Pages!InOrder
  <2> HIDE DEF at, s
  <2> QED
    BY <2>1, PagesCounts
<1>0. \A d \in S : Pages!Cardinality(ahead(d)) = place(d)
  <2> SUFFICES ASSUME NEW d \in S PROVE ahead(d) = Lower(S, R, d)
    BY PagesCounts
  <2>1. \A e \in S : Pages!Before(l, e, d) <=> <<e, d>> \in R
    BY <1>3, PagesNames
  <2> HIDE DEF R
  <2> QED
    BY <2>1 DEF Lower
<1> HIDE DEF R, s
<1>5. /\ c \in Nat
      /\ \A x \in S : place(x) \in 0..(c - 1)
      /\ \A x, y \in S : InFront(value, l, x, y) => place(x) < place(y)
      /\ \A x, y \in S : place(x) = place(y) => x = y
      /\ \A p \in 1..c : \E x \in S : place(x) = p - 1
  <2>1. /\ \A x \in S : <<x, x>> \notin R
        /\ \A x, y \in S : x # y => <<x, y>> \in R \/ <<y, x>> \in R
        /\ \A x, y, z \in S : <<x, y>> \in R /\ <<y, z>> \in R => <<x, z>> \in R
    BY <1>3, ListingOrders
  <2>2. /\ c \in Nat
        /\ \A x \in S : place(x) \in 0..(c - 1)
        /\ \A x, y \in S : <<x, y>> \in R => place(x) < place(y)
        /\ \A x, y \in S : place(x) = place(y) => x = y
        /\ \A p \in 1..c : \E x \in S : place(x) = p - 1
    <3>1. Strict(S, R)
      BY <2>1 DEF Strict
    <3>2. Placed(S, R)
      BY <1>2, <3>1, RankedAre
    <3> QED
      BY <3>2 DEF Placed
  <2> QED
    BY <1>3, <2>2
<1> HIDE DEF place, c, ahead
<1>6. \A k \in 1..c : at(k) \in S /\ place(at(k)) = k - 1
  BY <1>0, <1>5
<1>7. \A x \in S : \E k \in 1..c : at(k) = x
  <2> SUFFICES ASSUME NEW x \in S PROVE \E k \in 1..c : at(k) = x
    OBVIOUS
  <2>1. place(x) + 1 \in 1..c /\ (place(x) + 1) - 1 = place(x)
    BY <1>5
  <2>2. at(place(x) + 1) \in S /\ place(at(place(x) + 1)) = place(x)
    BY <1>6, <2>1
  <2> QED
    BY <1>5, <2>1, <2>2
<1> HIDE DEF at
<1>8. s \in Seq(Nodes) /\ Len(s) = c /\ DOMAIN s = 1..c
  BY <1>1, <1>4, <1>5, <1>6
<1>9. {s[k] : k \in DOMAIN s} = S
  BY <1>4, <1>6, <1>7, <1>8
<1>10. ASSUME NEW i \in 1..c, NEW j \in 1..c, i < j PROVE InFront(value, l, s[i], s[j])
  <2>1. s[i] = at(i) /\ s[j] = at(j) /\ at(i) \in S /\ at(j) \in S /\ place(at(i)) = i - 1 /\ place(at(j)) = j - 1
    BY <1>4, <1>6
  <2>2. place(at(i)) < place(at(j)) /\ place(at(i)) \in Int /\ place(at(j)) \in Int
    BY <1>5, <1>10, <2>1
  <2>3. at(i) # at(j) /\ ~InFront(value, l, at(j), at(i))
    BY <1>5, <2>1, <2>2
  <2> QED
    BY <2>1, <2>3, ListingOrders
<1> QED
  BY <1>5, <1>8, <1>9, <1>10 DEF s, c

\* What the server answers: the first rows left, and where to go on if there
\* are more.
LEMMA AnswerIs ==
    ASSUME value \in RowSet, NEW q \in Questions
    PROVE  LET a == Pages!Answer(q)
               l == q.listing
               left == Beyonds(value, l, q.after)
           IN  /\ a \in AnswerSet /\ a.question = q
               /\ a.failed <=> OfDocs(l) /\ q.after # Absent /\ q.after.row \notin DOMAIN value
               /\ a.failed => a.next = Absent
               /\ ~a.failed /\ a.next = Absent => Rows(a) = left
               /\ a.next # Absent =>
                    \E last \in left : /\ last \in Rows(a)
                                       /\ a.next = IF OfDocs(l) THEN [row |-> last, key |-> 0]
                                                   ELSE [row |-> Absent, key |-> KeyIn(value, l, last)]
                                       /\ \A d \in left : d \in Rows(a) \/ InFront(value, l, last, d)
<1> DEFINE l == q.listing
           left == Beyonds(value, l, q.after)
           s == Pages!InOrder(l, left)
           n == Len(s)
           m == IF n < PageLimit + 1 THEN n ELSE PageLimit + 1
           got == SubSeq(s, 1, m)
           k == IF Len(got) < PageLimit THEN Len(got) ELSE PageLimit
           taken == SubSeq(got, 1, k)
           cursor == Pages!CursorOf(l, taken[PageLimit])
           a == Pages!Answer(q)
<1>1. /\ l \in Pages!Listings /\ q.after \in MaybeCursor /\ PageLimit \in Nat /\ PageLimit > 0
      /\ Absent \notin Pages!Cursor /\ Absent \notin Nodes
  BY PartsAssumption DEF Questions, Pages!PagesAssumption
<1>2. left \subseteq DOMAIN value /\ DOMAIN value \subseteq Nodes /\ \A d \in DOMAIN value : KeyIn(value, l, d) \in Int
  BY RowSetIs, PartsAssumption DEF Beyonds, KeyIn, Pages!PagesAssumption
<1>3. Pages!CursorIsGone(q) <=> OfDocs(l) /\ q.after # Absent /\ q.after.row \notin DOMAIN value
  BY DEF Pages!CursorIsGone, Pages!ByDocument, OfDocs
<1>4. CASE Pages!CursorIsGone(q)
  <2>1. a = [question |-> q, rows |-> << >>, next |-> Absent, failed |-> TRUE]
    BY <1>4 DEF Pages!Answer, Pages!Nothing
  <2>2. << >> \in Seq(Nodes)
    OBVIOUS
  <2>3. a \in AnswerSet /\ a.question = q /\ a.failed /\ a.next = Absent
    BY <2>1, <2>2 DEF AnswerSet, MaybeCursor
  <2> QED
    BY <1>3, <1>4, <2>3
<1>5. CASE ~Pages!CursorIsGone(q)
  <2>1. a = [question |-> q, rows |-> taken, failed |-> FALSE,
             next |-> IF Len(got) > PageLimit THEN cursor ELSE Absent]
    BY <1>5, PagesNames DEF Pages!Answer, Pages!Fetched
  <2>2. /\ s \in Seq(Nodes) /\ {s[i] : i \in DOMAIN s} = left /\ n \in Nat /\ DOMAIN s = 1..n
        /\ \A i, j \in DOMAIN s : i < j => InFront(value, l, s[i], s[j])
    <3>1. left \in SUBSET DOMAIN value
      BY <1>2
    <3> HIDE DEF left, l
    <3>2. /\ s \in Seq(Nodes) /\ {s[i] : i \in DOMAIN s} = left
          /\ \A i, j \in DOMAIN s : i < j => InFront(value, l, s[i], s[j])
      BY <1>1, <3>1, InOrderIs
    <3> QED
      BY <3>2
  <2> HIDE DEF s, left, l, a
  <2>3. /\ got \in Seq(Nodes) /\ Len(got) = m /\ m \in Nat /\ m <= n /\ \A i \in 1..m : got[i] = s[i]
        /\ m > PageLimit <=> n > PageLimit
        /\ m <= PageLimit => m = n
    <3>1. m \in Nat /\ m <= n /\ (m > PageLimit <=> n > PageLimit) /\ (m <= PageLimit => m = n)
      BY <1>1, <2>2
    <3> HIDE DEF m
    <3> QED
      BY <2>2, <3>1
  <2> HIDE DEF got, m, n
  <2>4. /\ taken \in Seq(Nodes) /\ DOMAIN taken = 1..k /\ k \in Nat /\ k <= m /\ k <= PageLimit
        /\ m > PageLimit => k = PageLimit
        /\ m <= PageLimit => k = m
        /\ \A i \in 1..k : taken[i] = s[i]
    <3>1. k \in Nat /\ k <= m /\ k <= PageLimit /\ (m > PageLimit => k = PageLimit) /\ (m <= PageLimit => k = m)
      BY <1>1, <2>3
    <3> HIDE DEF k
    <3> QED
      BY <2>3, <3>1
  <2> HIDE DEF k, taken
  <2>5. {taken[i] : i \in DOMAIN taken} = {s[i] : i \in 1..k}
    BY <2>4
  <2>6. a.question = q /\ a.failed = FALSE /\ a.rows = taken /\ Rows(a) = {s[i] : i \in 1..k}
        /\ a.next = IF m > PageLimit THEN cursor ELSE Absent
    BY <2>1, <2>3, <2>5 DEF Rows
  <2>7. CASE m > PageLimit
    <3> DEFINE last == s[PageLimit]
    <3>1. PageLimit \in 1..k /\ PageLimit \in 1..n /\ taken[PageLimit] = last
      BY <1>1, <2>2, <2>3, <2>4, <2>7
    <3>2. last \in left /\ last \in Rows(a)
      BY <2>2, <2>6, <3>1
    <3>3. a.next = IF OfDocs(l) THEN [row |-> last, key |-> 0] ELSE [row |-> Absent, key |-> KeyIn(value, l, last)]
      BY <2>6, <2>7, <3>1 DEF Pages!CursorOf, Pages!ByDocument, OfDocs, Pages!SortKey, KeyIn
    <3>4. last \in Nodes /\ KeyIn(value, l, last) \in Int
      BY <1>2, <3>2 DEF left
    <3> HIDE DEF last
    <3>5. a.next \in Pages!Cursor
      BY <3>3, <3>4 DEF Pages!Cursor
    <3>6. ASSUME NEW d \in left PROVE d \in Rows(a) \/ InFront(value, l, last, d)
      <4>1. PICK i \in 1..n : d = s[i]
        BY <2>2
      <4>2. CASE i <= PageLimit
        <5>1. i \in 1..k
          BY <1>1, <2>4, <2>7, <4>2
        <5> QED
          BY <2>6, <4>1, <5>1
      <4>3. CASE ~(i <= PageLimit)
        <5>1. PageLimit < i
          BY <1>1, <4>3
        <5> QED
          BY <2>2, <3>1, <4>1, <5>1 DEF last
      <4> QED
        BY <4>2, <4>3
    <3>7. a \in AnswerSet
      <4>1. a = [question |-> q, rows |-> taken, next |-> cursor, failed |-> FALSE] /\ a.next = cursor
        BY <2>1, <2>3, <2>7
      <4> QED
        BY <2>4, <3>5, <4>1 DEF AnswerSet, MaybeCursor
    <3> QED
      BY <1>1, <1>3, <1>5, <2>6, <3>2, <3>3, <3>5, <3>6, <3>7 DEF a, l, left
  <2>8. CASE ~(m > PageLimit)
    <3>1. k = n
      BY <1>1, <2>2, <2>3, <2>4, <2>8
    <3>2. a.next = Absent /\ Rows(a) = left
      BY <2>2, <2>6, <2>8, <3>1
    <3>3. a \in AnswerSet
      <4>1. a = [question |-> q, rows |-> taken, next |-> Absent, failed |-> FALSE]
        BY <2>1, <2>3, <2>8
      <4> QED
        BY <2>4, <4>1 DEF AnswerSet, MaybeCursor
    <3> QED
      BY <1>3, <1>5, <2>6, <3>2, <3>3 DEF a, l, left
  <2> QED
    BY <2>7, <2>8
<1> QED
  BY <1>4, <1>5

\* Untouched rows that a cursor is past.
Passed(v, t, l, c) == {d \in DOMAIN v \ t : ~Beyond(v, l, c, d)}

\* An untouched row after the question is on the page, or after its end.
SoundAnswer(v, t, a) ==
    a.question # Absent /\ ByUid(a.question.listing) =>
        \A d \in DOMAIN v \ t :
            Beyond(v, a.question.listing, a.question.after, d) =>
                d \in Rows(a) \/ (a.next # Absent /\ Beyond(v, a.question.listing, a.next, d))

FineAnswer(a) == a \in AnswerSet /\ (a.next # Absent => a.question # Absent /\ Rows(a) # {})

KeptAnswers == cache \cup {shown}
Marks == {view.after} \cup {a.next : a \in KeptAnswers}

PagesTypes ==
    /\ value \in RowSet
    /\ view \in [listing : Pages!Listings, page : Nat \ {0}, stack : Seq(Pages!Cursor), after : MaybeCursor]
    /\ Len(view.stack) = view.page - 1
    /\ view.after = IF view.stack = << >> THEN Absent ELSE view.stack[Len(view.stack)]
    /\ seen \subseteq Nodes /\ touched \subseteq Nodes /\ strayed \in BOOLEAN

\* Texts that no two rows share: whoever did not stray has seen what the
\* cursors of the table are past.
UidsSeen ==
    ~strayed /\ ByUid(view.listing) =>
        /\ \A i \in DOMAIN view.stack : Passed(value, touched, view.listing, view.stack[i]) \subseteq seen
        /\ Rows(shown) \subseteq seen /\ shown.next # Absent =>
             /\ shown.question.listing = view.listing
             /\ Passed(value, touched, view.listing, shown.question.after) \subseteq seen

ShownSeen ==
    ~strayed /\ (view.stack # << >> \/ shown.question = Pages!Question) => Rows(shown) \subseteq seen

\* Documents: the same for each cursor whose document is there.
DocsSeen ==
    ~strayed /\ OfDocs(view.listing) =>
        /\ \A c \in Marks : c # Absent /\ c.row \in DOMAIN value =>
             Passed(value, touched, view.listing, c) \subseteq seen
        /\ \A a \in KeptAnswers : a.question # Absent /\ ~a.failed /\ a.next = Absent =>
             DOMAIN value \ touched \subseteq seen

PagesInv ==
    /\ PagesTypes
    /\ \A a \in KeptAnswers : FineAnswer(a) /\ SoundAnswer(value, touched, a)
    /\ UidsSeen /\ ShownSeen /\ DocsSeen

\* The listings of a table.
LEMMA ListingsAre ==
    ASSUME NEW table \in Tables, NEW l \in table
    PROVE  /\ l \in Pages!Listings /\ l.desc \in BOOLEAN
           /\ OfDocs(l) => table = {l} /\ ~ByUid(l)
BY PartsAssumption DEF Pages!PagesAssumption, Pages!Listings, OfDocs, ByUid

\* The bounds of a page.
LEMMA PagesConstants ==
    /\ Absent \notin Nodes /\ Absent \notin Pages!Cursor /\ Absent \notin Questions
    /\ \A l \in Pages!Listings : OfDocs(l) => ~ByUid(l)
<1>1. Absent \notin Nodes /\ Absent \notin Pages!Cursor /\ Absent \notin Questions
  BY PartsAssumption DEF Pages!PagesAssumption, Questions, MaybeCursor
<1>2. \A l \in Pages!Listings : OfDocs(l) => ~ByUid(l)
  BY ListingsAre DEF Pages!Listings
<1> QED
  BY <1>1, <1>2

\* What an answer to a question is worth.
LEMMA AnswerHolds ==
    ASSUME value \in RowSet, NEW q \in Questions
    PROVE  LET a == Pages!Answer(q)
           IN  /\ FineAnswer(a) /\ a.question = q /\ SoundAnswer(value, touched, a)
               /\ OfDocs(q.listing) /\ a.next # Absent =>
                    Passed(value, touched, q.listing, a.next) \subseteq Passed(value, touched, q.listing, q.after) \cup Rows(a)
               /\ OfDocs(q.listing) /\ ~a.failed /\ q.after # Absent => q.after.row \in DOMAIN value
               /\ ~a.failed /\ a.next = Absent =>
                    DOMAIN value \ touched \subseteq Passed(value, touched, q.listing, q.after) \cup Rows(a)
               /\ a.next # Absent => ~a.failed
<1> DEFINE a == Pages!Answer(q)
           l == q.listing
           left == Beyonds(value, l, q.after)
<1>1. /\ a \in AnswerSet /\ a.question = q
      /\ a.failed <=> OfDocs(l) /\ q.after # Absent /\ q.after.row \notin DOMAIN value
      /\ a.failed => a.next = Absent
      /\ ~a.failed /\ a.next = Absent => Rows(a) = left
      /\ a.next # Absent =>
           \E last \in left : /\ last \in Rows(a)
                              /\ a.next = IF OfDocs(l) THEN [row |-> last, key |-> 0]
                                          ELSE [row |-> Absent, key |-> KeyIn(value, l, last)]
                              /\ \A d \in left : d \in Rows(a) \/ InFront(value, l, last, d)
  BY AnswerIs
<1>2. Absent \notin Questions /\ l \in Pages!Listings /\ (OfDocs(l) => ~ByUid(l))
  BY PagesConstants DEF Questions
<1> HIDE DEF a, l
<1>3. \A d \in DOMAIN value : d \in left <=> Beyond(value, l, q.after, d)
  BY DEF Beyonds
<1>4. left \subseteq DOMAIN value
  BY DEF Beyonds
<1> HIDE DEF left
<1>5. FineAnswer(a)
  BY <1>1, <1>2 DEF FineAnswer
<1>6. ASSUME ~a.failed, a.next = Absent, NEW d \in DOMAIN value \ touched
      PROVE  d \in Passed(value, touched, l, q.after) \cup Rows(a)
  BY <1>1, <1>3, <1>6 DEF Passed
<1>7. ASSUME OfDocs(l), a.next # Absent, NEW d \in Passed(value, touched, l, a.next)
      PROVE  d \in Passed(value, touched, l, q.after) \cup Rows(a)
  <2>1. PICK last \in left : /\ last \in Rows(a) /\ a.next = [row |-> last, key |-> 0]
                             /\ \A e \in left : e \in Rows(a) \/ InFront(value, l, last, e)
    BY <1>1, <1>7
  <2>2. d \in DOMAIN value \ touched /\ ~Beyond(value, l, a.next, d) /\ a.next.row = last
    BY <1>7, <2>1 DEF Passed
  <2>3. d = last \/ ~InFront(value, l, last, d)
    BY <1>7, <2>2 DEF Beyond
  <2>4. CASE d \in left
    BY <2>1, <2>3, <2>4
  <2>5. CASE d \notin left
    BY <1>3, <2>2, <2>5 DEF Passed
  <2> QED
    BY <2>4, <2>5
<1>8. SoundAnswer(value, touched, a)
  <2> SUFFICES ASSUME ByUid(l), NEW d \in DOMAIN value \ touched, Beyond(value, l, q.after, d)
               PROVE  d \in Rows(a) \/ (a.next # Absent /\ Beyond(value, l, a.next, d))
    BY <1>1 DEF SoundAnswer, l
  <2>1. d \in left /\ ~OfDocs(l)
    BY <1>2, <1>3
  <2>2. CASE a.next = Absent
    BY <1>1, <2>1, <2>2
  <2>3. CASE a.next # Absent
    <3>1. PICK last \in left : /\ last \in Rows(a) /\ a.next = [row |-> Absent, key |-> KeyIn(value, l, last)]
                               /\ \A e \in left : e \in Rows(a) \/ InFront(value, l, last, e)
      BY <1>1, <2>1, <2>3
    <3>2. CASE d = last
      BY <3>1, <3>2
    <3>3. CASE d # last /\ InFront(value, l, last, d)
      <4>1. Rank[d] \in Int /\ Rank[last] \in Int /\ Rank[d] # Rank[last]
        BY <1>4, <3>1, <3>3, PartsAssumption, RowSetIs DEF Pages!PagesAssumption
      <4>2. a.next.key = Rank[last]
        BY <3>1 DEF KeyIn, ByUid
      <4>3. IF l.desc THEN Rank[d] < Rank[last] ELSE Rank[d] > Rank[last]
        BY <3>3, <4>1 DEF InFront, KeyIn, ByUid
      <4> QED
        BY <2>1, <2>3, <4>2, <4>3 DEF Beyond, KeyIn, ByUid
    <3> QED
      BY <2>1, <3>1, <3>2, <3>3
  <2> QED
    BY <2>2, <2>3
<1> QED
  BY <1>1, <1>5, <1>6, <1>7, <1>8 DEF a, l

\* Rows that stay as they are stay where they are.
LEMMA BeyondSame ==
    ASSUME NEW v, NEW w, NEW l, NEW c, NEW d, w[d] = v[d], OfDocs(l) /\ c # Absent => w[c.row] = v[c.row]
    PROVE  Beyond(w, l, c, d) <=> Beyond(v, l, c, d)
<1>1. KeyIn(w, l, d) = KeyIn(v, l, d)
  BY DEF KeyIn
<1>2. OfDocs(l) /\ c # Absent => KeyIn(w, l, c.row) = KeyIn(v, l, c.row)
  BY DEF KeyIn
<1>3. OfDocs(l) /\ c # Absent => (InFront(w, l, c.row, d) <=> InFront(v, l, c.row, d))
  BY <1>1, <1>2 DEF InFront
<1> QED
  BY <1>1, <1>3 DEF Beyond

\* A table starts on its first page, with nothing seen.
LEMMA PagesStart ==
    ASSUME Pages!Init
    PROVE  PagesInv
<1>1. /\ value \in RowSet /\ shown = Pages!Nothing /\ cache = {} /\ seen = {} /\ touched = {} /\ strayed = FALSE
      /\ \E table \in Tables : \E listing \in table : view = Pages!FirstPage(listing)
  BY DEF Pages!Init, RowSet
<1>2. PICK l \in Pages!Listings : view = [listing |-> l, page |-> 1, stack |-> << >>, after |-> Absent]
  BY <1>1, ListingsAre DEF Pages!FirstPage
<1>3. shown = [question |-> Absent, rows |-> << >>, next |-> Absent, failed |-> FALSE] /\ << >> \in Seq(Nodes)
  BY <1>1 DEF Pages!Nothing
<1>4. /\ view.listing = l /\ view.page = 1 /\ view.stack = << >> /\ view.after = Absent
      /\ << >> \in Seq(Pages!Cursor) /\ Len(<< >>) = 0
  BY <1>2
<1>5. PagesTypes
  <2>1. view \in [listing : Pages!Listings, page : Nat \ {0}, stack : Seq(Pages!Cursor), after : MaybeCursor]
    BY <1>2, <1>4 DEF MaybeCursor
  <2>2. Len(view.stack) = view.page - 1
    <3>1. Len(view.stack) = 0
      BY <1>4, Zenon
    <3>2. view.page - 1 = 0
      BY <1>4
    <3> QED
      BY <3>1, <3>2
  <2> QED
    BY <1>1, <1>4, <2>1, <2>2 DEF PagesTypes
<1>6. FineAnswer(shown) /\ SoundAnswer(value, touched, shown) /\ KeptAnswers = {shown}
  BY <1>1, <1>3 DEF FineAnswer, SoundAnswer, AnswerSet, MaybeCursor, KeptAnswers
<1>7. shown.next = Absent /\ shown.question = Absent /\ Rows(shown) = {}
  BY <1>3 DEF Rows
<1>8. UidsSeen /\ ShownSeen
  BY <1>4, <1>7 DEF UidsSeen, ShownSeen
<1>9. DocsSeen
  BY <1>4, <1>6, <1>7 DEF DocsSeen, Marks
<1> QED
  BY <1>5, <1>6, <1>8, <1>9 DEF PagesInv

\* While the rows stay, a new state of the table.
LEMMA ChooseKeeps ==
    ASSUME PagesInv, Pages!Choose
    PROVE  PagesInv'
<1>0. PICK table \in Tables : \E l \in table :
        /\ view.listing \in table /\ l # view.listing
        /\ view' = [listing |-> l, page |-> 1, stack |-> << >>, after |-> Absent]
  BY DEF Pages!Choose, Pages!Chosen, Pages!FirstPage
<1>1. PICK l \in table : /\ view.listing \in table /\ l # view.listing
                         /\ view' = [listing |-> l, page |-> 1, stack |-> << >>, after |-> Absent]
  BY <1>0
<1>2. /\ value' = value /\ shown' = shown /\ cache' = cache /\ touched' = touched /\ strayed' = FALSE
      /\ seen' = IF shown.question = [listing |-> l, after |-> Absent] THEN Rows(shown) ELSE {}
  BY <1>1, PagesNames DEF Pages!Choose, Pages!SeenAtFirst
<1>3. l \in Pages!Listings /\ ~OfDocs(l)
  BY <1>1, ListingsAre
<1>4. /\ view'.listing = l /\ view'.page = 1 /\ view'.stack = << >> /\ view'.after = Absent
      /\ << >> \in Seq(Pages!Cursor) /\ Len(<< >>) = 0
  BY <1>1
<1>5. /\ PagesTypes /\ \A a \in KeptAnswers : FineAnswer(a) /\ SoundAnswer(value, touched, a)
      /\ shown \in KeptAnswers
  BY DEF PagesInv, KeptAnswers
<1>6. PagesTypes'
  <2>1. view' \in [listing : Pages!Listings, page : Nat \ {0}, stack : Seq(Pages!Cursor), after : MaybeCursor]
    BY <1>1, <1>3, <1>4 DEF MaybeCursor
  <2>2. Len(view'.stack) = view'.page - 1
    <3>1. Len(view'.stack) = 0
      BY <1>4, Zenon
    <3>2. view'.page - 1 = 0
      BY <1>4
    <3> QED
      BY <3>1, <3>2
  <2>3. Rows(shown) \subseteq Nodes
    BY <1>5 DEF FineAnswer, AnswerSet, Rows
  <2> QED
    BY <1>2, <1>4, <1>5, <2>1, <2>2, <2>3 DEF PagesTypes
<1>7. KeptAnswers' = KeptAnswers
  BY <1>2 DEF KeptAnswers
<1>8. UidsSeen'
  <2>1. ASSUME Rows(shown) \subseteq seen', shown.next # Absent
        PROVE  /\ shown.question.listing = l
               /\ Passed(value, touched, l, shown.question.after) \subseteq seen'
    <3>1. Rows(shown) # {}
      BY <1>5, <2>1 DEF FineAnswer
    <3>2. shown.question = [listing |-> l, after |-> Absent]
      BY <1>2, <2>1, <3>1
    <3>3. shown.question.listing = l /\ shown.question.after = Absent
      BY <3>2
    <3> QED
      BY <3>3 DEF Passed, Beyond
  <2> QED
    BY <1>2, <1>4, <2>1 DEF UidsSeen
<1>9. ShownSeen'
  <2>1. Pages!Question' = [listing |-> l, after |-> Absent]
    BY <1>4 DEF Pages!Question
  <2> QED
    BY <1>2, <1>4, <2>1 DEF ShownSeen
<1>10. DocsSeen'
  BY <1>3, <1>4 DEF DocsSeen
<1> QED
  BY <1>2, <1>5, <1>6, <1>7, <1>8, <1>9, <1>10 DEF PagesInv

\* One more cursor.
LEMMA MoreStack ==
    ASSUME NEW s \in Seq(Pages!Cursor), NEW c \in Pages!Cursor
    PROVE  /\ Append(s, c) \in Seq(Pages!Cursor) /\ Append(s, c) # << >> /\ Len(Append(s, c)) = Len(s) + 1
           /\ Append(s, c)[Len(Append(s, c))] = c /\ Len(s) \in Nat
           /\ \A i \in DOMAIN Append(s, c) : Append(s, c)[i] = c \/ (i \in DOMAIN s /\ Append(s, c)[i] = s[i])
<1>1. Len(s) \in Nat /\ DOMAIN s = 1..Len(s)
  OBVIOUS
<1>2. /\ Append(s, c) \in Seq(Pages!Cursor) /\ Len(Append(s, c)) = Len(s) + 1
      /\ DOMAIN Append(s, c) = 1..(Len(s) + 1)
      /\ Append(s, c)[Len(s) + 1] = c
      /\ \A i \in 1..Len(s) : Append(s, c)[i] = s[i]
  BY <1>1
<1>3. Append(s, c) # << >>
  <2>1. Len(s) + 1 \in 1..(Len(s) + 1)
    BY <1>1
  <2> QED
    BY <1>2, <2>1
<1>4. \A i \in 1..(Len(s) + 1) : i = Len(s) + 1 \/ i \in 1..Len(s)
  BY <1>1
<1> QED
  BY <1>1, <1>2, <1>3, <1>4

\* The page the answer on display leads to.
LEMMA NextTypes ==
    ASSUME PagesTypes, FineAnswer(shown), shown.next # Absent,
           view' = [view EXCEPT !.page = view.page + 1, !.stack = Append(view.stack, shown.next), !.after = shown.next],
           value' = value, seen' = seen, touched' = touched, strayed' \in BOOLEAN
    PROVE  /\ PagesTypes'
           /\ view'.listing = view.listing /\ view'.after = shown.next
           /\ \A i \in DOMAIN view'.stack : \/ view'.stack[i] = shown.next
                                            \/ i \in DOMAIN view.stack /\ view'.stack[i] = view.stack[i]
<1>1. /\ view \in [listing : Pages!Listings, page : Nat \ {0}, stack : Seq(Pages!Cursor), after : MaybeCursor]
      /\ Len(view.stack) = view.page - 1
  BY DEF PagesTypes
<1>2. shown.next \in Pages!Cursor
  BY DEF FineAnswer, AnswerSet, MaybeCursor
<1> DEFINE s == view.stack
           c == shown.next
<1>3. s \in Seq(Pages!Cursor) /\ view.page \in Nat \ {0} /\ Len(s) = view.page - 1 /\ view.listing \in Pages!Listings
  BY <1>1
<1>4. /\ view'.listing = view.listing /\ view'.page = view.page + 1 /\ view'.stack = Append(s, c) /\ view'.after = c
      /\ view' = [listing |-> view.listing, page |-> view.page + 1, stack |-> Append(s, c), after |-> c]
  BY <1>1
<1> HIDE DEF s, c
<1>5. /\ Append(s, c) \in Seq(Pages!Cursor) /\ Append(s, c) # << >> /\ Len(Append(s, c)) = Len(s) + 1
      /\ Append(s, c)[Len(Append(s, c))] = c /\ Len(s) \in Nat
      /\ \A i \in DOMAIN Append(s, c) : Append(s, c)[i] = c \/ (i \in DOMAIN s /\ Append(s, c)[i] = s[i])
  BY <1>2, <1>3, MoreStack DEF c
<1>6. view' \in [listing : Pages!Listings, page : Nat \ {0}, stack : Seq(Pages!Cursor), after : MaybeCursor]
  <2>1. c \in MaybeCursor
    BY <1>2 DEF MaybeCursor, c
  <2>2. view.page + 1 \in Nat \ {0}
    BY <1>3
  <2> QED
    BY <1>3, <1>4, <1>5, <2>1, <2>2
<1>7. Len(view'.stack) = view'.page - 1
  BY <1>3, <1>4, <1>5
<1> QED
  BY <1>4, <1>5, <1>6, <1>7 DEF PagesTypes, s, c

\* The next page.
LEMMA GoNextKeeps ==
    ASSUME PagesInv, Pages!GoNextPage
    PROVE  PagesInv'
<1>1. /\ shown.next # Absent /\ ~OfDocs(view.listing)
      /\ view' = [view EXCEPT !.page = view.page + 1, !.stack = Append(view.stack, shown.next), !.after = shown.next]
      /\ strayed' = (strayed \/ ~(Rows(shown) \subseteq seen))
      /\ value' = value /\ shown' = shown /\ cache' = cache /\ seen' = seen /\ touched' = touched
  BY PagesNames DEF Pages!GoNextPage, Pages!NextCursor, Pages!ByDocument, OfDocs
<1>2. /\ PagesTypes /\ \A a \in KeptAnswers : FineAnswer(a) /\ SoundAnswer(value, touched, a)
      /\ shown \in KeptAnswers /\ UidsSeen
  BY DEF PagesInv, KeptAnswers
<1>3. /\ PagesTypes' /\ view'.listing = view.listing /\ view'.after = shown.next
      /\ \A i \in DOMAIN view'.stack : \/ view'.stack[i] = shown.next
                                       \/ i \in DOMAIN view.stack /\ view'.stack[i] = view.stack[i]
  <2>1. strayed' \in BOOLEAN
    BY <1>1
  <2> QED
    BY <1>1, <1>2, <2>1, NextTypes
<1>4. KeptAnswers' = KeptAnswers
  BY <1>1 DEF KeptAnswers
<1>5. ~strayed' => ~strayed /\ Rows(shown) \subseteq seen
  BY <1>1
<1>6. UidsSeen'
  <2> SUFFICES ASSUME ~strayed', ByUid(view.listing)
               PROVE  /\ \A i \in DOMAIN view'.stack : Passed(value, touched, view.listing, view'.stack[i]) \subseteq seen
                      /\ shown.question.listing = view.listing
                      /\ Passed(value, touched, view.listing, shown.question.after) \subseteq seen
    BY <1>1, <1>3 DEF UidsSeen
  <2>1. /\ \A i \in DOMAIN view.stack : Passed(value, touched, view.listing, view.stack[i]) \subseteq seen
        /\ shown.question.listing = view.listing
        /\ Passed(value, touched, view.listing, shown.question.after) \subseteq seen
    BY <1>1, <1>2, <1>5 DEF UidsSeen
  <2>2. Passed(value, touched, view.listing, shown.next) \subseteq seen
    <3> SUFFICES ASSUME NEW d \in DOMAIN value \ touched, ~Beyond(value, view.listing, shown.next, d) PROVE d \in seen
      BY DEF Passed
    <3>1. shown.question # Absent /\ SoundAnswer(value, touched, shown)
      BY <1>1, <1>2 DEF FineAnswer
    <3>2. Beyond(value, view.listing, shown.question.after, d) => d \in Rows(shown)
      BY <2>1, <3>1 DEF SoundAnswer
    <3> QED
      BY <1>5, <2>1, <3>2 DEF Passed
  <2> QED
    BY <1>3, <2>1, <2>2
<1>7. ShownSeen'
  BY <1>1, <1>5 DEF ShownSeen
<1>8. DocsSeen'
  BY <1>1, <1>3 DEF DocsSeen
<1> QED
  BY <1>1, <1>2, <1>3, <1>4, <1>6, <1>7, <1>8 DEF PagesInv

\* More rows.
LEMMA LoadMoreKeeps ==
    ASSUME PagesInv, Pages!LoadMore
    PROVE  PagesInv'
<1>1. /\ shown.next # Absent /\ OfDocs(view.listing) /\ shown.question = Pages!Question
      /\ view' = [view EXCEPT !.page = view.page + 1, !.stack = Append(view.stack, shown.next), !.after = shown.next]
      /\ strayed' = strayed
      /\ value' = value /\ shown' = shown /\ cache' = cache /\ seen' = seen /\ touched' = touched
  BY DEF Pages!LoadMore, Pages!ByDocument, OfDocs
<1>2. /\ PagesTypes /\ \A a \in KeptAnswers : FineAnswer(a) /\ SoundAnswer(value, touched, a)
      /\ shown \in KeptAnswers /\ ShownSeen /\ DocsSeen
  BY DEF PagesInv, KeptAnswers
<1>3. PagesTypes' /\ view'.listing = view.listing /\ view'.after = shown.next
  <2>1. strayed' \in BOOLEAN
    BY <1>1, <1>2 DEF PagesTypes
  <2> QED
    BY <1>1, <1>2, <2>1, NextTypes
<1>4. KeptAnswers' = KeptAnswers
  BY <1>1 DEF KeptAnswers
<1>5. UidsSeen'
  <2>1. view.listing \in Pages!Listings
    BY <1>2 DEF PagesTypes
  <2> QED
    BY <1>1, <1>3, <2>1, PagesConstants DEF UidsSeen
<1>6. ShownSeen'
  BY <1>1, <1>2 DEF ShownSeen
<1>7. DocsSeen'
  <2>1. Marks' \subseteq Marks
    BY <1>2, <1>3, <1>4 DEF Marks
  <2> QED
    BY <1>1, <1>2, <1>3, <1>4, <2>1 DEF DocsSeen
<1> QED
  BY <1>1, <1>2, <1>3, <1>4, <1>5, <1>6, <1>7 DEF PagesInv

\* The page before.
LEMMA GoPrevKeeps ==
    ASSUME PagesInv, Pages!GoPrevPage
    PROVE  PagesInv'
<1> DEFINE s == view.stack
           n == Len(s) - 1
           stack == SubSeq(s, 1, n)
           after == IF stack = << >> THEN Absent ELSE stack[Len(stack)]
<1>1. /\ ~OfDocs(view.listing) /\ view.page > 1
      /\ view' = [view EXCEPT !.page = view.page - 1, !.stack = stack, !.after = after]
      /\ strayed' = strayed
      /\ value' = value /\ shown' = shown /\ cache' = cache /\ seen' = seen /\ touched' = touched
  BY DEF Pages!GoPrevPage, Pages!ByDocument, OfDocs, Pages!PreviousCursor, Pages!Front, Pages!Last
<1>2. /\ PagesTypes /\ \A a \in KeptAnswers : FineAnswer(a) /\ SoundAnswer(value, touched, a)
      /\ shown \in KeptAnswers /\ UidsSeen /\ ShownSeen
  BY DEF PagesInv, KeptAnswers
<1>3. /\ view \in [listing : Pages!Listings, page : Nat \ {0}, stack : Seq(Pages!Cursor), after : MaybeCursor]
      /\ s \in Seq(Pages!Cursor) /\ Len(s) = view.page - 1 /\ view.page \in Nat /\ Len(s) \in Nat /\ DOMAIN s = 1..Len(s)
  BY <1>2 DEF PagesTypes
<1>4. n \in Nat /\ n < Len(s) /\ n = (view.page - 1) - 1 /\ view.page - 1 \in Nat \ {0} /\ s # << >>
  <2>1. n \in Nat /\ n < Len(s) /\ n = (view.page - 1) - 1 /\ view.page - 1 \in Nat \ {0}
    BY <1>1, <1>3
  <2>2. 1 \in DOMAIN s
    BY <1>3, <2>1
  <2> QED
    BY <2>1, <2>2
<1>5. stack \in Seq(Pages!Cursor) /\ Len(stack) = n /\ DOMAIN stack = 1..n /\ \A i \in 1..n : stack[i] = s[i] /\ i \in DOMAIN s
  BY <1>3, <1>4
<1>6. /\ view' = [listing |-> view.listing, page |-> view.page - 1, stack |-> stack, after |-> after]
      /\ view'.listing = view.listing /\ view'.page = view.page - 1 /\ view'.stack = stack /\ view'.after = after
  BY <1>1, <1>3
<1> HIDE DEF stack
<1>7. after \in MaybeCursor
  <2>1. CASE stack = << >>
    BY <2>1 DEF MaybeCursor
  <2>2. CASE stack # << >>
    BY <1>5, <2>2 DEF MaybeCursor
  <2> QED
    BY <2>1, <2>2
<1> HIDE DEF n
<1>8. PagesTypes'
  <2>1. view' \in [listing : Pages!Listings, page : Nat \ {0}, stack : Seq(Pages!Cursor), after : MaybeCursor]
    <3>1. view.listing \in Pages!Listings
      BY <1>3
    <3> HIDE DEF after
    <3> QED
      BY <1>4, <1>5, <1>6, <1>7, <3>1
  <2>2. Len(view'.stack) = view'.page - 1
    BY <1>4, <1>5, <1>6
  <2> QED
    BY <1>1, <1>2, <1>6, <2>1, <2>2 DEF PagesTypes
<1> HIDE DEF after
<1>9. KeptAnswers' = KeptAnswers
  BY <1>1 DEF KeptAnswers
<1>10. UidsSeen'
  BY <1>1, <1>2, <1>5, <1>6 DEF UidsSeen
<1>11. ShownSeen'
  BY <1>1, <1>2, <1>4 DEF ShownSeen
<1>12. DocsSeen'
  BY <1>1, <1>6 DEF DocsSeen
<1> QED
  BY <1>1, <1>2, <1>8, <1>9, <1>10, <1>11, <1>12 DEF PagesInv

\* An answer that is kept replaces the one before it.
LEMMA RefreshKeeps ==
    ASSUME PagesInv, Pages!Refresh
    PROVE  PagesInv'
<1> DEFINE q == Pages!Question
           again == Pages!Answer(q)
<1>1. /\ ~OfDocs(view.listing) /\ cache' = Pages!Kept(again)
      /\ view' = [listing |-> view.listing, page |-> 1, stack |-> << >>, after |-> Absent]
      /\ shown' = IF shown.question = q THEN again ELSE shown
      /\ seen' = IF shown'.question = Pages!Question' THEN Rows(shown)' ELSE {}
      /\ strayed' = FALSE /\ value' = value /\ touched' = touched
  BY DEF Pages!Refresh, Pages!ByDocument, OfDocs, Pages!FirstPage, Rows, Pages!ToSet
<1>2. /\ PagesTypes /\ \A a \in KeptAnswers : FineAnswer(a) /\ SoundAnswer(value, touched, a)
      /\ shown \in KeptAnswers /\ cache \subseteq KeptAnswers
  BY DEF PagesInv, KeptAnswers
<1>3. view.listing \in Pages!Listings /\ q \in Questions /\ value \in RowSet
  BY <1>2 DEF PagesTypes, Pages!Question, Questions
<1>4. /\ view'.listing = view.listing /\ view'.page = 1 /\ view'.stack = << >> /\ view'.after = Absent
      /\ << >> \in Seq(Pages!Cursor) /\ Len(<< >>) = 0
  BY <1>1
<1>5. Pages!Question' = [listing |-> view.listing, after |-> Absent]
  BY <1>4 DEF Pages!Question
<1> HIDE DEF q
<1>6. FineAnswer(again) /\ SoundAnswer(value, touched, again)
  BY <1>3, AnswerHolds
<1> HIDE DEF again
<1>7. \A a \in KeptAnswers' : FineAnswer(a) /\ SoundAnswer(value', touched', a)
  <2>1. KeptAnswers' \subseteq KeptAnswers \cup {again}
    BY <1>1 DEF KeptAnswers, Pages!Kept
  <2> QED
    BY <1>1, <1>2, <1>6, <2>1
<1>8. FineAnswer(shown')
  BY <1>7 DEF KeptAnswers
<1>9. PagesTypes'
  <2>1. view' \in [listing : Pages!Listings, page : Nat \ {0}, stack : Seq(Pages!Cursor), after : MaybeCursor]
    BY <1>1, <1>3, <1>4 DEF MaybeCursor
  <2>2. Len(view'.stack) = view'.page - 1
    <3>1. Len(view'.stack) = 0
      BY <1>4, Zenon
    <3>2. view'.page - 1 = 0
      BY <1>4
    <3> QED
      BY <3>1, <3>2
  <2>3. Rows(shown)' \subseteq Nodes
    BY <1>8 DEF FineAnswer, AnswerSet, Rows
  <2> QED
    BY <1>1, <1>2, <1>4, <2>1, <2>2, <2>3 DEF PagesTypes
<1>10. UidsSeen'
  <2> SUFFICES ASSUME Rows(shown)' \subseteq seen', shown'.next # Absent
               PROVE  /\ shown'.question.listing = view.listing
                      /\ Passed(value, touched, view.listing, shown'.question.after) \subseteq seen'
    BY <1>1, <1>4 DEF UidsSeen
  <2>1. Rows(shown)' # {}
    BY <1>8 DEF FineAnswer, Rows
  <2>2. shown'.question = [listing |-> view.listing, after |-> Absent]
    BY <1>1, <1>5, <2>1
  <2>3. shown'.question.listing = view.listing /\ shown'.question.after = Absent
    BY <2>2
  <2> QED
    BY <2>3 DEF Passed, Beyond
<1>11. ShownSeen'
  BY <1>1, <1>4 DEF ShownSeen
<1>12. DocsSeen'
  BY <1>1, <1>4 DEF DocsSeen
<1> QED
  BY <1>7, <1>9, <1>10, <1>11, <1>12 DEF PagesInv

\* An answer is displayed.
LEMMA DisplayKeeps ==
    ASSUME PagesInv, Pages!Display
    PROVE  PagesInv'
<1> DEFINE q == Pages!Question
           fresh == Pages!Answer(q)
<1>1. PICK a : /\ shown' = a /\ seen' = seen \cup Rows(a)
               /\ value' = value /\ view' = view /\ touched' = touched /\ strayed' = strayed
               /\ \/ a = fresh /\ cache' = Pages!Kept(fresh)
                  \/ a \in cache /\ a.question = q /\ cache' = cache
  <2>1. \/ Pages!Displays(fresh) /\ cache' = Pages!Kept(fresh)
        \/ \E kept \in cache : kept.question = q /\ Pages!Displays(kept) /\ UNCHANGED cache
    BY DEF Pages!Display
  <2>2. \A a : Pages!Displays(a) => /\ shown' = a /\ seen' = seen \cup Rows(a)
                                    /\ value' = value /\ view' = view /\ touched' = touched /\ strayed' = strayed
    BY DEF Pages!Displays, Pages!ToSet, Rows
  <2> HIDE DEF fresh, q
  <2> QED
    BY <2>1, <2>2
<1>2. /\ PagesTypes /\ \A x \in KeptAnswers : FineAnswer(x) /\ SoundAnswer(value, touched, x)
      /\ cache \subseteq KeptAnswers /\ UidsSeen /\ DocsSeen
  BY DEF PagesInv, KeptAnswers
<1>3. /\ view.listing \in Pages!Listings /\ q \in Questions /\ value \in RowSet
      /\ q.listing = view.listing /\ q.after = view.after /\ Absent \notin Questions
  BY <1>2, PagesConstants DEF PagesTypes, Pages!Question, Questions
<1> HIDE DEF q
<1>4. /\ FineAnswer(fresh) /\ fresh.question = q /\ SoundAnswer(value, touched, fresh)
      /\ OfDocs(view.listing) /\ fresh.next # Absent =>
           Passed(value, touched, view.listing, fresh.next)
             \subseteq Passed(value, touched, view.listing, view.after) \cup Rows(fresh)
      /\ OfDocs(view.listing) /\ ~fresh.failed /\ view.after # Absent => view.after.row \in DOMAIN value
      /\ ~fresh.failed /\ fresh.next = Absent =>
           DOMAIN value \ touched \subseteq Passed(value, touched, view.listing, view.after) \cup Rows(fresh)
      /\ fresh.next # Absent => ~fresh.failed
  <2>1. /\ FineAnswer(fresh) /\ fresh.question = q /\ SoundAnswer(value, touched, fresh)
        /\ OfDocs(q.listing) /\ fresh.next # Absent =>
             Passed(value, touched, q.listing, fresh.next)
               \subseteq Passed(value, touched, q.listing, q.after) \cup Rows(fresh)
        /\ OfDocs(q.listing) /\ ~fresh.failed /\ q.after # Absent => q.after.row \in DOMAIN value
        /\ ~fresh.failed /\ fresh.next = Absent =>
             DOMAIN value \ touched \subseteq Passed(value, touched, q.listing, q.after) \cup Rows(fresh)
        /\ fresh.next # Absent => ~fresh.failed
    BY <1>3, AnswerHolds
  <2> HIDE DEF fresh
  <2> QED
    BY <1>3, <2>1
<1> HIDE DEF fresh
<1>5. /\ FineAnswer(a) /\ SoundAnswer(value, touched, a) /\ a.question = q
      /\ KeptAnswers' \subseteq KeptAnswers \cup {a} /\ a \in KeptAnswers'
  BY <1>1, <1>2, <1>4 DEF KeptAnswers, Pages!Kept
<1>6. \A x \in KeptAnswers' : FineAnswer(x) /\ SoundAnswer(value', touched', x)
  BY <1>1, <1>2, <1>5
<1>7. PagesTypes'
  <2>1. Rows(a) \subseteq Nodes
    BY <1>5 DEF FineAnswer, AnswerSet, Rows
  <2> QED
    BY <1>1, <1>2, <2>1 DEF PagesTypes
<1>8. UidsSeen'
  <2> SUFFICES ASSUME ~strayed, ByUid(view.listing)
               PROVE  /\ \A i \in DOMAIN view.stack : Passed(value, touched, view.listing, view.stack[i]) \subseteq seen'
                      /\ a.question.listing = view.listing
                      /\ Passed(value, touched, view.listing, a.question.after) \subseteq seen'
    BY <1>1 DEF UidsSeen
  <2>1. \A i \in DOMAIN view.stack : Passed(value, touched, view.listing, view.stack[i]) \subseteq seen
    BY <1>2 DEF UidsSeen
  <2>2. Passed(value, touched, view.listing, view.after) \subseteq seen
    <3>1. CASE view.stack = << >>
      BY <1>2, <3>1 DEF PagesTypes, Passed, Beyond
    <3>2. CASE view.stack # << >>
      <4>1. view.stack \in Seq(Pages!Cursor) /\ view.after = view.stack[Len(view.stack)]
        BY <1>2, <3>2 DEF PagesTypes
      <4>2. Len(view.stack) \in DOMAIN view.stack
        BY <3>2, <4>1
      <4> QED
        BY <2>1, <4>1, <4>2
    <3> QED
      BY <3>1, <3>2
  <2> QED
    BY <1>1, <1>3, <1>5, <2>1, <2>2
<1>9. ShownSeen'
  BY <1>1 DEF ShownSeen
<1>10. DocsSeen'
  <2> SUFFICES ASSUME ~strayed, OfDocs(view.listing)
               PROVE  /\ \A c \in Marks' : c # Absent /\ c.row \in DOMAIN value =>
                           Passed(value, touched, view.listing, c) \subseteq seen'
                      /\ \A x \in KeptAnswers' : x.question # Absent /\ ~x.failed /\ x.next = Absent =>
                           DOMAIN value \ touched \subseteq seen'
    BY <1>1 DEF DocsSeen
  <2>1. /\ \A c \in Marks : c # Absent /\ c.row \in DOMAIN value =>
             Passed(value, touched, view.listing, c) \subseteq seen
        /\ \A x \in KeptAnswers : x.question # Absent /\ ~x.failed /\ x.next = Absent =>
             DOMAIN value \ touched \subseteq seen
    BY <1>2 DEF DocsSeen
  <2>2. Marks' \subseteq Marks \cup {a.next}
    BY <1>1, <1>5 DEF Marks
  <2>3. seen \subseteq seen' /\ Rows(a) \subseteq seen'
    BY <1>1
  <2>4. CASE a \in cache
    <3>1. a \in KeptAnswers /\ a.next \in Marks
      BY <1>2, <2>4 DEF Marks
    <3> QED
      BY <1>5, <2>1, <2>2, <2>3, <3>1
  <2>5. CASE a = fresh
    <3>1. view.after # Absent /\ ~a.failed => Passed(value, touched, view.listing, view.after) \subseteq seen
      BY <1>4, <2>1, <2>5 DEF Marks
    <3>2. view.after = Absent => Passed(value, touched, view.listing, view.after) = {}
      BY DEF Passed, Beyond
    <3>3. ~a.failed => Passed(value, touched, view.listing, view.after) \subseteq seen
      BY <3>1, <3>2
    <3>4. a.next # Absent => Passed(value, touched, view.listing, a.next) \subseteq seen'
      BY <1>4, <2>3, <2>5, <3>3
    <3>5. ~a.failed /\ a.next = Absent => DOMAIN value \ touched \subseteq seen'
      BY <1>4, <2>3, <2>5, <3>3
    <3> QED
      BY <1>5, <2>1, <2>2, <2>3, <3>4, <3>5
  <2> QED
    BY <1>1, <2>4, <2>5
<1> QED
  BY <1>6, <1>7, <1>8, <1>9, <1>10 DEF PagesInv

\* What others write is touched; what they move a table strays from.
LEMMA Written ==
    ASSUME PagesTypes, Pages!Write
    PROVE  /\ value' \in RowSet /\ touched' \subseteq Nodes /\ view' = view /\ shown' = shown /\ cache' = cache
           /\ seen' = seen /\ strayed' \in BOOLEAN /\ (strayed => strayed')
           /\ \A e \in DOMAIN value' \ touched' : e \in DOMAIN value \ touched /\ value'[e] = value[e]
           /\ ~strayed' /\ OfDocs(view.listing) =>
                \A c \in Marks : c # Absent /\ c.row \in DOMAIN value' => c.row \in DOMAIN value /\ value'[c.row] = value[c.row]
<1>1. PICK d \in Nodes :
        /\ touched' = touched \cup {d}
        /\ \/ /\ \E v \in Values : value' = [e \in DOMAIN value \cup {d} |-> IF e = d THEN v ELSE value[e]]
              /\ strayed' = (strayed \/ Pages!Moves(d))
           \/ value' = [e \in DOMAIN value \ {d} |-> value[e]] /\ strayed' = strayed
  BY DEF Pages!Write
<1>2. view' = view /\ shown' = shown /\ cache' = cache /\ seen' = seen
  BY DEF Pages!Write
<1>3. DOMAIN value \subseteq Nodes /\ value \in [DOMAIN value -> Values] /\ touched \subseteq Nodes /\ strayed \in BOOLEAN
  BY RowSetIs DEF PagesTypes
<1>4. /\ \A e \in DOMAIN value' : e # d => e \in DOMAIN value /\ value'[e] = value[e]
      /\ DOMAIN value' \subseteq Nodes /\ value' \in [DOMAIN value' -> Values]
  <2>1. CASE \E v \in Values : value' = [e \in DOMAIN value \cup {d} |-> IF e = d THEN v ELSE value[e]]
    <3>1. PICK v \in Values : value' = [e \in DOMAIN value \cup {d} |-> IF e = d THEN v ELSE value[e]]
      BY <2>1
    <3> QED
      BY <1>3, <3>1
  <2>2. CASE value' = [e \in DOMAIN value \ {d} |-> value[e]]
    BY <1>3, <2>2
  <2> QED
    BY <1>1, <2>1, <2>2
<1>5. value' \in RowSet
  BY <1>4, RowSetIs
<1>6. d \in DOMAIN value' => strayed' = (strayed \/ Pages!Moves(d))
  BY <1>1
<1>7. strayed' \in BOOLEAN /\ (strayed => strayed')
  BY <1>1, <1>3 DEF Pages!Moves
<1>8. ASSUME ~strayed', OfDocs(view.listing), NEW c \in Marks, c # Absent, c.row \in DOMAIN value'
      PROVE  c.row \in DOMAIN value /\ value'[c.row] = value[c.row]
  <2>1. c.row # d
    <3> SUFFICES ASSUME c.row = d PROVE Pages!Moves(d)
      BY <1>6, <1>8
    <3>1. OfDocs(view.listing) <=> Pages!ByDocument(view.listing)
      BY DEF OfDocs, Pages!ByDocument
    <3>2. c \in {view.after} \cup {answer.next : answer \in cache \cup {shown}}
      BY DEF Marks, KeptAnswers
    <3> QED
      BY <1>8, <3>1, <3>2 DEF Pages!Moves
  <2> QED
    BY <1>4, <1>8, <2>1
<1> QED
  BY <1>1, <1>2, <1>3, <1>4, <1>5, <1>7, <1>8

\* A row is written while pages are turned.
LEMMA WriteKeeps ==
    ASSUME PagesInv, Pages!Write
    PROVE  PagesInv'
<1>1. /\ PagesTypes /\ \A x \in KeptAnswers : FineAnswer(x) /\ SoundAnswer(value, touched, x)
      /\ UidsSeen /\ ShownSeen /\ DocsSeen /\ shown \in KeptAnswers
  BY DEF PagesInv, KeptAnswers
<1>2. /\ value' \in RowSet /\ touched' \subseteq Nodes /\ view' = view /\ shown' = shown /\ cache' = cache
      /\ seen' = seen /\ strayed' \in BOOLEAN /\ (strayed => strayed')
      /\ \A e \in DOMAIN value' \ touched' : e \in DOMAIN value \ touched /\ value'[e] = value[e]
      /\ ~strayed' /\ OfDocs(view.listing) =>
           \A c \in Marks : c # Absent /\ c.row \in DOMAIN value' => c.row \in DOMAIN value /\ value'[c.row] = value[c.row]
  BY <1>1, Written
<1>3. PagesTypes'
  BY <1>1, <1>2 DEF PagesTypes
<1>4. KeptAnswers' = KeptAnswers /\ Marks' = Marks /\ Pages!Question' = Pages!Question /\ Rows(shown)' = Rows(shown)
  BY <1>2 DEF KeptAnswers, Marks, Pages!Question, Rows
<1>5. ASSUME NEW l, ~OfDocs(l), NEW c, NEW e \in DOMAIN value' \ touched'
      PROVE  Beyond(value', l, c, e) <=> Beyond(value, l, c, e)
  BY <1>2, <1>5, BeyondSame
<1>6. ASSUME NEW l, ~OfDocs(l), NEW c
      PROVE  Passed(value', touched', l, c) \subseteq Passed(value, touched, l, c)
  BY <1>2, <1>5, <1>6 DEF Passed
<1>7. ASSUME NEW a \in KeptAnswers PROVE SoundAnswer(value', touched', a)
  <2> SUFFICES ASSUME a.question # Absent, ByUid(a.question.listing), NEW d \in DOMAIN value' \ touched',
                      Beyond(value', a.question.listing, a.question.after, d)
               PROVE  d \in Rows(a) \/ (a.next # Absent /\ Beyond(value', a.question.listing, a.next, d))
    BY DEF SoundAnswer
  <2>1. ~OfDocs(a.question.listing)
    <3>1. a.question \in Questions
      BY <1>1 DEF FineAnswer, AnswerSet
    <3>2. a.question.listing \in Pages!Listings
      BY <3>1 DEF Questions
    <3> QED
      BY <3>2, PagesConstants
  <2>2. d \in DOMAIN value \ touched /\ Beyond(value, a.question.listing, a.question.after, d)
    BY <1>2, <1>5, <2>1
  <2>3. d \in Rows(a) \/ (a.next # Absent /\ Beyond(value, a.question.listing, a.next, d))
    BY <1>1, <2>2 DEF SoundAnswer
  <2> QED
    BY <1>5, <2>1, <2>3
<1>8. UidsSeen'
  <2>1. ByUid(view.listing) => ~OfDocs(view.listing)
    BY <1>1, PagesConstants DEF PagesTypes
  <2>2. ByUid(view.listing) => \A c : Passed(value', touched', view.listing, c) \subseteq Passed(value, touched, view.listing, c)
    BY <1>6, <2>1
  <2> QED
    BY <1>1, <1>2, <1>4, <2>2 DEF UidsSeen
<1>9. ShownSeen'
  BY <1>1, <1>2, <1>4 DEF ShownSeen
<1>10. DocsSeen'
  <2> SUFFICES ASSUME ~strayed', OfDocs(view.listing)
               PROVE  /\ \A c \in Marks : c # Absent /\ c.row \in DOMAIN value' =>
                           Passed(value', touched', view.listing, c) \subseteq seen
                      /\ \A x \in KeptAnswers : x.question # Absent /\ ~x.failed /\ x.next = Absent =>
                           DOMAIN value' \ touched' \subseteq seen
    BY <1>2, <1>4 DEF DocsSeen
  <2>1. /\ \A c \in Marks : c # Absent /\ c.row \in DOMAIN value => Passed(value, touched, view.listing, c) \subseteq seen
        /\ \A x \in KeptAnswers : x.question # Absent /\ ~x.failed /\ x.next = Absent => DOMAIN value \ touched \subseteq seen
    BY <1>1, <1>2 DEF DocsSeen
  <2>2. ASSUME NEW c \in Marks, c # Absent, c.row \in DOMAIN value'
        PROVE  Passed(value', touched', view.listing, c) \subseteq seen
    <3>1. c.row \in DOMAIN value /\ value'[c.row] = value[c.row]
      BY <1>2, <2>2
    <3>2. \A e \in DOMAIN value' \ touched' : Beyond(value', view.listing, c, e) <=> Beyond(value, view.listing, c, e)
      BY <1>2, <3>1, BeyondSame
    <3> QED
      BY <1>2, <2>1, <2>2, <3>1, <3>2 DEF Passed
  <2> QED
    BY <1>2, <2>1, <2>2
<1> QED
  BY <1>1, <1>2, <1>3, <1>4, <1>7, <1>8, <1>9, <1>10 DEF PagesInv

\* Every step keeps what was seen.
LEMMA PagesKeep ==
    ASSUME PagesInv, Pages!Next \/ UNCHANGED pagesVars
    PROVE  PagesInv'
<1>1. CASE UNCHANGED pagesVars
  BY <1>1 DEF pagesVars, PagesInv, PagesTypes, UidsSeen, ShownSeen, DocsSeen, Marks, KeptAnswers, Pages!Question
<1>2. CASE Pages!Next
  BY <1>2, ChooseKeeps, GoNextKeeps, LoadMoreKeeps, GoPrevKeeps, RefreshKeeps, DisplayKeeps, WriteKeeps DEF Pages!Next
<1> QED
  BY <1>1, <1>2

\* What the pages promise.
LEMMA PagesHold ==
    ASSUME PagesInv
    PROVE  Pages!TypeOK /\ Pages!StackFollowsPage /\ Pages!PagesMissNothing
<1>1. /\ PagesTypes /\ \A x \in KeptAnswers : FineAnswer(x) /\ SoundAnswer(value, touched, x)
      /\ UidsSeen /\ ShownSeen /\ DocsSeen /\ shown \in KeptAnswers
  BY DEF PagesInv, KeptAnswers
<1>2. Pages!TypeOK
  BY <1>1, RowSetIs DEF PagesTypes, Pages!TypeOK
<1>3. Pages!StackFollowsPage
  BY <1>1 DEF PagesTypes, Pages!StackFollowsPage, Pages!Last
<1>4. Pages!PagesMissNothing
  <2> SUFFICES ASSUME shown.question = Pages!Question, shown.next = Absent, ~shown.failed, ~strayed,
                      ByUid(view.listing) \/ OfDocs(view.listing)
               PROVE  DOMAIN value \ touched \subseteq seen
    BY DEF Pages!PagesMissNothing, Pages!OnLastPage, Pages!PreciseCursor, Pages!ByDocument, ByUid, OfDocs
  <2>1. /\ shown.question.listing = view.listing /\ shown.question.after = view.after
        /\ shown.question # Absent
    <3>1. Pages!Question = [listing |-> view.listing, after |-> view.after] /\ Pages!Question \in Questions
      BY <1>1 DEF Pages!Question, PagesTypes, Questions
    <3> QED
      BY <3>1, PagesConstants
  <2>2. CASE OfDocs(view.listing)
    BY <1>1, <2>1, <2>2 DEF DocsSeen
  <2>3. CASE ByUid(view.listing)
    <3>1. Rows(shown) \subseteq seen
      BY <1>1 DEF ShownSeen
    <3>2. Passed(value, touched, view.listing, view.after) \subseteq seen
      <4>1. CASE view.stack = << >>
        BY <1>1, <4>1 DEF PagesTypes, Passed, Beyond
      <4>2. CASE view.stack # << >>
        <5>1. view.stack \in Seq(Pages!Cursor) /\ view.after = view.stack[Len(view.stack)]
          BY <1>1, <4>2 DEF PagesTypes
        <5>2. Len(view.stack) \in DOMAIN view.stack
          BY <4>2, <5>1
        <5> QED
          BY <1>1, <2>3, <5>1, <5>2 DEF UidsSeen
      <4> QED
        BY <4>1, <4>2
    <3>3. \A d \in DOMAIN value \ touched : Beyond(value, view.listing, view.after, d) => d \in Rows(shown)
      BY <1>1, <2>1, <2>3 DEF SoundAnswer
    <3> QED
      BY <3>1, <3>2, <3>3 DEF Passed
  <2> QED
    BY <2>2, <2>3
<1> QED
  BY <1>2, <1>3, <1>4

-----------------------------------------------------------------------------
(* The elements of custom views (Views).                                    *)

EndsWith(jobs, job) == jobs # << >> /\ jobs[Len(jobs)] = job

\* What an element shows, and what it still waits for: one that is in the
\* document ends by mounting what it shows, one that left it by removing it.
Waiting(el) ==
    /\ el.connected => IF el.jobs = << >> THEN el.failed \/ (el.live # {} /\ el.shows = el.data)
                       ELSE EndsWith(el.jobs, "mount")
    /\ ~el.connected /\ el.live # {} => EndsWith(el.jobs, "unmount")

Mounted(el, frameworks) ==
    /\ el \in Elements!Element
    /\ el.live \subseteq {el.instance} \ {0}
    /\ el.instance # 0 =>
         /\ el.framework \in frameworks
         /\ el.failed \/ el.live # {}
         /\ el.framework = "react" => el.live = {el.instance}

Steady(el, frameworks) == Mounted(el, frameworks) /\ Waiting(el)

\* A queue that awaits its last job.
LEMMA AwaitIs ==
    ASSUME NEW el \in Elements!Element, NEW job \in {"mount", "unmount"}
    PROVE  /\ Elements!Await(el, job) = [el EXCEPT !.jobs = Append(el.jobs, job)]
           /\ Elements!Await(el, job) \in Elements!Element
           /\ EndsWith(Append(el.jobs, job), job)
           /\ Append(el.jobs, job) # << >>
<1>1. el.jobs \in Seq({"mount", "unmount"})
  BY DEF Elements!Element
<1>2. /\ Append(el.jobs, job) \in Seq({"mount", "unmount"}) /\ Len(el.jobs) \in Nat
      /\ Len(Append(el.jobs, job)) = Len(el.jobs) + 1
      /\ Append(el.jobs, job)[Len(el.jobs) + 1] = job
  BY <1>1
<1>3. Append(el.jobs, job) # << >>
  BY <1>1
<1>4. EndsWith(Append(el.jobs, job), job)
  BY <1>2, <1>3 DEF EndsWith
<1>5. Elements!Await(el, job) = [el EXCEPT !.jobs = Append(el.jobs, job)]
  BY DEF Elements!Await
<1> QED
  BY <1>2, <1>3, <1>4, <1>5 DEF Elements!Element

\* A new element waits for nothing.
LEMMA NewIs ==
    ASSUME NEW framework \in Frameworks, NEW fs
    PROVE  Steady(Elements!New(framework), fs) /\ ~Elements!New(framework).connected
<1>1. << >> \in Seq({"mount", "unmount"})
  OBVIOUS
<1> QED
  BY <1>1 DEF Elements!New, Elements!Element, Steady, Mounted, Waiting

\* An element enters the document, leaves it, or is given data.
LEMMA ConnectedIs ==
    ASSUME NEW el, NEW fs, Mounted(el, fs)
    PROVE  Steady(Elements!Connected(el), fs) /\ Elements!Connected(el).connected
<1> DEFINE in == [el EXCEPT !.connected = TRUE]
<1>1. in \in Elements!Element /\ Mounted(in, fs) /\ in.connected
  BY DEF Mounted, Elements!Element
<1>2. Elements!Connected(el) = Elements!Await(in, "mount")
  BY DEF Elements!Connected
<1> HIDE DEF in
<1> DEFINE new == Elements!Await(in, "mount")
<1>3. new = [in EXCEPT !.jobs = Append(in.jobs, "mount")] /\ new \in Elements!Element
      /\ EndsWith(Append(in.jobs, "mount"), "mount")
  BY <1>1, AwaitIs
<1>4. /\ new.jobs = Append(in.jobs, "mount") /\ new.connected = in.connected /\ new.live = in.live
      /\ new.instance = in.instance /\ new.framework = in.framework /\ new.failed = in.failed
  BY <1>1, <1>3 DEF Elements!Element
<1> QED
  BY <1>1, <1>2, <1>3, <1>4 DEF Steady, Mounted, Waiting, EndsWith

\* An element that leaves the document.
LEMMA DisconnectedIs ==
    ASSUME NEW el, NEW fs, Steady(el, fs)
    PROVE  Steady(Elements!Disconnected(el), fs) /\ ~Elements!Disconnected(el).connected
<1> DEFINE out == [el EXCEPT !.connected = FALSE]
<1>1. /\ out \in Elements!Element /\ Mounted(out, fs) /\ ~out.connected
      /\ out.instance = el.instance /\ out.live = el.live /\ out.framework = el.framework
      /\ out.jobs = el.jobs
  BY DEF Steady, Mounted, Elements!Element
<1>2. CASE el.instance = 0
  BY <1>1, <1>2 DEF Elements!Disconnected, Steady, Mounted, Waiting
<1>3. CASE el.instance # 0 /\ el.framework = "react"
  <2> DEFINE new == [Elements!Unmount(out) EXCEPT !.instance = 0]
  <2>1. Elements!Disconnected(el) = new
    BY <1>3 DEF Elements!Disconnected
  <2>2. /\ new \in Elements!Element /\ new.live = {} /\ new.instance = 0 /\ ~new.connected
    <3>1. out.live \ {out.instance} = {}
      BY <1>1 DEF Mounted
    <3> HIDE DEF out
    <3> QED
      BY <1>1, <3>1 DEF Elements!Unmount, Elements!Element
  <2> QED
    BY <2>1, <2>2 DEF Steady, Mounted, Waiting
<1>4. CASE el.instance # 0 /\ el.framework # "react"
  <2> DEFINE new == Elements!Await(out, "unmount")
  <2>1. Elements!Disconnected(el) = new
    BY <1>4 DEF Elements!Disconnected
  <2> HIDE DEF out
  <2>2. new = [out EXCEPT !.jobs = Append(out.jobs, "unmount")] /\ new \in Elements!Element
        /\ EndsWith(Append(out.jobs, "unmount"), "unmount")
    BY <1>1, AwaitIs
  <2>4. /\ new.jobs = Append(out.jobs, "unmount") /\ new.connected = out.connected /\ new.live = out.live
        /\ new.instance = out.instance /\ new.framework = out.framework /\ new.failed = out.failed
    BY <1>1, <2>2 DEF Elements!Element
  <2> QED
    BY <1>1, <2>1, <2>2, <2>4 DEF Steady, Mounted, Waiting
<1> QED
  BY <1>2, <1>3, <1>4

\* An element that is given other data.
LEMMA SetDataIs ==
    ASSUME NEW el, NEW fs, Steady(el, fs), NEW v \in Contents
    PROVE  Steady(Elements!SetData(el, v), fs) /\ Elements!SetData(el, v).connected = el.connected
<1> DEFINE given == [el EXCEPT !.data = v]
<1>1. /\ given \in Elements!Element /\ Mounted(given, fs) /\ given.data = v
      /\ given.connected = el.connected /\ given.instance = el.instance /\ given.live = el.live
      /\ given.jobs = el.jobs /\ given.failed = el.failed /\ given.framework = el.framework
  BY DEF Steady, Mounted, Elements!Element
<1> DEFINE inPlace == [given EXCEPT !.props = v, !.shows = IF el.instance \in el.live THEN v ELSE @]
<1> HIDE DEF given
<1>2. CASE el.framework = "svelte" /\ el.props # Absent
  <2>1. Elements!SetData(el, v) = inPlace
    BY <1>2 DEF Elements!SetData, given
  <2>2. /\ inPlace \in Elements!Element /\ inPlace.data = v
        /\ inPlace.connected = el.connected /\ inPlace.instance = el.instance /\ inPlace.live = el.live
        /\ inPlace.jobs = el.jobs /\ inPlace.failed = el.failed /\ inPlace.framework = el.framework
        /\ el.instance \in el.live => inPlace.shows = v
    BY <1>1 DEF Elements!Element
  <2> HIDE DEF inPlace
  <2>3. el.live # {} => el.instance \in el.live
    BY DEF Steady, Mounted
  <2> QED
    BY <2>1, <2>2, <2>3 DEF Steady, Mounted, Waiting
<1>3. CASE ~(el.framework = "svelte" /\ el.props # Absent) /\ el.connected
  <2> DEFINE new == Elements!Await(given, "mount")
  <2>1. Elements!SetData(el, v) = new
    BY <1>3 DEF Elements!SetData, given
  <2>2. new = [given EXCEPT !.jobs = Append(given.jobs, "mount")] /\ new \in Elements!Element
        /\ EndsWith(Append(given.jobs, "mount"), "mount")
    BY <1>1, AwaitIs
  <2>4. /\ new.jobs = Append(given.jobs, "mount") /\ new.connected = given.connected /\ new.live = given.live
        /\ new.instance = given.instance /\ new.framework = given.framework /\ new.failed = given.failed
    BY <1>1, <2>2 DEF Elements!Element
  <2> QED
    BY ZenonT(30), <1>1, <1>3, <2>1, <2>2, <2>4 DEF Steady, Mounted, Waiting, EndsWith
<1>4. CASE ~(el.framework = "svelte" /\ el.props # Absent) /\ ~el.connected
  BY <1>1, <1>4 DEF Elements!SetData, given, Steady, Mounted, Waiting
<1> QED
  BY <1>2, <1>3, <1>4

\* What follows an import: the first of the jobs is done.
LEMMA DoneIs ==
    ASSUME NEW el, NEW fs, Mounted(el, fs), el.jobs # << >>
    PROVE  /\ Mounted(Elements!Done(el), fs)
           /\ Elements!Done(el) = [el EXCEPT !.jobs = Tail(el.jobs)]
           /\ Tail(el.jobs) \in Seq({"mount", "unmount"})
           /\ Tail(el.jobs) = << >> => \A job : EndsWith(el.jobs, job) => Head(el.jobs) = job
           /\ Tail(el.jobs) # << >> => \A job : EndsWith(el.jobs, job) => EndsWith(Tail(el.jobs), job)
<1>1. el.jobs \in Seq({"mount", "unmount"}) /\ el \in Elements!Element
  BY DEF Mounted, Elements!Element
<1>2. /\ Tail(el.jobs) \in Seq({"mount", "unmount"}) /\ Len(el.jobs) \in Nat /\ Len(el.jobs) > 0
      /\ Len(Tail(el.jobs)) = Len(el.jobs) - 1
      /\ \A k \in 1..(Len(el.jobs) - 1) : Tail(el.jobs)[k] = el.jobs[k + 1]
      /\ Head(el.jobs) = el.jobs[1]
  BY <1>1
<1>3. Elements!Done(el) = [el EXCEPT !.jobs = Tail(el.jobs)]
  BY DEF Elements!Done
<1>4. Mounted(Elements!Done(el), fs)
  <2> DEFINE jobs == Tail(el.jobs)
             new == [el EXCEPT !.jobs = jobs]
  <2>1. jobs \in Seq({"mount", "unmount"})
    BY <1>2
  <2> HIDE DEF jobs
  <2>2. new \in Elements!Element /\ new.live = el.live /\ new.instance = el.instance
        /\ new.framework = el.framework /\ new.failed = el.failed
    BY <1>1, <2>1 DEF Elements!Element
  <2>3. Elements!Done(el) = new
    BY <1>3 DEF jobs
  <2> QED
    BY <2>2, <2>3 DEF Mounted
<1>5. Tail(el.jobs) = << >> => \A job : EndsWith(el.jobs, job) => Head(el.jobs) = job
  <2> SUFFICES ASSUME Tail(el.jobs) = << >>, NEW job, EndsWith(el.jobs, job) PROVE Head(el.jobs) = job
    OBVIOUS
  <2>1. Len(el.jobs) = 1
    <3>1. Len(<< >>) = 0
      OBVIOUS
    <3>2. Len(Tail(el.jobs)) = 0
      BY <3>1, Zenon
    <3> QED
      BY <1>2, <3>2
  <2> QED
    BY <1>2, <2>1 DEF EndsWith
<1>6. Tail(el.jobs) # << >> => \A job : EndsWith(el.jobs, job) => EndsWith(Tail(el.jobs), job)
  <2> SUFFICES ASSUME Tail(el.jobs) # << >>, NEW job, EndsWith(el.jobs, job) PROVE EndsWith(Tail(el.jobs), job)
    OBVIOUS
  <2>1. Len(el.jobs) > 1
    BY <1>1, <1>2
  <2>2. Tail(el.jobs)[Len(Tail(el.jobs))] = el.jobs[Len(el.jobs)]
    BY <1>2, <2>1
  <2> QED
    BY <2>2 DEF EndsWith
<1> QED
  BY <1>2, <1>3, <1>4, <1>5, <1>6

\* `next` is el after its first job.
LEMMA MountIs ==
    ASSUME NEW next, NEW fs, Mounted(next, fs), next.connected,
           next.jobs # << >> => EndsWith(next.jobs, "mount")
    PROVE  /\ \A new \in {Elements!Mount(next), Elements!MountThrows(next)} :
                Steady(new, fs \cup {next.framework}) /\ new.connected
<1> DEFINE all == fs \cup {next.framework}
<1>1. /\ next \in Elements!Element /\ next.live \subseteq {next.instance} \ {0}
      /\ next.instance \in Nat /\ next.mounts \in Nat /\ next.live \in SUBSET Nat
      /\ next.data \in Contents \cup {Absent} /\ next.shows \in Contents \cup {Absent}
  BY DEF Mounted, Elements!Element
<1>2. Steady(Elements!Mount(next), all) /\ Elements!Mount(next).connected
  <2>1. CASE next.framework = "react" /\ next.instance # 0
    <3> DEFINE new == [next EXCEPT !.shows = next.data, !.failed = FALSE]
    <3>1. Elements!Mount(next) = new
      BY <2>1 DEF Elements!Mount
    <3>2. /\ new \in Elements!Element /\ new.shows = new.data /\ new.connected /\ new.jobs = next.jobs
          /\ new.live = next.live /\ new.instance = next.instance /\ new.framework = next.framework
      BY <1>1 DEF Elements!Element
    <3> HIDE DEF new
    <3>3. new.live = {next.instance}
      BY <2>1, <3>2 DEF Mounted
    <3> QED
      BY <2>1, <3>1, <3>2, <3>3, <1>1 DEF Steady, Mounted, Waiting
  <2>2. CASE ~(next.framework = "react" /\ next.instance # 0)
    <3> DEFINE tree == next.mounts + 1
               live == (next.live \ {next.instance}) \cup {tree}
               new == [next EXCEPT !.props = next.data, !.mounts = tree, !.instance = tree,
                                   !.live = live, !.shows = next.data, !.failed = FALSE]
    <3>1. Elements!Mount(next) = new
      BY <2>2 DEF Elements!Mount
    <3>2. live = {tree} /\ tree \in Nat /\ tree # 0 /\ live \in SUBSET Nat
      BY <1>1
    <3> HIDE DEF tree, live
    <3>3. /\ new \in Elements!Element /\ new.shows = new.data /\ new.connected /\ new.jobs = next.jobs
          /\ new.live = live /\ new.instance = tree /\ new.framework = next.framework
      BY <1>1, <3>2 DEF Elements!Element
    <3> HIDE DEF new
    <3> QED
      BY <3>1, <3>2, <3>3 DEF Steady, Mounted, Waiting
  <2> QED
    BY <2>1, <2>2
<1>3. Steady(Elements!MountThrows(next), all) /\ Elements!MountThrows(next).connected
  <2>1. CASE next.framework = "react"
    <3> DEFINE tree == IF next.instance # 0 THEN next.instance ELSE next.mounts + 1
               mounts == IF next.instance # 0 THEN next.mounts ELSE next.mounts + 1
               new == [next EXCEPT !.mounts = mounts, !.instance = tree,
                                   !.live = {tree}, !.shows = Absent, !.failed = TRUE]
    <3>1. Elements!MountThrows(next) = new
      BY <2>1 DEF Elements!MountThrows
    <3>2. tree \in Nat /\ tree # 0 /\ {tree} \in SUBSET Nat /\ mounts \in Nat
      BY <1>1
    <3> HIDE DEF tree, mounts
    <3>3. /\ new \in Elements!Element /\ new.failed /\ new.connected /\ new.jobs = next.jobs
          /\ new.live = {tree} /\ new.instance = tree /\ new.framework = next.framework
      BY <1>1, <3>2 DEF Elements!Element
    <3> HIDE DEF new
    <3> QED
      BY <3>1, <3>2, <3>3 DEF Steady, Mounted, Waiting
  <2>2. CASE next.framework # "react"
    <3> DEFINE new == [Elements!Unmount(next) EXCEPT !.props = next.data, !.failed = TRUE]
    <3>1. Elements!MountThrows(next) = new
      BY <2>2 DEF Elements!MountThrows
    <3>2. next.live \ {next.instance} = {}
      BY <1>1
    <3>3. /\ new \in Elements!Element /\ new.failed /\ new.connected /\ new.jobs = next.jobs
          /\ new.live = {} /\ new.instance = next.instance /\ new.framework = next.framework
      BY <1>1, <3>2 DEF Elements!Element, Elements!Unmount
    <3> HIDE DEF new
    <3> QED
      BY <2>2, <3>1, <3>3 DEF Steady, Mounted, Waiting
  <2> QED
    BY <2>1, <2>2
<1> QED
  BY <1>2, <1>3

\* An element whose component is removed.
LEMMA UnmountedIs ==
    ASSUME NEW next, NEW fs, Mounted(next, fs),
           next.connected => EndsWith(next.jobs, "mount")
    PROVE  Steady(Elements!Unmounted(next), fs) /\ Elements!Unmounted(next).connected = next.connected
<1>1. /\ next \in Elements!Element /\ next.live \subseteq {next.instance} \ {0}
  BY DEF Mounted
<1>2. CASE next.instance = 0
  BY <1>1, <1>2 DEF Elements!Unmounted, Steady, Waiting, EndsWith
<1>3. CASE next.instance # 0
  <2> DEFINE new == [Elements!Unmount(next) EXCEPT !.instance = 0, !.props = Absent]
  <2>1. Elements!Unmounted(next) = new
    BY <1>3 DEF Elements!Unmounted
  <2>2. next.live \ {next.instance} = {}
    BY <1>1
  <2>3. /\ new \in Elements!Element /\ new.connected = next.connected /\ new.jobs = next.jobs
        /\ new.live = {} /\ new.instance = 0
    BY <1>1, <2>2 DEF Elements!Element, Elements!Unmount
  <2> HIDE DEF new
  <2> QED
    BY <2>1, <2>3 DEF Steady, Mounted, Waiting, EndsWith
<1> QED
  BY <1>2, <1>3

\* Every element is steady, and one of them at most is in the document: the one
\* that gets data, or one that is forgotten.
ElementsInv ==
    /\ elements \in Seq(Elements!Element) /\ elementRef \in 0..Len(elements) /\ loaded \subseteq Frameworks
    /\ \A i \in DOMAIN elements : Steady(elements[i], loaded)
    /\ Elements!OneElement

\* More frameworks are imported.
LEMMA SteadyStays ==
    ASSUME NEW el, NEW fs, NEW gs, fs \subseteq gs
    PROVE  (Steady(el, fs) => Steady(el, gs)) /\ (Mounted(el, fs) => Mounted(el, gs))
BY DEF Steady, Mounted

\* The document is emptied.
LEMMA EmptiedIs ==
    ASSUME ElementsInv
    PROVE  /\ Elements!Emptied \in Seq(Elements!Element) /\ Len(Elements!Emptied) = Len(elements)
           /\ DOMAIN Elements!Emptied = DOMAIN elements
           /\ \A i \in DOMAIN elements :
                Steady(Elements!Emptied[i], loaded) /\ ~Elements!Emptied[i].connected
<1> DEFINE out == Elements!Emptied
<1>1. elements \in Seq(Elements!Element) /\ DOMAIN elements = 1..Len(elements) /\ Len(elements) \in Nat
  BY DEF ElementsInv
<1>2. out = [i \in DOMAIN elements |-> IF elements[i].connected THEN Elements!Disconnected(elements[i]) ELSE elements[i]]
  BY DEF Elements!Emptied
<1>3. ASSUME NEW i \in DOMAIN elements PROVE Steady(out[i], loaded) /\ ~out[i].connected
  <2>1. Steady(elements[i], loaded)
    BY DEF ElementsInv
  <2>2. out[i] = IF elements[i].connected THEN Elements!Disconnected(elements[i]) ELSE elements[i]
    BY <1>2
  <2> HIDE DEF out
  <2>3. Steady(Elements!Disconnected(elements[i]), loaded) /\ ~Elements!Disconnected(elements[i]).connected
    BY <2>1, DisconnectedIs
  <2> QED
    BY <2>1, <2>2, <2>3
<1> HIDE DEF out
<1>4. \A i \in DOMAIN elements : out[i] \in Elements!Element
  BY <1>3 DEF Steady, Mounted
<1>5. DOMAIN out = 1..Len(elements) /\ out = [i \in 1..Len(elements) |-> out[i]]
  BY <1>1, <1>2
<1>6. out \in Seq(Elements!Element) /\ Len(out) = Len(elements)
  BY <1>1, <1>4, <1>5
<1> QED
  BY <1>1, <1>3, <1>5, <1>6 DEF out

\* Showing a view, by an element or by its data.
LEMMA ShowKeeps ==
    ASSUME ElementsInv, NEW framework \in Frameworks, NEW v \in Contents, Elements!Show(framework, v)
    PROVE  ElementsInv'
<1>1. /\ elements \in Seq(Elements!Element) /\ DOMAIN elements = 1..Len(elements) /\ Len(elements) \in Nat
      /\ elementRef \in 0..Len(elements) /\ loaded \subseteq Frameworks
      /\ \A i \in DOMAIN elements : Steady(elements[i], loaded)
      /\ elementRef # 0 => elementRef \in DOMAIN elements
  BY DEF ElementsInv
<1>2. loaded' = loaded
  BY DEF Elements!Show, Elements!Change
<1>3. CASE elementRef # 0 /\ elements[elementRef].framework = framework
  <2> DEFINE new == Elements!SetData(elements[elementRef], v)
  <2>1. elements' = [elements EXCEPT ![elementRef] = new] /\ elementRef' = elementRef
    BY <1>3 DEF Elements!Show
  <2>2. elementRef \in DOMAIN elements /\ Steady(elements[elementRef], loaded)
    BY <1>1, <1>3
  <2>3. Steady(new, loaded) /\ new.connected = elements[elementRef].connected
    BY <2>2, SetDataIs
  <2>4. new \in Elements!Element
    BY <2>3 DEF Steady, Mounted
  <2> HIDE DEF new
  <2>5. /\ elements' \in Seq(Elements!Element) /\ Len(elements') = Len(elements) /\ DOMAIN elements' = DOMAIN elements
        /\ \A i \in DOMAIN elements : elements'[i] = IF i = elementRef THEN new ELSE elements[i]
    BY <1>1, <2>1, <2>2, <2>4
  <2>6. \A i \in DOMAIN elements : Steady(elements'[i], loaded) /\ elements'[i].connected = elements[i].connected
    BY <1>1, <2>3, <2>5
  <2>7. Elements!OneElement'
    BY <2>1, <2>2, <2>5, <2>6 DEF ElementsInv, Elements!OneElement
  <2> QED
    BY <1>1, <1>2, <2>1, <2>5, <2>6, <2>7 DEF ElementsInv
<1>4. CASE ~(elementRef # 0 /\ elements[elementRef].framework = framework)
  <2> DEFINE out == Elements!Emptied
             in == Elements!Connected(Elements!New(framework))
             new == Elements!SetData(in, v)
  <2>1. elements' = Append(out, new) /\ elementRef' = Len(elements) + 1
    BY <1>4 DEF Elements!Show
  <2>2. /\ out \in Seq(Elements!Element) /\ Len(out) = Len(elements) /\ DOMAIN out = DOMAIN elements
        /\ \A i \in DOMAIN elements : Steady(out[i], loaded) /\ ~out[i].connected
    BY EmptiedIs
  <2>3. Mounted(Elements!New(framework), loaded)
    BY NewIs DEF Steady
  <2>4. Steady(in, loaded) /\ in.connected
    BY <2>3, ConnectedIs
  <2> HIDE DEF in
  <2>5. Steady(new, loaded) /\ new.connected
    BY <2>4, SetDataIs
  <2>6. new \in Elements!Element
    BY <2>5 DEF Steady, Mounted
  <2> HIDE DEF new, out
  <2>7. /\ elements' \in Seq(Elements!Element) /\ Len(elements') = Len(elements) + 1
        /\ DOMAIN elements' = 1..(Len(elements) + 1)
        /\ \A i \in 1..Len(elements) : elements'[i] = out[i]
        /\ elements'[Len(elements) + 1] = new
    BY <1>1, <2>1, <2>2, <2>6
  <2>8. \A i \in DOMAIN elements' : i \in 1..Len(elements) \/ i = Len(elements) + 1
    BY <1>1, <2>7
  <2>9. \A i \in DOMAIN elements' : Steady(elements'[i], loaded) /\ (elements'[i].connected <=> i = Len(elements) + 1)
    <3>1. Len(elements) + 1 \notin 1..Len(elements)
      BY <1>1
    <3> QED
      BY <1>1, <2>2, <2>5, <2>7, <2>8, <3>1
  <2>10. elementRef' \in 0..Len(elements') /\ elementRef' \in DOMAIN elements'
    BY <1>1, <2>1, <2>7
  <2>11. Elements!OneElement'
    BY <2>1, <2>9, <2>10 DEF Elements!OneElement
  <2> QED
    BY <1>1, <1>2, <2>7, <2>9, <2>10, <2>11 DEF ElementsInv
<1> QED
  BY <1>3, <1>4

\* The page leaves.
LEMMA LeaveKeeps == ASSUME ElementsInv, Elements!Leave PROVE ElementsInv'
<1>1. /\ loaded' = loaded /\ elements' = Elements!Emptied /\ elementRef' = 0
  BY DEF Elements!Leave, Elements!Change
<1>2. /\ elements' \in Seq(Elements!Element) /\ Len(elements') = Len(elements) /\ DOMAIN elements' = DOMAIN elements
      /\ \A i \in DOMAIN elements : Steady(elements'[i], loaded) /\ ~elements'[i].connected
  BY <1>1, EmptiedIs
<1>3. 0 \in 0..Len(elements')
  BY <1>2
<1>4. Elements!OneElement'
  BY <1>1, <1>2 DEF Elements!OneElement
<1> QED
  BY <1>1, <1>2, <1>3, <1>4 DEF ElementsInv

\* An element is moved in the document.
LEMMA MoveKeeps == ASSUME ElementsInv, Elements!Move PROVE ElementsInv'
<1>1. /\ elements \in Seq(Elements!Element) /\ DOMAIN elements = 1..Len(elements) /\ Len(elements) \in Nat
      /\ elementRef \in 0..Len(elements) /\ loaded \subseteq Frameworks
      /\ \A i \in DOMAIN elements : Steady(elements[i], loaded)
  BY DEF ElementsInv
<1>2. /\ loaded' = loaded /\ elementRef' = elementRef
      /\ elements' = [i \in DOMAIN elements |->
                        IF elements[i].connected THEN Elements!Connected(Elements!Disconnected(elements[i]))
                        ELSE elements[i]]
  BY DEF Elements!Move, Elements!Change
<1>3. ASSUME NEW i \in DOMAIN elements
      PROVE  Steady(elements'[i], loaded) /\ elements'[i].connected = elements[i].connected
  <2>1. Steady(elements[i], loaded) /\ elements[i].connected \in BOOLEAN
    BY <1>1 DEF Steady, Mounted, Elements!Element
  <2>2. elements'[i] = IF elements[i].connected THEN Elements!Connected(Elements!Disconnected(elements[i])) ELSE elements[i]
    BY <1>2
  <2> DEFINE out == Elements!Disconnected(elements[i])
             in == Elements!Connected(out)
  <2>3. Mounted(out, loaded)
    BY <2>1, DisconnectedIs DEF Steady
  <2> HIDE DEF out
  <2>4. Steady(in, loaded) /\ in.connected
    BY <2>3, ConnectedIs
  <2>5. in.connected \in BOOLEAN
    BY <2>4 DEF Steady, Mounted, Elements!Element
  <2>6. elements'[i] = IF elements[i].connected THEN in ELSE elements[i]
    BY <2>2 DEF out
  <2> HIDE DEF in
  <2> QED
    BY <2>1, <2>4, <2>5, <2>6
<1>4. \A i \in DOMAIN elements : elements'[i] \in Elements!Element
  BY <1>3 DEF Steady, Mounted
<1>5. DOMAIN elements' = 1..Len(elements) /\ elements' = [i \in 1..Len(elements) |-> elements'[i]]
  BY <1>1, <1>2
<1>6. elements' \in Seq(Elements!Element) /\ Len(elements') = Len(elements)
  BY <1>1, <1>4, <1>5
<1>7. Elements!OneElement'
  BY <1>1, <1>2, <1>3, <1>5 DEF ElementsInv, Elements!OneElement
<1> QED
  BY <1>1, <1>2, <1>3, <1>5, <1>6, <1>7 DEF ElementsInv

\* One element is replaced by a steady one that is in the document as before.
LEMMA ReplacedKeeps ==
    ASSUME ElementsInv, NEW i \in DOMAIN elements, NEW new, loaded \subseteq loaded', loaded' \subseteq Frameworks,
           Steady(new, loaded'), new.connected = elements[i].connected,
           elements' = [elements EXCEPT ![i] = new], elementRef' = elementRef
    PROVE  ElementsInv'
<1>1. /\ elements \in Seq(Elements!Element) /\ DOMAIN elements = 1..Len(elements) /\ Len(elements) \in Nat
      /\ elementRef \in 0..Len(elements)
      /\ \A j \in DOMAIN elements : Steady(elements[j], loaded)
  BY DEF ElementsInv
<1>2. new \in Elements!Element
  BY DEF Steady, Mounted
<1>3. /\ elements' \in Seq(Elements!Element) /\ Len(elements') = Len(elements) /\ DOMAIN elements' = DOMAIN elements
      /\ \A j \in DOMAIN elements : elements'[j] = IF j = i THEN new ELSE elements[j]
  BY <1>1, <1>2
<1>4. \A j \in DOMAIN elements : Steady(elements[j], loaded')
  BY <1>1, SteadyStays
<1>5. \A j \in DOMAIN elements : Steady(elements'[j], loaded') /\ elements'[j].connected = elements[j].connected
  BY <1>3, <1>4
<1>6. Elements!OneElement'
  <2>1. elementRef # 0 => elementRef \in DOMAIN elements
    BY <1>1
  <2> QED
    BY <1>3, <1>5, <2>1 DEF ElementsInv, Elements!OneElement
<1> QED
  BY <1>1, <1>3, <1>5, <1>6 DEF ElementsInv

\* An awaited import arrives.
LEMMA ResumeKeeps ==
    ASSUME ElementsInv, NEW i \in DOMAIN elements, Elements!Resume(i) \/ Elements!ImportFails(i) PROVE ElementsInv'
<1> DEFINE el == elements[i]
           next == Elements!Done(el)
<1>1. /\ Steady(el, loaded) /\ loaded \subseteq Frameworks /\ el \in Elements!Element
      /\ el.framework \in Frameworks /\ el.connected \in BOOLEAN /\ elementRef' = elementRef
  BY DEF ElementsInv, Steady, Mounted, Elements!Element, Elements!Resume, Elements!ImportFails
<1>2. el.jobs # << >>
  BY DEF Elements!Resume, Elements!ImportFails
<1>3. /\ Mounted(next, loaded) /\ next = [el EXCEPT !.jobs = Tail(el.jobs)]
      /\ Tail(el.jobs) \in Seq({"mount", "unmount"})
      /\ Tail(el.jobs) = << >> => \A job : EndsWith(el.jobs, job) => Head(el.jobs) = job
      /\ Tail(el.jobs) # << >> => \A job : EndsWith(el.jobs, job) => EndsWith(Tail(el.jobs), job)
  BY <1>1, <1>2, DoneIs DEF Steady
<1>4. /\ next.jobs = Tail(el.jobs) /\ next.connected = el.connected /\ next.framework = el.framework
      /\ next.live = el.live /\ next.instance = el.instance
  BY <1>1, <1>3 DEF Elements!Element
<1>5. /\ next.connected => EndsWith(el.jobs, "mount")
      /\ ~next.connected /\ next.live # {} => EndsWith(el.jobs, "unmount")
  BY <1>1, <1>2, <1>4 DEF Steady, Waiting
<1>6. CASE Elements!ImportFails(i)
  <2> DEFINE new == [next EXCEPT !.failed = TRUE]
  <2>1. /\ elements' = [elements EXCEPT ![i] = new] /\ loaded' = loaded /\ el.framework \notin loaded
    BY <1>6 DEF Elements!ImportFails
  <2> HIDE DEF el, next
  <2>2. next.instance = 0 /\ next.live = {}
    BY <1>3, <1>4, <2>1 DEF Mounted
  <2>3. /\ new \in Elements!Element /\ new.failed /\ new.connected = next.connected /\ new.jobs = next.jobs
        /\ new.live = {} /\ new.instance = 0
    BY <1>3, <2>2 DEF Mounted, Elements!Element
  <2> HIDE DEF new
  <2>4. Steady(new, loaded)
    BY <1>3, <1>4, <1>5, <2>3 DEF Steady, Mounted, Waiting
  <2> QED
    BY <1>1, <1>4, <2>1, <2>3, <2>4, ReplacedKeeps DEF el
<1>7. CASE Elements!Resume(i) /\ Head(el.jobs) = "unmount"
  <2> DEFINE new == Elements!Unmounted(next)
  <2>1. /\ elements' = [elements EXCEPT ![i] = new] /\ loaded' = loaded \cup {el.framework}
    BY <1>7 DEF Elements!Resume
  <2> HIDE DEF el, next
  <2>2. next.connected => EndsWith(next.jobs, "mount")
    BY <1>3, <1>4, <1>5, <1>7
  <2>3. Steady(new, loaded) /\ new.connected = next.connected
    BY <1>3, <2>2, UnmountedIs
  <2> HIDE DEF new
  <2>4. Steady(new, loaded')
    BY <2>1, <2>3, SteadyStays
  <2> QED
    BY <1>1, <1>4, <2>1, <2>3, <2>4, ReplacedKeeps DEF el
<1>8. CASE Elements!Resume(i) /\ Head(el.jobs) # "unmount" /\ ~el.connected
  <2>1. /\ elements' = [elements EXCEPT ![i] = next] /\ loaded' = loaded \cup {el.framework}
    BY <1>8 DEF Elements!Resume, Elements!StillThere
  <2> HIDE DEF el, next
  <2>2. ~next.connected /\ next.live # {} => EndsWith(next.jobs, "unmount")
    BY <1>3, <1>4, <1>5, <1>8
  <2>3. Steady(next, loaded)
    BY <1>3, <1>4, <1>8, <2>2 DEF Steady, Waiting
  <2>4. Steady(next, loaded')
    BY <2>1, <2>3, SteadyStays
  <2> QED
    BY <1>1, <1>4, <2>1, <2>4, ReplacedKeeps DEF el
<1>9. CASE Elements!Resume(i) /\ Head(el.jobs) # "unmount" /\ el.connected
  <2> DEFINE mounted == {Elements!Mount(next), Elements!MountThrows(next)}
  <2>1. /\ \E new \in mounted : elements' = [elements EXCEPT ![i] = new]
        /\ loaded' = loaded \cup {el.framework}
    BY <1>9 DEF Elements!Resume, Elements!StillThere
  <2> HIDE DEF el, next
  <2>2. next.connected /\ (next.jobs # << >> => EndsWith(next.jobs, "mount"))
    BY <1>3, <1>4, <1>5, <1>9
  <2>3. \A new \in mounted : Steady(new, loaded \cup {next.framework}) /\ new.connected
    BY <1>3, <2>2, MountIs
  <2> HIDE DEF mounted
  <2>4. PICK new \in mounted : elements' = [elements EXCEPT ![i] = new]
    BY <2>1
  <2>5. Steady(new, loaded') /\ new.connected /\ new.connected \in BOOLEAN
    BY <1>4, <2>1, <2>3 DEF Steady, Mounted, Elements!Element
  <2>6. new.connected = el.connected
    BY <1>1, <1>9, <2>5
  <2> QED
    BY <1>1, <1>4, <2>1, <2>4, <2>5, <2>6, ReplacedKeeps DEF el
<1> QED
  BY <1>6, <1>7, <1>8, <1>9

\* Whatever is changed, moved, removed and put back while imports are awaited,
\* each element of a custom view ends with what it was given last.
LEMMA ElementsKeep ==
    ASSUME ElementsInv, Elements!Next \/ UNCHANGED viewVars
    PROVE  ElementsInv'
<1>1. CASE UNCHANGED viewVars
  BY <1>1 DEF viewVars, ElementsInv, Elements!OneElement
<1>2. CASE Elements!ShowUnregistered
  <2>1. /\ elementRef' = 0 /\ elements' = elements /\ loaded' = loaded
    BY <1>2 DEF Elements!ShowUnregistered, Elements!Change
  <2> QED
    BY <2>1 DEF ElementsInv, Elements!OneElement
<1> QED
  BY <1>1, <1>2, ShowKeeps, LeaveKeeps, MoveKeeps, ResumeKeeps DEF Elements!Next

\* What the run checks of custom views.
LEMMA ElementsHold ==
    ASSUME ElementsInv
    PROVE  /\ Elements!TypeOK /\ Elements!OneTree
           /\ Elements!SettledElementsShow /\ Elements!OneElement
<1>1. \A i \in DOMAIN elements : elements[i] \in Elements!Element /\ Steady(elements[i], loaded)
  BY DEF ElementsInv, Steady, Mounted
<1>2. Elements!TypeOK
  BY <1>1 DEF ElementsInv, Elements!TypeOK
<1>3. Elements!OneTree
  BY <1>1 DEF Steady, Mounted, Elements!OneTree
<1>4. Elements!SettledElementsShow
  <2> SUFFICES ASSUME NEW i \in DOMAIN elements, elements[i].jobs = << >>
               PROVE  IF elements[i].connected
                        THEN elements[i].failed \/ (elements[i].live # {} /\ elements[i].shows = elements[i].data)
                        ELSE elements[i].live = {}
    BY DEF Elements!SettledElementsShow
  <2> QED
    BY <1>1 DEF Steady, Waiting, EndsWith
<1> QED
  BY <1>2, <1>3, <1>4 DEF ElementsInv

-----------------------------------------------------------------------------
(* What the editor's views promise, next to each other.                     *)

ViewsInv == Builder!TypeOK /\ DrillInv /\ PagesInv /\ ElementsInv

\* EditorViewsHold: for any graph, registry, table and page, whatever is
\* clicked, written or awaited: the builder's traversals keep their budget and
\* have paths and types, lanes stay whole and lead where a drill asks, whoever
\* turns the pages to the end has seen the rows, and a custom view has one
\* component mounted, with the data it was given last.
THEOREM EditorViewsTheorem == MCSpec => EditorViewsHold
<1>1. MCInit => ViewsInv
  <2>1. Elements!Init => ElementsInv
    BY DEF Elements!Init, ElementsInv, Elements!OneElement
  <2> QED
    BY <2>1, BuilderStarts, DrillStarts, PagesStart DEF MCInit, ViewsInv
<1> DEFINE all == <<part, vars, rows, builderVars, drillVars, pagesVars, viewVars>>
<1>2. ViewsInv /\ [MCNext]_all => ViewsInv'
  <2> SUFFICES ASSUME ViewsInv, [MCNext]_all PROVE ViewsInv'
    OBVIOUS
  <2>1. /\ Builder!Next \/ UNCHANGED builderVars
        /\ Drill!Next \/ UNCHANGED drillVars
        /\ Pages!Next \/ UNCHANGED pagesVars
        /\ Elements!Next \/ UNCHANGED viewVars
    BY DEF MCNext
  <2>2. Builder!TypeOK'
    BY <2>1, BuilderKeeps DEF ViewsInv
  <2>3. DrillInv'
    BY <2>1, DrillKeeps DEF ViewsInv
  <2>4. PagesInv'
    BY <2>1, PagesKeep DEF ViewsInv
  <2>5. ElementsInv'
    BY <2>1, ElementsKeep DEF ViewsInv
  <2> QED
    BY <2>2, <2>3, <2>4, <2>5 DEF ViewsInv
<1>3. ViewsInv =>
        /\ Builder!TypeOK /\ Builder!BudgetIsKept /\ Builder!PathsLeadFromStart /\ Builder!TypesAreInferred
        /\ Drill!TypeOK /\ Drill!LanesAreWhole /\ Drill!SomethingIsShown
        /\ Pages!TypeOK /\ Pages!StackFollowsPage /\ Pages!PagesMissNothing
        /\ Elements!TypeOK /\ Elements!OneTree /\ Elements!SettledElementsShow /\ Elements!OneElement
  BY BudgetHolds, PathsHold, TypesHold, DrillHolds, PagesHold, ElementsHold DEF ViewsInv
<1> DEFINE leads == \A path \in Paths : Drill!DrillPath(path) /\ ~astray =>
              /\ Drill!LaneOf(current)'.frames = Drill!Desired(path)
              /\ \A i \in DOMAIN lanes : \E j \in DOMAIN lanes' :
                   Drill!HasPrefix(lanes'[j].frames, lanes[i].frames) \/ Drill!HasPrefix(lanes[i].frames, Drill!Desired(path))
<1>4. ViewsInv => [leads]_(Drill!vars)
  BY DrillLeads DEF ViewsInv
<1>5. MCSpec => []ViewsInv
  BY <1>1, <1>2, PTL DEF MCSpec
<1>6. []ViewsInv =>
        /\ [](part = "builder" => Builder!TypeOK /\ Builder!BudgetIsKept
                                  /\ Builder!PathsLeadFromStart /\ Builder!TypesAreInferred)
        /\ [](part = "drill" => Drill!TypeOK /\ Drill!LanesAreWhole /\ Drill!SomethingIsShown)
        /\ [](part = "pages" => Pages!TypeOK /\ Pages!StackFollowsPage /\ Pages!PagesMissNothing)
        /\ [](part = "views" => /\ Elements!TypeOK /\ Elements!OneTree
                                /\ Elements!SettledElementsShow /\ Elements!OneElement)
  BY <1>3, PTL
<1>7. []ViewsInv => Drill!DrillsLead
  BY <1>4, PTL DEF Drill!DrillsLead
<1> QED
  BY <1>5, <1>6, <1>7, PTL DEF EditorViewsHold

=============================================================================
