--------------------------- MODULE Library_proofs ---------------------------
(***************************************************************************)
(* Documents stay the same in both stores, patches mean what they say,      *)
(* registries answer what they were given, tables and stores belong to one  *)
(* graph, patterns admit what can be cut, and backends run what they        *)
(* promise, for every instance of Library.  Most of these theorems follow   *)
(* from little more than the types of the state: the work is in the         *)
(* operators, of which facts for all lengths are proved by induction over   *)
(* sets of numbers (Induction) and functions defined step by step           *)
(* (Recursion).                                                             *)
(***************************************************************************)
EXTENDS Library, WellFoundedInduction, SequenceTheorems, TLAPS

-----------------------------------------------------------------------------
(* General facts: numbers, functions, prefixes.                            *)

\* A set of numbers has a least one.
LEMMA Least == ASSUME NEW T \in SUBSET Nat, T # {} PROVE \E x \in T : \A y \in T : x <= y
<1> DEFINE R == {ss \in Nat \X Nat : ss[1] < ss[2]}
<1>1. IsWellFoundedOn(R, Nat)
  BY NatLessThanWellFounded DEF OpToRel
<1>2. PICK x \in T : \A y \in T : ~ (<<y, x>> \in R)
  <2> HIDE DEF R
  <2> QED
    BY <1>1, WFMin
<1>3. \A y \in T : ~(y < x)
  BY <1>2
<1> QED
  BY <1>3

\* Induction, as a fact about sets.
LEMMA Induction == ASSUME NEW S \in SUBSET Nat, 0 \in S, \A n \in S : n + 1 \in S PROVE S = Nat
<1>1. SUFFICES ASSUME Nat \ S # {} PROVE FALSE
  OBVIOUS
<1>2. PICK x \in Nat \ S : \A y \in Nat \ S : x <= y
  BY <1>1, Least
<1>3. x - 1 \in S /\ x # 0
  BY <1>2
<1> QED
  BY <1>2, <1>3

\* g goes on from its first value by the steps given.
Goes(g, n, first, step) == g[0] = first /\ \A k \in 1..n : g[k] = step[k][g[k - 1]]

\* A function may be defined from each value to the next.
LEMMA Recursion ==
  ASSUME NEW n \in Nat, NEW S, NEW first \in S, NEW step, \A k \in 1..n : step[k] \in [S -> S]
  PROVE  \E g \in [0..n -> S] : Goes(g, n, first, step)
<1> DEFINE Upto(m, g) == g[0] = first /\ \A k \in 1..m : g[k] = step[k][g[k - 1]]
           I == {m \in Nat : m <= n => \E g \in [0..m -> S] : Upto(m, g)}
<1>1. 0 \in I
  <2>1. [k \in 0..0 |-> first] \in [0..0 -> S] /\ Upto(0, [k \in 0..0 |-> first])
    OBVIOUS
  <2> QED
    BY <2>1
<1>2. ASSUME NEW m \in I PROVE m + 1 \in I
  <2>0. m \in Nat /\ m + 1 \in Nat
    OBVIOUS
  <2>1. SUFFICES ASSUME m + 1 <= n PROVE \E g \in [0..(m + 1) -> S] : Upto(m + 1, g)
    <3> HIDE DEF Upto
    <3> QED
      BY <2>0
  <2>2. PICK g \in [0..m -> S] : Upto(m, g)
    BY <1>2, <2>1
  <2> DEFINE h == [k \in 0..(m + 1) |-> IF k <= m THEN g[k] ELSE step[k][g[m]]]
  <2>3. m \in 0..m /\ m + 1 \in 1..n
    BY <2>1
  <2>4. step[m + 1][g[m]] \in S
    BY <2>2, <2>3
  <2>5. h \in [0..(m + 1) -> S]
    BY <2>4
  <2>6. \A k \in 0..m : h[k] = g[k]
    OBVIOUS
  <2>7. h[m + 1] = step[m + 1][g[m]]
    OBVIOUS
  <2> HIDE DEF h
  <2>8. Upto(m + 1, h)
    <3>1. h[0] = first
      BY <2>2, <2>6
    <3>2. ASSUME NEW k \in 1..(m + 1) PROVE h[k] = step[k][h[k - 1]]
      <4>1. CASE k = m + 1
        BY <4>1, <2>6, <2>7
      <4>2. CASE k # m + 1
        BY <4>2, <2>2, <2>6
      <4> QED
        BY <4>1, <4>2
    <3> QED
      BY <3>1, <3>2
  <2> QED
    BY <2>5, <2>8
<1>3. I = Nat
  <2> HIDE DEF I
  <2>1. I \in SUBSET Nat
    BY DEF I
  <2> QED
    BY <1>1, <1>2, <2>1, Induction
<1> QED
  BY <1>3 DEF Goes

\* A prefix, by its positions.
LEMMA PrefixIs ==
  ASSUME NEW S, NEW s \in Seq(S), NEW t \in Seq(S)
  PROVE  IsPrefix(s, t) <=> Len(s) <= Len(t) /\ \A i \in 1..Len(s) : s[i] = t[i]
<1>1. ASSUME Len(s) <= Len(t)
      PROVE  SubSeq(s, 1, Len(s)) = SubSeq(t, 1, Len(s)) <=> \A i \in 1..Len(s) : s[i] = t[i]
  <2> DEFINE a == SubSeq(s, 1, Len(s))
             b == SubSeq(t, 1, Len(s))
  <2>1. a \in Seq(S) /\ b \in Seq(S) /\ Len(a) = Len(s) /\ Len(b) = Len(s)
    BY <1>1
  <2>2. \A i \in 1..Len(s) : a[i] = s[i] /\ b[i] = t[i]
    BY <1>1
  <2>3. a = b <=> \A i \in 1..Len(s) : a[i] = b[i]
    <3> HIDE DEF a, b
    <3> QED
      BY <2>1
  <2> QED
    BY <2>2, <2>3
<1> QED
  BY <1>1 DEF IsPrefix

\* Prefixes of one sequence lie in each other, and what lies in each other is
\* one.
LEMMA PrefixesCompose ==
  ASSUME NEW S, NEW s \in Seq(S), NEW t \in Seq(S), NEW u \in Seq(S)
  PROVE  /\ IsPrefix(s, s)
         /\ IsPrefix(s, t) /\ IsPrefix(t, u) => IsPrefix(s, u)
         /\ IsPrefix(s, u) /\ IsPrefix(t, u) => IsPrefix(s, t) \/ IsPrefix(t, s)
         /\ IsPrefix(s, t) /\ IsPrefix(t, s) => s = t
<1>1. IsPrefix(s, s)
  BY PrefixIs
<1>2. IsPrefix(s, t) /\ IsPrefix(t, u) => IsPrefix(s, u)
  <2> SUFFICES ASSUME IsPrefix(s, t), IsPrefix(t, u) PROVE IsPrefix(s, u)
    OBVIOUS
  <2>1. Len(s) <= Len(t) /\ Len(t) <= Len(u) /\ Len(s) \in Nat /\ Len(t) \in Nat /\ Len(u) \in Nat
    BY PrefixIs
  <2>2. \A i \in 1..Len(s) : i \in 1..Len(t) /\ s[i] = t[i] /\ t[i] = u[i]
    BY <2>1, PrefixIs
  <2> QED
    BY <2>1, <2>2, PrefixIs
<1>3. IsPrefix(s, u) /\ IsPrefix(t, u) => IsPrefix(s, t) \/ IsPrefix(t, s)
  <2> SUFFICES ASSUME IsPrefix(s, u), IsPrefix(t, u) PROVE IsPrefix(s, t) \/ IsPrefix(t, s)
    OBVIOUS
  <2>1. Len(s) \in Nat /\ Len(t) \in Nat
    OBVIOUS
  <2>2. \A i \in 1..Len(s) : s[i] = u[i]
    BY PrefixIs
  <2>3. \A i \in 1..Len(t) : t[i] = u[i]
    BY PrefixIs
  <2>4. CASE Len(s) <= Len(t)
    <3>1. \A i \in 1..Len(s) : i \in 1..Len(t) /\ s[i] = t[i]
      BY <2>1, <2>2, <2>3, <2>4
    <3> QED
      BY <3>1, <2>4, PrefixIs
  <2>5. CASE Len(t) <= Len(s)
    <3>1. \A i \in 1..Len(t) : i \in 1..Len(s) /\ s[i] = t[i]
      BY <2>1, <2>2, <2>3, <2>5
    <3> QED
      BY <3>1, <2>5, PrefixIs
  <2> QED
    BY <2>1, <2>4, <2>5
<1>4. IsPrefix(s, t) /\ IsPrefix(t, s) => s = t
  <2> SUFFICES ASSUME IsPrefix(s, t), IsPrefix(t, s) PROVE s = t
    OBVIOUS
  <2>1. Len(s) = Len(t) /\ \A i \in 1..Len(s) : s[i] = t[i]
    BY PrefixIs
  <2> QED
    BY <2>1
<1> QED
  BY <1>1, <1>2, <1>3, <1>4

-----------------------------------------------------------------------------
(* Documents: edits.                                                       *)

\* Field paths are sequences of keys, and being above is an order on them, in
\* which whatever is above one path is one line.
LEMMA PathsAre ==
  /\ \A p \in Paths : p \in Seq(STRING) /\ Len(p) \in Nat \ {0}
  /\ \A p \in Paths : IsPrefix(p, p)
  /\ \A p, q \in Paths : IsPrefix(p, q) /\ IsPrefix(q, p) => p = q
  /\ \A p, q, r \in Paths : /\ IsPrefix(p, q) /\ IsPrefix(q, r) => IsPrefix(p, r)
                            /\ IsPrefix(p, r) /\ IsPrefix(q, r) => IsPrefix(p, q) \/ IsPrefix(q, p)
<1>1. \A p \in Paths : p \in Seq(STRING) /\ Len(p) \in Nat \ {0}
  <2> SUFFICES ASSUME NEW p \in Paths PROVE p \in Seq(STRING) /\ Len(p) \in Nat \ {0}
    OBVIOUS
  <2>1. p \in Seq(STRING) /\ p # <<>>
    BY DocumentsAssumption
  <2> QED
    BY <2>1
<1> QED
  BY <1>1, PrefixesCompose

\* The object a field is in.
LEMMA FrontIs ==
  ASSUME NEW p \in Paths, Len(p) > 1
  PROVE  /\ Front(p) \in Paths
         /\ IsPrefix(Front(p), p)
         /\ ~IsPrefix(p, Front(p))
<1>1. p \in Seq(STRING) /\ Len(p) \in Nat
  BY PathsAre
<1>2. Front(p) \in Paths
  BY DocumentsAssumption
<1>3. Front(p) \in Seq(STRING) /\ Len(Front(p)) = Len(p) - 1 /\ \A i \in 1..(Len(p) - 1) : Front(p)[i] = p[i]
  BY <1>1 DEF Front
<1>4. IsPrefix(Front(p), p)
  BY <1>1, <1>3, PrefixIs
<1>5. ~IsPrefix(p, Front(p))
  BY <1>1, <1>3, PrefixIs
<1> QED
  BY <1>2, <1>4, <1>5

\* The parts of an edit.
Sets(patch, ops) == { p \in ops : patch[p] # Delete }
Kept(tree, patch, ops) ==
  { q \in DOMAIN tree : /\ \A p \in ops : ~IsPrefix(p, q)
                        /\ \A p \in Sets(patch, ops) : ~IsPrefix(q, p) }
Hollow(tree, patch, ops) ==
  { Front(p) : p \in { p \in { p \in ops \ Sets(patch, ops) : \E q \in DOMAIN tree : IsPrefix(p, q) } : Len(p) > 1 } }
Bare(tree, patch, ops) ==
  { h \in Hollow(tree, patch, ops) :
      \A q \in Kept(tree, patch, ops) \cup Sets(patch, ops) \cup (Hollow(tree, patch, ops) \ {h}) : ~IsPrefix(h, q) }

\* An edit, by its parts.
LEMMA EditedIs ==
  ASSUME NEW tree, NEW patch, NEW ops
  PROVE  Edited(tree, patch, ops) =
           [p \in Kept(tree, patch, ops) \cup Sets(patch, ops) \cup Bare(tree, patch, ops) |->
              IF p \in Sets(patch, ops) THEN patch[p]
              ELSE IF p \in Bare(tree, patch, ops) THEN Empty ELSE tree[p]]
  BY DEF Edited, Sets, Kept, Hollow, Bare

\* Trees and patches, by their domains.
LEMMA TreesAre ==
  /\ \A tree : tree \in Trees <=> DOMAIN tree \in Shapes /\ tree \in [DOMAIN tree -> Leaf]
  /\ \A patch : patch \in Patches
       <=> DOMAIN patch \in Shapes /\ patch \in [DOMAIN patch -> Leaf \cup {Delete}]
  BY DEF Trees, Patches

\* A shape holds no path above another.
LEMMA ShapesAre ==
  \A D : D \in Shapes <=> D \subseteq Paths /\ \A p, q \in D : IsPrefix(p, q) => p = q
  BY DEF Shapes, Spread

\* A hollow object hung above a field that is removed, and that field was there.
LEMMA HollowIs ==
  ASSUME NEW tree \in Trees, NEW patch \in Patches, NEW ops \in SUBSET DOMAIN patch
  PROVE  \A h \in Hollow(tree, patch, ops) :
           /\ h \in Paths
           /\ \E r \in ops : /\ r \in Paths /\ patch[r] = Delete
                             /\ IsPrefix(h, r) /\ ~IsPrefix(r, h)
                             /\ \E q \in DOMAIN tree : IsPrefix(r, q)
<1> SUFFICES ASSUME NEW h \in Hollow(tree, patch, ops)
    PROVE  /\ h \in Paths
           /\ \E r \in ops : /\ r \in Paths /\ patch[r] = Delete
                             /\ IsPrefix(h, r) /\ ~IsPrefix(r, h)
                             /\ \E q \in DOMAIN tree : IsPrefix(r, q)
  OBVIOUS
<1>1. PICK r \in ops : /\ patch[r] = Delete /\ \E q \in DOMAIN tree : IsPrefix(r, q)
                       /\ Len(r) > 1 /\ h = Front(r)
  BY DEF Hollow, Sets
<1>2. r \in Paths
  BY TreesAre, ShapesAre
<1> QED
  BY <1>1, <1>2, FrontIs

\* An edited document is a document again: no leaf lies above another one,
\* although sets, deletes and the objects they empty meet (flattenPatch, write-
\* plan.ts).
LEMMA EditedIsTree ==
  ASSUME NEW tree \in Trees, NEW patch \in Patches, NEW ops \in SUBSET DOMAIN patch
  PROVE  /\ Edited(tree, patch, ops) \in Trees
         /\ ops \subseteq Paths
         /\ Bare(tree, patch, ops) \cap (Kept(tree, patch, ops) \cup Sets(patch, ops)) = {}
<1> DEFINE S == Sets(patch, ops)
           K == Kept(tree, patch, ops)
           H == Hollow(tree, patch, ops)
           B == Bare(tree, patch, ops)
<1>1. /\ DOMAIN tree \subseteq Paths /\ \A p, q \in DOMAIN tree : IsPrefix(p, q) => p = q
      /\ tree \in [DOMAIN tree -> Leaf]
  BY TreesAre, ShapesAre
<1>2. /\ DOMAIN patch \subseteq Paths /\ \A p, q \in DOMAIN patch : IsPrefix(p, q) => p = q
      /\ patch \in [DOMAIN patch -> Leaf \cup {Delete}]
  BY TreesAre, ShapesAre
<1>3. S \subseteq ops /\ S \subseteq Paths /\ \A p \in S : patch[p] \in Leaf
  BY <1>2 DEF Sets
<1>4. /\ K \subseteq DOMAIN tree /\ K \subseteq Paths
      /\ \A q \in K : /\ \A p \in ops : ~IsPrefix(p, q)
                      /\ \A p \in S : ~IsPrefix(q, p)
  BY <1>1 DEF Kept
<1>5. \A h \in H : /\ h \in Paths
                   /\ \E r \in ops : /\ r \in Paths /\ IsPrefix(h, r) /\ ~IsPrefix(r, h)
                                     /\ \E q \in DOMAIN tree : IsPrefix(r, q)
  BY HollowIs
<1>6. /\ B \subseteq H
      /\ \A h \in B : \A q \in K \cup S \cup (H \ {h}) : ~IsPrefix(h, q)
  BY DEF Bare
<1> HIDE DEF S, K, H, B
<1>7. K \cup S \cup B \subseteq Paths
  BY <1>3, <1>4, <1>5, <1>6
<1>8. ASSUME NEW p \in K, NEW q \in B, IsPrefix(p, q) PROVE FALSE
  <2>1. PICK r \in ops : /\ r \in Paths /\ IsPrefix(q, r)
                         /\ \E w \in DOMAIN tree : IsPrefix(r, w)
    BY <1>5, <1>6
  <2>2. PICK w \in DOMAIN tree : IsPrefix(r, w)
    BY <2>1
  <2>3. IsPrefix(p, r)
    BY <1>7, <1>8, <2>1, PathsAre
  <2>4. IsPrefix(p, w)
    BY <1>1, <1>7, <2>1, <2>2, <2>3, PathsAre
  <2>5. p = w
    BY <1>1, <1>4, <2>4
  <2> QED
    BY <1>4, <2>2, <2>5
<1>9. ASSUME NEW p \in S, NEW q \in B, IsPrefix(p, q) PROVE FALSE
  <2>1. PICK r \in ops : r \in Paths /\ IsPrefix(q, r) /\ ~IsPrefix(r, q)
    BY <1>5, <1>6
  <2>2. IsPrefix(p, r)
    BY <1>7, <1>9, <2>1, PathsAre
  <2>3. p = r
    BY <1>2, <1>3, <2>2
  <2> QED
    BY <1>9, <2>1, <2>3
<1>10. ASSUME NEW p \in K \cup S \cup B, NEW q \in K \cup S \cup B, IsPrefix(p, q) PROVE p = q
  <2>1. CASE p \in B
    BY <1>6, <1>10, <2>1
  <2>2. CASE p \in K /\ q \in K
    BY <1>1, <1>4, <1>10, <2>2
  <2>3. CASE p \in K /\ q \in S
    BY <1>4, <1>10, <2>3
  <2>4. CASE p \in S /\ q \in K
    BY <1>3, <1>4, <1>10, <2>4
  <2>5. CASE p \in S /\ q \in S
    BY <1>2, <1>3, <1>10, <2>5
  <2>6. CASE p \in K /\ q \in B
    BY <1>8, <1>10, <2>6
  <2>7. CASE p \in S /\ q \in B
    BY <1>9, <1>10, <2>7
  <2> QED
    BY <2>1, <2>2, <2>3, <2>4, <2>5, <2>6, <2>7
<1>11. K \cup S \cup B \in Shapes
  BY <1>7, <1>10, ShapesAre
<1>12. Edited(tree, patch, ops) = [p \in K \cup S \cup B |-> IF p \in S THEN patch[p]
                                     ELSE IF p \in B THEN Empty ELSE tree[p]]
  BY EditedIs DEF K, S, B
<1>13. Edited(tree, patch, ops) \in [K \cup S \cup B -> Leaf]
  <2>1. Empty \in Leaf
    BY DEF Leaf
  <2>2. \A p \in K : tree[p] \in Leaf
    BY <1>1, <1>4
  <2> QED
    BY <1>3, <1>12, <2>1, <2>2
<1>14. Edited(tree, patch, ops) \in Trees
  BY <1>11, <1>13, TreesAre
<1>15. B \cap (K \cup S) = {}
  BY <1>6, <1>7, PathsAre
<1> QED
  BY <1>2, <1>14, <1>15 DEF B, K, S

\* What is sent as a whole carries no delete.
SentAreWhole == call.kind \in {"put", "replace"} => ~Sentinels(call.patch)
\* Next to the agreement itself: SQLite holds plain JSON only, so that an edit
\* there has leaves to work on.
DocumentsInv == TypeOK /\ BackendsAgree /\ RowsAreJson /\ SentAreWhole

-----------------------------------------------------------------------------
(* Documents: the calls.                                                   *)

\* A record that is there is not the one that is not.
LEMMA AbsentIsNoRecord == \A rec \in Records : rec # Absent /\ rec.stored
  BY DEF Records, Record, Absent

\* A patch that deletes nothing is a document.
LEMMA WholePatches ==
  ASSUME NEW patch \in Patches, ~Sentinels(patch)
  PROVE  patch \in Trees
<1>1. patch \in [DOMAIN patch -> Leaf \cup {Delete}] /\ DOMAIN patch \in Shapes
  BY TreesAre
<1>2. patch \in [DOMAIN patch -> Leaf]
  BY <1>1 DEF Sentinels
<1> QED
  BY <1>1, <1>2, TreesAre

\* A document is a patch that deletes nothing, and so is the empty one.
LEMMA TreesArePatches ==
  /\ \A patch \in Trees : patch \in Patches /\ ~Sentinels(patch)
  /\ Nothing \in Trees
<1>1. ASSUME NEW patch \in Trees PROVE patch \in Patches /\ ~Sentinels(patch)
  <2>1. patch \in [DOMAIN patch -> Leaf] /\ DOMAIN patch \in Shapes
    BY TreesAre
  <2>2. Delete \notin Leaf
    BY DocumentsAssumption DEF Leaf
  <2>3. patch \in [DOMAIN patch -> Leaf \cup {Delete}]
    BY <2>1
  <2> QED
    BY <2>1, <2>2, <2>3, TreesAre DEF Sentinels
<1>2. Nothing \in Trees
  <2>1. DOMAIN Nothing = {} /\ Nothing \in [{} -> Leaf]
    BY DEF Nothing
  <2>2. {} \in Shapes
    BY ShapesAre
  <2> QED
    BY <2>1, <2>2, TreesAre
<1> QED
  BY <1>1, <1>2

\* What is put into nothing is the patch.
LEMMA EditOfNothing ==
  ASSUME NEW patch \in Trees
  PROVE  Edited(Nothing, patch, DOMAIN patch) = patch
<1>1. patch \in [DOMAIN patch -> Leaf] /\ \A p \in DOMAIN patch : patch[p] # Delete
  BY TreesAre, TreesArePatches DEF Sentinels
<1>2. { p \in DOMAIN patch : patch[p] # Delete } = DOMAIN patch /\ Sets(patch, DOMAIN patch) = DOMAIN patch
  BY <1>1 DEF Sets
<1>3. Kept(Nothing, patch, DOMAIN patch) = {} /\ Hollow(Nothing, patch, DOMAIN patch) = {}
  BY DEF Kept, Hollow, Nothing
<1>4. Bare(Nothing, patch, DOMAIN patch) = {}
  BY <1>3 DEF Bare
<1>5. Edited(Nothing, patch, DOMAIN patch) = [p \in DOMAIN patch |-> patch[p]]
  BY <1>2, <1>3, <1>4, EditedIs
<1> QED
  BY <1>1, <1>5

\* A patch without a leaf is the empty object.
LEMMA EmptyIsNothing ==
  ASSUME NEW patch \in Trees, DOMAIN patch = {}
  PROVE  patch = Nothing
<1>1. patch \in [DOMAIN patch -> Leaf]
  BY TreesAre
<1>2. patch = [p \in {} |-> patch[p]]
  BY <1>1
<1> QED
  BY <1>2 DEF Nothing

\* A merge into nothing is the patch.
LEMMA MergeIntoNothing ==
  ASSUME NEW patch \in Trees
  PROVE  FieldMerge(Nothing, patch) = patch
<1>1. CASE DOMAIN patch = {}
  BY <1>1, EmptyIsNothing DEF FieldMerge
<1>2. CASE DOMAIN patch # {}
  <2>1. { p \in DOMAIN patch : patch[p] # Delete } = DOMAIN patch
    BY TreesArePatches DEF Sentinels
  <2> QED
    BY <1>2, <2>1, EditOfNothing DEF FieldMerge
<1> QED
  BY <1>1, <1>2

\* What meets no leaf on its way is the same list of operations everywhere.
LEMMA EditsAgree ==
  ASSUME NEW tree, NEW patch, ~Crosses(tree, patch)
  PROVE  /\ JsonEdit(tree, patch) = Edited(tree, patch, DOMAIN patch)
         /\ FieldEdit(tree, patch) = Edited(tree, patch, DOMAIN patch)
<1>1. \A p \in DOMAIN patch : ~Blocked(tree, p)
  BY DEF Crosses
<1>2. { p \in DOMAIN patch : ~Blocked(tree, p) } = DOMAIN patch
  BY <1>1
<1>3. { p \in DOMAIN patch : patch[p] = Delete => ~Blocked(tree, p) } = DOMAIN patch
  BY <1>1
<1> QED
  BY <1>2, <1>3 DEF JsonEdit, FieldEdit

\* So is a merge, unless it is one of the empty object into data.
LEMMA MergesAgree ==
  ASSUME NEW tree, NEW patch \in Trees, ~Crosses(tree, patch), ~Empties(tree, patch)
  PROVE  JsonEdit(tree, patch) = FieldMerge(tree, patch)
<1>1. JsonEdit(tree, patch) = Edited(tree, patch, DOMAIN patch)
  BY EditsAgree
<1>2. CASE DOMAIN patch = {}
  <2>1. tree = Nothing /\ patch = Nothing
    BY <1>2, EmptyIsNothing DEF Empties
  <2>2. Edited(Nothing, patch, DOMAIN patch) = patch
    BY EditOfNothing
  <2> QED
    BY <1>1, <1>2, <2>1, <2>2 DEF FieldMerge
<1>3. CASE DOMAIN patch # {}
  <2>1. { p \in DOMAIN patch : patch[p] # Delete } = DOMAIN patch
    BY TreesArePatches DEF Sentinels
  <2> QED
    BY <1>1, <1>3, <2>1 DEF FieldMerge
<1> QED
  BY <1>2, <1>3

\* Each way to edit leaves a document.
LEMMA EditsAreTrees ==
  ASSUME NEW tree \in Trees, NEW patch \in Patches
  PROVE  /\ JsonEdit(tree, patch) \in Trees
         /\ FieldEdit(tree, patch) \in Trees
         /\ FieldMerge(tree, patch) \in Trees
<1>1. { p \in DOMAIN patch : ~Blocked(tree, p) } \in SUBSET DOMAIN patch
  OBVIOUS
<1>2. { p \in DOMAIN patch : patch[p] = Delete => ~Blocked(tree, p) } \in SUBSET DOMAIN patch
  OBVIOUS
<1>3. { p \in DOMAIN patch : patch[p] # Delete } \in SUBSET DOMAIN patch
  OBVIOUS
<1>4. FieldMerge(tree, patch) \in Trees
  BY <1>3, EditedIsTree, TreesArePatches DEF FieldMerge
<1> QED
  BY <1>1, <1>2, <1>4, EditedIsTree DEF JsonEdit, FieldEdit

\* An edit brings in nothing that JSON cannot carry.
LEMMA EditsAreJson ==
  ASSUME NEW tree \in Trees, NEW patch \in Patches, ~Unsafe(tree), ~Unsafe(patch)
  PROVE  ~Unsafe(JsonEdit(tree, patch))
<1> DEFINE ops == { p \in DOMAIN patch : ~Blocked(tree, p) }
           S == Sets(patch, ops)
           K == Kept(tree, patch, ops)
           B == Bare(tree, patch, ops)
<1>1. S \subseteq DOMAIN patch /\ K \subseteq DOMAIN tree
  BY DEF Sets, Kept
<1>2. JsonEdit(tree, patch) = [p \in K \cup S \cup B |-> IF p \in S THEN patch[p]
                                 ELSE IF p \in B THEN Empty ELSE tree[p]]
  BY EditedIs DEF JsonEdit
<1>3. Empty \notin Special
  BY DocumentsAssumption
<1> HIDE DEF S, K, B, ops
<1> QED
  BY <1>1, <1>2, <1>3 DEF Unsafe

\* What a call carries.
LEMMA CallsAre ==
  ASSUME NEW c \in Calls
  PROVE  /\ c.doc \in Docs
         /\ c.kind \in {"put", "update", "replace", "bulk"} => c.patch \in Patches /\ c.v \in Stamps
         /\ c.kind = "writeback" => c.patch \in Trees /\ c.v \in Stamps
         /\ c.kind \in {"put", "update", "replace", "bulk", "writeback", "remove"}
  BY DEF Calls

\* Records hold documents and stamps, and a merge leaves both.
LEMMA RecordsAre ==
  /\ \A tree \in Trees, v \in Stamps : /\ Record(tree, v) \in Records
                                      /\ Record(tree, v).data = tree
                                      /\ Record(tree, v).v = v
  /\ \A rec \in Records : rec.data \in Trees /\ rec.v \in Stamps
  /\ \A rec \in Records, tree \in Trees, v \in Stamps :
       Merged(rec, tree, v) \in Records /\ Merged(rec, tree, v).data = tree
<1>1. \A tree \in Trees, v \in Stamps : /\ Record(tree, v) \in Records
                                        /\ Record(tree, v).data = tree
                                        /\ Record(tree, v).v = v
  <2> SUFFICES ASSUME NEW tree \in Trees, NEW v \in Stamps
               PROVE  Record(tree, v) \in Records /\ Record(tree, v).data = tree /\ Record(tree, v).v = v
    OBVIOUS
  <2>1. Record(tree, v) \in Records
    BY DEF Records
  <2>2. Record(tree, v).data = tree /\ Record(tree, v).v = v
    BY DEF Record
  <2> QED
    BY <2>1, <2>2
<1>2. ASSUME NEW rec \in Records PROVE rec.data \in Trees /\ rec.v \in Stamps
  <2>1. PICK tree \in Trees, v \in Stamps : rec = Record(tree, v)
    BY DEF Records
  <2> QED
    BY <1>1, <2>1
<1> QED
  BY <1>1, <1>2 DEF Merged

\* A call that lands leaves both stores as they should be when its two new
\* documents are.
LEMMA LandKeeps ==
  ASSUME DocumentsInv, NEW d \in Docs, NEW row \in Records \cup {Absent}, NEW doc \in Records \cup {Absent},
         NEW apart \in BOOLEAN, Land(d, row, doc, apart),
         row # Absent => ~Unsafe(row.data),
         d \notin crossed /\ ~apart => row = doc
  PROVE  DocumentsInv'
<1>1. TypeOK'
  BY DEF DocumentsInv, TypeOK, Land
<1>2. BackendsAgree'
  BY DEF DocumentsInv, TypeOK, Land, BackendsAgree
<1>3. RowsAreJson'
  BY DEF DocumentsInv, TypeOK, Land, RowsAreJson
<1>4. SentAreWhole'
  BY DEF Land, SentAreWhole, Idle
<1> QED
  BY <1>1, <1>2, <1>3, <1>4 DEF DocumentsInv

\* putNode and putEdge.
LEMMA PutKeeps ==
  ASSUME DocumentsInv, NEW d \in Docs, call \in Calls, call.kind = "put", Put(d, call)
  PROVE  DocumentsInv'
<1> DEFINE patch == call.patch
           v == call.v
           row == IF Unsafe(patch) THEN sql[d]
                  ELSE IF sql[d] = Absent THEN Record(patch, v)
                  ELSE Merged(sql[d], JsonEdit(sql[d].data, patch), v)
           doc == IF fire[d] = Absent THEN Record(FieldMerge(Nothing, patch), v)
                  ELSE Merged(fire[d], FieldMerge(fire[d].data, patch), v)
           apart == Unsafe(patch) \/
                      (sql[d] # Absent /\ (Crosses(sql[d].data, patch) \/ Empties(sql[d].data, patch)))
<1>1. /\ patch \in Patches /\ patch \in Trees /\ v \in Stamps /\ ~Sentinels(patch)
      /\ sql[d] \in Records \cup {Absent} /\ fire[d] \in Records \cup {Absent}
      /\ sql[d] # Absent => sql[d] \in Records /\ sql[d].data \in Trees /\ ~Unsafe(sql[d].data)
      /\ fire[d] # Absent => fire[d] \in Records /\ fire[d].data \in Trees
  BY CallsAre, RecordsAre, WholePatches DEF DocumentsInv, TypeOK, SentAreWhole, RowsAreJson
<1>2. Land(d, row, doc, apart)
  BY DEF Put
<1> HIDE DEF patch, v
<1>3. sql[d] # Absent =>
        /\ JsonEdit(sql[d].data, patch) \in Trees
        /\ ~Unsafe(patch) => ~Unsafe(JsonEdit(sql[d].data, patch))
  BY <1>1, EditsAreTrees, EditsAreJson
<1>4. fire[d] # Absent => FieldMerge(fire[d].data, patch) \in Trees
  BY <1>1, EditsAreTrees
<1>5. FieldMerge(Nothing, patch) = patch
  BY <1>1, MergeIntoNothing
<1>6. row \in Records \cup {Absent} /\ (row # Absent => ~Unsafe(row.data))
  BY <1>1, <1>3, RecordsAre
<1>7. doc \in Records \cup {Absent}
  BY <1>1, <1>4, <1>5, RecordsAre
<1>8. d \notin crossed /\ ~apart => row = doc
  <2> SUFFICES ASSUME d \notin crossed, ~Unsafe(patch),
                      sql[d] # Absent => ~Crosses(sql[d].data, patch) /\ ~Empties(sql[d].data, patch)
               PROVE row = doc
    OBVIOUS
  <2>1. sql[d] = fire[d]
    BY DEF DocumentsInv, BackendsAgree
  <2>2. sql[d] # Absent => JsonEdit(sql[d].data, patch) = FieldMerge(sql[d].data, patch)
    BY <1>1, MergesAgree
  <2> QED
    BY <1>5, <2>1, <2>2
<1>9. apart \in BOOLEAN
  BY DEF Unsafe
<1> HIDE DEF row, doc, apart
<1> QED
  BY <1>2, <1>6, <1>7, <1>8, <1>9, LandKeeps

\* updateNode, updateEdge and bulkUpdate.
LEMMA UpdateKeeps ==
  ASSUME DocumentsInv, NEW d \in Docs, call \in Calls, call.kind \in {"update", "bulk"}, Update(d, call)
  PROVE  DocumentsInv'
<1> DEFINE patch == call.patch
           row == IF sql[d] = Absent \/ Unsafe(patch) THEN sql[d]
                  ELSE Record(JsonEdit(sql[d].data, patch), sql[d].v)
           doc == IF fire[d] = Absent THEN Absent
                  ELSE Record(FieldEdit(fire[d].data, patch), fire[d].v)
           apart == Unsafe(patch) \/ (sql[d] # Absent /\ Crosses(sql[d].data, patch))
<1>1. /\ patch \in Patches
      /\ sql[d] \in Records \cup {Absent} /\ fire[d] \in Records \cup {Absent}
      /\ sql[d] # Absent => sql[d].data \in Trees /\ sql[d].v \in Stamps /\ ~Unsafe(sql[d].data)
      /\ fire[d] # Absent => fire[d].data \in Trees /\ fire[d].v \in Stamps
  BY CallsAre, RecordsAre DEF DocumentsInv, TypeOK, RowsAreJson
<1>2. Land(d, row, doc, apart)
  BY DEF Update
<1> HIDE DEF patch
<1>3. sql[d] # Absent =>
        /\ JsonEdit(sql[d].data, patch) \in Trees
        /\ ~Unsafe(patch) => ~Unsafe(JsonEdit(sql[d].data, patch))
  BY <1>1, EditsAreTrees, EditsAreJson
<1>4. fire[d] # Absent => FieldEdit(fire[d].data, patch) \in Trees
  BY <1>1, EditsAreTrees
<1>5. row \in Records \cup {Absent} /\ (row # Absent => ~Unsafe(row.data))
  BY <1>1, <1>3, RecordsAre
<1>6. doc \in Records \cup {Absent}
  BY <1>1, <1>4, RecordsAre
<1>7. d \notin crossed /\ ~apart => row = doc
  <2> SUFFICES ASSUME d \notin crossed, ~Unsafe(patch), sql[d] # Absent => ~Crosses(sql[d].data, patch)
               PROVE row = doc
    OBVIOUS
  <2>1. sql[d] = fire[d]
    BY DEF DocumentsInv, BackendsAgree
  <2>2. sql[d] # Absent => JsonEdit(sql[d].data, patch) = FieldEdit(sql[d].data, patch)
    BY EditsAgree
  <2> QED
    BY <2>1, <2>2
<1>8. apart \in BOOLEAN
  BY DEF Unsafe
<1> HIDE DEF row, doc, apart
<1> QED
  BY <1>2, <1>5, <1>6, <1>7, <1>8, LandKeeps

\* The write-back of a migrated record.
LEMMA WriteBackKeeps ==
  ASSUME DocumentsInv, NEW d \in Docs, call \in Calls, call.kind = "writeback", WriteBack(d, call)
  PROVE  DocumentsInv'
<1> DEFINE row == IF sql[d] = Absent \/ Unsafe(call.patch) THEN sql[d]
                  ELSE Merged(sql[d], call.patch, call.v)
           doc == IF fire[d] = Absent THEN Absent ELSE Merged(fire[d], call.patch, call.v)
           apart == Unsafe(call.patch)
<1>1. /\ call.patch \in Trees /\ call.v \in Stamps
      /\ sql[d] \in Records \cup {Absent} /\ fire[d] \in Records \cup {Absent}
      /\ sql[d] # Absent => ~Unsafe(sql[d].data)
  BY CallsAre DEF DocumentsInv, TypeOK, RowsAreJson
<1>2. Land(d, row, doc, apart)
  BY DEF WriteBack
<1>3. row \in Records \cup {Absent} /\ (row # Absent => ~Unsafe(row.data))
  BY <1>1, RecordsAre
<1>4. doc \in Records \cup {Absent}
  BY <1>1, RecordsAre
<1>5. d \notin crossed /\ ~apart => row = doc
  BY DEF DocumentsInv, BackendsAgree
<1>6. apart \in BOOLEAN
  BY DEF Unsafe
<1> HIDE DEF row, doc, apart
<1> QED
  BY <1>2, <1>3, <1>4, <1>5, <1>6, LandKeeps

\* replaceNode and replaceEdge.
LEMMA ReplaceKeeps ==
  ASSUME DocumentsInv, NEW d \in Docs, call \in Calls, call.kind = "replace", Replace(d, call)
  PROVE  DocumentsInv'
<1> DEFINE new == Record(call.patch, call.v)
<1>1. call.patch \in Trees /\ call.v \in Stamps
  BY CallsAre, WholePatches DEF DocumentsInv, SentAreWhole
<1>2. new \in Records /\ new.data = call.patch
  BY <1>1, RecordsAre
<1> HIDE DEF new
<1>3. /\ sql' = [sql EXCEPT ![d] = IF Unsafe(call.patch) THEN sql[d] ELSE new]
      /\ fire' = [fire EXCEPT ![d] = new]
      /\ crossed' = IF Unsafe(call.patch) THEN crossed \cup {d} ELSE crossed \ {d}
      /\ call' = Idle
  BY DEF Replace, new
<1>4. TypeOK'
  BY <1>2, <1>3 DEF DocumentsInv, TypeOK
<1>5. BackendsAgree'
  BY <1>2, <1>3 DEF DocumentsInv, TypeOK, BackendsAgree
<1>6. RowsAreJson'
  BY <1>2, <1>3 DEF DocumentsInv, TypeOK, RowsAreJson
<1>7. SentAreWhole'
  BY <1>3 DEF SentAreWhole, Idle
<1> QED
  BY <1>4, <1>5, <1>6, <1>7 DEF DocumentsInv

\* removeNode and removeEdge.
LEMMA EraseKeeps ==
  ASSUME DocumentsInv, NEW d \in Docs, Erase(d)
  PROVE  DocumentsInv'
<1>1. TypeOK'
  BY DEF DocumentsInv, TypeOK, Erase
<1>2. BackendsAgree'
  BY DEF DocumentsInv, TypeOK, Erase, BackendsAgree
<1>3. RowsAreJson'
  BY DEF DocumentsInv, TypeOK, Erase, RowsAreJson
<1>4. SentAreWhole'
  BY DEF Erase, SentAreWhole, Idle
<1> QED
  BY <1>1, <1>2, <1>3, <1>4 DEF DocumentsInv

\* The invariant holds.
LEMMA DocumentsInduct == Spec => []DocumentsInv
<1>1. Init => DocumentsInv
  BY DEF Init, DocumentsInv, TypeOK, BackendsAgree, RowsAreJson, SentAreWhole, Idle
<1>2. DocumentsInv /\ [Next]_vars => DocumentsInv'
  <2> SUFFICES ASSUME DocumentsInv, [Next]_vars PROVE DocumentsInv'
    OBVIOUS
  <2>1. CASE UNCHANGED vars
    BY <2>1 DEF vars, DocumentsInv, TypeOK, BackendsAgree, RowsAreJson, SentAreWhole
  <2>2. ASSUME NEW c \in Calls, Send(c) PROVE DocumentsInv'
    <3>1. TypeOK' /\ BackendsAgree' /\ RowsAreJson'
      BY <2>2 DEF Send, DocumentsInv, TypeOK, BackendsAgree, RowsAreJson
    <3>2. SentAreWhole'
      BY <2>2 DEF Send, Accepts, SentAreWhole
    <3> QED
      BY <3>1, <3>2 DEF DocumentsInv
  <2>3. ASSUME Serve PROVE DocumentsInv'
    <3>1. call \in Calls /\ call.doc \in Docs
      <4>1. call # Idle
        BY <2>3 DEF Serve, Idle
      <4> QED
        BY <4>1, CallsAre DEF DocumentsInv, TypeOK
    <3> QED
      BY <2>3, <3>1, PutKeeps, ReplaceKeeps, UpdateKeeps, WriteBackKeeps, EraseKeeps DEF Serve
  <2> QED
    BY <2>1, <2>2, <2>3 DEF Next
<1> QED
  BY <1>1, <1>2, PTL DEF Spec

\* SQLite and Firestore hold the same document after the same calls, whatever
\* the fields, values and patches, as long as no patch cut through a leaf and no put
\* of {} met data (write-plan.ts, sqlite-sql.ts, firestore-update.ts).
THEOREM AgreementTheorem == Spec => []BackendsAgree
<1>1. DocumentsInv => BackendsAgree
  BY DEF DocumentsInv
<1> QED
  BY <1>1, DocumentsInduct, PTL

\* No row of SQLite ever holds a value that JSON cannot carry: what a sentinel
\* or a special type would be is refused before it is written
\* (assertJsonSafePayload, sqlite-payload-guard.ts).
THEOREM StoredTheorem == Spec => []StoredAsJson
<1>1. DocumentsInv => StoredAsJson
  BY DEF DocumentsInv, StoredAsJson
<1> QED
  BY <1>1, DocumentsInduct, PTL

-----------------------------------------------------------------------------
(* Documents: what a patch means.                                          *)

\* The leaves at or below a path, and a path that no operation of a patch
\* meets.
LeavesBelow(tree, p) == { q \in DOMAIN tree : IsPrefix(p, q) }
Apart(patch, p) == \A r \in DOMAIN patch : ~IsPrefix(p, r) /\ ~IsPrefix(r, p)

\* An edit leaves alone what it does not meet.
LEMMA SiblingsKept ==
  ASSUME NEW tree \in Trees, NEW patch \in Patches, NEW ops \in SUBSET DOMAIN patch,
         NEW p \in Paths, Apart(patch, p)
  PROVE  /\ LeavesBelow(Edited(tree, patch, ops), p) = LeavesBelow(tree, p)
         /\ \A q \in LeavesBelow(tree, p) : Edited(tree, patch, ops)[q] = tree[q]
<1> DEFINE S == Sets(patch, ops)
           K == Kept(tree, patch, ops)
           B == Bare(tree, patch, ops)
<1>1. DOMAIN tree \subseteq Paths /\ ops \subseteq Paths /\ S \subseteq ops /\ K \subseteq DOMAIN tree
  BY TreesAre, ShapesAre DEF Sets, Kept
<1>2. \A r \in ops : ~IsPrefix(p, r) /\ ~IsPrefix(r, p)
  BY DEF Apart
<1>3. \A q \in LeavesBelow(tree, p) : q \in Paths /\ IsPrefix(p, q)
  BY <1>1 DEF LeavesBelow
<1>4. ASSUME NEW q \in LeavesBelow(tree, p), NEW r \in ops PROVE ~IsPrefix(r, q) /\ ~IsPrefix(q, r)
  BY <1>1, <1>2, <1>3, PathsAre
<1>5. LeavesBelow(tree, p) \subseteq K
  BY <1>1, <1>4 DEF Kept, LeavesBelow
<1>6. \A q \in B : ~IsPrefix(p, q)
  <2> SUFFICES ASSUME NEW q \in B, IsPrefix(p, q) PROVE FALSE
    OBVIOUS
  <2>1. q \in Paths /\ \E r \in ops : r \in Paths /\ IsPrefix(q, r)
    BY HollowIs DEF Bare
  <2> QED
    BY <1>2, <2>1, PathsAre
<1>7. \A q \in S : ~IsPrefix(p, q)
  BY <1>1, <1>2
<1>8. B \cap K = {} /\ K \cap S = {}
  <2>1. \A q \in K : ~IsPrefix(q, q) \/ q \notin S
    BY DEF Kept
  <2> QED
    BY <1>1, <2>1, EditedIsTree, PathsAre
<1>9. Edited(tree, patch, ops) = [q \in K \cup S \cup B |-> IF q \in S THEN patch[q]
                                    ELSE IF q \in B THEN Empty ELSE tree[q]]
  BY EditedIs
<1> HIDE DEF S, K, B
<1>10. \A q \in K \cup S \cup B : IsPrefix(p, q) => q \in K
  BY <1>6, <1>7
<1>11. LeavesBelow(Edited(tree, patch, ops), p) = LeavesBelow(tree, p)
  BY <1>1, <1>5, <1>9, <1>10 DEF LeavesBelow
<1>12. \A q \in LeavesBelow(tree, p) : Edited(tree, patch, ops)[q] = tree[q]
  BY <1>5, <1>8, <1>9
<1> QED
  BY <1>11, <1>12

\* Nor does a reader see a difference there.
LEMMA ReadsKept ==
  ASSUME NEW tree \in Trees, NEW patch \in Patches, NEW p \in Paths, Apart(patch, p),
         NEW edited, \/ edited = JsonEdit(tree, patch)
                     \/ edited = FieldEdit(tree, patch)
                     \/ edited = FieldMerge(tree, patch) /\ DOMAIN patch # {},
         NEW was, was.data = tree, NEW is, is.data = edited
  PROVE  At(was, p) = At(is, p)
<1>1. PICK ops \in SUBSET DOMAIN patch : edited = Edited(tree, patch, ops)
  <2>1. { r \in DOMAIN patch : ~Blocked(tree, r) } \in SUBSET DOMAIN patch
    OBVIOUS
  <2>2. { r \in DOMAIN patch : patch[r] = Delete => ~Blocked(tree, r) } \in SUBSET DOMAIN patch
    OBVIOUS
  <2>3. { r \in DOMAIN patch : patch[r] # Delete } \in SUBSET DOMAIN patch
    OBVIOUS
  <2> QED
    BY <2>1, <2>2, <2>3 DEF JsonEdit, FieldEdit, FieldMerge
<1>2. LeavesBelow(edited, p) = LeavesBelow(tree, p) /\ \A q \in LeavesBelow(tree, p) : edited[q] = tree[q]
  BY <1>1, SiblingsKept
<1>3. At(was, p) = [q \in LeavesBelow(tree, p) |-> tree[q]] /\ At(is, p) = [q \in LeavesBelow(edited, p) |-> edited[q]]
  BY DEF At, LeavesBelow
<1> QED
  BY <1>2, <1>3

\* No put, update or bulk update changes a field that its patch does not name, but for
\* a put of {} on Firestore.
THEOREM SiblingsTheorem == Spec => SiblingsSurvive
<1> DEFINE A == Served({"put", "update", "bulk"}) =>
       \A p \in Paths :
         (\A q \in DOMAIN call.patch : ~IsPrefix(p, q) /\ ~IsPrefix(q, p)) =>
            /\ sql[call.doc] # Absent =>
                 At(sql[call.doc], p) = At(sql'[call.doc], p)
            /\ fire[call.doc] # Absent /\ ~PutsNothing(call) =>
                 At(fire[call.doc], p) = At(fire'[call.doc], p)
<1>1. ASSUME DocumentsInv, Next PROVE A
  <2> DEFINE d == call.doc
             patch == call.patch
  <2> SUFFICES ASSUME call.kind \in {"put", "update", "bulk"},
                      NEW p \in Paths, \A q \in DOMAIN patch : ~IsPrefix(p, q) /\ ~IsPrefix(q, p)
               PROVE  /\ sql[d] # Absent => At(sql[d], p) = At(sql'[d], p)
                      /\ fire[d] # Absent /\ ~(call.kind = "put" /\ DOMAIN patch = {}) =>
                           At(fire[d], p) = At(fire'[d], p)
    BY DEF Served, PutsNothing
  <2>1. call \in Calls /\ d \in Docs /\ patch \in Patches /\ call.v \in Stamps
    BY <1>1, CallsAre DEF DocumentsInv, TypeOK, Idle
  <2>2. Apart(patch, p)
    BY DEF Apart
  <2>3. /\ sql \in [Docs -> Records \cup {Absent}] /\ fire \in [Docs -> Records \cup {Absent}]
        /\ sql[d] # Absent => sql[d] \in Records /\ sql[d].data \in Trees /\ sql[d].v \in Stamps
        /\ fire[d] # Absent => fire[d] \in Records /\ fire[d].data \in Trees /\ fire[d].v \in Stamps
    BY <1>1, <2>1, RecordsAre DEF DocumentsInv, TypeOK
  <2>4. \/ call.kind = "put" /\ Put(d, call)
        \/ call.kind \in {"update", "bulk"} /\ Update(d, call)
    BY <1>1 DEF Next, Serve, Send, Idle
  <2>5. sql[d] # Absent => sql'[d] = sql[d] \/ sql'[d].data = JsonEdit(sql[d].data, patch)
    BY <2>1, <2>3, <2>4, RecordsAre DEF Put, Update, Land, Record, Merged
  <2>6. fire[d] # Absent => fire'[d].data = IF call.kind = "put" THEN FieldMerge(fire[d].data, patch)
                                                                 ELSE FieldEdit(fire[d].data, patch)
    BY <2>1, <2>3, <2>4, RecordsAre DEF Put, Update, Land, Record, Merged
  <2> HIDE DEF d, patch
  <2>7. sql[d] # Absent => At(sql[d], p) = At(sql'[d], p)
    BY <2>1, <2>2, <2>3, <2>5, ReadsKept
  <2>8. ASSUME fire[d] # Absent, ~(call.kind = "put" /\ DOMAIN patch = {})
        PROVE  At(fire[d], p) = At(fire'[d], p)
    <3>1. \/ fire'[d].data = FieldEdit(fire[d].data, patch)
          \/ fire'[d].data = FieldMerge(fire[d].data, patch) /\ DOMAIN patch # {}
      BY <2>6, <2>8
    <3>2. fire[d].data \in Trees
      BY <2>3, <2>8
    <3> QED
      BY <2>1, <2>2, <3>1, <3>2, ReadsKept
  <2> QED
    BY <2>7, <2>8
<1>2. DocumentsInv /\ [Next]_vars => [A]_vars
  BY <1>1
<1> QED
  BY <1>2, DocumentsInduct, PTL DEF Spec, SiblingsSurvive

\* Whatever a patch sets is read back, and whatever it deletes is gone.
THEOREM ReadBackTheorem == Spec => PatchIsReadBack
<1> DEFINE B == Exact(call) =>
       \A p \in DOMAIN call.patch :
         LET now == sql'[call.doc].data
         IN  IF call.patch[p] = Delete
               THEN \A q \in DOMAIN now : ~IsPrefix(p, q)
               ELSE p \in DOMAIN now /\ now[p] = call.patch[p]
<1>1. ASSUME DocumentsInv, Next PROVE B
  <2> DEFINE d == call.doc
             patch == call.patch
             now == sql'[d].data
  <2> SUFFICES ASSUME call.kind \in {"put", "update", "bulk"}, sql'[d] # Absent, ~Unsafe(patch),
                      sql[d] # Absent => ~Crosses(sql[d].data, patch),
                      NEW p \in DOMAIN patch
               PROVE  IF patch[p] = Delete THEN \A q \in DOMAIN now : ~IsPrefix(p, q)
                                           ELSE p \in DOMAIN now /\ now[p] = patch[p]
    BY DEF Exact, Served
  <2>1. call \in Calls /\ d \in Docs /\ patch \in Patches /\ call.v \in Stamps
    BY <1>1, CallsAre DEF DocumentsInv, TypeOK, Idle
  <2>2. /\ sql \in [Docs -> Records \cup {Absent}]
        /\ sql[d] # Absent => sql[d] \in Records /\ sql[d].data \in Trees /\ sql[d].v \in Stamps
    BY <1>1, <2>1, RecordsAre DEF DocumentsInv, TypeOK
  <2>3. \/ call.kind = "put" /\ Put(d, call)
        \/ call.kind \in {"update", "bulk"} /\ Update(d, call)
    BY <1>1 DEF Next, Serve, Send, Idle
  <2>4. CASE sql[d] = Absent
    <3>1. call.kind = "put" /\ now = patch
      BY <2>1, <2>2, <2>3, <2>4 DEF Put, Update, Land, Record
    <3>2. ~Sentinels(patch)
      BY <1>1, <3>1 DEF DocumentsInv, SentAreWhole
    <3> QED
      BY <3>1, <3>2 DEF Sentinels
  <2>5. CASE sql[d] # Absent
    <3> DEFINE tree == sql[d].data
               S == Sets(patch, DOMAIN patch)
               K == Kept(tree, patch, DOMAIN patch)
               B1 == Bare(tree, patch, DOMAIN patch)
    <3>1. now = JsonEdit(tree, patch)
      BY <2>1, <2>2, <2>3, <2>5 DEF Put, Update, Land, Record, Merged
    <3>2. tree \in Trees /\ ~Crosses(tree, patch)
      BY <2>2, <2>5
    <3>3. now = Edited(tree, patch, DOMAIN patch)
      BY <3>1, <3>2, EditsAgree
    <3> HIDE DEF now, tree, patch
    <3>4. now = [q \in K \cup S \cup B1 |-> IF q \in S THEN patch[q]
                   ELSE IF q \in B1 THEN Empty ELSE tree[q]]
      BY <3>3, EditedIs
    <3>5. patch[p] # Delete => p \in S
      BY DEF Sets
    <3>6. ASSUME patch[p] = Delete, NEW q \in K \cup S \cup B1, IsPrefix(p, q) PROVE FALSE
      <4>0. DOMAIN patch \in SUBSET DOMAIN patch /\ DOMAIN patch \subseteq Paths
        BY <2>1, TreesAre, ShapesAre
      <4>1. CASE q \in K
        BY <3>6, <4>1 DEF Kept
      <4>2. CASE q \in S
        <5>1. q \in DOMAIN patch /\ patch[q] # Delete
          BY <4>2 DEF Sets
        <5>2. p = q
          BY <2>1, <3>6, <5>1, TreesAre, ShapesAre
        <5> QED
          BY <3>6, <5>1, <5>2
      <4>3. CASE q \in B1
        <5>1. q \in Hollow(tree, patch, DOMAIN patch)
          BY <4>3 DEF Bare
        <5>2. PICK r \in DOMAIN patch : q \in Paths /\ r \in Paths /\ IsPrefix(q, r) /\ ~IsPrefix(r, q)
          BY <2>1, <3>2, <4>0, <5>1, HollowIs
        <5>3. p = r
          <6>1. IsPrefix(p, r)
            BY <3>6, <4>0, <5>2, PathsAre
          <6> QED
            BY <2>1, <6>1, TreesAre, ShapesAre
        <5> QED
          BY <3>6, <5>2, <5>3
      <4> QED
        BY <3>6, <4>1, <4>2, <4>3
    <3> QED
      BY <3>4, <3>5, <3>6
  <2> QED
    BY <2>4, <2>5
<1>2. DocumentsInv /\ [Next]_vars => [B]_vars
  BY <1>1
<1> QED
  BY <1>2, DocumentsInduct, PTL DEF Spec, PatchIsReadBack

\* Both: the meaning of a patch (flattenPatch, write-plan.ts), in every backend but for
\* a put of {} on Firestore; what is read back is read from SQLite.
THEOREM PatchesTheorem == Spec => PatchesMean
  BY SiblingsTheorem, ReadBackTheorem DEF PatchesMean

-----------------------------------------------------------------------------
(* Registries.                                                             *)

\* Entries of a registry, numbered as they were given.
Registered == [t : Triples, graph : Segments \cup {nothing}, id : Nat \ {0}]

\* The greatest of some numbers.
LEMMA Greatest ==
  ASSUME NEW n \in Nat, NEW S \in SUBSET (0..n), S # {}
  PROVE  Entries!Max(S) \in S /\ \A y \in S : y <= Entries!Max(S)
<1> DEFINE T == {n - y : y \in S}
<1>1. T \in SUBSET Nat /\ T # {}
  <2>1. \A y \in S : n - y \in Nat
    OBVIOUS
  <2>2. PICK y \in S : TRUE
    OBVIOUS
  <2>3. n - y \in T
    OBVIOUS
  <2> QED
    BY <2>1, <2>3
<1>2. PICK x \in T : \A y \in T : x <= y
  <2> HIDE DEF T
  <2> QED
    BY <1>1, Least
<1>3. PICK z \in S : x = n - z
  OBVIOUS
<1>4. \A y \in S : n - z <= n - y
  BY <1>2, <1>3
<1>5. \A y \in S : z >= y
  BY <1>4
<1>6. \A y \in S : Entries!Max(S) \in S /\ Entries!Max(S) >= y
  BY <1>3, <1>5 DEF Entries!Max
<1> QED
  BY <1>3, <1>6

\* A lookup answers with an entry of the triple, if there is one.
LEMMA LookupIs ==
  ASSUME NEW es \in Seq(Registered), NEW t
  PROVE  /\ t \in Entries!Keys(es) => Entries!Lookup(es, t) \in Entries!ToSet(es) /\ Entries!Lookup(es, t).t = t
         /\ t \notin Entries!Keys(es) => Entries!Lookup(es, t) = Entries!Missing
         /\ Entries!Lookup(es, t) # Entries!Missing <=> t \in Entries!Keys(es)
<1> DEFINE found == {i \in DOMAIN es : es[i].t = t}
<1>1. Len(es) \in Nat /\ DOMAIN es = 1..Len(es) /\ \A i \in DOMAIN es : es[i] \in Registered
  OBVIOUS
<1>2. t \in Entries!Keys(es) <=> found # {}
  BY DEF Entries!Keys, Entries!ToSet
<1>3. found \in SUBSET (0..Len(es))
  BY <1>1
<1>4. \A e \in Registered : e # Entries!Missing
  BY DEF Registered, Entries!Missing
<1>5. CASE found = {}
  BY <1>2, <1>5 DEF Entries!Lookup
<1>6. CASE found # {}
  <2>1. Entries!Max(found) \in found
    <3> HIDE DEF found
    <3> QED
      BY <1>1, <1>3, <1>6, Greatest
  <2>2. Entries!Lookup(es, t) = es[Entries!Max(found)]
    BY <1>6 DEF Entries!Lookup
  <2> QED
    BY <1>1, <1>2, <1>4, <1>6, <2>1, <2>2 DEF Entries!ToSet
<1> QED
  BY <1>5, <1>6

\* The registries hold entries.
EntriesInv == base \in Seq(Registered) /\ ext \in Seq(Registered)

\* The base answers for its triples, the extension for the others.
LEMMA MergedLookupIs ==
  ASSUME EntriesInv, NEW t
  PROVE  /\ t \in Entries!Keys(base) => Entries!MergedLookup(t) = Entries!Lookup(base, t)
         /\ t \notin Entries!Keys(base) => Entries!MergedLookup(t) = Entries!Lookup(ext, t)
BY LookupIs DEF EntriesInv, Entries!MergedLookup

\* What createRegistry and createMergedRegistry answer agrees (registry.ts), however
\* many entries of however many types lie over each other.
LEMMA EntriesAgree == ASSUME EntriesInv PROVE Entries!ViewsAgree
<1> SUFFICES ASSUME NEW t \in Triples
             PROVE  LET found == Entries!MergedLookup(t)
                        named == {e \in Entries!MergedByAxbType(t[2]) : e.t = t}
                    IN  /\ Entries!Judge(t) = found
                        /\ (found = Entries!Missing) = (named = {})
                        /\ found # Entries!Missing => found \in named
                        /\ t \in Entries!Keys(base) => named \subseteq Entries!ToSet(base)
  BY DEF Entries!ViewsAgree
<1> DEFINE named == {e \in Entries!MergedByAxbType(t[2]) : e.t = t}
<1>1. Entries!Judge(t) = Entries!MergedLookup(t)
  BY MergedLookupIs DEF Entries!Judge
<1>2. CASE t \in Entries!Keys(base)
  <2>1. Entries!MergedLookup(t) \in Entries!ToSet(base) /\ Entries!MergedLookup(t).t = t /\ Entries!MergedLookup(t) # Entries!Missing
    BY <1>2, MergedLookupIs, LookupIs DEF EntriesInv
  <2>2. Entries!MergedLookup(t) \in Entries!LookupByAxbType(base, t[2])
    BY <2>1 DEF Entries!LookupByAxbType
  <2>3. Entries!MergedLookup(t) \in named
    BY <2>1, <2>2 DEF Entries!MergedByAxbType
  <2>4. ASSUME NEW e \in named PROVE e \in Entries!ToSet(base)
    <3>1. CASE e \in Entries!LookupByAxbType(base, t[2])
      BY <3>1 DEF Entries!LookupByAxbType
    <3>2. CASE e \notin Entries!LookupByAxbType(base, t[2])
      BY <2>1, <2>2, <2>4, <3>2 DEF Entries!MergedByAxbType
    <3> QED
      BY <3>1, <3>2
  <2> QED
    BY <1>1, <2>1, <2>3, <2>4
<1>3. CASE t \notin Entries!Keys(base)
  <2>1. Entries!MergedLookup(t) = Entries!Lookup(ext, t)
    BY <1>3, MergedLookupIs
  <2>2. \A e \in Entries!ToSet(base) : e.t # t
    BY <1>3 DEF Entries!Keys
  <2>3. ASSUME NEW e PROVE e \in named <=> e \in Entries!ToSet(ext) /\ e.t = t
    BY <2>2 DEF Entries!MergedByAxbType, Entries!LookupByAxbType
  <2>4. t \in Entries!Keys(ext) <=> \E e \in Entries!ToSet(ext) : e.t = t
    BY DEF Entries!Keys
  <2>5. CASE t \in Entries!Keys(ext)
    <3>1. Entries!MergedLookup(t) \in Entries!ToSet(ext) /\ Entries!MergedLookup(t).t = t /\ Entries!MergedLookup(t) # Entries!Missing
      BY <2>1, <2>5, LookupIs DEF EntriesInv
    <3>2. Entries!MergedLookup(t) \in named
      BY <2>3, <3>1
    <3> QED
      BY <1>1, <1>3, <3>1, <3>2
  <2>6. CASE t \notin Entries!Keys(ext)
    <3>1. Entries!MergedLookup(t) = Entries!Missing
      BY <2>1, <2>6, LookupIs DEF EntriesInv
    <3>2. named = {}
      BY <2>3, <2>4, <2>6
    <3> QED
      BY <1>1, <1>3, <3>1, <3>2
  <2> QED
    BY <2>5, <2>6
<1> QED
  BY <1>2, <1>3

\* The topology of a registry has each segment that leads from a type, once.
LEMMA TopologyIs ==
  ASSUME NEW es \in Seq(Registered), NEW a
  PROVE  /\ \A e \in Entries!ToSet(es) : e.t[1] = a /\ e.graph # nothing =>
              \E f \in Entries!Topology(es, a) : f.graph = e.graph
         /\ \A e, f \in Entries!Topology(es, a) : e.graph = f.graph => e = f
<1>1. Len(es) \in Nat /\ DOMAIN es = 1..Len(es)
  OBVIOUS
<1> DEFINE First(i) == \A j \in 1..(i - 1) : es[j].t[1] = a => es[j].graph # es[i].graph
           offered == {i \in DOMAIN es : es[i].t[1] = a /\ es[i].graph # nothing /\ First(i)}
<1>2. Entries!Topology(es, a) = {es[i] : i \in offered}
  BY DEF Entries!Topology
<1>3. ASSUME NEW i \in DOMAIN es, es[i].t[1] = a, es[i].graph # nothing
      PROVE  \E f \in Entries!Topology(es, a) : f.graph = es[i].graph
  <2> DEFINE T == {j \in DOMAIN es : es[j].t[1] = a /\ es[j].graph = es[i].graph}
  <2>1. T \in SUBSET Nat /\ T # {}
    BY <1>1, <1>3
  <2>2. PICK j \in T : \A k \in T : j <= k
    <3> HIDE DEF T
    <3> QED
      BY <2>1, Least
  <2>3. First(j)
    BY <1>1, <2>2
  <2>4. j \in offered
    BY <1>3, <2>2, <2>3
  <2> QED
    BY <1>2, <2>2, <2>4
<1>4. ASSUME NEW i \in offered, NEW j \in offered, es[i].graph = es[j].graph PROVE i = j
  BY <1>1, <1>4
<1>5. \A e \in Entries!ToSet(es) : \E i \in DOMAIN es : e = es[i]
  BY DEF Entries!ToSet
<1>6. \A e, f \in Entries!Topology(es, a) : e.graph = f.graph => e = f
  <2> HIDE DEF offered
  <2> QED
    BY <1>2, <1>4
<1> HIDE DEF offered
<1> QED
  BY <1>3, <1>5, <1>6

\* Every segment that a lookup can lead to is in the merged topology, once.
LEMMA EntriesCovered == ASSUME EntriesInv PROVE Entries!TopologyCoversLookups
<1> SUFFICES ASSUME NEW t \in Triples
             PROVE  /\ Entries!MergedLookup(t).graph # nothing =>
                         \E e \in Entries!MergedTopology(t[1]) : e.graph = Entries!MergedLookup(t).graph
                    /\ \A e, f \in Entries!MergedTopology(t[1]) : e.graph = f.graph => e = f
  BY DEF Entries!TopologyCoversLookups
<1> DEFINE own == Entries!Topology(base, t[1])
           more == {e \in Entries!Topology(ext, t[1]) : \A f \in own : f.graph # e.graph}
<1>1. Entries!MergedTopology(t[1]) = own \cup more
  BY DEF Entries!MergedTopology
<1>2. \A e, f \in own : e.graph = f.graph => e = f
  BY TopologyIs DEF EntriesInv
<1>3. \A e, f \in more : e.graph = f.graph => e = f
  BY TopologyIs DEF EntriesInv
<1>4. \A e \in own, f \in more : e.graph # f.graph
  OBVIOUS
<1>5. ASSUME Entries!MergedLookup(t).graph # nothing
      PROVE  \E e \in own \cup more : e.graph = Entries!MergedLookup(t).graph
  <2> DEFINE e == Entries!MergedLookup(t)
  <2>1. CASE t \in Entries!Keys(base)
    <3>1. e \in Entries!ToSet(base) /\ e.t[1] = t[1]
      BY <2>1, MergedLookupIs, LookupIs DEF EntriesInv
    <3> HIDE DEF e
    <3> QED
      BY <1>5, <3>1, TopologyIs DEF EntriesInv, e
  <2>2. CASE t \notin Entries!Keys(base) /\ t \in Entries!Keys(ext)
    <3>1. e \in Entries!ToSet(ext) /\ e.t[1] = t[1]
      BY <2>2, MergedLookupIs, LookupIs DEF EntriesInv
    <3>2. PICK f \in Entries!Topology(ext, t[1]) : f.graph = e.graph
      BY <1>5, <3>1, TopologyIs DEF EntriesInv
    <3> QED
      BY <3>2
  <2>3. CASE t \notin Entries!Keys(base) /\ t \notin Entries!Keys(ext)
    <3>1. e = Entries!Missing
      BY <2>3, MergedLookupIs, LookupIs DEF EntriesInv
    <3> QED
      BY <1>5, <3>1 DEF Entries!Missing
  <2> QED
    BY <2>1, <2>2, <2>3
<1> HIDE DEF own, more
<1> QED
  BY <1>1, <1>2, <1>3, <1>4, <1>5

\* The views of a registry, of a base and an extension with any entries, agree, and a
\* cascade finds every segment a lookup leads to, once (createRegistry and
\* createMergedRegistry, registry.ts).
LEMMA ViewsInduct == Entries!Spec => [](Entries!ViewsAgree /\ Entries!TopologyCoversLookups)
<1>1. Entries!Init => EntriesInv
  BY DEF Entries!Init, EntriesInv
<1>2. EntriesInv /\ [Entries!Next]_(Entries!vars) => EntriesInv'
  <2> SUFFICES ASSUME EntriesInv, [Entries!Next]_(Entries!vars) PROVE EntriesInv'
    OBVIOUS
  <2>1. ASSUME NEW es \in Seq(Registered), NEW t \in Triples, NEW g \in Segments \cup {nothing}
        PROVE  Append(es, [t |-> t, graph |-> g, id |-> Len(es) + 1]) \in Seq(Registered)
    <3>1. [t |-> t, graph |-> g, id |-> Len(es) + 1] \in Registered
      BY DEF Registered
    <3> QED
      BY <3>1
  <2>2. CASE Entries!Register
    BY <2>1, <2>2 DEF Entries!Register, Entries!Given, EntriesInv
  <2>3. CASE Entries!Extend
    BY <2>1, <2>3 DEF Entries!Extend, Entries!Given, EntriesInv
  <2>4. CASE Entries!AddStep \/ Entries!Nest \/ UNCHANGED Entries!vars
    BY <2>4 DEF Entries!AddStep, Entries!Nest, Entries!vars, EntriesInv
  <2> QED
    BY <2>2, <2>3, <2>4 DEF Entries!Next
<1> QED
  BY <1>1, <1>2, EntriesAgree, EntriesCovered, PTL DEF Entries!Spec

-----------------------------------------------------------------------------
(* Chains.                                                                  *)

\* What a step of a chain makes of the version reached before it.
Stepped(ms, w, v) == IF w = v /\ v \in Entries!Froms(ms) THEN Entries!StepFrom(ms, v).to ELSE w

\* No two steps start at one version.
LEMMA StepFromIs ==
  ASSUME NEW ms \in SUBSET Entries!Steps, \A m, n \in ms : m.from = n.from => m = n
  PROVE  /\ \A v \in Entries!Froms(ms) : Entries!StepFrom(ms, v) \in ms /\ Entries!StepFrom(ms, v).from = v
         /\ \A m \in ms : m.from \in Entries!Froms(ms) /\ Entries!StepFrom(ms, m.from) = m
<1>1. ASSUME NEW m \in ms PROVE m.from \in Entries!Froms(ms) /\ Entries!StepFrom(ms, m.from) = m
  BY DEF Entries!Froms, Entries!StepFrom
<1>2. ASSUME NEW v \in Entries!Froms(ms) PROVE Entries!StepFrom(ms, v) \in ms /\ Entries!StepFrom(ms, v).from = v
  BY <1>1 DEF Entries!Froms
<1> QED
  BY <1>1, <1>2

\* A walk goes on from its start by the steps.
LEMMA WalkIs ==
  ASSUME MaxVersion \in Nat, NEW ms \in SUBSET Entries!Steps, \A m, n \in ms : m.from = n.from => m = n,
         NEW start \in Entries!Versions
  PROVE  /\ Entries!Walk(ms, start) \in [0..(MaxVersion + 1) -> Entries!Versions]
         /\ Entries!Walk(ms, start)[0] = start
         /\ \A v \in 0..MaxVersion : Entries!Walk(ms, start)[v + 1] = Stepped(ms, Entries!Walk(ms, start)[v], v)
<1> DEFINE n == MaxVersion + 1
           S == Entries!Versions
           step == [k \in 1..n |-> [w \in S |-> Stepped(ms, w, k - 1)]]
           F(g) == [v \in 0..(MaxVersion + 1) |->
                      IF v = 0 THEN start
                      ELSE IF g[v - 1] = v - 1 /\ v - 1 \in Entries!Froms(ms)
                        THEN Entries!StepFrom(ms, v - 1).to
                        ELSE g[v - 1]]
           walk == CHOOSE g : g = F(g)
<1>1. \A w \in S, v \in Nat : Stepped(ms, w, v) \in S
  BY StepFromIs DEF Entries!Steps, Stepped
<1>2. \A k \in 1..n : step[k] \in [S -> S]
  BY <1>1
<1>3. n \in Nat /\ start \in S
  OBVIOUS
<1>4. PICK g \in [0..n -> S] : g[0] = start /\ \A k \in 1..n : g[k] = step[k][g[k - 1]]
  <2> HIDE DEF n, S, step
  <2>1. \E g \in [0..n -> S] : Goes(g, n, start, step)
    BY <1>2, <1>3, Recursion, Zenon
  <2> QED
    BY <2>1 DEF Goes
<1>5. \A k \in 1..n : g[k - 1] \in S /\ g[k] = Stepped(ms, g[k - 1], k - 1)
  <2> SUFFICES ASSUME NEW k \in 1..n PROVE g[k - 1] \in S /\ g[k] = Stepped(ms, g[k - 1], k - 1)
    OBVIOUS
  <2>1. k - 1 \in 0..n
    BY <1>3
  <2>2. g[k - 1] \in S
    <3> HIDE DEF S
    <3> QED
      BY <1>4, <2>1
  <2> QED
    BY <1>4, <2>2
<1>6. g = F(g)
  <2>1. ASSUME NEW v \in 0..n PROVE g[v] = F(g)[v]
    <3>1. CASE v = 0
      BY <1>4, <3>1
    <3>2. CASE v # 0
      BY <1>5, <2>1, <3>2 DEF Stepped
    <3> QED
      BY <3>1, <3>2
  <2> QED
    BY <1>4, <2>1
<1>7. walk = F(walk)
  <2> HIDE DEF F
  <2> QED
    BY <1>6
<1>8. Entries!Walk(ms, start) = walk
  BY DEF Entries!Walk
<1> HIDE DEF walk
<1>9. walk[0] = start
  BY <1>7
<1>10. \A v \in 0..MaxVersion : walk[v + 1] = Stepped(ms, walk[v], v)
  <2> SUFFICES ASSUME NEW v \in 0..MaxVersion PROVE walk[v + 1] = Stepped(ms, walk[v], v)
    OBVIOUS
  <2>1. v + 1 \in 0..(MaxVersion + 1) /\ v + 1 # 0 /\ (v + 1) - 1 = v
    OBVIOUS
  <2>2. walk[v + 1] = F(walk)[v + 1]
    BY <1>7
  <2> QED
    BY <2>1, <2>2 DEF Stepped
<1>11. \A v \in Nat : v <= MaxVersion + 1 => walk[v] \in Entries!Versions
  <2> DEFINE I == {v \in Nat : v <= MaxVersion + 1 => walk[v] \in Entries!Versions}
  <2>1. 0 \in I
    BY <1>9
  <2>2. \A v \in I : v + 1 \in I
    BY <1>1, <1>10
  <2>3. I = Nat
    <3> HIDE DEF I
    <3>1. I \in SUBSET Nat
      BY DEF I
    <3> QED
      BY <2>1, <2>2, <3>1, Induction
  <2> QED
    BY <2>3
<1>12. walk \in [0..(MaxVersion + 1) -> Entries!Versions]
  BY <1>7, <1>11
<1> QED
  BY <1>8, <1>9, <1>10, <1>12

\* The versions at which the walk from 0 stands when their turn comes.
OnPath(ms) == {p \in Entries!Versions : Entries!Walk(ms, 0)[p] = p}

\* It stands at 0, and where each step from such a version leads.
LEMMA PathGoesOn ==
  ASSUME MaxVersion \in Nat, NEW ms \in SUBSET Entries!Steps, \A m, n \in ms : m.from = n.from => m = n,
         \A m \in ms : m.to > m.from
  PROVE  0 \in OnPath(ms) /\ \A m \in ms : m.from \in OnPath(ms) => m.to \in OnPath(ms)
<1> DEFINE w == Entries!Walk(ms, 0)
<1>1. /\ w \in [0..(MaxVersion + 1) -> Entries!Versions]
      /\ w[0] = 0
      /\ \A v \in 0..MaxVersion : w[v + 1] = Stepped(ms, w[v], v)
  <2>1. 0 \in Entries!Versions
    BY DEF Entries!Versions
  <2> QED
    BY <2>1, WalkIs
<1> HIDE DEF w
<1>2. 0 \in OnPath(ms)
  BY <1>1 DEF OnPath, w, Entries!Versions
<1>3. ASSUME NEW m \in ms, m.from \in OnPath(ms) PROVE m.to \in OnPath(ms)
  <2>1. m.from \in 0..MaxVersion /\ m.to \in 0..MaxVersion /\ m.from < m.to /\ w[m.from] = m.from
    BY <1>3 DEF OnPath, w, Entries!Steps, Entries!Versions
  <2>2. w[m.from + 1] = m.to
    BY <1>1, <2>1, StepFromIs DEF Stepped
  <2> DEFINE I == {d \in Nat : m.from + 1 + d <= m.to => w[m.from + 1 + d] = m.to}
  <2>3. 0 \in I
    BY <2>1, <2>2
  <2>4. ASSUME NEW d \in I PROVE d + 1 \in I
    <3> DEFINE v == m.from + 1 + d
    <3>1. d \in Nat /\ m.from + 1 + (d + 1) = v + 1
      BY <2>1
    <3>2. CASE v + 1 <= m.to
      <4>1. v \in 0..MaxVersion /\ v # m.to /\ w[v] = m.to
        BY <2>1, <2>4, <3>2
      <4>2. w[v + 1] = m.to
        BY <1>1, <4>1 DEF Stepped
      <4> QED
        BY <3>1, <4>2
    <3>3. CASE ~(v + 1 <= m.to)
      BY <3>1, <3>3
    <3> QED
      BY <3>2, <3>3
  <2>5. I = Nat
    <3> HIDE DEF I
    <3>1. I \in SUBSET Nat
      BY DEF I
    <3> QED
      BY <2>3, <2>4, <3>1, Induction
  <2>6. m.to - m.from - 1 \in I
    <3> HIDE DEF I
    <3> QED
      BY <2>1, <2>5
  <2>7. w[m.to] = m.to
    BY <2>1, <2>6
  <2> QED
    BY <2>1, <2>7 DEF OnPath, w, Entries!Versions
<1> QED
  BY <1>2, <1>3

\* A walk from such a version joins the walk from 0.
LEMMA WalksJoin ==
  ASSUME MaxVersion \in Nat, NEW ms \in SUBSET Entries!Steps, \A m, n \in ms : m.from = n.from => m = n,
         NEW p \in OnPath(ms)
  PROVE  Entries!Reached(ms, p) = Entries!Walk(ms, 0)[MaxVersion + 1]
<1> DEFINE w == Entries!Walk(ms, 0)
           x == Entries!Walk(ms, p)
<1>0. p \in 0..MaxVersion /\ w[p] = p
  BY DEF OnPath, Entries!Versions
<1>1. \A v \in 0..MaxVersion : w[v + 1] = Stepped(ms, w[v], v)
  BY WalkIs DEF Entries!Versions
<1>2. x[0] = p /\ \A v \in 0..MaxVersion : x[v + 1] = Stepped(ms, x[v], v)
  BY <1>0, WalkIs DEF Entries!Versions
<1> HIDE DEF w, x
<1> DEFINE I == {v \in Nat : v <= MaxVersion + 1 => IF v <= p THEN x[v] = p ELSE x[v] = w[v]}
<1>3. 0 \in I
  BY <1>0, <1>2
<1>4. ASSUME NEW v \in I PROVE v + 1 \in I
  <2>0. v \in Nat
    OBVIOUS
  <2>1. CASE v + 1 <= p
    BY <1>0, <1>2, <1>4, <2>1 DEF Stepped
  <2>2. CASE p <= v /\ v <= MaxVersion
    <3>1. x[v] = w[v]
      BY <1>0, <1>4, <2>2
    <3> QED
      BY <1>0, <1>1, <1>2, <2>0, <2>2, <3>1
  <2>3. CASE v > MaxVersion
    BY <1>0, <2>0, <2>3
  <2> QED
    BY <1>0, <2>0, <2>1, <2>2, <2>3
<1>5. I = Nat
  <2> HIDE DEF I
  <2>1. I \in SUBSET Nat
    BY DEF I
  <2> QED
    BY <1>3, <1>4, <2>1, Induction
<1>6. MaxVersion + 1 \in I
  <2> HIDE DEF I
  <2> QED
    BY <1>5
<1>7. x[MaxVersion + 1] = w[MaxVersion + 1]
  BY <1>0, <1>6
<1> QED
  BY <1>7 DEF Entries!Reached, w, x

\* The versions a chain produces are those at which its walk stands.
LEMMA ProducedOnPath ==
  ASSUME MaxVersion \in Nat, NEW ms \in SUBSET Entries!Steps, \A m, n \in ms : m.from = n.from => m = n,
         \A m \in ms : m.to > m.from
  PROVE  Entries!Produced(ms) \subseteq OnPath(ms)
<1> DEFINE n == MaxVersion + 1
           S == SUBSET Entries!Versions
           first == {0}
           And(U) == U \cup {m.to : m \in {m \in ms : m.from \in U}}
           step == [k \in 1..n |-> [U \in S |-> And(U)]]
           F(g) == [k \in 0..(MaxVersion + 1) |->
                      IF k = 0 THEN {0}
                      ELSE g[k - 1] \cup {m.to : m \in {m \in ms : m.from \in g[k - 1]}}]
           up == CHOOSE g : g = F(g)
<1>1. \A U \in S : And(U) \in S
  BY DEF Entries!Steps
<1>2. \A k \in 1..n : step[k] \in [S -> S]
  <2> HIDE DEF And
  <2> QED
    BY <1>1
<1>3. n \in Nat /\ first \in S
  BY DEF Entries!Versions
<1>4. PICK g \in [0..n -> S] : g[0] = first /\ \A k \in 1..n : g[k] = step[k][g[k - 1]]
  <2> HIDE DEF n, S, step, first
  <2>1. \E g \in [0..n -> S] : Goes(g, n, first, step)
    BY <1>2, <1>3, Recursion, Zenon
  <2> QED
    BY <2>1 DEF Goes
<1>5. \A k \in 1..n : g[k - 1] \in S /\ g[k] = And(g[k - 1])
  <2> SUFFICES ASSUME NEW k \in 1..n PROVE g[k - 1] \in S /\ g[k] = And(g[k - 1])
    OBVIOUS
  <2> HIDE DEF And
  <2>1. k - 1 \in 0..n
    BY <1>3
  <2>2. g[k - 1] \in S
    <3> HIDE DEF S
    <3> QED
      BY <1>4, <2>1
  <2> QED
    BY <1>4, <2>2
<1>6. g = F(g)
  <2>1. ASSUME NEW k \in 0..n PROVE g[k] = F(g)[k]
    <3>1. CASE k = 0
      BY <1>4, <3>1
    <3>2. CASE k # 0
      BY <1>5, <2>1, <3>2
    <3> QED
      BY <3>1, <3>2
  <2> QED
    BY <1>4, <2>1
<1>7. up = F(up)
  <2> HIDE DEF F
  <2> QED
    BY <1>6
<1>8. Entries!Produced(ms) = up[MaxVersion + 1]
  BY DEF Entries!Produced
<1> HIDE DEF up
<1>9. up[0] = {0}
  BY <1>7
<1>10. \A k \in 0..MaxVersion : up[k + 1] = And(up[k])
  <2> SUFFICES ASSUME NEW k \in 0..MaxVersion PROVE up[k + 1] = And(up[k])
    OBVIOUS
  <2>1. k + 1 \in 0..(MaxVersion + 1) /\ k + 1 # 0 /\ (k + 1) - 1 = k
    OBVIOUS
  <2>2. up[k + 1] = F(up)[k + 1]
    BY <1>7
  <2> QED
    BY <2>1, <2>2
<1> DEFINE I == {k \in Nat : k <= MaxVersion + 1 => up[k] \subseteq OnPath(ms)}
<1>11. 0 \in I
  BY <1>9, PathGoesOn
<1>12. ASSUME NEW k \in I PROVE k + 1 \in I
  <2>1. \A U \in SUBSET OnPath(ms) : And(U) \subseteq OnPath(ms)
    BY PathGoesOn
  <2> HIDE DEF And
  <2> QED
    BY <1>10, <1>12, <2>1
<1>13. I = Nat
  <2> HIDE DEF I
  <2>1. I \in SUBSET Nat
    BY DEF I
  <2> QED
    BY <1>11, <1>12, <2>1, Induction
<1>14. MaxVersion + 1 \in I
  <2> HIDE DEF I
  <2> QED
    BY <1>13
<1> QED
  BY <1>8, <1>14

\* A chain that createRegistry accepts (validateMigrationChain) brings every record
\* that a prefix of it has stamped to the newest version (applyMigrationChain),
\* however many steps it has and whatever versions they skip.
LEMMA ChainsInduct == ASSUME MaxVersion \in Nat PROVE Entries!Spec => []Entries!ValidChainsReach
<1> DEFINE I == chain \in SUBSET Entries!Steps
<1>1. Entries!Init => I
  BY DEF Entries!Init
<1>2. I /\ [Entries!Next]_(Entries!vars) => I'
  BY DEF Entries!Next, Entries!Register, Entries!Extend, Entries!AddStep, Entries!Nest, Entries!vars
<1>3. I => Entries!ValidChainsReach
  <2> SUFFICES ASSUME I, Entries!Valid(chain), chain # {}, NEW v \in Entries!Produced(chain)
               PROVE  Entries!Reached(chain, v) = Entries!Target(chain)
    BY DEF Entries!ValidChainsReach
  <2>1. /\ \A m \in chain : m.to > m.from
        /\ \A m, n \in chain : m.from = n.from => m = n
        /\ Entries!Walk(chain, 0)[MaxVersion + 1] = Entries!Target(chain)
    BY DEF Entries!Valid
  <2>2. v \in OnPath(chain)
    BY <2>1, ProducedOnPath
  <2> QED
    BY <2>1, <2>2, WalksJoin
<1> QED
  BY <1>1, <1>2, <1>3, PTL DEF Entries!Spec

\* The pieces of q, put together one after the other.
Joined(g, q) == g[0] = <<>> /\ \A k \in 1..Len(q) : g[k] = g[k - 1] \o q[k]

-----------------------------------------------------------------------------
(* Sequences put together.                                                 *)

\* FlattenSeq puts the pieces together one by one.
LEMMA Flattened ==
  ASSUME NEW S, NEW q \in Seq(Seq(S))
  PROVE  \E g \in [0..Len(q) -> Seq(S)] : Joined(g, q) /\ Scopes!FlattenSeq(q) = g[Len(q)]
<1> DEFINE n == Len(q)
           T == Seq(S)
           step == [k \in 1..n |-> [w \in T |-> w \o q[k]]]
<1>0. n \in Nat /\ \A k \in 1..n : q[k] \in T
  OBVIOUS
<1>1. <<>> \in T
  OBVIOUS
<1>2. \A k \in 1..n : step[k] \in [T -> T]
  BY <1>0
<1>3. PICK g \in [0..n -> T] : Goes(g, n, <<>>, step)
  <2> HIDE DEF n, T, step
  <2> QED
    BY <1>0, <1>1, <1>2, Recursion, Zenon
<1>4. \A k \in 1..n : k - 1 \in 0..n /\ g[k - 1] \in T
  <2> HIDE DEF n, T, step
  <2> QED
    BY <1>0
<1>5. g[0] = <<>> /\ \A k \in 1..n : g[k] = g[k - 1] \o q[k]
  <2>1. g[0] = <<>> /\ \A k \in 1..n : g[k] = step[k][g[k - 1]]
    BY <1>3 DEF Goes
  <2>2. \A k \in 1..n, w \in T : step[k][w] = w \o q[k]
    OBVIOUS
  <2> HIDE DEF n, T, step
  <2> QED
    BY <1>4, <2>1, <2>2
<1>8. ASSUME n # 0 PROVE g[1] = q[1]
  <2>1. 1 \in 1..n /\ 1 - 1 = 0
    BY <1>0, <1>8
  <2>2. q[1] \in Seq(S)
    BY <1>0, <2>1
  <2> HIDE DEF n, T, step
  <2>3. g[1] = g[0] \o q[1]
    BY <1>5, <2>1
  <2> QED
    BY <1>5, <2>2, <2>3
<1>6. CASE n = 0
  <2>1. Scopes!FlattenSeq(q) = g[Len(q)]
    BY <1>5, <1>6 DEF Scopes!FlattenSeq
  <2> QED
    BY <1>5, <2>1 DEF Joined
<1>7. CASE n # 0
  <2> HIDE DEF T, step, n
  <2> DEFINE F(f) == [i \in 1..n |-> IF i = 1 THEN q[i] ELSE f[i - 1] \o q[i]]
             h == [i \in 1..n |-> g[i]]
             f == CHOOSE f : f = F(f)
  <2>1. h = F(h)
    <3>1. ASSUME NEW i \in 1..n PROVE h[i] = IF i = 1 THEN q[i] ELSE h[i - 1] \o q[i]
      <4>1. CASE i = 1
        BY <1>7, <1>8, <4>1
      <4>2. CASE i # 1
        <5>1. i - 1 \in 1..n
          BY <1>0, <4>2
        <5> QED
          BY <1>5, <4>2, <5>1
      <4> QED
        BY <4>1, <4>2
    <3> QED
      BY <3>1
  <2>2. f = F(f)
    <3> HIDE DEF h
    <3> QED
      BY <2>1
  <2>3. Scopes!FlattenSeq(q) = f[n]
    BY <1>0, <1>7 DEF Scopes!FlattenSeq, n
  <2> HIDE DEF f
  <2>4. \A i \in 1..n : f[i] = IF i = 1 THEN q[i] ELSE f[i - 1] \o q[i]
    BY <2>2
  <2> DEFINE I == {k \in Nat : k \in 1..n => f[k] = g[k]}
  <2>5. 0 \in I
    OBVIOUS
  <2>6. ASSUME NEW k \in I PROVE k + 1 \in I
    <3>1. CASE k + 1 \in 1..n /\ k = 0
      BY <1>7, <1>8, <2>4, <3>1
    <3>2. CASE k + 1 \in 1..n /\ k # 0
      <4>1. (k + 1) - 1 = k /\ k \in 1..n /\ k + 1 # 1 /\ k + 1 \in Nat
        BY <1>0, <3>2
      <4>2. f[k + 1] = f[k] \o q[k + 1]
        BY <2>4, <3>2, <4>1
      <4>3. g[k + 1] = g[k] \o q[k + 1]
        BY <1>5, <3>2, <4>1
      <4>4. f[k] = g[k]
        BY <2>6, <4>1
      <4>5. f[k + 1] = g[k + 1]
        BY <4>2, <4>3, <4>4
      <4> QED
        BY <4>1, <4>5
    <3>3. CASE k + 1 \notin 1..n
      BY <3>3
    <3> QED
      BY <3>1, <3>2, <3>3
  <2>7. I = Nat
    <3> HIDE DEF I
    <3>1. I \in SUBSET Nat
      BY DEF I
    <3> QED
      BY <2>5, <2>6, <3>1, Induction
  <2> QED
    <3>1. n \in I /\ n \in 1..n
      BY <1>0, <1>7, <2>7
    <3> QED
      BY <1>5, <2>3, <3>1 DEF Joined, n, T
<1> QED
  BY <1>6, <1>7

\* What follows a common prefix.
LEMMA PrefixesCancel ==
  ASSUME NEW S, NEW w \in Seq(S), NEW s \in Seq(S), NEW t \in Seq(S)
  PROVE  /\ IsPrefix(w, w \o s)
         /\ IsPrefix(w \o s, w \o t) <=> IsPrefix(s, t)
         /\ IsPrefix(w \o s, w) => s = <<>>
         /\ w \o s = w \o t => s = t
<1> DEFINE ws == w \o s
           wt == w \o t
<1>0. /\ ws \in Seq(S) /\ wt \in Seq(S)
      /\ Len(ws) = Len(w) + Len(s) /\ Len(wt) = Len(w) + Len(t)
      /\ \A i \in 1..Len(w) : ws[i] = w[i] /\ wt[i] = w[i]
      /\ \A i \in 1..Len(s) : ws[Len(w) + i] = s[i]
      /\ \A i \in 1..Len(t) : wt[Len(w) + i] = t[i]
      /\ Len(w) \in Nat /\ Len(s) \in Nat /\ Len(t) \in Nat
  <2>1. /\ ws \in Seq(S) /\ wt \in Seq(S)
        /\ Len(ws) = Len(w) + Len(s) /\ Len(wt) = Len(w) + Len(t)
        /\ Len(w) \in Nat /\ Len(s) \in Nat /\ Len(t) \in Nat
    OBVIOUS
  <2>2. \A i \in 1..Len(w) : ws[i] = w[i] /\ wt[i] = w[i]
    OBVIOUS
  <2>3. \A i \in 1..Len(s) : ws[Len(w) + i] = s[i]
    OBVIOUS
  <2>4. \A i \in 1..Len(t) : wt[Len(w) + i] = t[i]
    OBVIOUS
  <2> QED
    BY <2>1, <2>2, <2>3, <2>4
<1> HIDE DEF ws, wt
<1>1. IsPrefix(w, ws)
  BY <1>0, PrefixIs
<1>2. IsPrefix(ws, wt) => IsPrefix(s, t)
  <2> SUFFICES ASSUME IsPrefix(ws, wt) PROVE IsPrefix(s, t)
    OBVIOUS
  <2>0. Len(ws) <= Len(wt) /\ \A i \in 1..Len(ws) : ws[i] = wt[i]
    <3>1. ws \in Seq(S) /\ wt \in Seq(S)
      BY <1>0
    <3>2. IsPrefix(ws, wt) <=> Len(ws) <= Len(wt) /\ \A i \in 1..Len(ws) : ws[i] = wt[i]
      BY <3>1, PrefixIs
    <3> QED
      BY <3>2
  <2>1. Len(s) <= Len(t) /\ \A i \in 1..Len(ws) : ws[i] = wt[i]
    BY <1>0, <2>0
  <2>2. \A i \in 1..Len(s) : s[i] = t[i]
    <3> SUFFICES ASSUME NEW i \in 1..Len(s) PROVE s[i] = t[i]
      OBVIOUS
    <3>1. Len(w) + i \in 1..Len(ws) /\ i \in 1..Len(t)
      BY <1>0, <2>1
    <3> QED
      BY <1>0, <2>1, <3>1
  <2> QED
    BY <2>1, <2>2, PrefixIs
<1>3. IsPrefix(s, t) => IsPrefix(ws, wt)
  <2> SUFFICES ASSUME IsPrefix(s, t) PROVE IsPrefix(ws, wt)
    OBVIOUS
  <2>1. Len(s) <= Len(t) /\ \A i \in 1..Len(s) : s[i] = t[i]
    BY PrefixIs
  <2>2. ASSUME NEW i \in 1..Len(ws) PROVE ws[i] = wt[i]
    <3>1. CASE i <= Len(w)
      BY <1>0, <3>1
    <3>2. CASE ~(i <= Len(w))
      <4>1. i - Len(w) \in 1..Len(s) /\ i - Len(w) \in 1..Len(t) /\ Len(w) + (i - Len(w)) = i
        BY <1>0, <2>1, <3>2
      <4> QED
        BY <1>0, <2>1, <4>1
    <3> QED
      BY <3>1, <3>2
  <2>3. Len(ws) <= Len(wt) /\ ws \in Seq(S) /\ wt \in Seq(S)
    BY <1>0, <2>1
  <2> QED
    BY <2>2, <2>3, PrefixIs
<1>4. IsPrefix(ws, w) => s = <<>>
  BY <1>0, PrefixIs
<1>5. ws = wt => s = t
  <2> SUFFICES ASSUME ws = wt PROVE s = t
    OBVIOUS
  <2>1. IsPrefix(ws, wt) /\ IsPrefix(wt, ws)
    BY <1>0, PrefixesCompose
  <2>2. IsPrefix(s, t)
    BY <1>2, <2>1
  <2>3. IsPrefix(t, s)
    <3>1. Len(t) <= Len(s)
      BY <1>0, <2>1, PrefixIs
    <3>2. \A i \in 1..Len(t) : t[i] = s[i]
      BY <2>2, <3>1, PrefixIs
    <3> QED
      BY <3>1, <3>2, PrefixIs
  <2> QED
    BY <2>2, <2>3, PrefixesCompose
<1> QED
  BY <1>1, <1>2, <1>3, <1>4, <1>5 DEF ws, wt

\* Sequences with the same elements.
LEMMA SameSequence ==
  ASSUME NEW S, NEW s \in Seq(S), NEW t \in Seq(S), Len(s) = Len(t), \A i \in 1..Len(s) : s[i] = t[i]
  PROVE  s = t
  OBVIOUS

\* What has been put together stays in front.
LEMMA JoinedGrows ==
  ASSUME NEW S, NEW q \in Seq(Seq(S)), NEW g \in [0..Len(q) -> Seq(S)], Joined(g, q)
  PROVE  \A i \in 0..Len(q) : IsPrefix(g[i], g[Len(q)])
<1> DEFINE n == Len(q)
           I == {k \in Nat : k <= n => IsPrefix(g[n - k], g[n])}
<1>0. n \in Nat /\ (\A k \in 0..n : g[k] \in Seq(S)) /\ \A k \in 1..n : q[k] \in Seq(S)
  OBVIOUS
<1>1. 0 \in I
  BY <1>0, PrefixesCompose
<1>2. ASSUME NEW k \in I PROVE k + 1 \in I
  <2> SUFFICES ASSUME k + 1 <= n PROVE IsPrefix(g[n - (k + 1)], g[n])
    OBVIOUS
  <2> DEFINE i == n - (k + 1)
  <2>1. /\ k \in Nat /\ i \in 0..n /\ i + 1 \in 1..n /\ i + 1 \in 0..n /\ n - k = i + 1 /\ (i + 1) - 1 = i
        /\ n \in 0..n
    BY <1>0
  <2>2. IsPrefix(g[i + 1], g[n])
    BY <1>2, <2>1
  <2> HIDE DEF n, i
  <2>3. g[i + 1] = g[i] \o q[i + 1]
    BY <2>1 DEF Joined, n
  <2>4. g[i] \in Seq(S) /\ g[i + 1] \in Seq(S) /\ g[n] \in Seq(S) /\ q[i + 1] \in Seq(S)
    BY <1>0, <2>1
  <2>5. IsPrefix(g[i], g[i + 1])
    BY <2>3, <2>4, PrefixesCancel
  <2>6. IsPrefix(g[i], g[n])
    BY <2>2, <2>4, <2>5, PrefixesCompose
  <2> QED
    BY <2>6 DEF i
<1>3. I = Nat
  <2> HIDE DEF I
  <2>1. I \in SUBSET Nat
    BY DEF I
  <2> QED
    BY <1>1, <1>2, <2>1, Induction
<1>4. ASSUME NEW i \in 0..n PROVE IsPrefix(g[i], g[n])
  <2>1. n - i \in Nat /\ n - i <= n /\ n - (n - i) = i
    BY <1>0
  <2>2. n - i \in I
    BY <1>3, <2>1
  <2> HIDE DEF n
  <2> QED
    BY <2>1, <2>2
<1> QED
  BY <1>4

\* Where the pieces agree so does what they make.
Alike(g, h, q, r) ==
  \A n \in Nat : n <= Len(q) /\ n <= Len(r) /\ (\A k \in 1..n : q[k] = r[k]) => g[n] = h[n]

\* Sequences of pieces that begin alike are put together alike.
LEMMA CommonPieces ==
  ASSUME NEW q, NEW r, Len(q) \in Nat, Len(r) \in Nat, NEW g, NEW h, Joined(g, q), Joined(h, r)
  PROVE  Alike(g, h, q, r)
<1> SUFFICES ASSUME NEW n \in Nat, n <= Len(q), n <= Len(r), \A k \in 1..n : q[k] = r[k]
             PROVE  g[n] = h[n]
  BY DEF Alike
<1> DEFINE I == {k \in Nat : k <= n => g[k] = h[k]}
<1>1. 0 \in I
  BY DEF Joined
<1>2. ASSUME NEW k \in I PROVE k + 1 \in I
  <2> SUFFICES ASSUME k + 1 <= n PROVE g[k + 1] = h[k + 1]
    OBVIOUS
  <2>1. k + 1 \in 1..n /\ k + 1 \in 1..Len(q) /\ k + 1 \in 1..Len(r) /\ (k + 1) - 1 = k
    OBVIOUS
  <2>2. g[k] = h[k]
    BY <1>2
  <2>3. g[k + 1] = g[k] \o q[k + 1] /\ h[k + 1] = h[k] \o r[k + 1]
    BY <2>1 DEF Joined
  <2> QED
    BY <2>1, <2>2, <2>3
<1>3. I = Nat
  <2> HIDE DEF I
  <2>1. I \in SUBSET Nat
    BY DEF I
  <2> QED
    BY <1>1, <1>2, <2>1, Induction
<1>4. n \in I
  <2>1. n \in Nat
    OBVIOUS
  <2> QED
    BY <1>3, <2>1
<1> QED
  BY <1>4

\* The elements of the whole are those of the pieces.
LEMMA FlattenedIn ==
  ASSUME NEW S, NEW q \in Seq(Seq(S))
  PROVE  Scopes!FlattenSeq(q) \in Seq(S)
<1>1. PICK g \in [0..Len(q) -> Seq(S)] : Joined(g, q) /\ Scopes!FlattenSeq(q) = g[Len(q)]
  BY Flattened
<1>2. Len(q) \in 0..Len(q)
  OBVIOUS
<1> QED
  BY <1>1, <1>2

\* Pieces that go on after others go on in the whole.
LEMMA FlattenGoesOn ==
  ASSUME NEW S, NEW q \in Seq(Seq(S)), NEW r \in Seq(Seq(S)),
         Len(q) < Len(r), \A k \in 1..Len(q) : q[k] = r[k]
  PROVE  IsPrefix(Scopes!FlattenSeq(q) \o r[Len(q) + 1], Scopes!FlattenSeq(r))
<1>1. PICK g \in [0..Len(q) -> Seq(S)] : Joined(g, q) /\ Scopes!FlattenSeq(q) = g[Len(q)]
  BY Flattened
<1>2. PICK h \in [0..Len(r) -> Seq(S)] : Joined(h, r) /\ Scopes!FlattenSeq(r) = h[Len(r)]
  BY Flattened
<1> DEFINE n == Len(q)
<1>3. n \in 0..Len(q) /\ n <= Len(r) /\ n + 1 \in 1..Len(r) /\ n + 1 \in 0..Len(r) /\ (n + 1) - 1 = n
  OBVIOUS
<1>7. \A k \in 1..n : q[k] = r[k]
  OBVIOUS
<1> HIDE DEF n
<1>4. g[n] = h[n]
  <2>1. Len(q) \in Nat /\ Len(r) \in Nat
    OBVIOUS
  <2>2. Alike(g, h, q, r)
    BY <1>1, <1>2, <2>1, CommonPieces
  <2> QED
    BY <1>3, <1>7, <2>2 DEF Alike
<1>5. h[n + 1] = h[n] \o r[n + 1]
  BY <1>2, <1>3 DEF Joined
<1>6. IsPrefix(h[n + 1], h[Len(r)])
  BY <1>2, <1>3, JoinedGrows
<1> QED
  BY <1>1, <1>2, <1>4, <1>5, <1>6 DEF n

\* When no piece begins like another one, the pieces can be told from the whole.
LEMMA FlattenParts ==
  ASSUME NEW S, NEW q \in Seq(Seq(S)), NEW r \in Seq(Seq(S)),
         \A k \in 1..Len(q) : q[k] # <<>>,
         \A k \in 1..Len(q) : /\ k \in 1..Len(r)
                              /\ IsPrefix(q[k], r[k]) \/ IsPrefix(r[k], q[k])
                              => q[k] = r[k],
         IsPrefix(Scopes!FlattenSeq(q), Scopes!FlattenSeq(r))
  PROVE  Len(q) <= Len(r) /\ \A k \in 1..Len(q) : q[k] = r[k]
<1>1. PICK g \in [0..Len(q) -> Seq(S)] : Joined(g, q) /\ Scopes!FlattenSeq(q) = g[Len(q)]
  BY Flattened
<1>2. PICK h \in [0..Len(r) -> Seq(S)] : Joined(h, r) /\ Scopes!FlattenSeq(r) = h[Len(r)]
  BY Flattened
<1> DEFINE m == Len(q)
           n == Len(r)
           I == {k \in Nat : k <= m => k <= n /\ \A i \in 1..k : q[i] = r[i]}
<1>3. m \in Nat /\ n \in Nat /\ m \in 0..m /\ n \in 0..n
  OBVIOUS
<1>7. /\ \A k \in 0..m : g[k] \in Seq(S)
      /\ \A k \in 0..n : h[k] \in Seq(S)
      /\ \A k \in 1..m : q[k] \in Seq(S)
      /\ \A k \in 1..n : r[k] \in Seq(S)
  <2> DEFINE T == Seq(S)
  <2>1. /\ q \in Seq(T) /\ r \in Seq(T) /\ g \in [0..m -> T] /\ h \in [0..n -> T]
    OBVIOUS
  <2> HIDE DEF T
  <2>2. (\A k \in 0..m : g[k] \in T) /\ (\A k \in 0..n : h[k] \in T)
    BY <2>1
  <2>3. (\A k \in 1..m : q[k] \in T) /\ (\A k \in 1..n : r[k] \in T)
    BY <2>1
  <2> QED
    BY <2>2, <2>3 DEF T
<1>4. 0 \in I
  BY <1>3
<1>5. ASSUME NEW k \in I PROVE k + 1 \in I
  <2>0. k \in Nat /\ k + 1 \in Nat /\ (k + 1) - 1 = k
    OBVIOUS
  <2> SUFFICES ASSUME k + 1 <= m PROVE k + 1 <= n /\ \A i \in 1..(k + 1) : q[i] = r[i]
    BY <2>0
  <2>1. k <= n /\ \A i \in 1..k : q[i] = r[i]
    BY <1>3, <1>5
  <2>2. k \in 0..m /\ k \in 0..n /\ k + 1 \in 1..m /\ k + 1 \in 0..m
    BY <1>3, <2>0, <2>1
  <2> HIDE DEF I
  <2>3. g[k] = h[k]
    <3>1. Len(q) \in Nat /\ Len(r) \in Nat
      OBVIOUS
    <3>2. Alike(g, h, q, r)
      BY <1>1, <1>2, <3>1, CommonPieces
    <3> QED
      BY <2>0, <2>1, <2>2, <3>2 DEF Alike
  <2>4. /\ g[k] \in Seq(S) /\ g[k + 1] \in Seq(S) /\ q[k + 1] \in Seq(S)
        /\ g[m] \in Seq(S) /\ h[n] \in Seq(S)
    BY <1>3, <1>7, <2>2
  <2> HIDE DEF m, n
  <2>5. g[k + 1] = g[k] \o q[k + 1]
    BY <1>1, <2>0, <2>2 DEF Joined, m
  <2>6. IsPrefix(g[k + 1], g[m]) /\ IsPrefix(g[m], h[n])
    BY <1>1, <1>2, <2>2, JoinedGrows DEF m, n
  <2>7. IsPrefix(g[k + 1], h[n])
    BY <2>4, <2>6, PrefixesCompose
  <2>8. k # n
    <3> SUFFICES ASSUME k = n PROVE FALSE
      OBVIOUS
    <3>1. IsPrefix(g[k] \o q[k + 1], g[k])
      BY <2>3, <2>5, <2>7
    <3>2. q[k + 1] = <<>>
      BY <2>4, <3>1, PrefixesCancel
    <3> QED
      BY <2>2, <3>2 DEF m
  <2>9. k + 1 <= n /\ k + 1 \in 1..n /\ k + 1 \in 0..n
    BY <1>3, <2>0, <2>1, <2>8
  <2>10. h[k + 1] = g[k] \o r[k + 1] /\ IsPrefix(h[k + 1], h[n])
    BY <1>2, <2>0, <2>3, <2>9, JoinedGrows DEF Joined, n
  <2>11. h[k + 1] \in Seq(S) /\ r[k + 1] \in Seq(S)
    BY <1>7, <2>9
  <2>12. IsPrefix(g[k + 1], h[k + 1]) \/ IsPrefix(h[k + 1], g[k + 1])
    <3> DEFINE a == g[k + 1]
               b == h[k + 1]
               c == h[n]
    <3>1. IsPrefix(a, c) /\ IsPrefix(b, c) /\ a \in Seq(S) /\ b \in Seq(S) /\ c \in Seq(S)
      BY <2>4, <2>7, <2>10, <2>11
    <3> HIDE DEF a, b, c
    <3>2. IsPrefix(a, b) \/ IsPrefix(b, a)
      BY <3>1, PrefixesCompose
    <3> QED
      BY <3>2 DEF a, b
  <2>13. IsPrefix(q[k + 1], r[k + 1]) \/ IsPrefix(r[k + 1], q[k + 1])
    BY <2>4, <2>5, <2>10, <2>11, <2>12, PrefixesCancel, SMTT(30)
  <2>14. q[k + 1] = r[k + 1]
    BY <2>2, <2>9, <2>13 DEF m, n
  <2>15. \A i \in 1..(k + 1) : i \in 1..k \/ i = k + 1
    BY <2>0
  <2> QED
    BY <2>1, <2>9, <2>14, <2>15
<1>6. I = Nat
  <2> HIDE DEF I
  <2>1. I \in SUBSET Nat
    BY DEF I
  <2> QED
    BY <1>4, <1>5, <2>1, Induction
<1>8. m \in I
  BY <1>3, <1>6
<1>9. m <= m => m <= n /\ \A i \in 1..m : q[i] = r[i]
  <2> HIDE DEF m, n
  <2> QED
    BY <1>8
<1> QED
  BY <1>3, <1>9

\* ... and the whole tells all of them apart.
LEMMA FlattenInjective ==
  ASSUME NEW S, NEW q \in Seq(Seq(S)), NEW r \in Seq(Seq(S)),
         \A k \in 1..Len(q) : q[k] # <<>>, \A k \in 1..Len(r) : r[k] # <<>>,
         \A k \in 1..Len(q) : /\ k \in 1..Len(r)
                              /\ IsPrefix(q[k], r[k]) \/ IsPrefix(r[k], q[k])
                              => q[k] = r[k],
         Scopes!FlattenSeq(q) = Scopes!FlattenSeq(r)
  PROVE  q = r
<1>1. IsPrefix(Scopes!FlattenSeq(q), Scopes!FlattenSeq(r)) /\ IsPrefix(Scopes!FlattenSeq(r), Scopes!FlattenSeq(q))
  BY FlattenedIn, PrefixesCompose
<1>2. Len(q) <= Len(r) /\ \A k \in 1..Len(q) : q[k] = r[k]
  BY <1>1, FlattenParts
<1>3. \A k \in 1..Len(r) : /\ k \in 1..Len(q)
                           /\ IsPrefix(r[k], q[k]) \/ IsPrefix(q[k], r[k])
                           => r[k] = q[k]
  BY <1>2
<1>4. Len(r) <= Len(q)
  BY <1>1, <1>3, FlattenParts
<1>5. Len(q) = Len(r)
  BY <1>2, <1>4
<1> QED
  BY <1>2, <1>5, SameSequence

-----------------------------------------------------------------------------
(* Table names.                                                            *)

\* Folding the case keeps the length.
LEMMA FoldedIs ==
  ASSUME Scopes!WordsAssumption, NEW s \in Seq(Scopes!Characters)
  PROVE  /\ Scopes!Folded(s) \in Seq(Scopes!Characters) /\ Len(Scopes!Folded(s)) = Len(s)
         /\ \A i \in 1..Len(s) : Scopes!Folded(s)[i] = Lower[s[i]]
<1>1. Lower \in [Scopes!Characters -> Scopes!Characters]
  BY DEF Scopes!WordsAssumption
<1>2. DOMAIN s = 1..Len(s) /\ Len(s) \in Nat /\ \A i \in 1..Len(s) : s[i] \in Scopes!Characters
  OBVIOUS
<1>3. Scopes!Folded(s) \in [1..Len(s) -> Scopes!Characters]
  BY <1>1, <1>2 DEF Scopes!Folded
<1>4. Scopes!Folded(s) \in Seq(Scopes!Characters) /\ Len(Scopes!Folded(s)) = Len(s)
  BY <1>2, <1>3
<1> QED
  BY <1>2, <1>4 DEF Scopes!Folded

\* Two strings can be folded one after the other.
LEMMA FoldedConcat ==
  ASSUME Scopes!WordsAssumption, NEW s \in Seq(Scopes!Characters), NEW t \in Seq(Scopes!Characters)
  PROVE  Scopes!Folded(s \o t) = Scopes!Folded(s) \o Scopes!Folded(t)
<1> DEFINE st == s \o t
           u == Scopes!Folded(st)
           a == Scopes!Folded(s)
           b == Scopes!Folded(t)
           v == a \o b
<1>1. /\ st \in Seq(Scopes!Characters) /\ Len(st) = Len(s) + Len(t) /\ Len(s) \in Nat /\ Len(t) \in Nat
      /\ \A i \in 1..Len(s) + Len(t) : st[i] = IF i <= Len(s) THEN s[i] ELSE t[i - Len(s)]
  BY ConcatProperties
<1> HIDE DEF st
<1>2. /\ u \in Seq(Scopes!Characters) /\ Len(u) = Len(st) /\ \A i \in 1..Len(st) : u[i] = Lower[st[i]]
      /\ a \in Seq(Scopes!Characters) /\ Len(a) = Len(s) /\ \A i \in 1..Len(s) : a[i] = Lower[s[i]]
      /\ b \in Seq(Scopes!Characters) /\ Len(b) = Len(t) /\ \A i \in 1..Len(t) : b[i] = Lower[t[i]]
  BY <1>1, FoldedIs
<1> HIDE DEF u, a, b
<1>3. /\ v \in Seq(Scopes!Characters) /\ Len(v) = Len(a) + Len(b)
      /\ \A i \in 1..Len(a) + Len(b) : v[i] = IF i <= Len(a) THEN a[i] ELSE b[i - Len(a)]
  <2>1. a \in Seq(Scopes!Characters) /\ b \in Seq(Scopes!Characters)
    BY <1>2
  <2> QED
    BY <2>1, ConcatProperties
<1> HIDE DEF v
<1>4. Len(u) = Len(v)
  BY <1>1, <1>2, <1>3
<1>5. ASSUME NEW i \in 1..Len(u) PROVE u[i] = v[i]
  <2>1. i \in 1..Len(s) + Len(t)
    BY <1>1, <1>2
  <2>2. CASE i <= Len(s)
    <3>1. i \in 1..Len(s) /\ i \in 1..Len(st) /\ i \in 1..Len(a) + Len(b) /\ i <= Len(a)
      BY <1>1, <1>2, <2>1, <2>2
    <3>2. u[i] = Lower[st[i]] /\ st[i] = s[i] /\ a[i] = Lower[s[i]]
      BY <1>1, <1>2, <2>1, <2>2, <3>1
    <3> QED
      BY <1>3, <3>1, <3>2
  <2>3. CASE ~(i <= Len(s))
    <3>1. i - Len(s) \in 1..Len(t)
      BY <1>1, <2>1, <2>3
    <3>2. i \in 1..Len(st) /\ i \in 1..Len(a) + Len(b) /\ ~(i <= Len(a))
      BY <1>1, <1>2, <2>1, <2>3
    <3>3. u[i] = Lower[st[i]] /\ st[i] = t[i - Len(s)]
      BY <1>1, <1>2, <2>1, <2>3, <3>2
    <3>4. v[i] = b[i - Len(a)]
      BY <1>3, <3>2
    <3>5. b[i - Len(s)] = Lower[t[i - Len(s)]] /\ Len(a) = Len(s)
      BY <1>2, <3>1
    <3> QED
      BY <3>3, <3>4, <3>5
  <2> QED
    BY <2>2, <2>3
<1>6. u = v
  BY <1>2, <1>3, <1>4, <1>5, SameSequence
<1> QED
  BY <1>6 DEF u, v, a, b, st

\* ... and so can all pieces.
LEMMA FoldedFlatten ==
  ASSUME Scopes!WordsAssumption, NEW q \in Seq(Seq(Scopes!Characters)), NEW r \in Seq(Seq(Scopes!Characters)),
         Len(q) = Len(r), \A i \in 1..Len(q) : r[i] = Scopes!Folded(q[i])
  PROVE  Scopes!Folded(Scopes!FlattenSeq(q)) = Scopes!FlattenSeq(r)
<1> DEFINE T == Seq(Scopes!Characters)
<1>1. PICK g \in [0..Len(q) -> T] : Joined(g, q) /\ Scopes!FlattenSeq(q) = g[Len(q)]
  BY Flattened
<1>2. PICK h \in [0..Len(r) -> T] : Joined(h, r) /\ Scopes!FlattenSeq(r) = h[Len(r)]
  BY Flattened
<1> DEFINE n == Len(q)
           I == {k \in Nat : k <= n => Scopes!Folded(g[k]) = h[k]}
<1>3. n \in Nat /\ \A k \in 1..n : q[k] \in T
  OBVIOUS
<1>4. \A k \in 0..n : g[k] \in T
  <2> HIDE DEF T, n
  <2> QED
    BY DEF n
<1>5. 0 \in I
  <2>1. Scopes!Folded(<<>>) = <<>>
    <3>1. <<>> \in Seq(Scopes!Characters)
      OBVIOUS
    <3>2. Scopes!Folded(<<>>) \in Seq(Scopes!Characters) /\ Len(Scopes!Folded(<<>>)) = 0
      BY <3>1, FoldedIs
    <3> QED
      BY <3>2
  <2> QED
    BY <1>1, <1>2, <2>1 DEF Joined
<1>6. ASSUME NEW k \in I PROVE k + 1 \in I
  <2>0. k \in Nat /\ k + 1 \in Nat /\ (k + 1) - 1 = k
    OBVIOUS
  <2> SUFFICES ASSUME k + 1 <= n PROVE Scopes!Folded(g[k + 1]) = h[k + 1]
    BY <2>0
  <2>1. k + 1 \in 1..n /\ k \in 0..n /\ Scopes!Folded(g[k]) = h[k]
    BY <1>3, <1>6, <2>0
  <2>2. g[k] \in T /\ q[k + 1] \in T
    BY <1>3, <1>4, <2>1
  <2>3. g[k + 1] = g[k] \o q[k + 1]
    BY <1>1, <2>0, <2>1 DEF Joined
  <2>4. h[k + 1] = h[k] \o r[k + 1] /\ r[k + 1] = Scopes!Folded(q[k + 1])
    BY <1>2, <2>0, <2>1 DEF Joined
  <2>5. Scopes!Folded(g[k] \o q[k + 1]) = Scopes!Folded(g[k]) \o Scopes!Folded(q[k + 1])
    BY <2>2, FoldedConcat
  <2> QED
    BY <2>1, <2>3, <2>4, <2>5
<1>7. I = Nat
  <2> HIDE DEF I
  <2>1. I \in SUBSET Nat
    BY DEF I
  <2> QED
    BY <1>5, <1>6, <2>1, Induction
<1>8. n \in I
  BY <1>3, <1>7
<1> QED
  BY <1>1, <1>2, <1>8

\* The mark is none of the other characters that mean something.
LEMMA MarkIs == Scopes!Mark \notin {"-", "/", "h", "s", "u", "%", "\\"}
  BY Zenon DEF Scopes!Mark

\* A character that mangling leaves as it is.
Unescaped(c) == c \in Scopes!Characters \ Scopes!Escaped

\* What mangling makes of each kind of character.
LEMMA MangleCases ==
  ASSUME Scopes!WordsAssumption, NEW c \in Scopes!Characters
  PROVE  /\ c = Scopes!Mark => Scopes!Mangle(c) = <<Scopes!Mark, Scopes!Mark>>
         /\ c = "-" => Scopes!Mangle(c) = <<Scopes!Mark, "h">>
         /\ c = "/" => Scopes!Mangle(c) = <<Scopes!Mark, "s">>
         /\ c \in DOMAIN Hex => /\ Scopes!Mangle(c) = <<Scopes!Mark, "u">> \o Hex[c] \o <<Scopes!Mark>>
                                /\ Hex[c] \in Seq(Letters \ {Scopes!Mark}) /\ c \notin {Scopes!Mark, "-", "/"}
         /\ Unescaped(c) => Scopes!Mangle(c) = <<c>> /\ c \in Letters /\ c # Scopes!Mark
         /\ c \in {Scopes!Mark, "-", "/"} \/ c \in DOMAIN Hex \/ Unescaped(c)
<1>1. c \in DOMAIN Hex => Hex[c] \in Seq(Letters \ {Scopes!Mark}) /\ c \notin {Scopes!Mark, "-", "/"}
  <2> SUFFICES ASSUME c \in DOMAIN Hex PROVE Hex[c] \in Seq(Letters \ {Scopes!Mark}) /\ c \notin {Scopes!Mark, "-", "/"}
    OBVIOUS
  <2>1. Hex[c] \in Seq({l \in Letters \ {Scopes!Mark} : Lower[l] = l}) /\ c \notin {Scopes!Mark, "-", "/"}
    BY DEF Scopes!WordsAssumption
  <2>2. {l \in Letters \ {Scopes!Mark} : Lower[l] = l} \subseteq Letters \ {Scopes!Mark}
    OBVIOUS
  <2>3. Seq({l \in Letters \ {Scopes!Mark} : Lower[l] = l}) \subseteq Seq(Letters \ {Scopes!Mark})
    BY <2>2, SeqMonotonic
  <2> QED
    BY <2>1, <2>3
<1>2. Unescaped(c) => c \in Letters /\ c # Scopes!Mark /\ c # "-" /\ c # "/" /\ c \notin DOMAIN Hex
  BY DEF Unescaped, Scopes!Characters, Scopes!Escaped
<1>3. c \in {Scopes!Mark, "-", "/"} \/ c \in DOMAIN Hex \/ Unescaped(c)
  BY DEF Unescaped, Scopes!Escaped
<1> QED
  BY <1>1, <1>2, <1>3, MarkIs DEF Scopes!Mangle

\* The escape of a character written by its code point.
LEMMA HexIs ==
  ASSUME Scopes!WordsAssumption, NEW c \in DOMAIN Hex
  PROVE  /\ c \in Scopes!Characters /\ Hex[c] \in Seq(Letters) /\ Len(Hex[c]) \in Nat
         /\ Scopes!Mangle(c) \in Seq(Letters) /\ Len(Scopes!Mangle(c)) = Len(Hex[c]) + 3
         /\ Scopes!Mangle(c)[1] = Scopes!Mark /\ Scopes!Mangle(c)[2] = "u"
         /\ \A i \in 1..Len(Hex[c]) : Scopes!Mangle(c)[i + 2] = Hex[c][i] /\ Hex[c][i] # Scopes!Mark
         /\ Scopes!Mangle(c)[Len(Hex[c]) + 3] = Scopes!Mark
<1> DEFINE a == <<Scopes!Mark, "u">>
           h == Hex[c]
           b == <<Scopes!Mark>>
           ah == a \o h
           m == ah \o b
<1>0. c \in Scopes!Characters
  BY DEF Scopes!Characters, Scopes!Escaped
<1>1. h \in Seq(Letters \ {Scopes!Mark}) /\ Scopes!Mangle(c) = m
  BY <1>0, MangleCases
<1>2. h \in Seq(Letters) /\ Len(h) \in Nat /\ \A i \in 1..Len(h) : h[i] # Scopes!Mark
  <2> HIDE DEF h
  <2>1. Seq(Letters \ {Scopes!Mark}) \subseteq Seq(Letters)
    BY SeqMonotonic
  <2>2. h \in Seq(Letters) /\ Len(h) \in Nat
    BY <1>1, <2>1
  <2>3. \A i \in 1..Len(h) : h[i] \in Letters \ {Scopes!Mark}
    BY <1>1
  <2> QED
    BY <2>2, <2>3
<1>3. /\ a \in Seq(Letters) /\ Len(a) = 2 /\ a[1] = Scopes!Mark /\ a[2] = "u"
      /\ b \in Seq(Letters) /\ Len(b) = 1 /\ b[1] = Scopes!Mark
  BY DEF Scopes!WordsAssumption
<1> HIDE DEF a, b, h
<1>4. /\ ah \in Seq(Letters) /\ Len(ah) = 2 + Len(h)
      /\ \A i \in 1..2 + Len(h) : ah[i] = IF i <= 2 THEN a[i] ELSE h[i - 2]
  <2>1. /\ ah \in Seq(Letters) /\ Len(ah) = Len(a) + Len(h)
        /\ \A i \in 1..Len(a) + Len(h) : ah[i] = IF i <= Len(a) THEN a[i] ELSE h[i - Len(a)]
    BY <1>2, <1>3, ConcatProperties
  <2> HIDE DEF ah
  <2> QED
    BY <1>3, <2>1
<1> HIDE DEF ah
<1>5. /\ m \in Seq(Letters) /\ Len(m) = Len(ah) + 1
      /\ \A i \in 1..Len(ah) + 1 : m[i] = IF i <= Len(ah) THEN ah[i] ELSE b[i - Len(ah)]
  <2>1. /\ m \in Seq(Letters) /\ Len(m) = Len(ah) + Len(b)
        /\ \A i \in 1..Len(ah) + Len(b) : m[i] = IF i <= Len(ah) THEN ah[i] ELSE b[i - Len(ah)]
    BY <1>3, <1>4, ConcatProperties
  <2> HIDE DEF m
  <2> QED
    BY <1>3, <2>1
<1> HIDE DEF m
<1>6. m[1] = Scopes!Mark /\ m[2] = "u" /\ m[Len(h) + 3] = Scopes!Mark /\ Len(m) = Len(h) + 3
  BY <1>2, <1>3, <1>4, <1>5, SMTT(30)
<1>7. ASSUME NEW i \in 1..Len(h) PROVE m[i + 2] = h[i] /\ h[i] # Scopes!Mark
  <2>1. i + 2 \in 1..2 + Len(h) /\ i + 2 \in 1..Len(ah) + 1 /\ i + 2 <= Len(ah) /\ ~(i + 2 <= 2) /\ (i + 2) - 2 = i
    BY <1>2, <1>4
  <2> QED
    BY <1>2, <1>4, <1>5, <2>1
<1> QED
  BY <1>0, <1>1, <1>2, <1>5, <1>6, <1>7 DEF h

\* A mangled character is letters.
LEMMA MangleIn ==
  ASSUME Scopes!WordsAssumption, NEW c \in Scopes!Characters
  PROVE  Scopes!Mangle(c) \in Seq(Letters) /\ Scopes!Mangle(c) # <<>>
<1>1. CASE c \in DOMAIN Hex
  BY <1>1, HexIs
<1>2. CASE c \in {Scopes!Mark, "-", "/"}
  <2>1. Scopes!Mark \in Letters /\ "h" \in Letters /\ "s" \in Letters
    BY DEF Scopes!WordsAssumption
  <2>2. \A x \in Letters : <<Scopes!Mark, x>> \in Seq(Letters) /\ <<Scopes!Mark, x>> # <<>>
    BY <2>1
  <2>3. Scopes!Mangle(c) = <<Scopes!Mark, Scopes!Mark>> \/ Scopes!Mangle(c) = <<Scopes!Mark, "h">> \/ Scopes!Mangle(c) = <<Scopes!Mark, "s">>
    BY <1>2, MangleCases
  <2> HIDE DEF Scopes!Mangle
  <2> QED
    BY <2>1, <2>2, <2>3
<1>3. CASE Unescaped(c)
  BY <1>3, MangleCases
<1> QED
  BY <1>1, <1>2, <1>3, MangleCases

\* No mangled character begins like another one.
LEMMA MangleIsACode ==
  ASSUME Scopes!WordsAssumption, NEW c \in Scopes!Characters, NEW e \in Scopes!Characters, IsPrefix(Scopes!Mangle(c), Scopes!Mangle(e))
  PROVE  c = e
<1> DEFINE m == Scopes!Mangle(c)
           n == Scopes!Mangle(e)
<1>1. m \in Seq(Letters) /\ n \in Seq(Letters)
  BY MangleIn
<1>2. Len(m) <= Len(n) /\ \A i \in 1..Len(m) : m[i] = n[i]
  BY <1>1, PrefixIs
<1>3. ASSUME NEW x \in Scopes!Characters
      PROVE  /\ x = Scopes!Mark => Len(Scopes!Mangle(x)) = 2 /\ Scopes!Mangle(x)[1] = Scopes!Mark /\ Scopes!Mangle(x)[2] = Scopes!Mark
             /\ x = "-" => Len(Scopes!Mangle(x)) = 2 /\ Scopes!Mangle(x)[1] = Scopes!Mark /\ Scopes!Mangle(x)[2] = "h"
             /\ x = "/" => Len(Scopes!Mangle(x)) = 2 /\ Scopes!Mangle(x)[1] = Scopes!Mark /\ Scopes!Mangle(x)[2] = "s"
             /\ x \in DOMAIN Hex => /\ Len(Scopes!Mangle(x)) = Len(Hex[x]) + 3 /\ Len(Hex[x]) \in Nat
                                    /\ Scopes!Mangle(x)[1] = Scopes!Mark /\ Scopes!Mangle(x)[2] = "u"
             /\ Unescaped(x) => Len(Scopes!Mangle(x)) = 1 /\ Scopes!Mangle(x)[1] = x /\ x # Scopes!Mark
             /\ x \in {Scopes!Mark, "-", "/"} \/ x \in DOMAIN Hex \/ Unescaped(x)
  BY MangleCases, HexIs
<1> HIDE DEF m, n
<1>4. CASE c \in DOMAIN Hex /\ e \in DOMAIN Hex
  <2> DEFINE k == Len(Hex[c])
             l == Len(Hex[e])
  <2>1. k \in Nat /\ l \in Nat /\ Len(m) = k + 3 /\ Len(n) = l + 3 /\ k <= l
    BY <1>2, <1>4, HexIs DEF m, n
  <2>2. /\ \A i \in 1..k : m[i + 2] = Hex[c][i]
        /\ \A i \in 1..l : n[i + 2] = Hex[e][i] /\ Hex[e][i] # Scopes!Mark
        /\ m[k + 3] = Scopes!Mark
        /\ Hex[c] \in Seq(Letters) /\ Hex[e] \in Seq(Letters)
    BY <1>4, HexIs DEF m, n
  <2> HIDE DEF k, l
  <2>3. k = l
    <3> SUFFICES ASSUME k < l PROVE FALSE
      BY <2>1
    <3>1. k + 1 \in 1..l /\ (k + 1) + 2 = k + 3 /\ k + 3 \in 1..Len(m)
      BY <2>1
    <3>2. n[k + 3] # Scopes!Mark
      BY <2>2, <3>1
    <3> QED
      BY <1>2, <2>2, <3>1, <3>2
  <2>4. \A i \in 1..k : Hex[c][i] = Hex[e][i]
    <3> SUFFICES ASSUME NEW i \in 1..k PROVE Hex[c][i] = Hex[e][i]
      OBVIOUS
    <3>1. i + 2 \in 1..Len(m) /\ i \in 1..l
      BY <2>1, <2>3
    <3> QED
      BY <1>2, <2>2, <3>1
  <2>5. Hex[c] = Hex[e]
    BY <2>2, <2>3, <2>4, SameSequence DEF k, l
  <2> QED
    BY <1>4, <2>5 DEF Scopes!WordsAssumption
<1>5. CASE ~(c \in DOMAIN Hex /\ e \in DOMAIN Hex)
  <2>1. m[1] = n[1] /\ (Len(m) >= 2 => m[2] = n[2])
    <3>1. Len(m) \in Nat /\ Len(m) # 0
      BY <1>1, MangleIn DEF m
    <3> QED
      BY <1>2, <3>1
  <2>2. CASE Unescaped(c)
    BY <1>3, <2>1, <2>2, MarkIs DEF m, n
  <2>3. CASE ~Unescaped(c)
    <3>1. m[1] = Scopes!Mark /\ Len(m) >= 2 /\ Len(m) \in Nat
      BY <1>3, <2>3 DEF m
    <3>2. ~Unescaped(e)
      BY <1>3, <2>1, <3>1 DEF n
    <3>3. m[2] = n[2]
      BY <2>1, <3>1
    <3> QED
      BY <1>3, <1>5, <2>3, <3>2, <3>3, MarkIs DEF m, n
  <2> QED
    BY <2>2, <2>3
<1> QED
  BY <1>4, <1>5

\* Mangling does not care whether the case is folded before or after it.
LEMMA MangleFolds ==
  ASSUME Scopes!WordsAssumption, NEW c \in Scopes!Characters
  PROVE  Lower[c] \in Scopes!Characters /\ Scopes!Folded(Scopes!Mangle(c)) = Scopes!Mangle(Lower[c])
<1> DEFINE m == Scopes!Mangle(c)
<1>0. Lower[c] \in Scopes!Characters /\ Letters \subseteq Scopes!Characters
  BY DEF Scopes!WordsAssumption, Scopes!Characters
<1>1. m \in Seq(Letters) /\ m \in Seq(Scopes!Characters)
  <2>1. m \in Seq(Letters) /\ Seq(Letters) \subseteq Seq(Scopes!Characters)
    BY <1>0, MangleIn, SeqMonotonic
  <2> QED
    BY <2>1
<1> HIDE DEF m
<1>2. Scopes!Folded(m) \in Seq(Scopes!Characters) /\ Len(Scopes!Folded(m)) = Len(m) /\ \A i \in 1..Len(m) : Scopes!Folded(m)[i] = Lower[m[i]]
  BY <1>1, FoldedIs
<1>3. CASE c \in Scopes!Escaped
  <2>1. Lower[c] = c /\ Lower[Scopes!Mark] = Scopes!Mark /\ Lower["h"] = "h" /\ Lower["s"] = "s" /\ Lower["u"] = "u"
    BY <1>3 DEF Scopes!WordsAssumption, Scopes!Escaped
  <2>2. \A i \in 1..Len(m) : Lower[m[i]] = m[i]
    <3>1. CASE c \in DOMAIN Hex
      <4>1. /\ Len(Hex[c]) \in Nat /\ Len(m) = Len(Hex[c]) + 3 /\ m[1] = Scopes!Mark /\ m[2] = "u"
            /\ (\A i \in 1..Len(Hex[c]) : m[i + 2] = Hex[c][i]) /\ m[Len(Hex[c]) + 3] = Scopes!Mark
        BY <3>1, HexIs DEF m
      <4>2. \A i \in 1..Len(Hex[c]) : Lower[Hex[c][i]] = Hex[c][i]
        <5>1. Hex[c] \in Seq({l \in Letters \ {Scopes!Mark} : Lower[l] = l})
          BY <3>1 DEF Scopes!WordsAssumption
        <5>2. \A i \in 1..Len(Hex[c]) : Hex[c][i] \in {l \in Letters \ {Scopes!Mark} : Lower[l] = l}
          BY <5>1, ElementOfSeq
        <5> QED
          BY <5>2
      <4>3. ASSUME NEW i \in 1..Len(m) PROVE Lower[m[i]] = m[i]
        <5>1. CASE i \in {1, 2, Len(Hex[c]) + 3}
          BY <2>1, <4>1, <5>1
        <5>2. CASE i \notin {1, 2, Len(Hex[c]) + 3}
          <6>1. i - 2 \in 1..Len(Hex[c]) /\ (i - 2) + 2 = i
            BY <4>1, <5>2
          <6> QED
            BY <4>1, <4>2, <6>1
        <5> QED
          BY <5>1, <5>2
      <4> QED
        BY <4>3
    <3>2. CASE c \in {Scopes!Mark, "-", "/"}
      <4>1. m = <<Scopes!Mark, Scopes!Mark>> \/ m = <<Scopes!Mark, "h">> \/ m = <<Scopes!Mark, "s">>
        BY <3>2, MangleCases DEF m
      <4> QED
        BY <2>1, <4>1
    <3> QED
      BY <1>3, <3>1, <3>2 DEF Scopes!Escaped
  <2>3. Scopes!Folded(m) = m
    BY <1>1, <1>2, <2>2, SameSequence
  <2> QED
    BY <1>0, <2>1, <2>3 DEF m
<1>4. CASE c \notin Scopes!Escaped
  <2>1. Unescaped(c) /\ m = <<c>> /\ c \in Letters /\ c # Scopes!Mark
    BY <1>4, MangleCases DEF m, Unescaped
  <2>2. Lower[c] \in Letters \ {Scopes!Mark}
    BY <2>1 DEF Scopes!WordsAssumption
  <2>3. Unescaped(Lower[c])
    BY <1>0, <2>2 DEF Scopes!WordsAssumption, Unescaped
  <2>4. Scopes!Mangle(Lower[c]) = <<Lower[c]>>
    BY <1>0, <2>3, MangleCases
  <2>5. Scopes!Folded(m) = <<Lower[c]>>
    <3>1. Len(m) = 1 /\ m[1] = c
      BY <2>1
    <3>2. Len(Scopes!Folded(m)) = 1 /\ Scopes!Folded(m)[1] = Lower[c]
      BY <1>2, <3>1
    <3>3. <<Lower[c]>> \in Seq(Scopes!Characters) /\ Len(<<Lower[c]>>) = 1 /\ <<Lower[c]>>[1] = Lower[c]
      BY <1>0
    <3> HIDE DEF m
    <3> QED
      BY <1>2, <3>2, <3>3, SameSequence
  <2> QED
    BY <1>0, <2>4, <2>5 DEF m
<1> QED
  BY <1>3, <1>4

\* A table name is letters, and folds to the table of the folded scope.
LEMMA TableIs ==
  ASSUME Scopes!WordsAssumption, NEW s \in Seq(Scopes!Characters)
  PROVE  Scopes!TableForScope(s) \in Seq(Letters) /\ Scopes!Folded(Scopes!TableForScope(s)) = Scopes!TableForScope(Scopes!Folded(s))
<1> DEFINE q == [i \in DOMAIN s |-> Scopes!Mangle(s[i])]
           t == Scopes!Folded(s)
           r == [i \in DOMAIN t |-> Scopes!Mangle(t[i])]
<1>1. Len(s) \in Nat /\ DOMAIN s = 1..Len(s) /\ \A i \in 1..Len(s) : s[i] \in Scopes!Characters
  OBVIOUS
<1>2. t \in Seq(Scopes!Characters) /\ Len(t) = Len(s) /\ DOMAIN t = 1..Len(s) /\ \A i \in 1..Len(s) : t[i] = Lower[s[i]]
  BY <1>1, FoldedIs
<1>3. Letters \subseteq Scopes!Characters /\ Seq(Letters) \subseteq Seq(Scopes!Characters)
  <2>1. Letters \subseteq Scopes!Characters
    BY DEF Scopes!Characters
  <2> QED
    BY <2>1, SeqMonotonic
<1> HIDE DEF t
<1>4. \A i \in 1..Len(s) : /\ Scopes!Mangle(s[i]) \in Seq(Letters)
                           /\ Scopes!Mangle(t[i]) \in Seq(Letters)
                           /\ Scopes!Folded(Scopes!Mangle(s[i])) = Scopes!Mangle(t[i])
  BY <1>1, <1>2, MangleIn, MangleFolds
<1>5. /\ q \in Seq(Seq(Letters)) /\ r \in Seq(Seq(Letters)) /\ Len(q) = Len(s) /\ Len(r) = Len(s)
      /\ \A i \in 1..Len(s) : q[i] = Scopes!Mangle(s[i]) /\ r[i] = Scopes!Mangle(t[i])
  <2> DEFINE T == Seq(Letters)
  <2>1. q \in [1..Len(s) -> T] /\ r \in [1..Len(s) -> T]
    BY <1>1, <1>2, <1>4
  <2>2. \A i \in 1..Len(s) : q[i] = Scopes!Mangle(s[i]) /\ r[i] = Scopes!Mangle(t[i])
    BY <1>1, <1>2
  <2> HIDE DEF T, q, r
  <2>3. q \in Seq(T) /\ r \in Seq(T) /\ Len(q) = Len(s) /\ Len(r) = Len(s)
    BY <1>1, <2>1
  <2> QED
    BY <2>2, <2>3 DEF T
<1> HIDE DEF q, r
<1>6. q \in Seq(Seq(Scopes!Characters)) /\ r \in Seq(Seq(Scopes!Characters))
  BY <1>3, <1>5, SeqMonotonic
<1>7. Scopes!Folded(Scopes!FlattenSeq(q)) = Scopes!FlattenSeq(r)
  BY <1>4, <1>5, <1>6, FoldedFlatten
<1>8. Scopes!TableForScope(s) = Scopes!FlattenSeq(q) /\ Scopes!TableForScope(t) = Scopes!FlattenSeq(r)
  BY DEF Scopes!TableForScope, q, r
<1>9. Scopes!FlattenSeq(q) \in Seq(Letters)
  BY <1>5, FlattenedIn
<1> QED
  BY <1>7, <1>8, <1>9 DEF t

\* Mangling is injective.
LEMMA TableIsInjective ==
  ASSUME Scopes!WordsAssumption, NEW s \in Seq(Scopes!Characters), NEW t \in Seq(Scopes!Characters),
         Scopes!TableForScope(s) = Scopes!TableForScope(t)
  PROVE  s = t
<1> DEFINE q == [i \in DOMAIN s |-> Scopes!Mangle(s[i])]
           r == [i \in DOMAIN t |-> Scopes!Mangle(t[i])]
           T == Seq(Letters)
<1>1. Len(s) \in Nat /\ DOMAIN s = 1..Len(s) /\ \A i \in 1..Len(s) : s[i] \in Scopes!Characters
  OBVIOUS
<1>2. Len(t) \in Nat /\ DOMAIN t = 1..Len(t) /\ \A i \in 1..Len(t) : t[i] \in Scopes!Characters
  OBVIOUS
<1>3. q \in [1..Len(s) -> T] /\ r \in [1..Len(t) -> T]
  BY <1>1, <1>2, MangleIn
<1>4. /\ \A i \in 1..Len(s) : q[i] = Scopes!Mangle(s[i]) /\ q[i] # <<>>
      /\ \A i \in 1..Len(t) : r[i] = Scopes!Mangle(t[i]) /\ r[i] # <<>>
  BY <1>1, <1>2, MangleIn
<1>5. Scopes!FlattenSeq(q) = Scopes!FlattenSeq(r)
  BY DEF Scopes!TableForScope
<1> HIDE DEF T, q, r
<1>6. q \in Seq(T) /\ r \in Seq(T) /\ Len(q) = Len(s) /\ Len(r) = Len(t)
  BY <1>1, <1>2, <1>3
<1>7. \A k \in 1..Len(q) : /\ k \in 1..Len(r)
                           /\ IsPrefix(q[k], r[k]) \/ IsPrefix(r[k], q[k])
                           => q[k] = r[k]
  <2> SUFFICES ASSUME NEW k \in 1..Len(s), k \in 1..Len(t),
                      IsPrefix(Scopes!Mangle(s[k]), Scopes!Mangle(t[k])) \/ IsPrefix(Scopes!Mangle(t[k]), Scopes!Mangle(s[k]))
               PROVE  s[k] = t[k]
    BY <1>4, <1>6
  <2>1. s[k] \in Scopes!Characters /\ t[k] \in Scopes!Characters
    BY <1>1, <1>2
  <2> QED
    BY <2>1, MangleIsACode
<1>8. q = r
  BY <1>4, <1>5, <1>6, <1>7, FlattenInjective DEF T
<1>9. \A k \in 1..Len(s) : s[k] = t[k]
  <2> SUFFICES ASSUME NEW k \in 1..Len(s) PROVE s[k] = t[k]
    OBVIOUS
  <2>1. s[k] \in Scopes!Characters /\ t[k] \in Scopes!Characters /\ Scopes!Mangle(s[k]) = Scopes!Mangle(t[k])
    BY <1>1, <1>2, <1>4, <1>6, <1>8
  <2>2. Scopes!Mangle(s[k]) \in Seq(Letters)
    BY <2>1, MangleIn
  <2>3. IsPrefix(Scopes!Mangle(s[k]), Scopes!Mangle(t[k]))
    BY <2>1, <2>2, PrefixesCompose
  <2> QED
    BY <2>1, <2>3, MangleIsACode
<1> QED
  BY <1>6, <1>8, <1>9, SameSequence

-----------------------------------------------------------------------------
(* Scopes.                                                                 *)

\* What a call adds to a scope, a slash behind it: two words without slashes.
Slash == <<"/">>
NoSlash(s) == \A i \in 1..Len(s) : s[i] # "/"
Piece(c) == c.uid \o (Slash \o (c.name \o Slash))
Closed(calls) == Scopes!FlattenSeq([i \in DOMAIN calls |-> Piece(calls[i])])

\* Strings are told apart up to their first slashes.
LEMMA FirstSlash ==
  ASSUME NEW S, "/" \in S,
         NEW a \in Seq(S), NEW b \in Seq(S), NEW x \in Seq(S), NEW y \in Seq(S),
         NoSlash(a), NoSlash(b), IsPrefix(a \o (Slash \o x), b \o (Slash \o y))
  PROVE  a = b /\ IsPrefix(x, y)
<1> DEFINE sx == Slash \o x
           sy == Slash \o y
           A == a \o sx
           B == b \o sy
<1>1. Slash \in Seq(S) /\ Len(Slash) = 1 /\ Slash[1] = "/"
  BY DEF Slash
<1>2. /\ sx \in Seq(S) /\ Len(sx) = 1 + Len(x) /\ sx[1] = "/"
      /\ sy \in Seq(S) /\ Len(sy) = 1 + Len(y) /\ sy[1] = "/"
  <2>1. sx \in Seq(S) /\ Len(sx) = Len(Slash) + Len(x)
        /\ \A i \in 1..Len(Slash) + Len(x) : sx[i] = IF i <= Len(Slash) THEN Slash[i] ELSE x[i - Len(Slash)]
    BY <1>1, ConcatProperties
  <2>2. sy \in Seq(S) /\ Len(sy) = Len(Slash) + Len(y)
        /\ \A i \in 1..Len(Slash) + Len(y) : sy[i] = IF i <= Len(Slash) THEN Slash[i] ELSE y[i - Len(Slash)]
    BY <1>1, ConcatProperties
  <2>3. 1 \in 1..1 + Len(x) /\ 1 \in 1..1 + Len(y)
    OBVIOUS
  <2> HIDE DEF sx, sy
  <2> QED
    BY <1>1, <2>1, <2>2, <2>3
<1> HIDE DEF sx, sy
<1>a. sx \in Seq(S) /\ sy \in Seq(S)
  BY <1>2
<1>3. /\ A \in Seq(S) /\ Len(A) = Len(a) + Len(sx)
      /\ \A i \in 1..Len(a) + Len(sx) : A[i] = IF i <= Len(a) THEN a[i] ELSE sx[i - Len(a)]
  BY <1>a, ConcatProperties
<1>4. /\ B \in Seq(S) /\ Len(B) = Len(b) + Len(sy)
      /\ \A i \in 1..Len(b) + Len(sy) : B[i] = IF i <= Len(b) THEN b[i] ELSE sy[i - Len(b)]
  BY <1>a, ConcatProperties
<1>5. IsPrefix(A, B)
  BY DEF sx, sy
<1> HIDE DEF A, B
<1>6. Len(A) <= Len(B) /\ \A i \in 1..Len(A) : A[i] = B[i]
  <2>1. A \in Seq(S) /\ B \in Seq(S)
    BY <1>3, <1>4
  <2> QED
    BY <1>5, <2>1, PrefixIs
<1>7. Len(a) \in Nat /\ Len(b) \in Nat /\ Len(x) \in Nat /\ Len(y) \in Nat
  OBVIOUS
<1>8. ASSUME Len(a) < Len(b) PROVE FALSE
  <2>1. Len(a) + 1 \in 1..Len(A) /\ Len(a) + 1 \in 1..Len(b) /\ (Len(a) + 1) - Len(a) = 1
        /\ Len(a) + 1 \in 1..Len(b) + Len(sy) /\ Len(a) + 1 \in 1..Len(a) + Len(sx)
    BY <1>2, <1>3, <1>7, <1>8
  <2>2. A[Len(a) + 1] = "/"
    BY SMTT(30), <1>2, <1>3, <1>7, <2>1
  <2>3. B[Len(a) + 1] = b[Len(a) + 1]
    BY <1>4, <1>7, <2>1
  <2> QED
    BY <1>6, <2>1, <2>2, <2>3 DEF NoSlash
<1>9. ASSUME Len(b) < Len(a) PROVE FALSE
  <2>1. Len(b) + 1 \in 1..Len(A) /\ Len(b) + 1 \in 1..Len(a) /\ (Len(b) + 1) - Len(b) = 1
        /\ Len(b) + 1 \in 1..Len(b) + Len(sy) /\ Len(b) + 1 \in 1..Len(a) + Len(sx)
    BY <1>2, <1>3, <1>7, <1>9
  <2>2. B[Len(b) + 1] = "/"
    BY <1>2, <1>4, <1>7, <2>1, SMTT(30)
  <2>3. A[Len(b) + 1] = a[Len(b) + 1]
    BY <1>3, <1>7, <2>1
  <2> QED
    BY <1>6, <2>1, <2>2, <2>3 DEF NoSlash
<1>10. Len(a) = Len(b)
  BY <1>7, <1>8, <1>9
<1>11. a = b
  <2>1. ASSUME NEW i \in 1..Len(a) PROVE a[i] = b[i]
    <3>1. i \in 1..Len(A) /\ i \in 1..Len(a) + Len(sx) /\ i \in 1..Len(b) + Len(sy) /\ i <= Len(a) /\ i <= Len(b)
      BY <1>2, <1>3, <1>7, <1>10
    <3>2. A[i] = a[i] /\ B[i] = b[i]
      BY <1>3, <1>4, <3>1
    <3> QED
      BY <1>6, <3>1, <3>2
  <2> QED
    BY <1>10, <2>1, SameSequence
<1>12. IsPrefix(sx, sy)
  BY <1>2, <1>5, <1>11, PrefixesCancel DEF A, B
<1>13. IsPrefix(x, y)
  BY <1>1, <1>12, PrefixesCancel DEF sx, sy
<1> QED
  BY <1>11, <1>13

LEMMA UntilSlash ==
  ASSUME Scopes!WordsAssumption,
         NEW a \in Seq(Scopes!Characters), NEW b \in Seq(Scopes!Characters),
         NEW x \in Seq(Scopes!Characters), NEW y \in Seq(Scopes!Characters),
         NoSlash(a), NoSlash(b), IsPrefix(a \o (Slash \o x), b \o (Slash \o y))
  PROVE  a = b /\ IsPrefix(x, y)
  BY FirstSlash DEF Scopes!Characters, Scopes!Escaped

\* A word has no slash, in any case.
LEMMA WordIs ==
  ASSUME Scopes!WordsAssumption, NEW w \in Words
  PROVE  /\ w \in Seq(Scopes!Characters) /\ w # <<>> /\ NoSlash(w)
         /\ Scopes!Folded(w) \in Seq(Scopes!Characters) /\ NoSlash(Scopes!Folded(w)) /\ Len(Scopes!Folded(w)) = Len(w)
<1>1. w \in Seq(Scopes!Characters \ {"/"}) /\ w # <<>>
  BY DEF Scopes!WordsAssumption
<1>2. \A i \in 1..Len(w) : w[i] \in Scopes!Characters \ {"/"}
  BY <1>1, ElementOfSeq
<1>3. w \in Seq(Scopes!Characters)
  <2>1. Seq(Scopes!Characters \ {"/"}) \subseteq Seq(Scopes!Characters)
    BY SeqMonotonic
  <2> QED
    BY <1>1, <2>1
<1>4. Scopes!Folded(w) \in Seq(Scopes!Characters) /\ Len(Scopes!Folded(w)) = Len(w) /\ \A i \in 1..Len(w) : Scopes!Folded(w)[i] = Lower[w[i]]
  BY <1>3, FoldedIs
<1>5. ASSUME NEW c \in Scopes!Characters, c # "/" PROVE Lower[c] # "/"
  <2>1. CASE c \in Scopes!Escaped
    BY <1>5, <2>1 DEF Scopes!WordsAssumption
  <2>2. CASE c \notin Scopes!Escaped
    <3>1. c \in Letters \ {Scopes!Mark}
      BY <2>2 DEF Scopes!Characters, Scopes!Escaped
    <3>2. Lower[c] \in Letters /\ "/" \notin Letters
      BY <3>1, MarkIs DEF Scopes!WordsAssumption, Scopes!Escaped
    <3> QED
      BY <3>2
  <2> QED
    BY <2>1, <2>2
<1> QED
  BY <1>1, <1>2, <1>3, <1>4, <1>5 DEF NoSlash

\* A slash has no case.
LEMMA SlashIs ==
  ASSUME Scopes!WordsAssumption
  PROVE  Slash \in Seq(Scopes!Characters) /\ Len(Slash) = 1 /\ Scopes!Folded(Slash) = Slash
<1>1. Slash \in Seq(Scopes!Characters) /\ Len(Slash) = 1 /\ Slash[1] = "/"
  BY DEF Slash, Scopes!Characters, Scopes!Escaped
<1>2. Scopes!Folded(Slash) \in Seq(Scopes!Characters) /\ Len(Scopes!Folded(Slash)) = 1 /\ Scopes!Folded(Slash)[1] = Lower[Slash[1]]
  BY <1>1, FoldedIs
<1>3. Lower["/"] = "/"
  BY DEF Scopes!WordsAssumption, Scopes!Escaped
<1>4. \A i \in 1..Len(Slash) : Slash[i] = Scopes!Folded(Slash)[i]
  BY <1>1, <1>2, <1>3
<1> QED
  BY <1>1, <1>2, <1>4, SameSequence

\* A piece of a scope.
LEMMA PieceIs ==
  ASSUME Scopes!WordsAssumption, NEW c \in Scopes!Call
  PROVE  /\ c.uid \in Words /\ c.name \in Words
         /\ Piece(c) \in Seq(Scopes!Characters) /\ Piece(c) # <<>>
         /\ Scopes!Folded(Piece(c)) = Scopes!Folded(c.uid) \o (Slash \o (Scopes!Folded(c.name) \o Slash))
         /\ Scopes!Folded(Piece(c)) # <<>>
<1> DEFINE u == c.uid
           n == c.name
           ns == n \o Slash
           sns == Slash \o ns
<1>1. c.uid \in Words /\ c.name \in Words
  BY DEF Scopes!Call
<1>2. u \in Seq(Scopes!Characters) /\ n \in Seq(Scopes!Characters) /\ Slash \in Seq(Scopes!Characters) /\ Scopes!Folded(Slash) = Slash /\ u # <<>>
  BY <1>1, WordIs, SlashIs
<1> HIDE DEF u, n
<1>3. ns \in Seq(Scopes!Characters) /\ Scopes!Folded(ns) = Scopes!Folded(n) \o Slash
  BY <1>2, ConcatProperties, FoldedConcat
<1> HIDE DEF ns
<1>4. sns \in Seq(Scopes!Characters) /\ Scopes!Folded(sns) = Slash \o Scopes!Folded(ns)
  BY <1>2, <1>3, ConcatProperties, FoldedConcat
<1> HIDE DEF sns
<1>5. /\ u \o sns \in Seq(Scopes!Characters) /\ Len(u \o sns) = Len(u) + Len(sns)
      /\ Scopes!Folded(u \o sns) = Scopes!Folded(u) \o Scopes!Folded(sns) /\ Len(Scopes!Folded(u \o sns)) = Len(u \o sns)
  BY <1>2, <1>4, ConcatProperties, FoldedConcat, FoldedIs
<1>6. Len(u) \in Nat \ {0} /\ Len(sns) \in Nat
  BY <1>2, <1>4
<1>7. u \o sns # <<>> /\ Scopes!Folded(u \o sns) # <<>>
  BY <1>5, <1>6
<1>8. Piece(c) = u \o sns
  BY DEF Piece, u, n, ns, sns
<1> QED
  BY <1>1, <1>3, <1>4, <1>5, <1>7, <1>8 DEF u, n

\* What a call adds to a scope begins like what no other call adds.
LEMMA PieceIsACode ==
  ASSUME Scopes!WordsAssumption, NEW c \in Scopes!Call, NEW e \in Scopes!Call, IsPrefix(Scopes!Folded(Piece(c)), Scopes!Folded(Piece(e)))
  PROVE  c = e
<1>1. c.uid \in Words /\ c.name \in Words /\ e.uid \in Words /\ e.name \in Words
  BY PieceIs
<1> DEFINE cu == Scopes!Folded(c.uid)
           cn == Scopes!Folded(c.name)
           eu == Scopes!Folded(e.uid)
           en == Scopes!Folded(e.name)
<1>2. /\ cu \in Seq(Scopes!Characters) /\ cn \in Seq(Scopes!Characters) /\ eu \in Seq(Scopes!Characters) /\ en \in Seq(Scopes!Characters)
      /\ NoSlash(cu) /\ NoSlash(cn) /\ NoSlash(eu) /\ NoSlash(en)
  BY <1>1, WordIs
<1>3. IsPrefix(cu \o (Slash \o (cn \o Slash)), eu \o (Slash \o (en \o Slash)))
  BY PieceIs
<1> HIDE DEF cu, cn, eu, en
<1>4. cn \o Slash \in Seq(Scopes!Characters) /\ en \o Slash \in Seq(Scopes!Characters) /\ Slash \in Seq(Scopes!Characters)
  BY <1>2, SlashIs, ConcatProperties
<1>5. cu = eu /\ IsPrefix(cn \o Slash, en \o Slash)
  <2> DEFINE x == cn \o Slash
             y == en \o Slash
  <2>1. /\ cu \in Seq(Scopes!Characters) /\ eu \in Seq(Scopes!Characters)
        /\ x \in Seq(Scopes!Characters) /\ y \in Seq(Scopes!Characters)
        /\ NoSlash(cu) /\ NoSlash(eu) /\ IsPrefix(cu \o (Slash \o x), eu \o (Slash \o y))
    BY <1>2, <1>3, <1>4
  <2> HIDE DEF x, y
  <2>2. cu = eu /\ IsPrefix(x, y)
    BY <2>1, UntilSlash
  <2> QED
    BY <2>2 DEF x, y
<1>6. Slash = Slash \o <<>> /\ <<>> \in Seq(Scopes!Characters)
  BY <1>4, ConcatEmptySeq
<1>7. IsPrefix(cn \o (Slash \o <<>>), en \o (Slash \o <<>>))
  BY <1>5, <1>6
<1>8. cn = en
  BY <1>2, <1>6, <1>7, UntilSlash
<1>9. c.uid = e.uid /\ c.name = e.name
  BY <1>1, <1>5, <1>8 DEF Scopes!WordsAssumption, cu, cn, eu, en
<1> QED
  BY <1>9 DEF Scopes!Call

\* The pieces of a scope, as they are closed, folded, and as subgraph() appends
\* them.
Pieces(calls) == [i \in DOMAIN calls |-> Piece(calls[i])]
FoldedPieces(calls) == [i \in DOMAIN calls |-> Scopes!Folded(Piece(calls[i]))]
ScopeSteps(calls) == [i \in DOMAIN calls |->
    (IF i = 1 THEN <<>> ELSE <<"/">>) \o calls[i].uid \o <<"/">> \o calls[i].name]

\* A closed scope is its pieces.
LEMMA PiecesAre ==
  ASSUME Scopes!WordsAssumption, NEW calls \in Seq(Scopes!Call)
  PROVE  /\ Pieces(calls) \in Seq(Seq(Scopes!Characters)) /\ Len(Pieces(calls)) = Len(calls)
         /\ \A i \in 1..Len(calls) : calls[i] \in Scopes!Call /\ Pieces(calls)[i] = Piece(calls[i])
         /\ FoldedPieces(calls) \in Seq(Seq(Scopes!Characters)) /\ Len(FoldedPieces(calls)) = Len(calls)
         /\ \A i \in 1..Len(calls) : /\ FoldedPieces(calls)[i] = Scopes!Folded(Piece(calls[i]))
                                     /\ FoldedPieces(calls)[i] # <<>>
         /\ Closed(calls) = Scopes!FlattenSeq(Pieces(calls))
         /\ Closed(calls) \in Seq(Scopes!Characters)
         /\ Scopes!Folded(Closed(calls)) = Scopes!FlattenSeq(FoldedPieces(calls))
<1>0. Len(calls) \in Nat /\ DOMAIN calls = 1..Len(calls) /\ \A i \in 1..Len(calls) : calls[i] \in Scopes!Call
  OBVIOUS
<1>1. \A i \in 1..Len(calls) : Piece(calls[i]) \in Seq(Scopes!Characters) /\ Scopes!Folded(Piece(calls[i])) # <<>>
  BY <1>0, PieceIs
<1>2. \A i \in 1..Len(calls) : Scopes!Folded(Piece(calls[i])) \in Seq(Scopes!Characters)
  BY <1>1, FoldedIs
<1> DEFINE T == Seq(Scopes!Characters)
<1>3. /\ Pieces(calls) \in Seq(T) /\ Len(Pieces(calls)) = Len(calls)
      /\ \A i \in 1..Len(calls) : Pieces(calls)[i] = Piece(calls[i])
  <2>1. \A i \in 1..Len(calls) : Piece(calls[i]) \in T
    BY <1>1
  <2> HIDE DEF T
  <2> QED
    BY <1>0, <2>1 DEF Pieces
<1>4. /\ FoldedPieces(calls) \in Seq(T) /\ Len(FoldedPieces(calls)) = Len(calls)
      /\ \A i \in 1..Len(calls) : FoldedPieces(calls)[i] = Scopes!Folded(Piece(calls[i]))
  <2>1. \A i \in 1..Len(calls) : Scopes!Folded(Piece(calls[i])) \in T
    BY <1>2
  <2> HIDE DEF T
  <2> QED
    BY <1>0, <2>1 DEF FoldedPieces
<1>5. Closed(calls) = Scopes!FlattenSeq(Pieces(calls))
  BY DEF Closed, Pieces
<1>6. Closed(calls) \in Seq(Scopes!Characters)
  <2>1. Pieces(calls) \in Seq(Seq(Scopes!Characters))
    BY <1>3
  <2> QED
    BY <1>5, <2>1, FlattenedIn
<1>7. Scopes!Folded(Closed(calls)) = Scopes!FlattenSeq(FoldedPieces(calls))
  <2> DEFINE q == Pieces(calls)
             r == FoldedPieces(calls)
  <2>1. q \in Seq(Seq(Scopes!Characters)) /\ r \in Seq(Seq(Scopes!Characters)) /\ Len(q) = Len(r)
    BY <1>3, <1>4
  <2>2. \A i \in 1..Len(q) : r[i] = Scopes!Folded(q[i])
    BY <1>3, <1>4
  <2>3. Closed(calls) = Scopes!FlattenSeq(q)
    BY <1>5
  <2> HIDE DEF q, r
  <2>4. Scopes!Folded(Scopes!FlattenSeq(q)) = Scopes!FlattenSeq(r)
    BY <2>1, <2>2, FoldedFlatten
  <2> QED
    BY <2>3, <2>4 DEF r
<1> QED
  BY <1>0, <1>1, <1>3, <1>4, <1>5, <1>6, <1>7

\* A scope, with a slash behind it, is its pieces.
LEMMA ScopeIs ==
  ASSUME Scopes!WordsAssumption, NEW calls \in Seq(Scopes!Call)
  PROVE  /\ Scopes!Scope(calls) \in Seq(Scopes!Characters)
         /\ calls = <<>> => Scopes!Scope(calls) = <<>> /\ Closed(calls) = <<>>
         /\ calls # <<>> => Scopes!Scope(calls) \o Slash = Closed(calls)
<1> DEFINE n == Len(calls)
           q == ScopeSteps(calls)
           r == Pieces(calls)
<1>0. n \in Nat /\ DOMAIN calls = 1..n /\ \A i \in 1..n : calls[i] \in Scopes!Call
  OBVIOUS
<1>1. ASSUME NEW i \in 1..n
      PROVE  /\ q[i] \in Seq(Scopes!Characters) /\ r[i] \in Seq(Scopes!Characters)
             /\ (IF i = 1 THEN q[i] \o Slash = r[i] ELSE q[i] \o Slash = Slash \o r[i])
  <2> DEFINE u == calls[i].uid
             w == calls[i].name
             x == IF i = 1 THEN <<>> ELSE Slash
             xu == x \o u
             xus == xu \o Slash
             ws == w \o Slash
             sws == Slash \o ws
             usws == u \o sws
  <2>1. u \in Seq(Scopes!Characters) /\ w \in Seq(Scopes!Characters) /\ Slash \in Seq(Scopes!Characters) /\ x \in Seq(Scopes!Characters)
    BY <1>0, PieceIs, WordIs, SlashIs
  <2>2. q[i] = xus \o w /\ r[i] = usws
    BY <1>0 DEF ScopeSteps, Pieces, Piece, Slash
  <2>x. (i = 1 => x = <<>>) /\ (i # 1 => x = Slash)
    OBVIOUS
  <2> HIDE DEF u, w, x
  <2>3. xu \in Seq(Scopes!Characters)
    BY <2>1, ConcatProperties
  <2> HIDE DEF xu
  <2>4. xus \in Seq(Scopes!Characters) /\ ws \in Seq(Scopes!Characters)
    BY <2>1, <2>3, ConcatProperties
  <2>5. (xus \o w) \o Slash = xus \o ws
    <3> HIDE DEF xus
    <3> QED
      BY <2>1, <2>4, ConcatAssociative, SMTT(30)
  <2>6. xus \o ws = xu \o sws
    <3> HIDE DEF ws
    <3> QED
      BY <2>1, <2>3, <2>4, ConcatAssociative, SMTT(30)
  <2>7. sws \in Seq(Scopes!Characters)
    <3> HIDE DEF ws
    <3> QED
      BY <2>1, <2>4, ConcatProperties
  <2> HIDE DEF sws
  <2>8. xu \o sws = x \o usws
    BY <2>1, <2>7, ConcatAssociative, SMTT(30) DEF xu
  <2>9. usws \in Seq(Scopes!Characters)
    BY <2>1, <2>7, ConcatProperties
  <2>10. xus \o w \in Seq(Scopes!Characters)
    <3> HIDE DEF xus
    <3> QED
      BY <2>1, <2>4, ConcatProperties
  <2> HIDE DEF usws, xus
  <2>11. q[i] \o Slash = x \o r[i]
    BY <2>2, <2>5, <2>6, <2>8
  <2>12. <<>> \o r[i] = r[i]
    BY <2>2, <2>9, ConcatEmptySeq
  <2> QED
    BY <2>2, <2>9, <2>10, <2>11, <2>12, <2>x
<1>2. q \in Seq(Seq(Scopes!Characters)) /\ Len(q) = n
  <2> DEFINE T == Seq(Scopes!Characters)
  <2>1. \A i \in 1..n : q[i] \in T
    BY <1>1
  <2> HIDE DEF T
  <2>2. q \in Seq(T) /\ Len(q) = n
    BY <1>0, <2>1 DEF ScopeSteps
  <2> QED
    BY <2>2 DEF T
<1>3. r \in Seq(Seq(Scopes!Characters)) /\ Len(r) = n /\ Closed(calls) = Scopes!FlattenSeq(r) /\ Closed(calls) \in Seq(Scopes!Characters)
  BY PiecesAre
<1>4. Scopes!Scope(calls) = Scopes!FlattenSeq(q)
  BY DEF Scopes!Scope, ScopeSteps
<1> HIDE DEF q, r
<1>5. PICK g \in [0..Len(q) -> Seq(Scopes!Characters)] : Joined(g, q) /\ Scopes!FlattenSeq(q) = g[Len(q)]
  BY <1>2, Flattened
<1>6. PICK h \in [0..Len(r) -> Seq(Scopes!Characters)] : Joined(h, r) /\ Scopes!FlattenSeq(r) = h[Len(r)]
  BY <1>3, Flattened
<1>7. /\ g[0] = <<>> /\ \A k \in 1..n : g[k] = g[k - 1] \o q[k]
      /\ h[0] = <<>> /\ \A k \in 1..n : h[k] = h[k - 1] \o r[k]
      /\ \A k \in 0..n : g[k] \in Seq(Scopes!Characters) /\ h[k] \in Seq(Scopes!Characters)
  <2>1. \A k \in 0..n : g[k] \in Seq(Scopes!Characters) /\ h[k] \in Seq(Scopes!Characters)
    BY <1>2, <1>3, <1>5, <1>6
  <2> QED
    BY <1>2, <1>3, <1>5, <1>6, <2>1 DEF Joined
<1>8. Scopes!Scope(calls) \in Seq(Scopes!Characters)
  BY <1>2, <1>4, FlattenedIn
<1> HIDE DEF n
<1> DEFINE I == {k \in Nat : k + 1 <= n => g[k + 1] \o Slash = h[k + 1]}
<1>9. 0 \in I
  <2>1. SUFFICES ASSUME 1 \in 1..n PROVE g[1] \o Slash = h[1]
    BY <1>0
  <2>2. q[1] \o Slash = r[1] /\ q[1] \in Seq(Scopes!Characters) /\ r[1] \in Seq(Scopes!Characters)
    BY <1>1, <2>1
  <2>3. g[1] = <<>> \o q[1] /\ h[1] = <<>> \o r[1]
    <3>1. 1 - 1 = 0
      OBVIOUS
    <3>2. g[1] = g[1 - 1] \o q[1] /\ h[1] = h[1 - 1] \o r[1]
      BY <1>7, <2>1
    <3> QED
      BY <1>7, <3>1, <3>2
  <2> QED
    BY <2>2, <2>3, ConcatEmptySeq
<1>10. ASSUME NEW k \in I PROVE k + 1 \in I
  <2>0. k \in Nat /\ k + 1 \in Nat
    OBVIOUS
  <2>1. SUFFICES ASSUME k + 2 <= n PROVE g[k + 2] \o Slash = h[k + 2]
    BY <2>0
  <2>2. k + 1 <= n /\ k + 2 \in 1..n /\ k + 1 \in 0..n /\ k + 2 # 1 /\ (k + 2) - 1 = k + 1
    BY <1>0, <2>0, <2>1
  <2>3. g[k + 1] \o Slash = h[k + 1]
    BY <1>10, <2>2
  <2> DEFINE a == g[k + 1]
             b == q[k + 2]
             c == r[k + 2]
  <2>4. a \in Seq(Scopes!Characters) /\ b \in Seq(Scopes!Characters) /\ c \in Seq(Scopes!Characters) /\ Slash \in Seq(Scopes!Characters)
    BY <1>1, <1>7, <2>2, SlashIs
  <2>5. g[k + 2] = a \o b /\ h[k + 2] = h[k + 1] \o c /\ b \o Slash = Slash \o c
    BY <1>1, <1>7, <2>2
  <2>6. a \o Slash = h[k + 1]
    BY <2>3
  <2> HIDE DEF a, b, c
  <2>7. (a \o b) \o Slash = a \o (b \o Slash)
    BY <2>4, ConcatAssociative, SMTT(30)
  <2>8. a \o (Slash \o c) = (a \o Slash) \o c
    BY <2>4, ConcatAssociative, SMTT(30)
  <2> QED
    BY <2>5, <2>6, <2>7, <2>8
<1>11. I = Nat
  <2> HIDE DEF I
  <2>1. I \in SUBSET Nat
    BY DEF I
  <2> QED
    BY <1>9, <1>10, <2>1, Induction
<1>12. ASSUME calls = <<>> PROVE Scopes!Scope(calls) = <<>> /\ Closed(calls) = <<>>
  <2>1. n = 0
    BY <1>12 DEF n
  <2> QED
    BY <1>2, <1>3, <1>4, <1>5, <1>6, <1>7, <2>1
<1>13. ASSUME calls # <<>> PROVE Scopes!Scope(calls) \o Slash = Closed(calls)
  <2>1. n # 0 /\ n - 1 \in Nat /\ (n - 1) + 1 = n
    <3>1. n # 0
      BY <1>13 DEF n
    <3> QED
      BY <1>0, <3>1
  <2>2. n - 1 \in I
    BY <1>11, <2>1
  <2>3. g[n] \o Slash = h[n]
    <3>1. (n - 1) + 1 <= n
      BY <1>0, <2>1
    <3> QED
      BY <2>1, <2>2, <3>1
  <2> QED
    BY <1>2, <1>3, <1>4, <1>5, <1>6, <2>3
<1> QED
  BY <1>8, <1>12, <1>13

\* A chain whose closed scope begins another one's is the beginning of its chain.
LEMMA ChainsApart ==
  ASSUME Scopes!WordsAssumption, NEW calls \in Seq(Scopes!Call), NEW other \in Seq(Scopes!Call),
         IsPrefix(Scopes!Folded(Closed(calls)), Scopes!Folded(Closed(other)))
  PROVE  Len(calls) <= Len(other) /\ \A i \in 1..Len(calls) : calls[i] = other[i]
<1> DEFINE q == FoldedPieces(calls)
           r == FoldedPieces(other)
<1>1. /\ q \in Seq(Seq(Scopes!Characters)) /\ Len(q) = Len(calls)
      /\ \A i \in 1..Len(calls) : calls[i] \in Scopes!Call /\ q[i] = Scopes!Folded(Piece(calls[i])) /\ q[i] # <<>>
      /\ Scopes!Folded(Closed(calls)) = Scopes!FlattenSeq(q)
  BY PiecesAre
<1>2. /\ r \in Seq(Seq(Scopes!Characters)) /\ Len(r) = Len(other)
      /\ \A i \in 1..Len(other) : other[i] \in Scopes!Call /\ r[i] = Scopes!Folded(Piece(other[i])) /\ r[i] # <<>>
      /\ Scopes!Folded(Closed(other)) = Scopes!FlattenSeq(r)
  BY PiecesAre
<1> HIDE DEF q, r
<1>3. ASSUME NEW k \in 1..Len(calls), k \in 1..Len(other), IsPrefix(q[k], r[k]) \/ IsPrefix(r[k], q[k])
      PROVE  calls[k] = other[k]
  BY <1>1, <1>2, <1>3, PieceIsACode
<1>4. \A k \in 1..Len(q) : /\ k \in 1..Len(r)
                           /\ IsPrefix(q[k], r[k]) \/ IsPrefix(r[k], q[k])
                           => q[k] = r[k]
  BY <1>1, <1>2, <1>3
<1>5. \A k \in 1..Len(q) : q[k] # <<>>
  BY <1>1
<1>6. IsPrefix(Scopes!FlattenSeq(q), Scopes!FlattenSeq(r))
  BY <1>1, <1>2
<1>7. Len(q) <= Len(r) /\ \A k \in 1..Len(q) : q[k] = r[k]
  BY <1>1, <1>2, <1>4, <1>5, <1>6, FlattenParts
<1>8. Len(calls) <= Len(other)
  BY <1>1, <1>2, <1>7
<1>9. ASSUME NEW i \in 1..Len(calls) PROVE calls[i] = other[i]
  <2>1. i \in 1..Len(other) /\ i \in 1..Len(q) /\ Len(calls) \in Nat /\ Len(other) \in Nat
    BY <1>1, <1>8
  <2>2. q[i] = r[i] /\ q[i] \in Seq(Scopes!Characters)
    BY <1>1, <1>7, <2>1
  <2>3. IsPrefix(q[i], r[i])
    BY <2>2, PrefixesCompose
  <2> QED
    BY <1>3, <2>1, <2>3
<1> QED
  BY <1>8, <1>9

\* The closed scope of a chain goes on with the next call of a longer one.
LEMMA ChainGoesOn ==
  ASSUME Scopes!WordsAssumption, NEW calls \in Seq(Scopes!Call), NEW other \in Seq(Scopes!Call),
         Len(calls) < Len(other), \A i \in 1..Len(calls) : calls[i] = other[i]
  PROVE  IsPrefix(Closed(calls) \o Piece(other[Len(calls) + 1]), Closed(other))
<1> DEFINE q == Pieces(calls)
           r == Pieces(other)
<1>1. /\ q \in Seq(Seq(Scopes!Characters)) /\ Len(q) = Len(calls)
      /\ \A i \in 1..Len(calls) : q[i] = Piece(calls[i])
      /\ Closed(calls) = Scopes!FlattenSeq(q)
  BY PiecesAre
<1>2. /\ r \in Seq(Seq(Scopes!Characters)) /\ Len(r) = Len(other)
      /\ \A i \in 1..Len(other) : r[i] = Piece(other[i])
      /\ Closed(other) = Scopes!FlattenSeq(r)
  BY PiecesAre
<1> HIDE DEF q, r
<1>3. Len(calls) \in Nat /\ Len(other) \in Nat /\ Len(calls) + 1 \in 1..Len(other)
      /\ \A i \in 1..Len(calls) : i \in 1..Len(other)
  OBVIOUS
<1>4. Len(q) < Len(r) /\ \A k \in 1..Len(q) : q[k] = r[k]
  BY <1>1, <1>2, <1>3
<1>5. IsPrefix(Scopes!FlattenSeq(q) \o r[Len(q) + 1], Scopes!FlattenSeq(r))
  BY <1>1, <1>2, <1>4, FlattenGoesOn
<1> QED
  BY <1>1, <1>2, <1>3, <1>5

\* Only the root's scope is empty: a piece holds more than a slash.
LEMMA ScopeIsEmpty ==
  ASSUME Scopes!WordsAssumption, NEW calls \in Seq(Scopes!Call), calls # <<>>
  PROVE  Scopes!Scope(calls) # <<>>
<1>4. SUFFICES ASSUME Scopes!Scope(calls) = <<>> PROVE FALSE
  OBVIOUS
<1>3. <<>> \in Seq(Scopes!Call)
  OBVIOUS
<1>5. Closed(calls) = Slash
  BY <1>4, SlashIs, ScopeIs, ConcatEmptySeq
<1>6. Len(calls) \in Nat /\ 1 \in 1..Len(calls)
  BY <1>4
<1>7. IsPrefix(Closed(<<>>) \o Piece(calls[1]), Closed(calls))
  <2>1. Len(<<>>) < Len(calls) /\ Len(<<>>) + 1 = 1 /\ \A i \in 1..Len(<<>>) : <<>>[i] = calls[i]
    BY <1>4, <1>6
  <2>2. Len(<<>>) < Len(calls)
    BY <2>1
  <2>3. \A i \in 1..Len(<<>>) : <<>>[i] = calls[i]
    BY <2>1
  <2>6. <<>> \in Seq(Scopes!Call)
    BY <1>3
  <2>4. IsPrefix(Closed(<<>>) \o Piece(calls[Len(<<>>) + 1]), Closed(calls))
    BY <2>2, <2>3, <2>6, ChainGoesOn
  <2>5. Len(<<>>) + 1 = 1
    BY <2>1
  <2> QED
    BY <2>4, <2>5
<1>8. calls[1] \in Scopes!Call /\ Piece(calls[1]) \in Seq(Scopes!Characters) /\ Closed(<<>>) = <<>>
  <2>1. calls[1] \in Scopes!Call
    BY <1>6
  <2>2. Closed(<<>>) = <<>>
    BY <1>4, ScopeIs
  <2> QED
    BY <2>1, <2>2, PieceIs
<1>9. IsPrefix(Piece(calls[1]), Slash)
  BY <1>5, <1>7, <1>8, ConcatEmptySeq
<1> DEFINE u == calls[1].uid
           rest == Slash \o (calls[1].name \o Slash)
<1>10. u \in Seq(Scopes!Characters) /\ u # <<>> /\ NoSlash(u) /\ rest \in Seq(Scopes!Characters)
  <2> DEFINE w == calls[1].name
  <2>1. u \in Seq(Scopes!Characters) /\ u # <<>> /\ NoSlash(u) /\ w \in Seq(Scopes!Characters) /\ Slash \in Seq(Scopes!Characters)
    BY <1>8, PieceIs, WordIs, SlashIs
  <2>2. rest = Slash \o (w \o Slash)
    OBVIOUS
  <2> HIDE DEF w, u, rest
  <2> DEFINE ws == w \o Slash
  <2>3. ws \in Seq(Scopes!Characters)
    BY <2>1, ConcatProperties
  <2> HIDE DEF ws
  <2>4. Slash \o ws \in Seq(Scopes!Characters)
    BY <2>1, <2>3, ConcatProperties
  <2> QED
    BY <2>1, <2>2, <2>4 DEF ws
<1>11. IsPrefix(u \o rest, Slash)
  BY <1>9 DEF Piece
<1> HIDE DEF u, rest
<1> DEFINE all == u \o rest
<1>12. /\ all \in Seq(Scopes!Characters) /\ Len(all) = Len(u) + Len(rest)
       /\ \A i \in 1..Len(u) + Len(rest) : all[i] = IF i <= Len(u) THEN u[i] ELSE rest[i - Len(u)]
  BY <1>10, ConcatProperties
<1>13. IsPrefix(all, Slash)
  BY <1>11
<1> HIDE DEF all
<1>14. Len(u) \in Nat \ {0} /\ Len(rest) \in Nat /\ 1 \in 1..Len(u)
  BY <1>10
<1>15. all[1] = u[1] /\ u[1] # "/" /\ 1 \in 1..Len(all)
  BY <1>10, <1>12, <1>14 DEF NoSlash
<1>16. all[1] = Slash[1] /\ Slash[1] = "/"
  <2>1. Slash \in Seq(Scopes!Characters)
    BY SlashIs
  <2>2. \A i \in 1..Len(all) : all[i] = Slash[i]
    BY <1>12, <1>13, <2>1, PrefixIs
  <2> QED
    BY <1>15, <2>2 DEF Slash
<1> QED
  BY <1>15, <1>16

\* Two graphs with one table, whatever its case, are one graph
\* (mangleStorageScope, sqlite/catalog.ts).
LEMMA SeparateTables ==
  ASSUME Scopes!WordsAssumption, NEW calls \in Seq(Scopes!Call), NEW other \in Seq(Scopes!Call),
         Scopes!SameTable(Scopes!TableForScope(Scopes!Scope(calls)), Scopes!TableForScope(Scopes!Scope(other)))
  PROVE  calls = other
<1>1. Scopes!Scope(calls) \in Seq(Scopes!Characters) /\ Scopes!Scope(other) \in Seq(Scopes!Characters) /\ Slash \in Seq(Scopes!Characters)
  BY ScopeIs, SlashIs
<1>2. Scopes!Folded(Scopes!Scope(calls)) = Scopes!Folded(Scopes!Scope(other))
  <2> DEFINE s == Scopes!Scope(calls)
             t == Scopes!Scope(other)
  <2>1. s \in Seq(Scopes!Characters) /\ t \in Seq(Scopes!Characters)
    BY <1>1
  <2>2. Scopes!Folded(Scopes!TableForScope(s)) = Scopes!Folded(Scopes!TableForScope(t))
    BY DEF Scopes!SameTable
  <2> HIDE DEF s, t
  <2>3. Scopes!Folded(Scopes!TableForScope(s)) = Scopes!TableForScope(Scopes!Folded(s)) /\ Scopes!Folded(Scopes!TableForScope(t)) = Scopes!TableForScope(Scopes!Folded(t))
    BY <2>1, TableIs
  <2>4. Scopes!Folded(s) \in Seq(Scopes!Characters) /\ Scopes!Folded(t) \in Seq(Scopes!Characters)
    BY <2>1, FoldedIs
  <2>5. Scopes!TableForScope(Scopes!Folded(s)) = Scopes!TableForScope(Scopes!Folded(t))
    BY <2>2, <2>3
  <2> DEFINE a == Scopes!Folded(s)
             b == Scopes!Folded(t)
  <2>6. a \in Seq(Scopes!Characters) /\ b \in Seq(Scopes!Characters) /\ Scopes!TableForScope(a) = Scopes!TableForScope(b)
    BY <2>4, <2>5
  <2> HIDE DEF a, b
  <2>7. a = b
    BY <2>6, TableIsInjective
  <2> QED
    BY <2>7 DEF a, b, s, t
<1>3. Scopes!Folded(Closed(calls)) = Scopes!Folded(Closed(other))
  <2>1. CASE calls # <<>> /\ other # <<>>
    <3>1. Scopes!Scope(calls) \o Slash = Closed(calls) /\ Scopes!Scope(other) \o Slash = Closed(other)
      BY <2>1, ScopeIs
    <3>2. /\ Scopes!Folded(Scopes!Scope(calls) \o Slash) = Scopes!Folded(Scopes!Scope(calls)) \o Scopes!Folded(Slash)
          /\ Scopes!Folded(Scopes!Scope(other) \o Slash) = Scopes!Folded(Scopes!Scope(other)) \o Scopes!Folded(Slash)
      <4> DEFINE s == Scopes!Scope(calls)
                 t == Scopes!Scope(other)
      <4>1. s \in Seq(Scopes!Characters) /\ t \in Seq(Scopes!Characters)
        BY <1>1
      <4> HIDE DEF s, t
      <4>2. Scopes!Folded(s \o Slash) = Scopes!Folded(s) \o Scopes!Folded(Slash) /\ Scopes!Folded(t \o Slash) = Scopes!Folded(t) \o Scopes!Folded(Slash)
        BY <1>1, <4>1, FoldedConcat
      <4> QED
        BY <4>2 DEF s, t
    <3> QED
      BY <1>2, <3>1, <3>2
  <2>2. ASSUME NEW one \in Seq(Scopes!Call), NEW two \in Seq(Scopes!Call), one = <<>>, two # <<>>, Scopes!Folded(Scopes!Scope(one)) = Scopes!Folded(Scopes!Scope(two))
        PROVE  FALSE
    <3>1. Scopes!Scope(one) = <<>> /\ Scopes!Scope(one) \in Seq(Scopes!Characters) /\ Scopes!Scope(two) \in Seq(Scopes!Characters)
      BY <2>2, ScopeIs
    <3>2. Len(Scopes!Folded(Scopes!Scope(one))) = Len(Scopes!Scope(one)) /\ Len(Scopes!Folded(Scopes!Scope(two))) = Len(Scopes!Scope(two))
      BY <3>1, FoldedIs
    <3>3. Scopes!Scope(two) = <<>>
      BY <2>2, <3>1, <3>2
    <3> QED
      BY <2>2, <3>3, ScopeIsEmpty
  <2>3. CASE calls = <<>> /\ other = <<>>
    BY <2>3
  <2> QED
    BY <1>2, <2>1, <2>2, <2>3
<1>4. Closed(calls) \in Seq(Scopes!Characters) /\ Closed(other) \in Seq(Scopes!Characters)
  BY PiecesAre
<1>5. Scopes!Folded(Closed(calls)) \in Seq(Scopes!Characters) /\ Scopes!Folded(Closed(other)) \in Seq(Scopes!Characters)
  BY <1>4, FoldedIs
<1>6. IsPrefix(Scopes!Folded(Closed(calls)), Scopes!Folded(Closed(other))) /\ IsPrefix(Scopes!Folded(Closed(other)), Scopes!Folded(Closed(calls)))
  BY <1>3, <1>5, PrefixesCompose
<1>7. Len(calls) <= Len(other) /\ \A i \in 1..Len(calls) : calls[i] = other[i]
  BY <1>6, ChainsApart
<1>8. Len(other) <= Len(calls)
  BY <1>6, ChainsApart
<1> QED
  BY <1>7, <1>8, SameSequence

-----------------------------------------------------------------------------
(* LIKE.                                                                   *)

\* The states of a match: where the string may have got to, and whether the
\* next character of the pattern is escaped.
PatternCharacters == Scopes!Characters \cup {"\\", "%"}
MatchStates == [escape : BOOLEAN, at : SUBSET Nat]
Beginning == [escape |-> FALSE, at |-> {0}]
Matching(g, s, p) == g[0] = Beginning /\ \A k \in 1..Len(p) : g[k] = Scopes!LikeStep(s, g[k - 1], p[k])

\* A character leads from state to state.
LEMMA StepIn ==
  ASSUME NEW S, NEW s \in Seq(S), NEW so \in MatchStates, NEW ch
  PROVE  Scopes!LikeStep(s, so, ch) \in MatchStates
<1>1. Len(s) \in Nat /\ so.escape \in BOOLEAN /\ so.at \in SUBSET Nat /\ so = [escape |-> so.escape, at |-> so.at]
  BY DEF MatchStates
<1>2. CASE ~so.escape /\ ch = "\\"
  <2>1. Scopes!LikeStep(s, so, ch) = [so EXCEPT !.escape = TRUE]
    BY <1>2, MarkIs DEF Scopes!LikeStep
  <2> QED
    BY <1>1, <2>1 DEF MatchStates
<1>3. CASE ~so.escape /\ ch = "%"
  <2>1. "%" # "\\"
    OBVIOUS
  <2>2. Scopes!LikeStep(s, so, ch) = [so EXCEPT !.at = {i \in 0..Len(s) : \E k \in so.at : k <= i}]
    BY <1>3, <2>1, MarkIs DEF Scopes!LikeStep
  <2> QED
    BY <1>1, <2>2 DEF MatchStates
<1>4. CASE ~so.escape /\ ch = Scopes!Mark
  <2>1. Scopes!LikeStep(s, so, ch) = [so EXCEPT !.at = {i \in 1..Len(s) : i - 1 \in so.at}]
    BY <1>4, MarkIs DEF Scopes!LikeStep
  <2> QED
    BY <1>1, <2>1 DEF MatchStates
<1>5. CASE ~(~so.escape /\ ch = "\\") /\ ~(~so.escape /\ ch = "%") /\ ~(~so.escape /\ ch = Scopes!Mark)
  <2>1. Scopes!LikeStep(s, so, ch) = [escape |-> FALSE, at |-> {i \in 1..Len(s) : i - 1 \in so.at /\ Lower[s[i]] = Lower[ch]}]
    BY <1>5 DEF Scopes!LikeStep
  <2> QED
    BY <1>1, <2>1 DEF MatchStates
<1> QED
  BY <1>2, <1>3, <1>4, <1>5

\* Matching a pattern goes over it once.
LEMMA LikeRuns ==
  ASSUME NEW S, NEW s \in Seq(S), NEW p, Len(p) \in Nat
  PROVE  \E g \in [0..Len(p) -> MatchStates] : Matching(g, s, p) /\ (Scopes!Like(s, p) <=> Len(s) \in g[Len(p)].at)
<1> DEFINE n == Len(p)
           T == MatchStates
           step == [k \in 1..n |-> [so \in T |-> Scopes!LikeStep(s, so, p[k])]]
<1>0. n \in Nat
  OBVIOUS
<1>1. Beginning \in T
  BY DEF Beginning, MatchStates
<1>2. \A k \in 1..n : step[k] \in [T -> T]
  BY StepIn
<1>3. PICK g \in [0..n -> T] : Goes(g, n, Beginning, step)
  <2> HIDE DEF n, T, step
  <2> QED
    BY <1>0, <1>1, <1>2, Recursion, Zenon
<1>4. \A k \in 1..n : k - 1 \in 0..n /\ g[k - 1] \in T
  <2> HIDE DEF n, T, step
  <2> QED
    BY <1>0
<1>5. g[0] = Beginning /\ \A k \in 1..n : g[k] = Scopes!LikeStep(s, g[k - 1], p[k])
  <2>1. g[0] = Beginning /\ \A k \in 1..n : g[k] = step[k][g[k - 1]]
    BY <1>3 DEF Goes
  <2>2. \A k \in 1..n, so \in T : step[k][so] = Scopes!LikeStep(s, so, p[k])
    OBVIOUS
  <2> HIDE DEF n, T, step
  <2> QED
    BY <1>4, <2>1, <2>2
<1> HIDE DEF n, T, step
<1> DEFINE F(f) == [j \in 0..n |-> IF j = 0 THEN [escape |-> FALSE, at |-> {0}] ELSE Scopes!LikeStep(s, f[j - 1], p[j])]
           f == CHOOSE f : f = F(f)
<1>6. g = F(g)
  <2>1. ASSUME NEW j \in 0..n PROVE g[j] = IF j = 0 THEN [escape |-> FALSE, at |-> {0}] ELSE Scopes!LikeStep(s, g[j - 1], p[j])
    BY <1>0, <1>5 DEF Beginning
  <2> QED
    BY <2>1
<1>7. f = F(f)
  BY <1>6
<1>8. Scopes!Like(s, p) <=> Len(s) \in f[n].at
  BY DEF Scopes!Like, n
<1> HIDE DEF f
<1>9. \A j \in 0..n : f[j] = IF j = 0 THEN Beginning ELSE Scopes!LikeStep(s, f[j - 1], p[j])
  BY <1>7 DEF Beginning
<1> DEFINE I == {k \in Nat : k <= n => f[k] = g[k]}
<1>10. 0 \in I
  BY <1>0, <1>5, <1>9
<1>11. ASSUME NEW k \in I PROVE k + 1 \in I
  <2>0. k \in Nat /\ k + 1 \in Nat /\ (k + 1) - 1 = k /\ k + 1 # 0
    OBVIOUS
  <2>1. SUFFICES ASSUME k + 1 <= n PROVE f[k + 1] = g[k + 1]
    BY <2>0
  <2>2. k + 1 \in 0..n /\ k + 1 \in 1..n /\ f[k] = g[k]
    BY <1>0, <1>11, <2>0, <2>1
  <2>3. f[k + 1] = Scopes!LikeStep(s, f[k], p[k + 1])
    BY <1>9, <2>0, <2>2
  <2>4. g[k + 1] = Scopes!LikeStep(s, g[k], p[k + 1])
    BY <1>5, <2>0, <2>2
  <2> QED
    BY <2>2, <2>3, <2>4
<1>12. I = Nat
  <2> HIDE DEF I
  <2>1. I \in SUBSET Nat
    BY DEF I
  <2> QED
    BY <1>10, <1>11, <2>1, Induction
<1>13. f[n] = g[n]
  BY <1>0, <1>12
<1> QED
  BY <1>5, <1>8, <1>13 DEF Matching, n, T

\* Where a string may have got to after its first k characters were matched.
Matches(s, p, k) == \A i \in 1..k : i <= Len(s) /\ Lower[s[i]] = Lower[p[i]]
Reach(s, p, k) == IF Matches(s, p, k) THEN {k} ELSE {}
Advance(s, where, ch) == {i \in 1..Len(s) : i - 1 \in where /\ Lower[s[i]] = Lower[ch]}
Reading(where) == [escape |-> FALSE, at |-> where]
Escaping(where) == [escape |-> TRUE, at |-> where]

\* The four things a character of a pattern can do.
LEMMA Stepping ==
  ASSUME NEW S, NEW s \in Seq(S), NEW a, NEW ch
  PROVE  /\ Scopes!LikeStep(s, Reading(a), "\\") = Escaping(a)
         /\ Scopes!LikeStep(s, Reading(a), "%") = Reading({i \in 0..Len(s) : \E k \in a : k <= i})
         /\ Scopes!LikeStep(s, Escaping(a), ch) = Reading(Advance(s, a, ch))
         /\ ch \notin {"\\", "%", Scopes!Mark}
              => Scopes!LikeStep(s, Reading(a), ch) = Reading(Advance(s, a, ch))
<1>1. Scopes!Mark # "%" /\ Scopes!Mark # "\\" /\ "%" # "\\"
  BY MarkIs
<1> QED
  BY <1>1 DEF Scopes!LikeStep, Reading, Escaping, Advance

\* One more character matched is one more step.
LEMMA ReachGrows ==
  ASSUME NEW S, NEW s \in Seq(S), NEW p, NEW k \in Nat
  PROVE  Advance(s, Reach(s, p, k), p[k + 1]) = Reach(s, p, k + 1)
<1>0. Len(s) \in Nat
  OBVIOUS
<1> DEFINE R == {i \in 1..Len(s) : i - 1 \in Reach(s, p, k) /\ Lower[s[i]] = Lower[p[k + 1]]}
<1>1. ASSUME Matches(s, p, k + 1) PROVE R = {k + 1}
  <2>1. Matches(s, p, k) /\ k + 1 \in 1..Len(s) /\ Lower[s[k + 1]] = Lower[p[k + 1]] /\ (k + 1) - 1 = k
    BY <1>0, <1>1 DEF Matches
  <2>2. Reach(s, p, k) = {k}
    BY <2>1 DEF Reach
  <2> QED
    BY <2>1, <2>2
<1>2. ASSUME NEW i \in R PROVE Matches(s, p, k + 1)
  <2>1. i - 1 = k /\ Matches(s, p, k) /\ i \in 1..Len(s) /\ Lower[s[i]] = Lower[p[k + 1]]
    BY DEF Reach
  <2>2. i = k + 1
    BY <2>1
  <2> QED
    BY <2>1, <2>2 DEF Matches
<1>3. CASE Matches(s, p, k + 1)
  BY <1>1, <1>3 DEF Reach, Advance
<1>4. CASE ~Matches(s, p, k + 1)
  BY <1>2, <1>4 DEF Reach, Advance
<1> QED
  BY <1>3, <1>4

\* What escapeLikePrefix makes of each character, and what the code appends.
Escapes(p) == [i \in DOMAIN p |-> IF p[i] \in {"\\", "%", Scopes!Mark} THEN <<"\\", p[i]>> ELSE <<p[i]>>]
Wildcard == <<"/", "%">>

\* The escaped prefix is its characters.
LEMMA EscapesAre ==
  ASSUME NEW p \in Seq(Scopes!Characters)
  PROVE  /\ Escapes(p) \in Seq(Seq(PatternCharacters)) /\ Len(Escapes(p)) = Len(p)
         /\ \A i \in 1..Len(p) : Escapes(p)[i] = IF p[i] \in {"\\", "%", Scopes!Mark} THEN <<"\\", p[i]>> ELSE <<p[i]>>
         /\ Scopes!EscapeLikePrefix(p) = Scopes!FlattenSeq(Escapes(p))
         /\ Scopes!EscapeLikePrefix(p) \in Seq(PatternCharacters)
         /\ Wildcard \in Seq(PatternCharacters) /\ Len(Wildcard) = 2 /\ Wildcard[1] = "/" /\ Wildcard[2] = "%"
<1>0. Len(p) \in Nat /\ DOMAIN p = 1..Len(p) /\ \A i \in 1..Len(p) : p[i] \in PatternCharacters
  BY DEF PatternCharacters
<1> DEFINE T == Seq(PatternCharacters)
<1>1. "\\" \in PatternCharacters /\ "/" \in PatternCharacters /\ "%" \in PatternCharacters
  BY DEF PatternCharacters, Scopes!Characters, Scopes!Escaped
<1>2. \A x \in PatternCharacters : <<x>> \in T /\ <<"\\", x>> \in T
  BY <1>1
<1>3. Wildcard \in T /\ Len(Wildcard) = 2 /\ Wildcard[1] = "/" /\ Wildcard[2] = "%"
  BY <1>1 DEF Wildcard
<1>4. /\ Escapes(p) \in Seq(T) /\ Len(Escapes(p)) = Len(p)
      /\ \A i \in 1..Len(p) : Escapes(p)[i] = IF p[i] \in {"\\", "%", Scopes!Mark} THEN <<"\\", p[i]>> ELSE <<p[i]>>
  <2> HIDE DEF T
  <2> QED
    BY <1>0, <1>2 DEF Escapes
<1>5. Scopes!EscapeLikePrefix(p) = Scopes!FlattenSeq(Escapes(p))
  BY DEF Scopes!EscapeLikePrefix, Escapes
<1>6. Scopes!EscapeLikePrefix(p) \in T
  <2>1. Escapes(p) \in Seq(Seq(PatternCharacters))
    BY <1>4
  <2> QED
    BY <1>5, <2>1, FlattenedIn
<1> QED
  BY <1>3, <1>4, <1>5, <1>6

\* A pattern escaped and closed by a slash and a wildcard matches what begins
\* like it, whatever the case.
LEMMA LikeIs ==
  ASSUME Scopes!WordsAssumption, NEW s \in Seq(Scopes!Characters), NEW p \in Seq(Scopes!Characters)
  PROVE  Scopes!Like(s, Scopes!EscapeLikePrefix(p) \o Wildcard) <=> IsPrefix(Scopes!Folded(p \o Slash), Scopes!Folded(s))
<1> DEFINE q == Escapes(p)
           whole == Scopes!EscapeLikePrefix(p)
           P == whole \o Wildcard
           n == Len(p)
<1>1. /\ q \in Seq(Seq(PatternCharacters)) /\ Len(q) = n
      /\ \A i \in 1..n : q[i] = IF p[i] \in {"\\", "%", Scopes!Mark} THEN <<"\\", p[i]>> ELSE <<p[i]>>
      /\ whole = Scopes!FlattenSeq(q) /\ whole \in Seq(PatternCharacters)
      /\ Wildcard \in Seq(PatternCharacters) /\ Len(Wildcard) = 2 /\ Wildcard[1] = "/" /\ Wildcard[2] = "%"
  BY EscapesAre
<1>2. n \in Nat /\ Len(s) \in Nat
  OBVIOUS
<1> HIDE DEF q, whole
<1>3. /\ P \in Seq(PatternCharacters) /\ Len(P) = Len(whole) + Len(Wildcard)
      /\ \A i \in 1..Len(whole) + Len(Wildcard) : P[i] = IF i <= Len(whole) THEN whole[i] ELSE Wildcard[i - Len(whole)]
  <2>1. whole \in Seq(PatternCharacters) /\ Wildcard \in Seq(PatternCharacters)
    BY <1>1
  <2> QED
    BY <2>1, ConcatProperties
<1>3a. Len(P) \in Nat /\ Len(whole) \in Nat
  BY <1>1, <1>3
<1> HIDE DEF P, n
<1>4. PICK g \in [0..Len(P) -> MatchStates] : Matching(g, s, P) /\ (Scopes!Like(s, P) <=> Len(s) \in g[Len(P)].at)
  BY <1>3a, LikeRuns
<1>5. PICK h \in [0..Len(q) -> Seq(PatternCharacters)] : Joined(h, q) /\ Scopes!FlattenSeq(q) = h[Len(q)]
  BY <1>1, Flattened
<1>6. g[0] = Reading({0}) /\ \A k \in 1..Len(P) : g[k] = Scopes!LikeStep(s, g[k - 1], P[k])
  BY <1>4 DEF Matching, Beginning, Reading
<1>7. /\ h[0] = <<>> /\ \A k \in 1..n : h[k] = h[k - 1] \o q[k]
      /\ \A k \in 0..n : h[k] \in Seq(PatternCharacters) /\ IsPrefix(h[k], whole)
  <2>1. h[0] = <<>> /\ \A k \in 1..n : h[k] = h[k - 1] \o q[k]
    BY <1>1, <1>5 DEF Joined
  <2>2. \A k \in 0..n : h[k] \in Seq(PatternCharacters)
    BY <1>1, <1>5
  <2>3. \A k \in 0..n : IsPrefix(h[k], whole)
    <3>1. q \in Seq(Seq(PatternCharacters)) /\ whole = h[Len(q)] /\ Joined(h, q)
      BY <1>1, <1>5
    <3>2. \A k \in 0..Len(q) : IsPrefix(h[k], h[Len(q)])
      BY <3>1, JoinedGrows
    <3> QED
      BY <1>1, <3>1, <3>2
  <2> QED
    BY <2>1, <2>2, <2>3
<1> DEFINE I == {k \in Nat : k <= n => g[Len(h[k])] = Reading(Reach(s, p, k))}
<1>8. 0 \in I
  <2>1. Reach(s, p, 0) = {0}
    BY DEF Reach, Matches
  <2> QED
    BY <1>6, <1>7, <2>1
<1>9. ASSUME NEW k \in I PROVE k + 1 \in I
  <2>0. k \in Nat /\ k + 1 \in Nat /\ (k + 1) - 1 = k
    OBVIOUS
  <2>1. SUFFICES ASSUME k + 1 <= n PROVE g[Len(h[k + 1])] = Reading(Reach(s, p, k + 1))
    BY <2>0
  <2>2. k + 1 \in 1..n /\ k \in 0..n /\ k + 1 \in 0..n /\ g[Len(h[k])] = Reading(Reach(s, p, k))
    BY <1>2, <1>9, <2>0, <2>1
  <2> DEFINE a == h[k]
             b == q[k + 1]
             c == h[k + 1]
             ch == p[k + 1]
             m == Len(a)
             R == Reach(s, p, k)
  <2>3. a \in Seq(PatternCharacters) /\ b \in Seq(PatternCharacters) /\ c \in Seq(PatternCharacters) /\ c = a \o b /\ IsPrefix(c, whole)
    <3>1. a \in Seq(PatternCharacters) /\ c \in Seq(PatternCharacters) /\ IsPrefix(c, whole)
      BY <1>7, <2>2
    <3>2. b \in Seq(PatternCharacters)
      BY <1>1, <2>2
    <3>3. c = a \o b
      BY <1>7, <2>0, <2>2
    <3> QED
      BY <3>1, <3>2, <3>3
  <2>4. b = IF ch \in {"\\", "%", Scopes!Mark} THEN <<"\\", ch>> ELSE <<ch>>
    BY <1>1, <2>2
  <2>5. Reach(s, p, k + 1) = Advance(s, R, ch)
    BY <2>0, ReachGrows
  <2>6. g[m] = Reading(R)
    BY <2>2
  <2> HIDE DEF a, b, c, ch, R
  <2>7. /\ Len(c) = m + Len(b) /\ m \in Nat /\ Len(b) \in Nat
        /\ \A i \in 1..m + Len(b) : c[i] = IF i <= m THEN a[i] ELSE b[i - m]
    BY <2>3, ConcatProperties
  <2>8. Len(c) <= Len(whole) /\ \A i \in 1..Len(c) : c[i] = whole[i]
    <3>1. Len(c) <= Len(whole) /\ \A i \in 1..Len(c) : c[i] = whole[i]
      <4>1. c \in Seq(PatternCharacters) /\ whole \in Seq(PatternCharacters) /\ IsPrefix(c, whole)
        BY <1>1, <2>3
      <4> QED
        BY <4>1, PrefixIs
    <3> QED
      BY <3>1
  <2> HIDE DEF m
  <2>9. ASSUME NEW i \in 1..Len(b) PROVE m + i \in 1..Len(P) /\ g[m + i] = Scopes!LikeStep(s, g[m + (i - 1)], b[i])
    <3>1. m + i \in 1..Len(c) /\ m + i \in 1..Len(whole) + Len(Wildcard) /\ m + i \in 1..Len(P) /\ m + i <= Len(whole)
          /\ ~(m + i <= m) /\ (m + i) - m = i /\ (m + i) - 1 = m + (i - 1) /\ m + i \in 1..m + Len(b)
      BY <1>1, <1>3, <1>3a, <2>7, <2>8
    <3>2. P[m + i] = b[i]
      <4>1. P[m + i] = whole[m + i]
        BY <1>3, <3>1
      <4>2. whole[m + i] = c[m + i]
        BY <2>8, <3>1
      <4>3. c[m + i] = b[i]
        BY <2>7, <3>1
      <4> QED
        BY <4>1, <4>2, <4>3
    <3> QED
      BY <1>6, <3>1, <3>2
  <2>10. CASE ch \in {"\\", "%", Scopes!Mark}
    <3>1. Len(b) = 2 /\ b[1] = "\\" /\ b[2] = ch
      BY <2>4, <2>10
    <3>2. g[m + 1] = Scopes!LikeStep(s, g[m + (1 - 1)], b[1]) /\ g[m + 2] = Scopes!LikeStep(s, g[m + (2 - 1)], b[2])
      <4>1. 1 \in 1..Len(b) /\ 2 \in 1..Len(b)
        BY <3>1
      <4> QED
        BY <2>9, <4>1
    <3>3. m + (1 - 1) = m /\ m + (2 - 1) = m + 1 /\ Len(c) = m + 2
      BY <2>7, <3>1
    <3>4. g[m + 1] = Escaping(R)
      <4>1. Scopes!LikeStep(s, Reading(R), "\\") = Escaping(R)
        BY Stepping
      <4> QED
        BY <2>6, <3>1, <3>2, <3>3, <4>1
    <3>5. Scopes!LikeStep(s, Escaping(R), ch) = Reading(Advance(s, R, ch))
      BY Stepping
    <3>6. g[Len(c)] = Reading(Reach(s, p, k + 1))
      BY <2>5, <3>1, <3>2, <3>3, <3>4, <3>5
    <3> QED
      BY <3>6 DEF c
  <2>11. CASE ch \notin {"\\", "%", Scopes!Mark}
    <3>1. Len(b) = 1 /\ b[1] = ch
      BY <2>4, <2>11
    <3>2. g[m + 1] = Scopes!LikeStep(s, g[m + (1 - 1)], b[1])
      <4>1. 1 \in 1..Len(b)
        BY <3>1
      <4> QED
        BY <2>9, <4>1
    <3>3. m + (1 - 1) = m /\ Len(c) = m + 1
      BY <2>7, <3>1
    <3>4. Scopes!LikeStep(s, Reading(R), ch) = Reading(Advance(s, R, ch))
      BY <2>11, Stepping
    <3>5. g[Len(c)] = Reading(Reach(s, p, k + 1))
      BY <2>5, <2>6, <3>1, <3>2, <3>3, <3>4
    <3> QED
      BY <3>5 DEF c
  <2> QED
    BY <2>10, <2>11
<1>10. I = Nat
  <2> HIDE DEF I
  <2>1. I \in SUBSET Nat
    BY DEF I
  <2> QED
    BY <1>8, <1>9, <2>1, Induction
<1> DEFINE m == Len(whole)
           R == Reach(s, p, n)
           U == Advance(s, R, "/")
<1>11. g[m] = Reading(R) /\ m \in Nat
  <2>1. whole = h[n] /\ n \in I
    BY <1>1, <1>2, <1>5, <1>10
  <2> QED
    BY <1>2, <1>3a, <2>1
<1>12. Len(P) = m + 2 /\ P[m + 1] = "/" /\ P[m + 2] = "%" /\ m + 1 \in 1..Len(P) /\ m + 2 \in 1..Len(P)
       /\ (m + 1) - 1 = m /\ (m + 2) - 1 = m + 1
  <2>1. ~(m + 1 <= m) /\ ~(m + 2 <= m) /\ (m + 1) - m = 1 /\ (m + 2) - m = 2 /\ (m + 1) - 1 = m /\ (m + 2) - 1 = m + 1
        /\ Len(P) = m + 2
    BY <1>1, <1>3, <1>3a
  <2>2. m + 1 \in 1..Len(P) /\ m + 2 \in 1..Len(P) /\ m + 1 \in 1..m + Len(Wildcard) /\ m + 2 \in 1..m + Len(Wildcard)
    BY <1>1, <1>3a, <2>1
  <2>3. P[m + 1] = Wildcard[1] /\ P[m + 2] = Wildcard[2]
    BY <1>3, <2>1, <2>2
  <2> QED
    BY <1>1, <2>1, <2>2, <2>3
<1> HIDE DEF m, R
<1>13. g[m + 1] = Reading(U)
  <2>1. g[m + 1] = Scopes!LikeStep(s, Reading(R), "/")
    BY <1>6, <1>11, <1>12
  <2>2. "/" \notin {"\\", "%", Scopes!Mark}
    BY MarkIs
  <2> QED
    BY <2>1, <2>2, Stepping
<1>14. g[Len(P)] = Reading({i \in 0..Len(s) : \E k \in U : k <= i})
  <2> HIDE DEF U
  <2>1. g[m + 2] = Scopes!LikeStep(s, Reading(U), "%")
    BY <1>6, <1>12, <1>13
  <2>2. Scopes!LikeStep(s, Reading(U), "%") = Reading({i \in 0..Len(s) : \E k \in U : k <= i})
    BY Stepping
  <2> QED
    BY <1>12, <2>1, <2>2
<1>15. Scopes!Like(s, P) <=> U # {}
  <2>1. \A k \in U : k \in 1..Len(s)
    BY DEF Advance
  <2> HIDE DEF U
  <2>2. Scopes!Like(s, P) <=> Len(s) \in {i \in 0..Len(s) : \E k \in U : k <= i}
    BY <1>4, <1>14 DEF Reading
  <2> QED
    BY <1>2, <2>1, <2>2
<1>16. U # {} <=> Matches(s, p, n) /\ n + 1 <= Len(s) /\ Lower[s[n + 1]] = Lower["/"]
  <2>1. ASSUME NEW i \in U PROVE Matches(s, p, n) /\ n + 1 <= Len(s) /\ Lower[s[n + 1]] = Lower["/"]
    <3>1. i - 1 = n /\ Matches(s, p, n) /\ i \in 1..Len(s) /\ Lower[s[i]] = Lower["/"]
      BY DEF R, Reach, Advance
    <3>2. i = n + 1
      BY <1>2, <3>1
    <3> QED
      BY <3>1, <3>2
  <2>2. ASSUME Matches(s, p, n), n + 1 <= Len(s), Lower[s[n + 1]] = Lower["/"] PROVE n + 1 \in U
    <3>1. n \in R /\ n + 1 \in 1..Len(s) /\ (n + 1) - 1 = n
      BY <1>2, <2>2 DEF R, Reach
    <3> QED
      BY <2>2, <3>1 DEF Advance
  <2> HIDE DEF U
  <2> QED
    BY <2>1, <2>2
<1> DEFINE u == p \o Slash
           v == Scopes!Folded(u)
           w == Scopes!Folded(s)
<1>17. /\ u \in Seq(Scopes!Characters) /\ Len(u) = n + 1 /\ u[n + 1] = "/"
       /\ \A i \in 1..n : u[i] = p[i]
  <2>1. Slash \in Seq(Scopes!Characters) /\ Len(Slash) = 1 /\ Slash[1] = "/"
    BY SlashIs DEF Slash
  <2>2. /\ u \in Seq(Scopes!Characters) /\ Len(u) = Len(p) + Len(Slash)
        /\ \A i \in 1..Len(p) + Len(Slash) : u[i] = IF i <= Len(p) THEN p[i] ELSE Slash[i - Len(p)]
    BY <2>1, ConcatProperties
  <2>3. n + 1 \in 1..n + 1 /\ ~(n + 1 <= n) /\ (n + 1) - n = 1 /\ \A i \in 1..n : i \in 1..n + 1 /\ i <= n
    BY <1>2
  <2> HIDE DEF u
  <2> QED
    BY <2>1, <2>2, <2>3 DEF n
<1> HIDE DEF u
<1>18. /\ v \in Seq(Scopes!Characters) /\ Len(v) = n + 1 /\ \A i \in 1..n + 1 : v[i] = Lower[u[i]]
       /\ w \in Seq(Scopes!Characters) /\ Len(w) = Len(s) /\ \A i \in 1..Len(s) : w[i] = Lower[s[i]]
  BY <1>17, FoldedIs
<1> HIDE DEF v, w
<1>19. IsPrefix(v, w) <=> n + 1 <= Len(s) /\ \A i \in 1..n + 1 : v[i] = w[i]
  BY <1>18, PrefixIs, SMTT(30)
<1>20. ASSUME n + 1 <= Len(s) PROVE (\A i \in 1..n + 1 : v[i] = w[i]) <=> Matches(s, p, n) /\ Lower[s[n + 1]] = Lower["/"]
  <2>1. \A i \in 1..n + 1 : i \in 1..Len(s) /\ v[i] = Lower[u[i]] /\ w[i] = Lower[s[i]]
    BY <1>2, <1>18, <1>20
  <2>2. Matches(s, p, n) <=> \A i \in 1..n : Lower[s[i]] = Lower[p[i]]
    BY <1>2, <1>20 DEF Matches
  <2>3. \A i \in 1..n + 1 : i \in 1..n \/ i = n + 1
    BY <1>2
  <2>4. n + 1 \in 1..n + 1 /\ \A i \in 1..n : i \in 1..n + 1
    BY <1>2
  <2> QED
    <3>1. \A i \in 1..n : (v[i] = w[i]) <=> (Lower[s[i]] = Lower[p[i]])
      BY <1>17, <2>1, <2>4
    <3>2. (v[n + 1] = w[n + 1]) <=> (Lower[s[n + 1]] = Lower["/"])
      BY <1>17, <2>1, <2>4
    <3>3. (\A i \in 1..n + 1 : v[i] = w[i]) <=> (\A i \in 1..n : v[i] = w[i]) /\ v[n + 1] = w[n + 1]
      BY <2>3, <2>4
    <3> QED
      BY <2>2, <3>1, <3>2, <3>3
<1>21. Scopes!Like(s, P) <=> IsPrefix(v, w)
  BY <1>15, <1>16, <1>19, <1>20
<1> QED
  BY <1>21 DEF P, whole, v, w, u

\* A prefix stays one when the case is folded.
LEMMA FoldedPrefix ==
  ASSUME Scopes!WordsAssumption, NEW s \in Seq(Scopes!Characters), NEW t \in Seq(Scopes!Characters), IsPrefix(s, t)
  PROVE  IsPrefix(Scopes!Folded(s), Scopes!Folded(t))
<1>1. Len(s) <= Len(t) /\ \A i \in 1..Len(s) : s[i] = t[i]
  BY PrefixIs
<1>2. /\ Scopes!Folded(s) \in Seq(Scopes!Characters) /\ Len(Scopes!Folded(s)) = Len(s) /\ \A i \in 1..Len(s) : Scopes!Folded(s)[i] = Lower[s[i]]
      /\ Scopes!Folded(t) \in Seq(Scopes!Characters) /\ Len(Scopes!Folded(t)) = Len(t) /\ \A i \in 1..Len(t) : Scopes!Folded(t)[i] = Lower[t[i]]
  BY FoldedIs
<1>3. Len(Scopes!Folded(s)) <= Len(Scopes!Folded(t)) /\ \A i \in 1..Len(Scopes!Folded(s)) : Scopes!Folded(s)[i] = Scopes!Folded(t)[i]
  <2>1. Len(s) \in Nat /\ Len(t) \in Nat /\ \A i \in 1..Len(s) : i \in 1..Len(t)
    BY <1>1
  <2> QED
    BY <1>1, <1>2, <2>1
<1> QED
  BY <1>2, <1>3, PrefixIs

-----------------------------------------------------------------------------
(* Cascades.                                                               *)

\* What escapeLikePrefix is given.
NodePrefix(calls, uid) ==
  LET scope == Scopes!Scope(calls) IN scope \o (IF scope = <<>> THEN <<>> ELSE <<"/">>) \o uid

\* The prefix of a cascade, closed, is the closed scope of the graph and the
\* uid of the node.
LEMMA PrefixClosed ==
  ASSUME Scopes!WordsAssumption, NEW calls \in Seq(Scopes!Call), NEW uid \in Words
  PROVE  /\ NodePrefix(calls, uid) \in Seq(Scopes!Characters)
         /\ NodePrefix(calls, uid) \o Slash = Closed(calls) \o (uid \o Slash)
         /\ Scopes!DescendantsOf(calls, uid) = Scopes!EscapeLikePrefix(NodePrefix(calls, uid)) \o Wildcard
<1>1. Scopes!DescendantsOf(calls, uid) = Scopes!EscapeLikePrefix(NodePrefix(calls, uid)) \o Wildcard
  BY DEF Scopes!DescendantsOf, NodePrefix, Wildcard
<1>2. /\ uid \in Seq(Scopes!Characters) /\ Slash \in Seq(Scopes!Characters) /\ Closed(calls) \in Seq(Scopes!Characters)
      /\ Scopes!Scope(calls) \in Seq(Scopes!Characters)
  BY WordIs, SlashIs, PiecesAre, ScopeIs
<1>3. NodePrefix(calls, uid) = Closed(calls) \o uid
  <2>1. CASE calls = <<>>
    <3>1. Scopes!Scope(calls) = <<>> /\ Closed(calls) = <<>>
      BY <2>1, ScopeIs
    <3> QED
      BY <3>1 DEF NodePrefix
  <2>2. CASE calls # <<>>
    <3>1. Scopes!Scope(calls) # <<>> /\ Scopes!Scope(calls) \o Slash = Closed(calls)
      BY <2>2, ScopeIs, ScopeIsEmpty
    <3>2. NodePrefix(calls, uid) = (Scopes!Scope(calls) \o Slash) \o uid
      BY <3>1 DEF NodePrefix, Slash
    <3> QED
      BY <3>1, <3>2
  <2> QED
    BY <2>1, <2>2
<1> DEFINE c == Closed(calls)
<1>4. c \in Seq(Scopes!Characters) /\ NodePrefix(calls, uid) = c \o uid
  BY <1>2, <1>3
<1> HIDE DEF c
<1>5. c \o uid \in Seq(Scopes!Characters)
  BY <1>2, <1>4, ConcatProperties
<1>6. (c \o uid) \o Slash = c \o (uid \o Slash)
  BY <1>2, <1>4, ConcatAssociative, SMTT(30)
<1> QED
  BY <1>1, <1>4, <1>5, <1>6 DEF c

\* The pattern of a cascade finds the graphs derived from its node, all of them
\* and no other (compileCatalogDescendants, sqlite/catalog.ts).
LEMMA Descends ==
  ASSUME Scopes!WordsAssumption, NEW calls \in Seq(Scopes!Call), NEW other \in Seq(Scopes!Call), NEW uid \in Words
  PROVE  Scopes!Like(Scopes!Scope(other), Scopes!DescendantsOf(calls, uid))
           <=> /\ Len(other) > Len(calls)
               /\ SubSeq(other, 1, Len(calls)) = calls
               /\ other[Len(calls) + 1].uid = uid
<1> DEFINE c == Closed(calls)
           o == Closed(other)
           s == Scopes!Scope(other)
           us == uid \o Slash
           n == Len(calls)
           e == other[n + 1]
           pe == Piece(e)
<1>0. /\ c \in Seq(Scopes!Characters) /\ o \in Seq(Scopes!Characters) /\ s \in Seq(Scopes!Characters)
      /\ Slash \in Seq(Scopes!Characters) /\ Scopes!Folded(Slash) = Slash /\ Len(Slash) = 1
      /\ uid \in Seq(Scopes!Characters) /\ NoSlash(Scopes!Folded(uid)) /\ Scopes!Folded(uid) \in Seq(Scopes!Characters)
      /\ n \in Nat /\ Len(other) \in Nat
  <2>1. n \in Nat /\ Len(other) \in Nat
    OBVIOUS
  <2>2. c \in Seq(Scopes!Characters) /\ o \in Seq(Scopes!Characters) /\ s \in Seq(Scopes!Characters)
    BY PiecesAre, ScopeIs
  <2>3. Slash \in Seq(Scopes!Characters) /\ Scopes!Folded(Slash) = Slash /\ Len(Slash) = 1
    BY SlashIs
  <2>4. uid \in Seq(Scopes!Characters) /\ NoSlash(Scopes!Folded(uid)) /\ Scopes!Folded(uid) \in Seq(Scopes!Characters)
    BY WordIs
  <2> QED
    BY <2>1, <2>2, <2>3, <2>4
<1>u. uid \in Seq(Scopes!Characters) /\ Slash \in Seq(Scopes!Characters)
  BY <1>0
<1>1. us \in Seq(Scopes!Characters) /\ Len(us) = Len(uid) + 1
  <2>1. us \in Seq(Scopes!Characters) /\ Len(us) = Len(uid) + Len(Slash)
    BY <1>u, ConcatProperties
  <2> QED
    BY <1>0, <2>1
<1>2. (other = <<>> => s = <<>> /\ o = <<>>) /\ (other # <<>> => s \o Slash = o)
  BY ScopeIs
<1>3. Scopes!Like(s, Scopes!DescendantsOf(calls, uid)) <=> IsPrefix(Scopes!Folded(c \o us), Scopes!Folded(s))
  <2> DEFINE p == NodePrefix(calls, uid)
  <2>1. p \in Seq(Scopes!Characters) /\ p \o Slash = c \o us /\ Scopes!DescendantsOf(calls, uid) = Scopes!EscapeLikePrefix(p) \o Wildcard
    BY PrefixClosed
  <2> HIDE DEF p, s, c, us
  <2>2. Scopes!Like(s, Scopes!EscapeLikePrefix(p) \o Wildcard) <=> IsPrefix(Scopes!Folded(p \o Slash), Scopes!Folded(s))
    BY <1>0, <2>1, LikeIs
  <2> QED
    BY <2>1, <2>2
<1>4. IsPrefix(s, o)
  <2>1. CASE other = <<>>
    BY <1>0, <1>2, <2>1, PrefixesCompose
  <2>2. CASE other # <<>>
    <3>1. IsPrefix(s, s \o Slash)
      BY <1>0, PrefixesCancel
    <3> QED
      BY <1>2, <2>2, <3>1
  <2> QED
    BY <2>1, <2>2
<1>5. ASSUME n < Len(other), \A i \in 1..n : calls[i] = other[i]
      PROVE  e \in Scopes!Call /\ pe \in Seq(Scopes!Characters) /\ IsPrefix(c \o pe, o) /\ c \o pe \in Seq(Scopes!Characters)
  <2>1. e \in Scopes!Call
    BY <1>5
  <2>2. pe \in Seq(Scopes!Characters)
    BY <2>1, PieceIs
  <2>3. IsPrefix(c \o pe, o)
    BY <1>5, ChainGoesOn
  <2>4. c \o pe \in Seq(Scopes!Characters)
    <3> HIDE DEF c, pe
    <3> QED
      BY <1>0, <2>2, ConcatProperties
  <2> QED
    BY <2>1, <2>2, <2>3, <2>4
<1>6. ASSUME IsPrefix(Scopes!Folded(c \o us), Scopes!Folded(s))
      PROVE  n < Len(other) /\ (\A i \in 1..n : calls[i] = other[i]) /\ e.uid = uid
  <2> DEFINE fc == Scopes!Folded(c)
             fo == Scopes!Folded(o)
             fs == Scopes!Folded(s)
             fu == Scopes!Folded(us)
  <2> HIDE DEF c, o, s, us
  <2>1. c \o us \in Seq(Scopes!Characters) /\ Scopes!Folded(c \o us) = fc \o fu /\ IsPrefix(c, c \o us)
    BY <1>0, <1>1, ConcatProperties, FoldedConcat, PrefixesCancel
  <2>2. /\ fc \in Seq(Scopes!Characters) /\ fo \in Seq(Scopes!Characters) /\ fs \in Seq(Scopes!Characters) /\ fu \in Seq(Scopes!Characters)
        /\ Len(fu) = Len(us)
    BY <1>0, <1>1, FoldedIs
  <2>3. IsPrefix(fs, fo)
    BY <1>0, <1>4, FoldedPrefix
  <2>x. IsPrefix(fc \o fu, fs)
    BY <1>6, <2>1
  <2>f. fu = Scopes!Folded(uid) \o Slash
    <3>1. Scopes!Folded(uid \o Slash) = Scopes!Folded(uid) \o Scopes!Folded(Slash)
      BY <1>u, FoldedConcat
    <3> QED
      BY <1>0, <3>1 DEF us, fu
  <2>o. fo = Scopes!Folded(Closed(other)) /\ fc = Scopes!Folded(Closed(calls))
    BY DEF o, c
  <2> HIDE DEF fc, fo, fs, fu
  <2> DEFINE both == fc \o fu
  <2>4. both \in Seq(Scopes!Characters) /\ IsPrefix(fc, both)
    BY <2>2, ConcatProperties, PrefixesCancel
  <2>b. IsPrefix(both, fs)
    BY <2>x
  <2> HIDE DEF both
  <2>5. IsPrefix(both, fo) /\ IsPrefix(fc, fo)
    BY <2>2, <2>3, <2>4, <2>b, PrefixesCompose
  <2>6. n <= Len(other) /\ \A i \in 1..n : calls[i] = other[i]
    BY <2>5, <2>o, ChainsApart
  <2>7. n # Len(other)
    <3>1. SUFFICES ASSUME n = Len(other) PROVE FALSE
      OBVIOUS
    <3>2. calls = other
      <4>1. Len(calls) = Len(other) /\ \A i \in 1..Len(calls) : calls[i] = other[i]
        BY <2>6, <3>1
      <4> QED
        BY <4>1, SameSequence
    <3>3. fc = fo
      BY <2>o, <3>2
    <3>4. IsPrefix(fc \o fu, fc)
      BY <2>5, <3>3 DEF both
    <3>5. fu = <<>>
      BY <2>2, <3>4, PrefixesCancel
    <3> QED
      BY <1>0, <1>1, <2>2, <3>5
  <2>8. n < Len(other)
    BY <1>0, <2>6, <2>7
  <2>9. e \in Scopes!Call /\ pe \in Seq(Scopes!Characters) /\ IsPrefix(c \o pe, o) /\ c \o pe \in Seq(Scopes!Characters)
    BY <1>5, <2>6, <2>8
  <2> DEFINE fe == Scopes!Folded(pe)
             cpe == c \o pe
  <2>10. IsPrefix(fc \o fe, fo)
    <3>1. IsPrefix(cpe, o) /\ cpe \in Seq(Scopes!Characters)
      BY <2>9
    <3>2. Scopes!Folded(cpe) = fc \o fe
      <4> HIDE DEF pe
      <4> QED
        BY <1>0, <2>9, FoldedConcat DEF fc
    <3> HIDE DEF cpe
    <3>3. IsPrefix(Scopes!Folded(cpe), Scopes!Folded(o))
      BY <1>0, <3>1, FoldedPrefix
    <3> QED
      BY <3>2, <3>3 DEF fo
  <2>11. fe \in Seq(Scopes!Characters)
    <3> HIDE DEF pe
    <3> QED
      BY <2>9, FoldedIs
  <2> DEFINE w == e.name
             rest == Scopes!Folded(w) \o Slash
  <2>12. fe = Scopes!Folded(e.uid) \o (Slash \o rest) /\ e.uid \in Words /\ w \in Words
    BY <2>9, PieceIs
  <2>13. NoSlash(Scopes!Folded(e.uid)) /\ Scopes!Folded(e.uid) \in Seq(Scopes!Characters) /\ Scopes!Folded(w) \in Seq(Scopes!Characters)
    BY <2>12, WordIs
  <2> HIDE DEF fe, w, e, pe
  <2>14. rest \in Seq(Scopes!Characters)
    BY <1>0, <2>13, ConcatProperties
  <2> HIDE DEF rest
  <2>15. IsPrefix(fu, fe) \/ IsPrefix(fe, fu)
    <3> DEFINE more == fc \o fe
    <3>1. more \in Seq(Scopes!Characters) /\ IsPrefix(more, fo)
      <4>1. more \in Seq(Scopes!Characters)
        BY <2>2, <2>11, ConcatProperties
      <4> QED
        BY <2>10, <4>1
    <3> HIDE DEF more
    <3>2. IsPrefix(both, more) \/ IsPrefix(more, both)
      BY <2>2, <2>4, <2>5, <3>1, PrefixesCompose
    <3> QED
      BY <2>2, <2>11, <3>2, PrefixesCancel DEF both, more
  <2> DEFINE a == Scopes!Folded(uid)
             d == Scopes!Folded(e.uid)
  <2>16. a \in Seq(Scopes!Characters) /\ d \in Seq(Scopes!Characters) /\ NoSlash(a) /\ NoSlash(d) /\ <<>> \in Seq(Scopes!Characters)
    BY <1>0, <2>13
  <2>17. fu = a \o (Slash \o <<>>) /\ fe = d \o (Slash \o rest)
    BY <1>0, <2>f, <2>12, ConcatEmptySeq
  <2> HIDE DEF a, d
  <2>18. a = d
    <3>1. CASE IsPrefix(fu, fe)
      <4>1. IsPrefix(a \o (Slash \o <<>>), d \o (Slash \o rest))
        BY <2>17, <3>1
      <4> QED
        BY <2>14, <2>16, <4>1, UntilSlash
    <3>2. CASE IsPrefix(fe, fu)
      <4>1. IsPrefix(d \o (Slash \o rest), a \o (Slash \o <<>>))
        BY <2>17, <3>2
      <4> QED
        BY <2>14, <2>16, <4>1, UntilSlash
    <3> QED
      BY <2>15, <3>1, <3>2
  <2>19. e.uid = uid
    BY <2>12, <2>18 DEF Scopes!WordsAssumption, a, d
  <2> QED
    BY <2>6, <2>8, <2>19
<1>7. ASSUME n < Len(other), \A i \in 1..n : calls[i] = other[i], e.uid = uid
      PROVE  IsPrefix(Scopes!Folded(c \o us), Scopes!Folded(s))
  <2>1. e \in Scopes!Call /\ pe \in Seq(Scopes!Characters) /\ IsPrefix(c \o pe, o) /\ c \o pe \in Seq(Scopes!Characters)
    BY <1>5, <1>7
  <2>2. other # <<>>
    BY <1>0, <1>7
  <2>3. s \o Slash = o
    BY <1>2, <2>2
  <2> DEFINE w == e.name
             ws == w \o Slash
  <2>4. w \in Seq(Scopes!Characters) /\ w # <<>>
    BY <2>1, PieceIs, WordIs
  <2>5. pe = uid \o (Slash \o ws)
    BY <1>7 DEF Piece
  <2> HIDE DEF c, o, s, us, pe, e, w
  <2>6. ws \in Seq(Scopes!Characters) /\ Len(ws) = Len(w) + 1
    <3>1. w \in Seq(Scopes!Characters) /\ Slash \in Seq(Scopes!Characters)
      BY <1>0, <2>4
    <3>2. ws \in Seq(Scopes!Characters) /\ Len(ws) = Len(w) + Len(Slash)
      BY <3>1, ConcatProperties
    <3> QED
      BY <1>0, <3>2
  <2> HIDE DEF ws
  <2>7. pe = us \o ws
    <3>1. (uid \o Slash) \o ws = uid \o (Slash \o ws)
      BY <1>u, <2>6, ConcatAssociative
    <3> QED
      BY <2>5, <3>1 DEF us
  <2> DEFINE cu == c \o us
             cp == c \o pe
  <2>8. IsPrefix(cu, cp)
    <3>1. IsPrefix(us, us \o ws)
      BY <1>1, <2>6, PrefixesCancel
    <3>2. IsPrefix(us, pe)
      BY <2>7, <3>1
    <3> QED
      BY <1>0, <1>1, <2>1, <3>2, PrefixesCancel
  <2>9. cu \in Seq(Scopes!Characters) /\ Len(cu) = Len(c) + Len(us) /\ cp \in Seq(Scopes!Characters) /\ Len(cp) = Len(c) + Len(pe)
        /\ Len(pe) = Len(us) + Len(ws) /\ Len(o) = Len(s) + 1
    <3>1. cu \in Seq(Scopes!Characters) /\ Len(cu) = Len(c) + Len(us)
      BY <1>0, <1>1, ConcatProperties
    <3>2. cp \in Seq(Scopes!Characters) /\ Len(cp) = Len(c) + Len(pe)
      BY <1>0, <2>1, ConcatProperties
    <3>3. Len(pe) = Len(us) + Len(ws)
      <4>1. Len(us \o ws) = Len(us) + Len(ws)
        BY <1>1, <2>6, ConcatProperties
      <4> QED
        BY <2>7, <4>1
    <3>4. Len(o) = Len(s) + 1
      <4>1. Len(s \o Slash) = Len(s) + Len(Slash)
        BY <1>0, ConcatProperties
      <4> QED
        BY <1>0, <2>3, <4>1
    <3> QED
      BY <3>1, <3>2, <3>3, <3>4
  <2>cp. IsPrefix(cp, o)
    BY <2>1
  <2> HIDE DEF cu, cp
  <2>10. IsPrefix(cu, o)
    BY <1>0, <2>8, <2>9, <2>cp, PrefixesCompose
  <2>11. Len(cu) <= Len(s)
    <3>1. Len(cp) <= Len(o)
      BY <1>0, <2>9, <2>cp, PrefixIs
    <3>2. Len(w) \in Nat \ {0} /\ Len(c) \in Nat /\ Len(us) \in Nat /\ Len(s) \in Nat
      BY <1>0, <1>1, <2>4
    <3> QED
      BY <2>6, <2>9, <3>1, <3>2
  <2>12. IsPrefix(cu, s)
    <3>1. \A i \in 1..Len(cu) : cu[i] = o[i]
      <4>1. cu \in Seq(Scopes!Characters) /\ o \in Seq(Scopes!Characters)
        BY <1>0, <2>9
      <4> QED
        BY <2>10, <4>1, PrefixIs
    <3>2. \A i \in 1..Len(s) : s[i] = o[i]
      BY <1>0, <1>4, PrefixIs
    <3>3. \A i \in 1..Len(cu) : cu[i] = s[i]
      <4>1. \A i \in 1..Len(cu) : i \in 1..Len(s)
        BY <1>0, <2>9, <2>11
      <4> QED
        BY <3>1, <3>2, <4>1
    <3> QED
      BY <1>0, <2>9, <2>11, <3>3, PrefixIs
  <2>13. IsPrefix(Scopes!Folded(cu), Scopes!Folded(s))
    BY <1>0, <2>9, <2>12, FoldedPrefix
  <2> QED
    BY <2>13 DEF cu
<1>8. n <= Len(other) => (SubSeq(other, 1, n) = calls <=> \A i \in 1..n : calls[i] = other[i])
  <2>1. SUFFICES ASSUME n <= Len(other) PROVE SubSeq(other, 1, n) = calls <=> \A i \in 1..n : calls[i] = other[i]
    OBVIOUS
  <2> DEFINE b == SubSeq(other, 1, n)
  <2>2. b \in Seq(Scopes!Call) /\ Len(b) = n /\ \A i \in 1..n : b[i] = other[i]
    BY <1>0, <2>1
  <2> HIDE DEF b
  <2>3. ASSUME \A i \in 1..n : calls[i] = other[i] PROVE b = calls
    <3>1. Len(b) = Len(calls) /\ \A i \in 1..Len(b) : b[i] = calls[i]
      BY <2>2, <2>3
    <3> QED
      BY <2>2, <3>1, SameSequence
  <2> QED
    BY <2>2, <2>3 DEF b
<1> HIDE DEF c, o, us, e, pe
<1>9. CASE n < Len(other)
  BY <1>0, <1>3, <1>6, <1>7, <1>8, <1>9 DEF e
<1>10. CASE ~(n < Len(other))
  BY <1>0, <1>3, <1>6, <1>10
<1> QED
  BY <1>9, <1>10

\* Chains of calls are what the two graphs stay.
LEMMA ScopesInduct ==
  ASSUME Scopes!WordsAssumption
  PROVE  Scopes!Spec => [](Scopes!TypeOK /\ Scopes!OneTablePerGraph /\ Scopes!CascadeMatchesDescendants)
<1> DEFINE Chains == here \in Seq(Scopes!Call) /\ there \in Seq(Scopes!Call)
<1>1. Scopes!Init => Chains
  BY DEF Scopes!Init
<1>2. Chains /\ [Scopes!Next]_(Scopes!vars) => Chains'
  <2> SUFFICES ASSUME Chains, [Scopes!Next]_(Scopes!vars) PROVE Chains'
    OBVIOUS
  <2>1. ASSUME NEW c \in Scopes!Call, Scopes!OpenHere(c) PROVE Chains'
    BY <2>1, AppendProperties DEF Scopes!OpenHere
  <2>2. ASSUME NEW c \in Scopes!Call, Scopes!OpenThere(c) PROVE Chains'
    BY <2>2, AppendProperties DEF Scopes!OpenThere
  <2>3. CASE UNCHANGED Scopes!vars
    BY <2>3 DEF Scopes!vars
  <2> QED
    BY <2>1, <2>2, <2>3 DEF Scopes!Next
<1>3. Chains => Scopes!TypeOK /\ Scopes!OneTablePerGraph /\ Scopes!CascadeMatchesDescendants
  <2> SUFFICES ASSUME Chains PROVE Scopes!TypeOK /\ Scopes!OneTablePerGraph /\ Scopes!CascadeMatchesDescendants
    OBVIOUS
  <2>1. Scopes!TypeOK
    <3> DEFINE t == Scopes!TableForScope(Scopes!Scope(here))
    <3>1. t \in Seq(Letters)
      <4> DEFINE s == Scopes!Scope(here)
      <4>1. s \in Seq(Scopes!Characters)
        BY ScopeIs
      <4> HIDE DEF s
      <4>2. Scopes!TableForScope(s) \in Seq(Letters)
        BY <4>1, TableIs
      <4> QED
        BY <4>2 DEF s
    <3>2. Scopes!ToSet(t) \subseteq Letters
      <4> HIDE DEF t
      <4> QED
        BY <3>1 DEF Scopes!ToSet
    <3> QED
      BY <3>2 DEF Scopes!TypeOK
  <2>2. Scopes!OneTablePerGraph
    BY SeparateTables DEF Scopes!OneTablePerGraph
  <2>3. Scopes!CascadeMatchesDescendants
    BY Descends DEF Scopes!CascadeMatchesDescendants
  <2> QED
    BY <2>1, <2>2, <2>3
<1> QED
  BY <1>1, <1>2, <1>3, PTL DEF Scopes!Spec

-----------------------------------------------------------------------------
(* Tags.                                                                    *)

\* Steps that lead into a value.
StepsOfPlaces == {"list", "map"} \X (Names \cup {"0", "1"})

\* A value: leaves, each at a place.
Valued(v) ==
  /\ v = [place \in DOMAIN v |-> v[place]]
  /\ \A place \in DOMAIN v : place \in Seq(StepsOfPlaces) /\ v[place] \in Entries!Leaves

\* Values put into a list or an object are a value.
LEMMA NestedIs ==
  ASSUME NEW parts, DOMAIN parts \subseteq StepsOfPlaces, \A s \in DOMAIN parts : Valued(parts[s])
  PROVE  Valued(Entries!Nested(parts))
<1> DEFINE places == UNION { {<<s>> \o rest : rest \in DOMAIN parts[s]} : s \in DOMAIN parts }
           nested == [place \in places |-> parts[Head(place)][Tail(place)]]
<1>1. Entries!Nested(parts) = nested
  BY DEF Entries!Nested
<1>2. ASSUME NEW place \in places
      PROVE  place \in Seq(StepsOfPlaces) /\ parts[Head(place)][Tail(place)] \in Entries!Leaves
  <2>1. PICK s \in DOMAIN parts : \E rest \in DOMAIN parts[s] : place = <<s>> \o rest
    OBVIOUS
  <2>2. PICK rest \in DOMAIN parts[s] : place = <<s>> \o rest
    BY <2>1
  <2>3. s \in StepsOfPlaces /\ rest \in Seq(StepsOfPlaces) /\ parts[s][rest] \in Entries!Leaves
    BY <2>2 DEF Valued
  <2>4. <<s>> \in Seq(StepsOfPlaces) /\ Len(<<s>>) = 1 /\ <<s>>[1] = s
    BY <2>3
  <2>5. <<s>> \o rest \in Seq(StepsOfPlaces)
    BY <2>3, <2>4, ConcatProperties
  <2>6. Head(<<s>> \o rest) = s /\ Tail(<<s>> \o rest) = rest
    BY <2>3, <2>4
  <2> QED
    BY <2>2, <2>3, <2>5, <2>6
<1> HIDE DEF places
<1>3. DOMAIN nested = places /\ \A place \in places : nested[place] = parts[Head(place)][Tail(place)]
  OBVIOUS
<1>4. nested = [place \in DOMAIN nested |-> nested[place]]
  OBVIOUS
<1> HIDE DEF nested
<1> QED
  BY <1>1, <1>2, <1>3, <1>4 DEF Valued

\* So is a leaf.
LEMMA JustIs ==
  ASSUME NEW leaf \in Entries!Leaves
  PROVE  Valued(Entries!Just(leaf))
<1> DEFINE v == Entries!Just(leaf)
<1>1. DOMAIN v = {<<>>} /\ v[<<>>] = leaf /\ v = [place \in DOMAIN v |-> v[place]]
  BY DEF Entries!Just
<1>2. <<>> \in Seq(StepsOfPlaces)
  OBVIOUS
<1> HIDE DEF v
<1>3. Valued(v)
  BY <1>1, <1>2 DEF Valued
<1> QED
  BY <1>3 DEF v

\* ... and whatever an action makes of the value.
LEMMA BesideIs ==
  ASSUME Valued(value), NEW one \in StepsOfPlaces, NEW two \in StepsOfPlaces,
         NEW v \in Entries!Beside(one, two)
  PROVE  Valued(v)
<1>1. CASE v = Entries!Nested([step \in {one} |-> value])
  <2> DEFINE parts == [step \in {one} |-> value]
  <2>1. DOMAIN parts \subseteq StepsOfPlaces /\ \A s \in DOMAIN parts : Valued(parts[s])
    OBVIOUS
  <2> HIDE DEF parts
  <2>2. Valued(Entries!Nested(parts))
    BY <2>1, NestedIs
  <2> QED
    BY <1>1, <2>2 DEF parts
<1>2. ASSUME NEW other, Valued(other),
             v = Entries!Nested([step \in {one, two} |-> IF step = two THEN value ELSE other])
      PROVE  Valued(v)
  <2> DEFINE parts == [step \in {one, two} |-> IF step = two THEN value ELSE other]
  <2>1. DOMAIN parts \subseteq StepsOfPlaces /\ \A s \in DOMAIN parts : Valued(parts[s])
    BY <1>2
  <2> HIDE DEF parts
  <2>2. Valued(Entries!Nested(parts))
    BY <2>1, NestedIs
  <2> QED
    BY <1>2, <2>2 DEF parts
<1>3. \A other \in {value} \cup {Entries!Just(leaf) : leaf \in Entries!Leaves} : Valued(other)
  BY JustIs
<1> QED
  BY <1>1, <1>2, <1>3 DEF Entries!Beside

\* A leaf comes back from a sandbox as it went in, or as the tag of a reference;
\* writing it back makes it what it was.
LEMMA LeavesReturn ==
  ASSUME NEW v, Valued(v)
  PROVE  /\ Entries!Somewhere("type", Entries!Serialize(v)) = {}
         /\ Entries!Somewhere("tagged", Entries!ThroughSandbox(v)) \subseteq {"DocumentReference"}
         /\ Entries!WrittenBack(Entries!ThroughSandbox(v)) = v
         /\ Entries!ThroughSandbox(Entries!ThroughSandbox(v)) = Entries!ThroughSandbox(v)
         /\ Entries!WrittenBack(v) = v
<1> DEFINE In(leaf) == IF leaf[1] = "type" THEN <<"tagged", leaf[2]>> ELSE leaf
           Out(leaf, firestore) == IF leaf[1] = "tagged" THEN Entries!Rebuilt(leaf[2], firestore) ELSE leaf
           D == DOMAIN v
           in == Entries!Serialize(v)
           out == Entries!ThroughSandbox(v)
<1>1. ASSUME NEW place \in D
      PROVE  \/ \E p \in Plain : v[place] = <<"plain", p>>
             \/ \E t \in Tags : v[place] = <<"type", t>>
  BY DEF Valued, Entries!Leaves
<1>2. in = [place \in D |-> In(v[place])]
  BY DEF Entries!Serialize, Entries!Tagged
<1>3. DOMAIN in = D /\ \A place \in D : in[place] = In(v[place])
  BY <1>2
<1>4. out = [place \in D |-> Out(in[place], FALSE)]
  <2>1. out = Entries!Deserialize(in, FALSE)
    BY DEF Entries!ThroughSandbox
  <2> HIDE DEF in, out
  <2> QED
    BY <1>3, <2>1 DEF Entries!Deserialize
<1>5. DOMAIN out = D /\ \A place \in D : out[place] = Out(In(v[place]), FALSE)
  <2> HIDE DEF in, out, In, Out
  <2>1. DOMAIN out = D /\ \A place \in D : out[place] = Out(in[place], FALSE)
    BY <1>4
  <2> QED
    BY <1>3, <2>1
<1> HIDE DEF in, out
<1>p. \A a, b : <<a, b>>[1] = a /\ <<a, b>>[2] = b
  OBVIOUS
<1>q. \A p : /\ In(<<"plain", p>>) = <<"plain", p>>
             /\ Out(<<"plain", p>>, TRUE) = <<"plain", p>> /\ Out(<<"plain", p>>, FALSE) = <<"plain", p>>
             /\ <<"plain", p>>[1] # "type" /\ <<"plain", p>>[1] # "tagged"
             /\ <<"plain", p>> # <<"type", "DocumentReference">>
  OBVIOUS
<1>r. \A t : /\ In(<<"type", t>>) = <<"tagged", t>> /\ In(<<"tagged", t>>) = <<"tagged", t>>
             /\ Out(<<"type", t>>, TRUE) = <<"type", t>> /\ Out(<<"type", t>>, FALSE) = <<"type", t>>
             /\ Out(<<"tagged", t>>, TRUE) = Entries!Rebuilt(t, TRUE)
             /\ Out(<<"tagged", t>>, FALSE) = Entries!Rebuilt(t, FALSE)
             /\ <<"type", t>>[1] = "type" /\ <<"tagged", t>>[1] = "tagged" /\ <<"tagged", t>>[2] = t
             /\ <<"type", t>> = <<"type", "DocumentReference">> <=> t = "DocumentReference"
  OBVIOUS
<1> HIDE DEF In, Out
<1>6. ASSUME NEW place \in D
      PROVE  /\ in[place][1] # "type"
             /\ out[place] = IF v[place] = <<"type", "DocumentReference">>
                               THEN <<"tagged", "DocumentReference">> ELSE v[place]
  <2>1. CASE \E p \in Plain : v[place] = <<"plain", p>>
    BY <1>3, <1>5, <1>q, <2>1
  <2>2. ASSUME NEW t \in Tags, v[place] = <<"type", t>>
        PROVE  /\ in[place][1] # "type"
               /\ out[place] = IF v[place] = <<"type", "DocumentReference">>
                                 THEN <<"tagged", "DocumentReference">> ELSE v[place]
    <3>1. In(v[place]) = <<"tagged", t>>
      BY <1>r, <2>2
    <3>2. out[place] = Entries!Rebuilt(t, FALSE)
      BY <1>5, <1>r, <3>1
    <3>3. Entries!Rebuilt(t, FALSE) = IF t = "DocumentReference" THEN <<"tagged", t>> ELSE <<"type", t>>
      BY DEF Entries!Rebuilt, Entries!Known, Entries!Tagged
    <3> QED
      <4>1. in[place][1] = "tagged"
        BY <1>3, <1>p, <3>1
      <4> QED
        BY <1>r, <2>2, <3>2, <3>3, <4>1
  <2> QED
    BY <1>1, <2>1, <2>2
<1> DEFINE Returns(place) ==
             /\ Out(out[place], TRUE) = v[place]
             /\ Out(v[place], TRUE) = v[place]
             /\ Out(In(out[place]), FALSE) = out[place]
             /\ out[place][1] = "tagged" => out[place][2] = "DocumentReference"
<1>7. ASSUME NEW place \in D PROVE Returns(place)
  <2>1. CASE \E p \in Plain : v[place] = <<"plain", p>>
    <3>1. out[place] = v[place]
      BY <1>6, <1>q, <2>1
    <3> QED
      BY <1>q, <2>1, <3>1
  <2>2. ASSUME NEW t \in Tags, v[place] = <<"type", t>>, t = "DocumentReference"
        PROVE  Returns(place)
    <3>1. out[place] = <<"tagged", t>>
      BY <1>6, <2>2
    <3>2. Entries!Rebuilt(t, TRUE) = <<"type", t>> /\ Entries!Rebuilt(t, FALSE) = <<"tagged", t>>
      BY <2>2 DEF Entries!Rebuilt, Entries!Known, Entries!Tagged
    <3> QED
      <4>1. Out(out[place], TRUE) = v[place] /\ Out(v[place], TRUE) = v[place]
        BY <1>r, <2>2, <3>1, <3>2
      <4>2. Out(In(out[place]), FALSE) = out[place]
        <5>1. In(out[place]) = <<"tagged", t>>
          BY <1>r, <3>1
        <5>2. Out(<<"tagged", t>>, FALSE) = <<"tagged", t>>
          BY <1>r, <3>2
        <5> QED
          BY <3>1, <5>1, <5>2
      <4>3. out[place][2] = t
        BY <1>r, <3>1
      <4> QED
        BY <2>2, <4>1, <4>2, <4>3
  <2>3. ASSUME NEW t \in Tags, v[place] = <<"type", t>>, t # "DocumentReference"
        PROVE  Returns(place)
    <3>1. out[place] = <<"type", t>>
      BY <1>6, <1>r, <2>3
    <3>2. Entries!Rebuilt(t, TRUE) = <<"type", t>> /\ Entries!Rebuilt(t, FALSE) = <<"type", t>>
      BY <2>3 DEF Entries!Rebuilt, Entries!Known, Entries!Tagged
    <3> QED
      <4>1. Out(out[place], TRUE) = v[place] /\ Out(v[place], TRUE) = v[place]
        BY <1>r, <2>3, <3>1
      <4>2. Out(In(out[place]), FALSE) = out[place]
        <5>1. In(out[place]) = <<"tagged", t>>
          BY <1>r, <3>1
        <5>2. Out(<<"tagged", t>>, FALSE) = <<"type", t>>
          BY <1>r, <3>2
        <5> QED
          BY <3>1, <5>1, <5>2
      <4>3. out[place][1] # "tagged"
        BY <1>p, <3>1
      <4> QED
        BY <4>1, <4>2, <4>3
  <2> QED
    BY <1>1, <2>1, <2>2, <2>3
<1>8. Entries!Somewhere("type", in) = {}
  BY <1>3, <1>6 DEF Entries!Somewhere
<1>9. Entries!Somewhere("tagged", out) \subseteq {"DocumentReference"}
  BY <1>5, <1>7 DEF Entries!Somewhere
<1>10. Entries!WrittenBack(out) = v
  <2>1. Entries!WrittenBack(out) = [place \in D |-> Out(out[place], TRUE)]
    BY <1>5 DEF Entries!WrittenBack, Entries!Deserialize, Out
  <2> QED
    BY <1>7, <2>1 DEF Valued
<1>11. Entries!WrittenBack(v) = v
  <2>1. Entries!WrittenBack(v) = [place \in D |-> Out(v[place], TRUE)]
    BY DEF Entries!WrittenBack, Entries!Deserialize, Out
  <2> QED
    BY <1>7, <2>1 DEF Valued
<1>12. Entries!ThroughSandbox(out) = out
  <2> DEFINE again == Entries!Serialize(out)
  <2>1. again = [place \in D |-> In(out[place])]
    BY <1>5 DEF Entries!Serialize, Entries!Tagged, In
  <2>2. DOMAIN again = D /\ \A place \in D : again[place] = In(out[place])
    BY <2>1
  <2>3. Entries!ThroughSandbox(out) = Entries!Deserialize(again, FALSE)
    BY DEF Entries!ThroughSandbox
  <2> HIDE DEF again
  <2>4. Entries!ThroughSandbox(out) = [place \in D |-> Out(In(out[place]), FALSE)]
    BY <2>2, <2>3 DEF Entries!Deserialize, Out
  <2>5. out = [place \in D |-> out[place]]
    BY <1>4, <1>5
  <2> QED
    BY <1>7, <2>4, <2>5
<1> QED
  BY <1>8, <1>9, <1>10, <1>11, <1>12 DEF in, out

\* Whatever is stored, a migration that returns its input returns it
\* (serialization.ts, sandbox.ts).
LEMMA TagsInduct == Entries!Spec => []Entries!MigratedIsWhatWasStored
<1>1. Entries!Init => Valued(value)
  BY JustIs DEF Entries!Init
<1>2. Valued(value) /\ [Entries!Next]_(Entries!vars) => Valued(value)'
  <2> SUFFICES ASSUME Valued(value), [Entries!Next]_(Entries!vars) PROVE Valued(value')
    BY DEF Valued, Entries!Leaves, StepsOfPlaces
  <2>1. CASE Entries!Register \/ Entries!Extend \/ Entries!AddStep \/ UNCHANGED Entries!vars
    BY <2>1 DEF Entries!Register, Entries!Extend, Entries!AddStep, Entries!vars
  <2>2. CASE Entries!InList
    <3>1. <<"list", "0">> \in StepsOfPlaces /\ <<"list", "1">> \in StepsOfPlaces
      BY DEF StepsOfPlaces
    <3> QED
      BY <2>2, <3>1, BesideIs DEF Entries!InList
  <2>3. CASE Entries!InMap
    <3>1. \A k \in Names : <<"map", k>> \in StepsOfPlaces
      BY DEF StepsOfPlaces
    <3> QED
      BY <2>3, <3>1, BesideIs DEF Entries!InMap
  <2> QED
    BY <2>1, <2>2, <2>3 DEF Entries!Next, Entries!Nest
<1>3. Valued(value) => Entries!MigratedIsWhatWasStored
  BY LeavesReturn DEF Entries!MigratedIsWhatWasStored
<1> QED
  BY <1>1, <1>2, <1>3, PTL DEF Entries!Spec

-----------------------------------------------------------------------------
(* Handles of subgraphs.                                                   *)

\* The segments that are let through, and what places are made of.
GoodRoots == { r \in Roots : Handles!Valid(r) }
GoodSegments == { x \in Passed : Handles!Valid(x) }
Links == GoodSegments \X GoodSegments
Places == {"/", "routed"} \cup UNION { Handles!Range(s) : s \in Roots \cup Passed }

\* A segment that is let through is not empty and has no slash.
LEMMA SegmentIs ==
  ASSUME NEW s \in GoodRoots \cup GoodSegments
  PROVE  s \in Seq(Places) /\ s # <<>> /\ NoSlash(s)
<1>1. s \in Seq(Handles!Range(s)) /\ s \in Roots \cup Passed /\ Handles!Valid(s)
  BY HandlesAssumption DEF Handles!SegmentsAssumption, GoodRoots, GoodSegments
<1>2. Handles!Range(s) \subseteq Places
  BY <1>1 DEF Places
<1>3. s \in Seq(Places)
  BY <1>1, <1>2, SeqMonotonic
<1> QED
  BY <1>1, <1>3 DEF Handles!Valid, Handles!Contains, Handles!Slash, NoSlash

\* What a call adds to a place, a slash behind it.
Link(c) == c[1] \o (Slash \o (c[2] \o Slash))
Spelled(calls) == Scopes!FlattenSeq([i \in DOMAIN calls |-> Link(calls[i])])

\* A call in a spelled chain ends with a slash.
LEMMA LinkIs ==
  ASSUME NEW c \in Links
  PROVE  /\ c[1] \in GoodSegments /\ c[2] \in GoodSegments
         /\ Link(c) \in Seq(Places) /\ Link(c) # <<>>
<1> DEFINE u == c[1]
           n == c[2]
           ns == n \o Slash
           sns == Slash \o ns
<1>1. u \in GoodSegments /\ n \in GoodSegments
  BY DEF Links
<1>2. u \in Seq(Places) /\ n \in Seq(Places) /\ Slash \in Seq(Places) /\ u # <<>>
  <2>1. Slash \in Seq(Places)
    BY DEF Slash, Places
  <2> QED
    BY <1>1, <2>1, SegmentIs
<1> HIDE DEF u, n
<1>3. ns \in Seq(Places)
  BY <1>2, ConcatProperties
<1> HIDE DEF ns
<1>4. sns \in Seq(Places)
  BY <1>2, <1>3, ConcatProperties
<1> HIDE DEF sns
<1>5. u \o sns \in Seq(Places) /\ Len(u \o sns) = Len(u) + Len(sns)
  BY <1>2, <1>4, ConcatProperties
<1>6. Len(u) \in Nat \ {0} /\ Len(sns) \in Nat
  BY <1>2, <1>4
<1>7. u \o sns # <<>>
  BY <1>5, <1>6
<1>8. Link(c) = u \o sns
  BY DEF Link, u, n, ns, sns
<1> QED
  BY <1>1, <1>5, <1>7, <1>8 DEF u, n

\* What a call adds begins like what no other call adds.
LEMMA LinkIsACode ==
  ASSUME NEW c \in Links, NEW e \in Links, IsPrefix(Link(c), Link(e))
  PROVE  c = e
<1> DEFINE cu == c[1]
           cn == c[2]
           eu == e[1]
           en == e[2]
           x == cn \o Slash
           y == en \o Slash
<1>1. /\ cu \in Seq(Places) /\ cn \in Seq(Places) /\ eu \in Seq(Places) /\ en \in Seq(Places)
      /\ NoSlash(cu) /\ NoSlash(cn) /\ NoSlash(eu) /\ NoSlash(en)
  BY LinkIs, SegmentIs
<1>2. c = <<cu, cn>> /\ e = <<eu, en>>
  BY DEF Links
<1>3. IsPrefix(cu \o (Slash \o x), eu \o (Slash \o y))
  BY DEF Link
<1> HIDE DEF cu, cn, eu, en
<1>4. "/" \in Places /\ Slash \in Seq(Places)
  BY DEF Places, Slash
<1>5. x \in Seq(Places) /\ y \in Seq(Places)
  BY <1>1, <1>4, ConcatProperties
<1> HIDE DEF x, y
<1>6. cu = eu /\ IsPrefix(x, y)
  BY <1>1, <1>3, <1>4, <1>5, FirstSlash
<1>7. Slash = Slash \o <<>> /\ <<>> \in Seq(Places)
  BY <1>4, ConcatEmptySeq
<1>8. IsPrefix(cn \o (Slash \o <<>>), en \o (Slash \o <<>>))
  BY <1>6, <1>7 DEF x, y
<1>9. cn = en
  BY <1>1, <1>4, <1>7, <1>8, FirstSlash
<1> QED
  BY <1>2, <1>6, <1>9

\* A chain is spelled link by link.
LEMMA SpelledIs ==
  ASSUME NEW calls \in Seq(Links)
  PROVE  /\ [i \in DOMAIN calls |-> Link(calls[i])] \in Seq(Seq(Places))
         /\ Spelled(calls) \in Seq(Places)
         /\ \A c \in Links : Spelled(Append(calls, c)) = Spelled(calls) \o Link(c)
         /\ Spelled(<<>>) = <<>>
<1> DEFINE P(s) == [i \in DOMAIN s |-> Link(s[i])]
<1>1. ASSUME NEW s \in Seq(Links) PROVE P(s) \in Seq(Seq(Places)) /\ Len(P(s)) = Len(s)
  <2>1. DOMAIN s = 1..Len(s) /\ Len(s) \in Nat /\ \A i \in 1..Len(s) : s[i] \in Links
    OBVIOUS
  <2>2. P(s) \in [1..Len(s) -> Seq(Places)]
    BY <2>1, LinkIs
  <2> HIDE DEF P
  <2> QED
    BY <2>1, <2>2
<1>2. Spelled(calls) \in Seq(Places)
  BY <1>1, FlattenedIn DEF Spelled
<1>3. ASSUME NEW c \in Links PROVE Spelled(Append(calls, c)) = Spelled(calls) \o Link(c)
  <2> DEFINE more == Append(calls, c)
             n == Len(calls)
  <2>1. more \in Seq(Links) /\ Len(more) = n + 1 /\ n \in Nat /\ more[n + 1] = c
        /\ \A i \in 1..n : more[i] = calls[i]
    OBVIOUS
  <2> HIDE DEF more
  <2> DEFINE q == P(calls)
             r == P(more)
  <2>2. q \in Seq(Seq(Places)) /\ Len(q) = n /\ r \in Seq(Seq(Places)) /\ Len(r) = n + 1
    BY <1>1, <2>1
  <2>3. DOMAIN calls = 1..n /\ DOMAIN more = 1..(n + 1)
    BY <2>1
  <2>4. (\A k \in 1..n : q[k] = r[k]) /\ r[n + 1] = Link(c)
    BY <2>1, <2>3
  <2>5. Spelled(calls) = Scopes!FlattenSeq(q) /\ Spelled(more) = Scopes!FlattenSeq(r)
    BY DEF Spelled
  <2> HIDE DEF q, r, n
  <2>6. PICK g \in [0..Len(q) -> Seq(Places)] : Joined(g, q) /\ Scopes!FlattenSeq(q) = g[Len(q)]
    BY <2>2, Flattened
  <2>7. PICK h \in [0..Len(r) -> Seq(Places)] : Joined(h, r) /\ Scopes!FlattenSeq(r) = h[Len(r)]
    BY <2>2, Flattened
  <2>8. Alike(g, h, q, r)
    <3>1. Len(q) \in Nat /\ Len(r) \in Nat /\ Joined(g, q) /\ Joined(h, r)
      BY <2>1, <2>2, <2>6, <2>7
    <3> QED
      BY <3>1, CommonPieces
  <2>9. g[n] = h[n]
    BY <2>1, <2>2, <2>4, <2>8 DEF Alike
  <2>10. h[n + 1] = h[n] \o r[n + 1]
    <3>1. n + 1 \in 1..Len(r) /\ (n + 1) - 1 = n
      BY <2>1, <2>2
    <3> QED
      BY <2>7, <3>1 DEF Joined
  <2> QED
    BY <2>2, <2>4, <2>5, <2>6, <2>7, <2>9, <2>10 DEF more
<1>4. Spelled(<<>>) = <<>>
  <2>1. [i \in DOMAIN (<<>>) |-> Link((<<>>)[i])] = <<>>
    OBVIOUS
  <2> QED
    BY <2>1 DEF Spelled, Scopes!FlattenSeq
<1> QED
  BY <1>1, <1>2, <1>3, <1>4

\* A chain can be read back.
LEMMA SpelledOnce ==
  ASSUME NEW calls \in Seq(Links), NEW other \in Seq(Links), Spelled(calls) = Spelled(other)
  PROVE  calls = other
<1> DEFINE q == [i \in DOMAIN calls |-> Link(calls[i])]
           r == [i \in DOMAIN other |-> Link(other[i])]
<1>1. /\ q \in Seq(Seq(Places)) /\ r \in Seq(Seq(Places))
      /\ Spelled(calls) = Scopes!FlattenSeq(q) /\ Spelled(other) = Scopes!FlattenSeq(r)
  BY SpelledIs DEF Spelled
<1>2. /\ DOMAIN calls = 1..Len(calls) /\ DOMAIN other = 1..Len(other) /\ Len(calls) \in Nat /\ Len(other) \in Nat
      /\ (\A i \in 1..Len(calls) : calls[i] \in Links) /\ (\A i \in 1..Len(other) : other[i] \in Links)
  OBVIOUS
<1>3. Len(q) = Len(calls) /\ Len(r) = Len(other)
  BY <1>2
<1>4. (\A k \in 1..Len(q) : q[k] = Link(calls[k])) /\ (\A k \in 1..Len(r) : r[k] = Link(other[k]))
  BY <1>2, <1>3
<1> HIDE DEF q, r
<1>5. (\A k \in 1..Len(q) : q[k] # <<>>) /\ (\A k \in 1..Len(r) : r[k] # <<>>)
  BY <1>2, <1>3, <1>4, LinkIs
<1>6. ASSUME NEW k \in 1..Len(q), k \in 1..Len(r), IsPrefix(q[k], r[k]) \/ IsPrefix(r[k], q[k])
      PROVE  q[k] = r[k]
  <2>1. calls[k] \in Links /\ other[k] \in Links /\ q[k] = Link(calls[k]) /\ r[k] = Link(other[k])
    BY <1>2, <1>3, <1>4, <1>6
  <2>2. calls[k] = other[k]
    BY <1>6, <2>1, LinkIsACode
  <2> QED
    BY <2>1, <2>2
<1>7. q = r
  BY <1>1, <1>5, <1>6, FlattenInjective
<1>8. ASSUME NEW i \in 1..Len(calls) PROVE calls[i] = other[i]
  <2>1. i \in 1..Len(other) /\ Link(calls[i]) = Link(other[i]) /\ calls[i] \in Links /\ other[i] \in Links
    BY <1>2, <1>3, <1>4, <1>7
  <2>2. Link(calls[i]) \in Seq(Places)
    BY <2>1, LinkIs
  <2>3. IsPrefix(Link(calls[i]), Link(other[i]))
    BY <2>1, <2>2, PrefixesCompose
  <2> QED
    BY <2>1, <2>3, LinkIsACode
<1> QED
  BY <1>3, <1>7, <1>8, SameSequence

\* What a handle is, by the calls that led to it: its place is that of its root
\* and of its chain, in a routed store as soon as a name on the chain is routed.
Elsewhere(calls) == \E i \in 1..Len(calls) : calls[i][2] \in Routed
Rooted(r, calls) == IF Elsewhere(calls) THEN <<"routed">> \o r ELSE r
HandleIs(h) ==
  /\ h.root \in GoodRoots
  /\ h.chain \in Seq(Links)
  /\ h.storage \in Seq(Places) /\ h.store.place \in Seq(Places)
  /\ IF h.chain = <<>> THEN h.storage = <<>> ELSE h.storage # <<>> /\ h.storage \o Slash = Spelled(h.chain)
  /\ h.store.place \o Slash = Rooted(h.root, h.chain) \o (Slash \o Spelled(h.chain))
  /\ h.scope = [i \in DOMAIN h.chain |-> h.chain[i][2]]
  /\ h.store = [caps |-> h.store.caps, place |-> h.store.place]
  /\ h.caps = h.methods

HandlesInv == HandleIs(left) /\ HandleIs(right)

\* Joining to a path that is not empty.
LEMMA JoinIs ==
  ASSUME NEW p \in Seq(Places), NEW s \in Seq(Places)
  PROVE  /\ Handles!Join(p, s) \in Seq(Places)
         /\ Handles!Join(p, s) = IF p = <<>> THEN s ELSE (p \o Slash) \o s
<1>1. Slash \in Seq(Places) /\ p \o <<Handles!Slash>> = p \o Slash
  BY DEF Slash, Handles!Slash, Places
<1>2. p \o Slash \in Seq(Places) /\ (p \o Slash) \o s \in Seq(Places)
  BY <1>1, ConcatProperties
<1>3. Handles!Join(p, s) = IF p = <<>> THEN s ELSE (p \o Slash) \o s
  <2>1. p \o (<<Handles!Slash>> \o s) = (p \o Slash) \o s
    BY <1>1, ConcatAssociative DEF Slash, Handles!Slash
  <2> QED
    BY <2>1, <1>1 DEF Handles!Join
<1> QED
  BY <1>2, <1>3

\* Places put together.
LEMMA Together ==
  ASSUME NEW a \in Seq(Places), NEW b \in Seq(Places), NEW c \in Seq(Places)
  PROVE  /\ a \o b \in Seq(Places) /\ Len(a \o b) = Len(a) + Len(b)
         /\ (a \o b) \o c = a \o (b \o c)
  BY ConcatProperties, ConcatAssociative

\* ... twice, as subgraph() does.
LEMMA JoinTwice ==
  ASSUME NEW p \in Seq(Places), NEW u \in Seq(Places), NEW n \in Seq(Places), u # <<>>
  PROVE  /\ Handles!Join(Handles!Join(p, u), n) \in Seq(Places)
         /\ Handles!Join(Handles!Join(p, u), n) # <<>>
         /\ Handles!Join(Handles!Join(p, u), n) \o Slash
              = IF p = <<>> THEN Link(<<u, n>>) ELSE (p \o Slash) \o Link(<<u, n>>)
<1> DEFINE w == Handles!Join(p, u)
           link == u \o (Slash \o (n \o Slash))
<1>1. w \in Seq(Places) /\ w = IF p = <<>> THEN u ELSE (p \o Slash) \o u
  BY JoinIs
<1>2. Slash \in Seq(Places) /\ p \o Slash \in Seq(Places) /\ n \o Slash \in Seq(Places)
  <2>1. Slash \in Seq(Places)
    BY DEF Slash, Places
  <2> QED
    BY <2>1, ConcatProperties
<1>3. w # <<>>
  <2>1. Len(u) \in Nat \ {0} /\ Len(p \o Slash) \in Nat
    BY <1>2
  <2>2. Len((p \o Slash) \o u) = Len(p \o Slash) + Len(u)
    BY <1>2, ConcatProperties
  <2>3. (p \o Slash) \o u # <<>>
    BY <2>1, <2>2
  <2> QED
    BY <1>1, <2>3
<1> HIDE DEF w
<1>4. /\ Handles!Join(w, n) \in Seq(Places)
      /\ Handles!Join(w, n) = (w \o Slash) \o n
  BY <1>1, <1>3, JoinIs
<1>a. w \o Slash \in Seq(Places) /\ (w \o Slash) \o n \in Seq(Places)
  BY <1>1, <1>2, Together
<1>5. ((w \o Slash) \o n) \o Slash = w \o (Slash \o (n \o Slash))
  <2> DEFINE ws == w \o Slash
             ns == n \o Slash
  <2>1. (ws \o n) \o Slash = ws \o ns
    BY SMTT(30), <1>2, <1>a, Together
  <2> HIDE DEF ns
  <2>2. ws \o ns = w \o (Slash \o ns)
    <3>1. ns \in Seq(Places)
      BY <1>2 DEF ns
    <3>2. w \in Seq(Places)
      BY <1>1
    <3>3. Slash \in Seq(Places)
      BY <1>2
    <3>4. (w \o Slash) \o ns = w \o (Slash \o ns)
      BY SMTT(30), <3>1, <3>2, <3>3, Together
    <3> QED
      BY <3>4
  <2> QED
    BY <2>1, <2>2 DEF ns
<1>b. (w \o Slash) \o n # <<>>
  <2>1. Len(w) \in Nat \ {0} /\ Len(Slash) \in Nat /\ Len(n) \in Nat
    BY <1>1, <1>2, <1>3
  <2>2. Len(w \o Slash) = Len(w) + Len(Slash)
    BY <1>1, <1>2, Together
  <2>3. Len((w \o Slash) \o n) = Len(w \o Slash) + Len(n)
    BY <1>a, Together
  <2>4. Len((w \o Slash) \o n) # 0
    BY <2>1, <2>2, <2>3
  <2> QED
    BY <2>4
<1>6. ((p \o Slash) \o u) \o (Slash \o (n \o Slash)) = (p \o Slash) \o link
  <2> DEFINE ps == p \o Slash
             t == Slash \o (n \o Slash)
  <2>1. t \in Seq(Places) /\ ps \in Seq(Places) /\ link = u \o t
    BY <1>2, Together
  <2> HIDE DEF link, ps, t
  <2>2. (ps \o u) \o t = ps \o (u \o t)
    BY SMTT(30), <2>1, Together
  <2> QED
    BY <2>1, <2>2 DEF ps, t
<1>7. Link(<<u, n>>) = link
  BY DEF Link
<1> HIDE DEF link
<1>8. CASE p = <<>>
  BY <1>1, <1>4, <1>5, <1>7, <1>8, <1>b DEF w, link
<1>9. CASE p # <<>>
  BY <1>1, <1>4, <1>5, <1>6, <1>7, <1>9, <1>b DEF w
<1> QED
  BY <1>8, <1>9, <1>4 DEF w

\* A place begins with its root, which is not empty.
LEMMA RootedIs ==
  ASSUME NEW r \in GoodRoots, NEW calls
  PROVE  Rooted(r, calls) \in Seq(Places) /\ Rooted(r, calls) # <<>> /\ NoSlash(Rooted(r, calls))
<1>1. r \in Seq(Places) /\ r # <<>> /\ NoSlash(r)
  BY SegmentIs
<1> DEFINE mark == <<"routed">>
<1>2. mark \in Seq(Places) /\ Len(mark) = 1 /\ mark[1] = "routed"
  BY DEF Places
<1> HIDE DEF mark
<1>3. /\ mark \o r \in Seq(Places) /\ Len(mark \o r) = 1 + Len(r)
      /\ \A i \in 1..1 + Len(r) : (mark \o r)[i] = IF i <= 1 THEN mark[i] ELSE r[i - 1]
  <2>1. /\ mark \o r \in Seq(Places) /\ Len(mark \o r) = Len(mark) + Len(r)
        /\ \A i \in 1..Len(mark) + Len(r) : (mark \o r)[i] = IF i <= Len(mark) THEN mark[i] ELSE r[i - Len(mark)]
    BY <1>1, <1>2, ConcatProperties
  <2> QED
    BY <1>2, <2>1
<1>4. Len(r) \in Nat
  BY <1>1
<1>5. mark \o r # <<>>
  BY <1>3, <1>4
<1>6. NoSlash(mark \o r)
  <2>1. ASSUME NEW i \in 1..Len(mark \o r) PROVE (mark \o r)[i] # "/"
    <3>1. CASE i = 1
      BY <1>2, <1>3, <1>4, <3>1
    <3>2. CASE i # 1
      <4>1. i - 1 \in 1..Len(r) /\ ~(i <= 1) /\ i \in 1..1 + Len(r)
        BY <1>3, <1>4, <3>2
      <4> QED
        BY <1>1, <1>3, <4>1 DEF NoSlash
    <3> QED
      BY <3>1, <3>2
  <2> QED
    BY <2>1 DEF NoSlash
<1> QED
  BY <1>1, <1>3, <1>5, <1>6 DEF Rooted, mark

\* A call goes on from its handle.
LEMMA ChildIs ==
  ASSUME NEW h, HandleIs(h), NEW uid \in GoodSegments, NEW name \in GoodSegments
  PROVE  HandleIs(Handles!Child(h, uid, name))
<1> DEFINE c == <<uid, name>>
           calls == Append(h.chain, c)
           storage == Handles!Join(Handles!Join(h.storage, uid), name)
           store == IF name \in Routed THEN Handles!Route(h.root, storage, name)
                    ELSE Handles!Below(h.store, uid, name)
           child == Handles!Child(h, uid, name)
           spelled == Spelled(h.chain)
           more == Spelled(calls)
           link == Link(c)
<1>1. /\ h.root \in GoodRoots /\ h.chain \in Seq(Links)
      /\ h.storage \in Seq(Places) /\ h.store.place \in Seq(Places)
      /\ IF h.chain = <<>> THEN h.storage = <<>> ELSE h.storage # <<>> /\ h.storage \o Slash = spelled
      /\ h.store.place \o Slash = Rooted(h.root, h.chain) \o (Slash \o spelled)
      /\ h.scope = [i \in DOMAIN h.chain |-> h.chain[i][2]]
      /\ h.store = [caps |-> h.store.caps, place |-> h.store.place]
  BY DEF HandleIs
<1>2. c \in Links
  BY DEF Links
<1>3. uid \in Seq(Places) /\ name \in Seq(Places) /\ uid # <<>>
  BY SegmentIs
<1>4. /\ calls \in Seq(Links) /\ calls # <<>> /\ Len(calls) = Len(h.chain) + 1 /\ Len(h.chain) \in Nat
      /\ DOMAIN calls = 1..(Len(h.chain) + 1) /\ DOMAIN h.chain = 1..Len(h.chain)
      /\ calls[Len(h.chain) + 1] = c /\ \A i \in 1..Len(h.chain) : calls[i] = h.chain[i]
  <2> HIDE DEF c
  <2> DEFINE s == h.chain
  <2>1. s \in Seq(Links)
    BY <1>1
  <2> HIDE DEF s
  <2>2. /\ Append(s, c) \in Seq(Links) /\ Append(s, c) # <<>> /\ Len(Append(s, c)) = Len(s) + 1 /\ Len(s) \in Nat
        /\ DOMAIN Append(s, c) = 1..(Len(s) + 1) /\ DOMAIN s = 1..Len(s)
        /\ Append(s, c)[Len(s) + 1] = c /\ \A i \in 1..Len(s) : Append(s, c)[i] = s[i]
    BY <1>2, <2>1
  <2> QED
    BY <2>2 DEF s
<1>5. /\ spelled \in Seq(Places) /\ more = spelled \o link /\ link \in Seq(Places)
      /\ more \in Seq(Places)
      /\ h.chain = <<>> => spelled = <<>>
  BY <1>1, <1>2, <1>4, SpelledIs, LinkIs
<1>6. /\ child.root = h.root /\ child.chain = calls /\ child.storage = storage
      /\ child.store = store /\ child.scope = Append(h.scope, name)
      /\ child.caps = store.caps /\ child.methods = store.caps \cap store.caps
  BY DEF Handles!Child, Handles!Wrap
<1>7. Slash \in Seq(Places)
  BY DEF Slash, Places
<1> HIDE DEF c, calls, child, spelled, more, link
<1>8. storage \in Seq(Places) /\ storage # <<>> /\ storage \o Slash = more
  <2>1. /\ storage \in Seq(Places) /\ storage # <<>>
        /\ storage \o Slash = IF h.storage = <<>> THEN Link(<<uid, name>>) ELSE (h.storage \o Slash) \o Link(<<uid, name>>)
    BY <1>1, <1>3, JoinTwice
  <2>2. CASE h.chain = <<>>
    <3>1. more = link
      BY <1>5, <2>2, ConcatEmptySeq
    <3> QED
      BY <1>1, <2>1, <2>2, <3>1 DEF link, c
  <2>3. CASE h.chain # <<>>
    BY <1>1, <1>5, <2>1, <2>3 DEF link, c
  <2> QED
    BY <2>1, <2>2, <2>3
<1> HIDE DEF storage
<1>9. Rooted(h.root, h.chain) \in Seq(Places) /\ Rooted(h.root, h.chain) # <<>>
  BY <1>1, RootedIs
<1>10. ASSUME name \in Routed
       PROVE  /\ store = [caps |-> store.caps, place |-> store.place]
              /\ store.place \in Seq(Places)
              /\ store.place \o Slash = Rooted(h.root, calls) \o (Slash \o more)
  <2>1. Elsewhere(calls)
    <3>1. Len(h.chain) + 1 \in 1..Len(calls) /\ calls[Len(h.chain) + 1][2] = name
      BY <1>4 DEF c
    <3> QED
      BY <1>10, <3>1 DEF Elsewhere
  <2>2. Rooted(h.root, calls) = <<"routed">> \o h.root
    BY <2>1 DEF Rooted
  <2>3. Rooted(h.root, calls) \in Seq(Places)
    BY <1>1, RootedIs
  <2> DEFINE top == Rooted(h.root, calls)
             at == (top \o Slash) \o storage
  <2>4. store = [caps |-> RoutedCaps, place |-> at]
    <3>2. ((<<"routed">> \o h.root) \o <<Handles!Slash>>) \o storage = (top \o Slash) \o storage
      BY <2>2 DEF Slash, Handles!Slash
    <3> QED
      BY <1>10, <3>2 DEF Handles!Route
  <2> HIDE DEF top
  <2>5. top \in Seq(Places) /\ top \o Slash \in Seq(Places) /\ at \in Seq(Places)
    <3>1. top \in Seq(Places)
      BY <2>3 DEF top
    <3>2. top \o Slash \in Seq(Places)
      BY <1>7, <3>1, Together
    <3>3. storage \in Seq(Places)
      BY <1>8
    <3>4. at \in Seq(Places)
      BY <3>2, <3>3, Together
    <3> QED
      BY <3>1, <3>2, <3>4
  <2>6. at \o Slash = (top \o Slash) \o (storage \o Slash)
    <3>1. storage \in Seq(Places)
      BY <1>8
    <3>2. top \o Slash \in Seq(Places)
      BY <2>5
    <3> QED
      BY <1>7, <3>1, <3>2, Together
  <2>7. at \o Slash = top \o (Slash \o more)
    <3>1. top \in Seq(Places)
      BY <2>5
    <3>2. more \in Seq(Places)
      BY <1>5
    <3>3. (top \o Slash) \o more = top \o (Slash \o more)
      BY <1>7, <3>1, <3>2, Together
    <3> QED
      BY <1>8, <2>6, <3>3
  <2> HIDE DEF at, store
  <2> QED
    BY <2>4, <2>5, <2>7 DEF top
<1>11. ASSUME name \notin Routed
       PROVE  /\ store = [caps |-> store.caps, place |-> store.place]
              /\ store.place \in Seq(Places)
              /\ store.place \o Slash = Rooted(h.root, calls) \o (Slash \o more)
  <2> DEFINE at == Handles!Join(Handles!Join(h.store.place, uid), name)
             top == Rooted(h.root, h.chain)
  <2>1. store = [caps |-> h.store.caps, place |-> at]
    <3>1. [h.store EXCEPT !.place = at] = [caps |-> h.store.caps, place |-> at]
      BY <1>1
    <3> QED
      BY <1>11, <3>1 DEF Handles!Below
  <2>2. h.store.place # <<>>
    <3>1. Len(h.store.place \o Slash) = Len(h.store.place) + 1 /\ Len(h.store.place) \in Nat
      BY <1>1, <1>7, Together DEF Slash
    <3>2. Slash \o spelled \in Seq(Places) /\ Len(Slash \o spelled) = 1 + Len(spelled) /\ Len(spelled) \in Nat
      <4>1. Len(Slash) = 1 /\ Len(spelled) \in Nat
        BY <1>5 DEF Slash
      <4>2. Slash \o spelled \in Seq(Places) /\ Len(Slash \o spelled) = Len(Slash) + Len(spelled)
        <5>1. spelled \in Seq(Places)
          BY <1>5
        <5> QED
          BY <1>7, <5>1, Together
      <4> QED
        BY <4>1, <4>2
    <3>3. Len(top \o (Slash \o spelled)) = Len(top) + (1 + Len(spelled)) /\ Len(top) \in Nat \ {0}
      <4>1. top \in Seq(Places) /\ top # <<>>
        BY <1>9
      <4> HIDE DEF top
      <4> DEFINE rest == Slash \o spelled
      <4>2. rest \in Seq(Places) /\ Len(rest) = 1 + Len(spelled)
        BY <3>2
      <4> HIDE DEF rest
      <4>3. Len(top \o rest) = Len(top) + Len(rest)
        BY <4>1, <4>2, Together
      <4> QED
        BY <4>1, <4>2, <4>3 DEF rest
    <3>4. Len(h.store.place) # 0
      BY <1>1, <3>1, <3>2, <3>3
    <3> QED
      BY <3>4
  <2>3. /\ at \in Seq(Places)
        /\ at \o Slash = (h.store.place \o Slash) \o link
    BY <1>1, <1>3, <2>2, JoinTwice DEF link, c
  <2>4. Elsewhere(calls) <=> Elsewhere(h.chain)
    <3>1. Len(calls) = Len(h.chain) + 1 /\ calls[Len(h.chain) + 1][2] = name
      BY <1>4 DEF c
    <3>2. ASSUME Elsewhere(calls) PROVE Elsewhere(h.chain)
      <4>1. PICK i \in 1..Len(calls) : calls[i][2] \in Routed
        BY <3>2 DEF Elsewhere
      <4>2. i \in 1..Len(h.chain)
        BY <1>4, <1>11, <3>1, <4>1
      <4> QED
        BY <1>4, <4>1, <4>2 DEF Elsewhere
    <3>3. ASSUME Elsewhere(h.chain) PROVE Elsewhere(calls)
      <4>1. PICK i \in 1..Len(h.chain) : h.chain[i][2] \in Routed
        BY <3>3 DEF Elsewhere
      <4>2. i \in 1..Len(calls) /\ calls[i] = h.chain[i]
        BY <1>4, <4>1
      <4> QED
        BY <4>1, <4>2 DEF Elsewhere
    <3> QED
      BY <3>2, <3>3
  <2>5. Rooted(h.root, calls) = top
    BY <2>4 DEF Rooted
  <2> HIDE DEF top, at
  <2>6. top \in Seq(Places)
    BY <1>9 DEF top
  <2>7. (top \o (Slash \o spelled)) \o link = top \o (Slash \o more)
    <3>a. spelled \in Seq(Places) /\ link \in Seq(Places) /\ spelled \o link = more
      BY <1>5
    <3> DEFINE rest == Slash \o spelled
    <3>1. rest \in Seq(Places)
      BY <1>7, <3>a, Together
    <3>3. rest \o link = Slash \o (spelled \o link)
      BY <1>7, <3>a, Together
    <3> HIDE DEF rest
    <3>2. (top \o rest) \o link = top \o (rest \o link)
      BY <2>6, <3>1, <3>a, Together
    <3> QED
      BY <3>a, <3>2, <3>3 DEF rest
  <2>8. h.store.place \o Slash = top \o (Slash \o spelled)
    BY <1>1 DEF top
  <2> HIDE DEF store
  <2>9. store.place = at /\ store = [caps |-> store.caps, place |-> store.place]
    BY <2>1
  <2> QED
    BY <2>3, <2>5, <2>7, <2>8, <2>9
<1> HIDE DEF store
<1>12. Append(h.scope, name) = [i \in DOMAIN calls |-> calls[i][2]]
  <2> DEFINE s == [i \in 1..Len(h.chain) |-> h.chain[i][2]]
             t == [i \in 1..(Len(h.chain) + 1) |-> calls[i][2]]
  <2>1. ASSUME NEW i \in 1..Len(h.chain) PROVE h.chain[i][2] \in GoodSegments
    <3>1. h.chain[i] \in Links
      BY <1>1
    <3> QED
      BY <3>1 DEF Links
  <2>2. s \in Seq(GoodSegments) /\ Len(s) = Len(h.chain) /\ h.scope = s
    <3>1. s \in [1..Len(h.chain) -> GoodSegments]
      BY <2>1
    <3>2. h.scope = s
      BY <1>1, <1>4
    <3> HIDE DEF s
    <3> QED
      BY <1>4, <3>1, <3>2
  <2>3. t \in Seq(GoodSegments) /\ Len(t) = Len(h.chain) + 1
    <3>1. \A i \in 1..(Len(h.chain) + 1) : calls[i][2] \in GoodSegments
      <4>1. \A i \in 1..(Len(h.chain) + 1) : calls[i] \in Links
        BY <1>4
      <4> QED
        BY <4>1 DEF Links
    <3>2. t \in [1..(Len(h.chain) + 1) -> GoodSegments]
      BY <3>1
    <3> HIDE DEF t
    <3> QED
      BY <1>4, <3>2
  <2>4. /\ Append(s, name) \in Seq(GoodSegments) /\ Len(Append(s, name)) = Len(h.chain) + 1
        /\ \A i \in 1..Len(h.chain) + 1 : Append(s, name)[i] = IF i <= Len(h.chain) THEN s[i] ELSE name
    <3> HIDE DEF s
    <3> QED
      BY <1>4, <2>2, AppendProperties
  <2>5. ASSUME NEW i \in 1..Len(t) PROVE Append(s, name)[i] = t[i]
    <3>1. i \in 1..(Len(h.chain) + 1)
      BY <2>3
    <3>2. CASE i <= Len(h.chain)
      <4>1. i \in 1..Len(h.chain)
        BY <1>4, <3>1, <3>2
      <4>2. Append(s, name)[i] = s[i]
        BY <2>4, <3>1, <3>2
      <4>3. s[i] = h.chain[i][2] /\ t[i] = calls[i][2] /\ calls[i] = h.chain[i]
        BY <1>4, <3>1, <4>1
      <4> QED
        BY <4>2, <4>3
    <3>3. CASE ~(i <= Len(h.chain))
      <4>1. i = Len(h.chain) + 1
        BY <1>4, <3>1, <3>3
      <4>2. Append(s, name)[i] = name
        BY <2>4, <3>1, <3>3
      <4>3. t[i] = calls[i][2] /\ calls[i][2] = name
        BY <1>4, <3>1, <4>1 DEF c
      <4> QED
        BY <4>2, <4>3
    <3> QED
      BY <3>2, <3>3
  <2>6. Append(s, name) = t
    <3> HIDE DEF s, t
    <3> QED
      BY <2>3, <2>4, <2>5, SameSequence
  <2> QED
    BY <1>4, <2>2, <2>6
<1>13. /\ store = [caps |-> store.caps, place |-> store.place]
       /\ store.place \in Seq(Places)
       /\ store.place \o Slash = Rooted(h.root, calls) \o (Slash \o more)
  BY <1>10, <1>11
<1>14. calls # <<>>
  BY <1>4
<1>15. /\ child.root \in GoodRoots
       /\ child.chain \in Seq(Links)
       /\ child.storage \in Seq(Places) /\ child.store.place \in Seq(Places)
       /\ child.storage # <<>> /\ child.storage \o Slash = Spelled(child.chain) /\ child.chain # <<>>
       /\ child.store.place \o Slash = Rooted(child.root, child.chain) \o (Slash \o Spelled(child.chain))
       /\ child.scope = [i \in DOMAIN child.chain |-> child.chain[i][2]]
       /\ child.store = [caps |-> child.store.caps, place |-> child.store.place]
       /\ child.caps = child.methods
  BY <1>1, <1>4, <1>6, <1>8, <1>12, <1>13 DEF more
<1>16. HandleIs(child)
  BY <1>15 DEF HandleIs
<1> QED
  BY <1>16 DEF child

\* Handles begin and go on as HandleIs says.
LEMMA HandlesInduct == Handles!Spec => []HandlesInv
<1>1. Handles!Init => HandlesInv
  <2> SUFFICES ASSUME NEW r \in GoodRoots, NEW declared PROVE HandleIs(Handles!RootHandle(r, declared))
    BY DEF Handles!Init, HandlesInv, GoodRoots
  <2> DEFINE h == Handles!RootHandle(r, declared)
             caps == IF declared THEN BaseCaps \cap RoutedCaps ELSE BaseCaps
  <2>1. /\ h.root = r /\ h.chain = <<>> /\ h.storage = <<>> /\ h.scope = <<>>
        /\ h.store = [caps |-> BaseCaps, place |-> r]
        /\ h.caps = caps /\ h.methods = BaseCaps \cap caps
    BY DEF Handles!RootHandle, Handles!Wrap, Handles!Base
  <2>2. BaseCaps \cap caps = caps
    OBVIOUS
  <2> HIDE DEF h, caps
  <2>3. r \in Seq(Places)
    BY SegmentIs
  <2>4. Rooted(r, <<>>) = r
    BY DEF Rooted, Elsewhere
  <2>5. Slash \o Spelled(<<>>) = Slash
    <3>1. <<>> \in Seq(Links)
      OBVIOUS
    <3>2. Spelled(<<>>) = <<>>
      BY <3>1, SpelledIs
    <3>3. Slash \in Seq(Places)
      BY DEF Slash, Places
    <3> QED
      BY <3>2, <3>3, ConcatEmptySeq
  <2>6. <<>> \in Seq(Links) /\ <<>> \in Seq(Places) /\ <<>> = [i \in DOMAIN (<<>>) |-> (<<>>)[i][2]]
    OBVIOUS
  <2>7. h.store.place = r /\ h.store = [caps |-> h.store.caps, place |-> h.store.place]
    BY <2>1
  <2> QED
    BY <2>1, <2>2, <2>3, <2>4, <2>5, <2>6, <2>7 DEF HandleIs, h
<1>2. HandlesInv /\ [Handles!Next]_(Handles!vars) => HandlesInv'
  <2> SUFFICES ASSUME HandlesInv, [Handles!Next]_(Handles!vars) PROVE HandlesInv'
    OBVIOUS
  <2>1. ASSUME NEW h, HandleIs(h), NEW x \in Handles!Opened(h) PROVE HandleIs(x)
    <3>1. PICK uid \in GoodSegments, name \in GoodSegments : x = Handles!Child(h, uid, name)
      BY DEF Handles!Opened, GoodSegments
    <3> QED
      BY <2>1, <3>1, ChildIs
  <2>2. CASE Handles!OpenLeft
    BY <2>1, <2>2 DEF Handles!OpenLeft, HandlesInv, HandleIs
  <2>3. CASE Handles!OpenRight
    BY <2>1, <2>3 DEF Handles!OpenRight, HandlesInv, HandleIs
  <2>4. CASE UNCHANGED Handles!vars
    BY <2>4 DEF Handles!vars, HandlesInv, HandleIs
  <2> QED
    BY <2>2, <2>3, <2>4 DEF Handles!Next
<1> QED
  BY <1>1, <1>2, PTL DEF Handles!Spec

\* A place tells its root and its chain.
LEMMA PlaceTells ==
  ASSUME NEW h, NEW k, HandleIs(h), HandleIs(k), h.store.place = k.store.place
  PROVE  h.root = k.root /\ h.chain = k.chain
<1> DEFINE hs == Spelled(h.chain)
           ks == Spelled(k.chain)
           hr == Rooted(h.root, h.chain)
           kr == Rooted(k.root, k.chain)
<1>1. /\ h.root \in GoodRoots /\ k.root \in GoodRoots /\ h.chain \in Seq(Links) /\ k.chain \in Seq(Links)
      /\ hr \o (Slash \o hs) = kr \o (Slash \o ks)
  BY DEF HandleIs
<1>2. hs \in Seq(Places) /\ ks \in Seq(Places)
  BY <1>1, SpelledIs
<1>3. /\ hr \in Seq(Places) /\ NoSlash(hr) /\ kr \in Seq(Places) /\ NoSlash(kr)
  BY <1>1, RootedIs
<1> HIDE DEF hs, ks, hr, kr
<1>4. "/" \in Places /\ Slash \in Seq(Places)
  BY DEF Places, Slash
<1>5. hr \o (Slash \o hs) \in Seq(Places)
  <2>1. Slash \o hs \in Seq(Places)
    BY <1>2, <1>4, Together
  <2> QED
    BY <1>3, <2>1, ConcatProperties
<1>6. IsPrefix(hr \o (Slash \o hs), kr \o (Slash \o ks)) /\ IsPrefix(kr \o (Slash \o ks), hr \o (Slash \o hs))
  BY <1>1, <1>5, PrefixesCompose
<1>7. IsPrefix(hs, ks) /\ hr = kr
  BY <1>2, <1>3, <1>4, <1>6, FirstSlash
<1>8. IsPrefix(ks, hs)
  BY <1>2, <1>3, <1>4, <1>6, FirstSlash
<1>9. hs = ks
  BY <1>2, <1>7, <1>8, PrefixesCompose
<1>10. h.chain = k.chain
  BY <1>1, <1>9, SpelledOnce DEF hs, ks
<1>11. h.root = k.root
  <2>1. CASE Elsewhere(h.chain)
    <3> DEFINE mark == <<"routed">>
               a == h.root
               b == k.root
    <3>1. hr = mark \o a
      BY <2>1 DEF hr, Rooted
    <3>2. kr = mark \o b
      BY <1>10, <2>1 DEF kr, Rooted
    <3>3. mark \in Seq(Places)
      BY DEF Places
    <3>4. a \in Seq(Places) /\ b \in Seq(Places)
      BY <1>1, SegmentIs
    <3> HIDE DEF mark, a, b
    <3>5. mark \o a = mark \o b
      BY <1>7, <3>1, <3>2
    <3>6. a = b
      BY <3>3, <3>4, <3>5, PrefixesCancel
    <3> QED
      BY <3>6 DEF a, b
  <2>2. CASE ~Elsewhere(h.chain)
    BY <1>7, <1>10, <2>2 DEF hr, kr, Rooted
  <2> QED
    BY <2>1, <2>2
<1> QED
  BY <1>10, <1>11

\* ... and they tell the place.
LEMMA ChainTells ==
  ASSUME NEW h, NEW k, HandleIs(h), HandleIs(k), h.root = k.root, h.chain = k.chain
  PROVE  h.store.place = k.store.place
<1> DEFINE p == h.store.place
           q == k.store.place
<1>1. p \in Seq(Places) /\ q \in Seq(Places) /\ p \o Slash = q \o Slash
  BY DEF HandleIs
<1> HIDE DEF p, q
<1>2. Slash \in Seq(Places) /\ Len(Slash) = 1
  BY DEF Slash, Places
<1> DEFINE ps == p \o Slash
           qs == q \o Slash
<1>3. /\ ps = qs /\ Len(ps) = Len(p) + 1 /\ Len(qs) = Len(q) + 1
      /\ (\A i \in 1..Len(p) : ps[i] = p[i]) /\ (\A i \in 1..Len(q) : qs[i] = q[i])
  <2>1. /\ Len(ps) = Len(p) + Len(Slash) /\ Len(qs) = Len(q) + Len(Slash)
        /\ (\A i \in 1..Len(p) + Len(Slash) : ps[i] = IF i <= Len(p) THEN p[i] ELSE Slash[i - Len(p)])
        /\ (\A i \in 1..Len(q) + Len(Slash) : qs[i] = IF i <= Len(q) THEN q[i] ELSE Slash[i - Len(q)])
    BY <1>1, <1>2, ConcatProperties
  <2>2. Len(p) \in Nat /\ Len(q) \in Nat
    BY <1>1
  <2> HIDE DEF ps, qs
  <2> QED
    BY <1>1, <1>2, <2>1, <2>2 DEF ps, qs
<1> HIDE DEF ps, qs
<1>4. Len(p) = Len(q)
  <2>1. Len(p) \in Nat /\ Len(q) \in Nat
    BY <1>1
  <2> QED
    BY <1>3, <2>1
<1>5. p = q
  BY <1>1, <1>3, <1>4, SameSequence
<1> QED
  BY <1>5 DEF p, q

\* What the two handles are makes the three properties hold.
LEMMA HandlesAre ==
  ASSUME HandlesInv
  PROVE  Handles!OneStorePerGraph /\ Handles!ScopeIsLogical /\ Handles!CapabilitiesMeanMethods
<1>1. HandleIs(left) /\ HandleIs(right)
  BY DEF HandlesInv
<1>2. Handles!OneStorePerGraph
  BY <1>1, PlaceTells, ChainTells DEF Handles!OneStorePerGraph
<1>3. Handles!ScopeIsLogical /\ Handles!CapabilitiesMeanMethods
  BY <1>1 DEF Handles!ScopeIsLogical, Handles!CapabilitiesMeanMethods, HandleIs
<1> QED
  BY <1>2, <1>3

-----------------------------------------------------------------------------
(* What backends promise.                                                   *)

Hosts == [host : BOOLEAN, enterprise : BOOLEAN]
PromisesInv ==
  /\ env \in Hosts
  /\ handle = root
  /\ root = Promises!NoHandle \/ root \in Promises!Backends

\* The five kinds of backend; a pipeline is only asked for where it runs.
LEMMA BackendsAre ==
  ASSUME env \in Hosts, NEW b \in Promises!Backends
  PROVE  \/ b = Promises!Standard
         \/ b = Promises!Local
         \/ \E mode \in {"pipeline", "classic"}, dml \in BOOLEAN :
              b = Promises!Enterprise(mode, dml) /\ (mode = "pipeline" => Promises!PipelinesRun)
         \/ \E transactional \in BOOLEAN : b = Promises!Sqlite(transactional)
         \/ \E missing \in Unforwarded : b = Promises!Object(missing)
<1>1. ASSUME NEW asked \in {"pipeline", "classic"}
      PROVE  /\ Promises!EffectiveMode(asked) \in {"pipeline", "classic"}
             /\ Promises!EffectiveMode(asked) = "pipeline" => Promises!PipelinesRun
  BY DEF Promises!EffectiveMode, Promises!PipelinesRun, Hosts
<1> QED
  BY <1>1 DEF Promises!Backends

\* A subgraph's backend is its parent's.
LEMMA ChildIsSame ==
  ASSUME env \in Hosts, NEW b \in Promises!Backends
  PROVE  Promises!Child(b) = b
<1>1. CASE b = Promises!Standard \/ b = Promises!Local
  BY <1>1 DEF Promises!Standard, Promises!Local, Promises!Made, Promises!Child
<1>2. ASSUME NEW mode, NEW dml, b = Promises!Enterprise(mode, dml) PROVE Promises!Child(b) = b
  <2>1. b.kind = "enterprise" /\ b.settings = <<mode, dml>>
    BY <1>2 DEF Promises!Enterprise, Promises!Made
  <2>2. Promises!Child(b) = Promises!Enterprise(b.settings[1], b.settings[2])
    BY <2>1 DEF Promises!Child
  <2> QED
    BY <1>2, <2>1, <2>2
<1>3. ASSUME NEW t, b = Promises!Sqlite(t) PROVE Promises!Child(b) = b
  <2>1. b.kind = "sqlite" /\ b.settings = t
    BY <1>3 DEF Promises!Sqlite, Promises!Made
  <2>2. Promises!Child(b) = Promises!Sqlite(b.settings)
    BY <2>1 DEF Promises!Child
  <2> QED
    BY <1>3, <2>1, <2>2
<1>4. ASSUME NEW m, b = Promises!Object(m) PROVE Promises!Child(b) = b
  <2>1. b.kind = "object" /\ b.settings = m
    BY <1>4 DEF Promises!Object, Promises!Made
  <2>2. Promises!Child(b) = Promises!Object(b.settings)
    BY <2>1 DEF Promises!Child
  <2> QED
    BY <1>4, <2>1, <2>2
<1> QED
  BY <1>1, <1>2, <1>3, <1>4, BackendsAre

\* Every backend is one of those that can be created, and a subgraph is like its root.
LEMMA PromisesInduct == Promises!Spec => []PromisesInv
<1>1. Promises!Init => PromisesInv
  BY DEF Promises!Init, PromisesInv, Hosts
<1>2. PromisesInv /\ [Promises!Next]_(Promises!vars) => PromisesInv'
  <2> SUFFICES ASSUME PromisesInv, [Promises!Next]_(Promises!vars) PROVE PromisesInv'
    OBVIOUS
  <2>1. ASSUME env' = env PROVE Promises!Backends' = Promises!Backends
    BY <2>1 DEF Promises!Backends, Promises!EffectiveMode
  <2>2. CASE Promises!Create
    BY <2>1, <2>2 DEF Promises!Create, PromisesInv
  <2>3. CASE Promises!Subgraph
    BY <2>1, <2>3, ChildIsSame DEF Promises!Subgraph, PromisesInv
  <2>4. ASSUME UNCHANGED Promises!promiseVars PROVE PromisesInv'
    BY <2>1, <2>4 DEF Promises!promiseVars, PromisesInv
  <2>5. ASSUME NEW k \in Factories, NEW d, NEW connection, NEW options,
               Promises!Factory(k, d, connection, options)
        PROVE  PromisesInv'
    BY <2>4, <2>5 DEF Promises!Factory
  <2>6. CASE Promises!OpenAndClose
    BY <2>4, <2>5, <2>6 DEF Promises!OpenAndClose, Promises!Close, Promises!OpenPath, Promises!Wrap,
         Promises!CallerOpens, Promises!CallerCloses
  <2>7. CASE UNCHANGED Promises!vars
    BY <2>4, <2>7 DEF Promises!vars
  <2> QED
    BY <2>2, <2>3, <2>6, <2>7 DEF Promises!Next, Promises!Derive
<1> QED
  BY <1>1, <1>2, PTL DEF Promises!Spec

\* What each kind declares and has.
Declares(b, op) == Promises!Promise(op) \in b.caps
Has(b, op) == op \in DOMAIN b.methods

\* Backend by backend: what is declared is there, and what is not is refused.
LEMMA StandardIs ==
  ASSUME NEW b, b = Promises!Standard
  PROVE  /\ \A op \in Promises!Gated : Declares(b, op) <=> Has(b, op)
         /\ \A op \in {"query", "expand"} : Has(b, op) /\ b.methods[op] = "classic"
         /\ ~Declares(b, "runEngineTraversal") /\ b.kind = "standard"
  BY DEF Promises!Standard, Promises!Made, Promises!StandardCaps, Promises!StandardMethods, Promises!Core,
       Promises!Gated, Promises!Promise, Declares, Has

\* The local backend adds search to the SQLite backend.
LEMMA LocalIs ==
  ASSUME NEW b, b = Promises!Local
  PROVE  /\ \A op \in Promises!Gated : Declares(b, op) <=> Has(b, op)
         /\ \A op \in {"query", "expand"} : Has(b, op) /\ b.methods[op] = "sql"
         /\ ~Declares(b, "runEngineTraversal") /\ b.kind = "local"
  BY DEF Promises!Local, Promises!Made, Promises!LocalCaps, Promises!LocalMethods, Promises!Core,
       Promises!SqliteCaps, Promises!SqlCaps, Promises!SqliteMethods, Promises!SqlMethods, Promises!WithOp,
       Promises!Gated, Promises!Promise, Declares, Has

\* The SQLite backend, with transactions or without.
LEMMA SqliteIs ==
  ASSUME NEW transactional \in BOOLEAN, NEW b, b = Promises!Sqlite(transactional)
  PROVE  /\ \A op \in Promises!Gated : Declares(b, op) <=> Has(b, op)
         /\ \A op \in {"query", "expand"} : Has(b, op) /\ b.methods[op] = "sql"
         /\ ~Declares(b, "runEngineTraversal") /\ b.kind = "sqlite"
  BY DEF Promises!Sqlite, Promises!Made, Promises!Core,
       Promises!SqliteCaps, Promises!SqlCaps, Promises!SqliteMethods, Promises!SqlMethods, Promises!WithOp,
       Promises!Gated, Promises!Promise, Declares, Has

\* The client of a Durable Object, whatever its stub forwards.
LEMMA ObjectIs ==
  ASSUME NEW missing, NEW b, b = Promises!Object(missing)
  PROVE  /\ \A op \in Promises!Gated : Has(b, op) => Declares(b, op)
         /\ missing = {} => \A op \in Promises!Gated : Declares(b, op) => Has(b, op)
         /\ \A op \in {"query", "expand"} : Has(b, op) => b.methods[op] = "sql"
         /\ missing = {} => Has(b, "query") /\ Has(b, "expand")
         /\ ~Declares(b, "runEngineTraversal") /\ b.kind = "object" /\ b.settings = missing
  BY DEF Promises!Object, Promises!Made, Promises!Core, Promises!SqlCaps, Promises!ObjectMethods,
       Promises!SqlMethods, Promises!Gated, Promises!Promise, Declares, Has

\* The Enterprise edition, in both modes.
LEMMA EnterpriseIs ==
  ASSUME NEW mode, NEW dml \in BOOLEAN, NEW b, b = Promises!Enterprise(mode, dml)
  PROVE  /\ \A op \in Promises!Gated : Has(b, op)
         /\ \A op \in Promises!Gated : Declares(b, op) \/ Promises!Promise(op) = "query.dml"
         /\ \A op \in {"query", "expand"} : Has(b, op) /\ b.methods[op] = mode
         /\ Declares(b, "expand") /\ b.kind = "enterprise"
  BY DEF Promises!Enterprise, Promises!Made, Promises!EnterpriseCaps, Promises!EnterpriseMethods,
       Promises!StandardCaps, Promises!Core, Promises!Gated, Promises!Promise, Declares, Has

\* What all of them have in common.
Unless(b) == b.kind = "object" => b.settings = {}
TrueToWord(b) ==
  /\ \A op \in Promises!Gated : Declares(b, op) /\ Unless(b) => Has(b, op)
  /\ \A op \in Promises!Gated :
       Declares(b, op) \/ ~Has(b, op) \/ (b.kind = "enterprise" /\ Promises!Promise(op) = "query.dml")
  /\ \A op \in {"query", "expand"} :
       Has(b, op) /\ b.methods[op] = "pipeline" => Promises!PipelinesRun
  /\ Unless(b) => Has(b, "query") /\ Has(b, "expand")
  /\ Declares(b, "runEngineTraversal") => Declares(b, "expand")

\* Every backend that can be created keeps its promises.
LEMMA PromisesKept ==
  ASSUME env \in Hosts, NEW b \in Promises!Backends
  PROVE  TrueToWord(b)
<1>1. CASE b = Promises!Standard
  BY <1>1, StandardIs DEF TrueToWord, Unless, Declares, Has
<1>2. CASE b = Promises!Local
  BY <1>2, LocalIs DEF TrueToWord, Unless, Declares, Has
<1>3. ASSUME NEW transactional \in BOOLEAN, b = Promises!Sqlite(transactional) PROVE TrueToWord(b)
  BY <1>3, SqliteIs DEF TrueToWord, Unless, Declares, Has
<1>4. ASSUME NEW missing \in Unforwarded, b = Promises!Object(missing) PROVE TrueToWord(b)
  BY <1>4, ObjectIs DEF TrueToWord, Unless, Declares, Has
<1>5. ASSUME NEW mode \in {"pipeline", "classic"}, NEW dml \in BOOLEAN, b = Promises!Enterprise(mode, dml),
             mode = "pipeline" => Promises!PipelinesRun
      PROVE  TrueToWord(b)
  BY <1>5, EnterpriseIs DEF TrueToWord, Unless, Declares, Has
<1> QED
  BY <1>1, <1>2, <1>3, <1>4, <1>5, BackendsAre

\* So every promise is kept.
LEMMA PromisesAre ==
  ASSUME PromisesInv
  PROVE  /\ Promises!DeclaredIsThere /\ Promises!UndeclaredIsRefused /\ Promises!ReadsRunHere
         /\ Promises!TraversalsAreAnswered /\ Promises!SubgraphsKeepTheirWord
<1>1. Promises!SubgraphsKeepTheirWord
  BY DEF PromisesInv, Promises!SubgraphsKeepTheirWord
<1>2. SUFFICES ASSUME handle # Promises!NoHandle
               PROVE  /\ Promises!DeclaredIsThere /\ Promises!UndeclaredIsRefused
                      /\ Promises!ReadsRunHere /\ Promises!TraversalsAreAnswered
  BY <1>1 DEF Promises!DeclaredIsThere, Promises!UndeclaredIsRefused, Promises!ReadsRunHere,
              Promises!TraversalsAreAnswered
<1>3. env \in Hosts /\ handle \in Promises!Backends
  BY <1>2 DEF PromisesInv
<1>4. TrueToWord(handle)
  BY <1>3, PromisesKept
<1>5. Promises!DeclaredIsThere
  BY <1>4 DEF TrueToWord, Unless, Has, Declares, Promises!DeclaredIsThere, Promises!Whole, Promises!Supports,
              Promises!Outcome
<1>6. Promises!UndeclaredIsRefused
  BY <1>4 DEF TrueToWord, Has, Declares, Promises!UndeclaredIsRefused, Promises!Supports, Promises!Outcome
<1>7. Promises!ReadsRunHere
  BY <1>4 DEF TrueToWord, Has, Promises!ReadsRunHere, Promises!Outcome
<1>8. Promises!TraversalsAreAnswered
  <2>1. SUFFICES ASSUME Unless(handle)
                 PROVE  \E way \in Promises!Tried(handle) : Promises!Outcome(handle, way) = "runs"
    BY DEF Promises!TraversalsAreAnswered, Promises!Whole, Unless
  <2>2. \A way \in {"query", "expand"} : Promises!Outcome(handle, way) = "runs"
    BY <1>4, <2>1 DEF TrueToWord, Has, Promises!Outcome
  <2>3. "expand" \in Promises!Tried(handle) \/ "query" \in Promises!Tried(handle)
    BY DEF Promises!Tried
  <2> QED
    BY <2>2, <2>3
<1> QED
  BY <1>1, <1>5, <1>6, <1>7, <1>8

-----------------------------------------------------------------------------
(* Local databases.                                                         *)

Pragmas == [DOMAIN Promises!Unset -> Promises!Settings]
Progress == [pragmas : Pragmas, failed : BOOLEAN]

\* Applying pragmas goes over them once.
Applying(g, list, pragmas) ==
  /\ g[0] = [pragmas |-> pragmas, failed |-> FALSE]
  /\ \A k \in 1..Len(list) : g[k] = Promises!Apply(g[k - 1], list[k])

\* One pragma.
LEMMA ApplyIs ==
  ASSUME NEW s \in Progress, NEW p \in STRING \X Promises!Settings
  PROVE  Promises!Apply(s, p) \in Progress
  BY DEF Promises!Apply, Progress, Pragmas

\* Pragmas are applied one after the other.
LEMMA AppliedRuns ==
  ASSUME NEW pragmas \in Pragmas, NEW list \in Seq(STRING \X Promises!Settings)
  PROVE  \E g \in [0..Len(list) -> Progress] :
           Applying(g, list, pragmas) /\ Promises!Applied(pragmas, list) = g[Len(list)]
<1> DEFINE n == Len(list)
           T == Progress
           first == [pragmas |-> pragmas, failed |-> FALSE]
           step == [k \in 1..n |-> [s \in T |-> Promises!Apply(s, list[k])]]
<1>0. n \in Nat /\ \A k \in 1..n : list[k] \in STRING \X Promises!Settings
  OBVIOUS
<1>1. first \in T
  BY DEF Progress
<1>2. \A k \in 1..n : step[k] \in [T -> T]
  BY <1>0, ApplyIs
<1>3. PICK g \in [0..n -> T] : Goes(g, n, first, step)
  <2> HIDE DEF n, T, step, first
  <2> QED
    BY <1>0, <1>1, <1>2, Recursion, Zenon
<1>4. \A k \in 1..n : k - 1 \in 0..n /\ g[k - 1] \in T
  <2> HIDE DEF n, T, step
  <2> QED
    BY <1>0
<1>5. g[0] = first /\ \A k \in 1..n : g[k] = Promises!Apply(g[k - 1], list[k])
  <2>1. g[0] = first /\ \A k \in 1..n : g[k] = step[k][g[k - 1]]
    BY <1>3 DEF Goes
  <2>2. \A k \in 1..n, s \in T : step[k][s] = Promises!Apply(s, list[k])
    OBVIOUS
  <2> HIDE DEF n, T, step, first
  <2> QED
    BY <1>4, <2>1, <2>2
<1> HIDE DEF n, T, step
<1> DEFINE F(f) == [j \in 0..n |-> IF j = 0 THEN first ELSE Promises!Apply(f[j - 1], list[j])]
           f == CHOOSE f : f = F(f)
<1>6. g = F(g)
  <2>1. ASSUME NEW j \in 0..n PROVE g[j] = IF j = 0 THEN first ELSE Promises!Apply(g[j - 1], list[j])
    BY <1>0, <1>5
  <2> QED
    BY <2>1
<1>7. f = F(f)
  BY <1>6
<1>8. Promises!Applied(pragmas, list) = f[n]
  BY DEF Promises!Applied, n
<1> HIDE DEF f, first
<1>9. \A j \in 0..n : f[j] = IF j = 0 THEN first ELSE Promises!Apply(f[j - 1], list[j])
  BY <1>7
<1> DEFINE I == {k \in Nat : k <= n => f[k] = g[k]}
<1>10. 0 \in I
  BY <1>0, <1>5, <1>9
<1>11. ASSUME NEW k \in I PROVE k + 1 \in I
  <2>0. k \in Nat /\ k + 1 \in Nat /\ (k + 1) - 1 = k /\ k + 1 # 0
    OBVIOUS
  <2>1. SUFFICES ASSUME k + 1 <= n PROVE f[k + 1] = g[k + 1]
    BY <2>0
  <2>2. k + 1 \in 0..n /\ k + 1 \in 1..n /\ f[k] = g[k]
    BY <1>0, <1>11, <2>0, <2>1
  <2>3. f[k + 1] = Promises!Apply(f[k], list[k + 1])
    BY <1>9, <2>0, <2>2
  <2>4. g[k + 1] = Promises!Apply(g[k], list[k + 1])
    BY <1>5, <2>0, <2>2
  <2> QED
    BY <2>2, <2>3, <2>4
<1>12. I = Nat
  <2> HIDE DEF I
  <2>1. I \in SUBSET Nat
    BY DEF I
  <2> QED
    BY <1>10, <1>11, <2>1, Induction
<1>13. f[n] = g[n]
  BY <1>0, <1>12
<1> QED
  BY <1>5, <1>8, <1>13 DEF Applying, n, T, first

\* What a caller may ask of a connection.
Asked == Seq(STRING \X Promises!Settings)
Named(list, n, key) == \E i \in 1..n : list[i][1] = key
Tells(s, list, n, before) ==
  ~s.failed =>
    \A key \in DOMAIN Promises!Unset :
      IF Named(list, n, key) THEN \E i \in 1..n : list[i] = <<key, s.pragmas[key]>>
      ELSE s.pragmas[key] = before[key]

\* The last pragma of a name that was not refused is in force, and so is what was
\* there before where none was named.
LEMMA AppliedTells ==
  ASSUME NEW before \in Pragmas, NEW list \in Asked
  PROVE  /\ Promises!Applied(before, list) \in Progress
         /\ Tells(Promises!Applied(before, list), list, Len(list), before)
<1>1. PICK g \in [0..Len(list) -> Progress] :
        Applying(g, list, before) /\ Promises!Applied(before, list) = g[Len(list)]
  BY AppliedRuns DEF Asked
<1> DEFINE I == {k \in Nat : k <= Len(list) => Tells(g[k], list, k, before)}
<1>2. Len(list) \in Nat /\ \A k \in 1..Len(list) : list[k] \in STRING \X Promises!Settings
  BY DEF Asked
<1>3. 0 \in I
  <2>1. g[0].pragmas = before
    BY <1>1 DEF Applying
  <2> QED
    BY <2>1 DEF Tells, Named
<1>4. ASSUME NEW k \in I PROVE k + 1 \in I
  <2>0. k \in Nat /\ k + 1 \in Nat /\ (k + 1) - 1 = k
    OBVIOUS
  <2>1. SUFFICES ASSUME k + 1 <= Len(list), ~g[k + 1].failed,
                        NEW key \in DOMAIN Promises!Unset
                 PROVE  IF Named(list, k + 1, key)
                        THEN \E i \in 1..k + 1 : list[i] = <<key, g[k + 1].pragmas[key]>>
                        ELSE g[k + 1].pragmas[key] = before[key]
    BY <2>0 DEF Tells
  <2> DEFINE s == g[k]
             t == g[k + 1]
             p == list[k + 1]
  <2>2. k \in 0..Len(list) /\ k + 1 \in 1..Len(list) /\ k + 1 \in 0..Len(list)
    BY <1>2, <2>0, <2>1
  <2>3. s \in Progress /\ t = Promises!Apply(s, p) /\ p \in STRING \X Promises!Settings
    BY <1>1, <1>2, <2>0, <2>2 DEF Applying
  <2>4. Tells(s, list, k, before)
    BY <1>2, <1>4, <2>1, <2>2
  <2>5. ~t.failed
    BY <2>1
  <2> HIDE DEF s, t, p
  <2>6. ~s.failed /\ t = [s EXCEPT !.pragmas[p[1]] = p[2]]
    <3>1. CASE s.failed \/ p[2] = Promises!Invalid
      <4>1. t.failed = TRUE
        BY <2>3, <3>1 DEF Promises!Apply, Progress
      <4> QED
        BY <2>5, <4>1
    <3>2. CASE ~(s.failed \/ p[2] = Promises!Invalid)
      BY <2>3, <3>2 DEF Promises!Apply
    <3> QED
      BY <3>1, <3>2
  <2>7. t.pragmas[key] = IF p[1] = key THEN p[2] ELSE s.pragmas[key]
    BY <2>3, <2>6 DEF Progress, Pragmas
  <2>8. CASE p[1] = key
    <3>1. p = <<key, t.pragmas[key]>>
      BY <2>3, <2>7, <2>8
    <3>2. k + 1 \in 1..k + 1
      BY <2>0
    <3> QED
      BY <3>1, <3>2, <2>8 DEF Named, p, t
  <2>9. CASE p[1] # key
    <3>1. Named(list, k + 1, key) <=> Named(list, k, key)
      <4>1. \A i \in 1..k + 1 : i \in 1..k \/ i = k + 1
        BY <2>0
      <4>2. \A i \in 1..k : i \in 1..k + 1
        BY <2>0
      <4> QED
        BY <2>9, <4>1, <4>2 DEF Named, p
    <3>2. \A i \in 1..k : i \in 1..k + 1
      BY <2>0
    <3>3. t.pragmas[key] = s.pragmas[key]
      BY <2>7, <2>9
    <3>4. IF Named(list, k, key) THEN \E i \in 1..k : list[i] = <<key, s.pragmas[key]>>
          ELSE s.pragmas[key] = before[key]
      BY <2>4, <2>6 DEF Tells
    <3> QED
      BY <3>1, <3>2, <3>3, <3>4 DEF t
  <2> QED
    BY <2>8, <2>9
<1>5. I = Nat
  <2> HIDE DEF I
  <2>1. I \in SUBSET Nat
    BY DEF I
  <2> QED
    BY <1>3, <1>4, <2>1, Induction
<1> QED
  BY <1>1, <1>2, <1>5

\* What a connection has that one backend opened and no other factory touched.
Defaults == [journal_mode |-> "wal", busy_timeout |-> "5000"]
AsAsked(list, pragmas) ==
  \A key \in DOMAIN Promises!Unset :
    IF Named(list, Len(list), key) THEN \E i \in 1..Len(list) : list[i] = <<key, pragmas[key]>>
    ELSE pragmas[key] = Defaults[key]

LocalTypes ==
  /\ db \in [Databases -> Promises!Connections \cup {nothing}]
  /\ backend \in [Factories -> Promises!Opened \cup {nothing}]
Connected(k) ==
  backend[k] # nothing =>
    LET d == db[backend[k].db]
    IN  /\ d # nothing /\ d.functions = Promises!Functions /\ k \in d.by
        /\ d.owner = k /\ d.by = {k} => AsAsked(backend[k].options.pragmas, d.pragmas)
ClosedRight(d) ==
  db[d] # nothing =>
    /\ db[d].closedBy \in {<<>>, <<db[d].owner>>}
    /\ db[d].closedBy # <<>> /\ db[d].owner \in Factories =>
         LET b == backend[db[d].owner] IN b # nothing /\ b.db = d /\ b.closed
LocalsInv ==
  /\ LocalTypes
  /\ \A k \in Factories : Connected(k)
  /\ \A d \in Databases : ClosedRight(d)

\* Connections, field by field.
LEMMA UnsetIs ==
  /\ DOMAIN Promises!Unset = {"journal_mode", "busy_timeout"}
  /\ Pragmas = [DOMAIN Promises!Unset -> Promises!Settings]
  /\ Promises!Unset \in Pragmas
<1>1. DOMAIN Promises!Unset = {"journal_mode", "busy_timeout"}
  BY DEF Promises!Unset
<1>2. Pragmas = [DOMAIN Promises!Unset -> Promises!Settings]
  BY <1>1 DEF Pragmas
<1>3. Promises!Unset \in [{"journal_mode", "busy_timeout"} -> Promises!Settings]
  BY DEF Promises!Unset, Promises!Settings
<1> QED
  BY <1>1, <1>2, <1>3

\* Setting one pragma.
LEMMA PragmaSet ==
  ASSUME NEW p \in Pragmas, NEW v \in Promises!Settings
  PROVE  /\ [p EXCEPT !.busy_timeout = v] \in Pragmas
         /\ [p EXCEPT !.journal_mode = v] \in Pragmas
         /\ [p EXCEPT !.journal_mode = v].journal_mode = v
         /\ [p EXCEPT !.busy_timeout = v].busy_timeout = v
         /\ [p EXCEPT !.busy_timeout = v].journal_mode = p.journal_mode
<1>1. p \in [{"journal_mode", "busy_timeout"} -> Promises!Settings]
  BY UnsetIs
<1>2. Pragmas = [{"journal_mode", "busy_timeout"} -> Promises!Settings]
  BY UnsetIs
<1> QED
  BY <1>1, <1>2

\* A connection that was just opened.
LEMMA FreshConnection ==
  ASSUME NEW owner \in Factories \cup {Caller}, NEW p \in Pragmas
  PROVE  LET c == Promises!Connection(owner, p)
         IN  /\ c \in Promises!Connections /\ c.owner = owner /\ c.pragmas = p
             /\ c.by = {} /\ c.closedBy = <<>>
<1>1. <<>> \in Seq(Factories \cup {Caller})
  OBVIOUS
<1>2. {} \in {{}, Promises!Functions} /\ {} \in SUBSET Factories
  OBVIOUS
<1>3. p \in [DOMAIN Promises!Unset -> Promises!Settings]
  BY UnsetIs
<1> QED
  BY <1>1, <1>2, <1>3 DEF Promises!Connection, Promises!Connections

\* What a factory makes of a connection.
LEMMA ConfiguredIs ==
  ASSUME NEW k \in Factories, NEW connection \in Promises!Connections, NEW options \in Options
  PROVE  LET result == Promises!Configured(k, connection, options)
         IN  /\ result.connection \in Promises!Connections
             /\ result.connection.owner = connection.owner
             /\ result.connection.closedBy = connection.closedBy
             /\ result.connection.by = connection.by \cup {k}
             /\ connection.functions = Promises!Functions
                  => result.connection.functions = Promises!Functions
             /\ ~result.throws =>
                  /\ result.connection.functions = Promises!Functions
                  /\ connection.pragmas.journal_mode = "wal"
                       => AsAsked(options.pragmas, result.connection.pragmas)
<1> DEFINE before == [connection.pragmas EXCEPT !.busy_timeout = "5000"]
           list == options.pragmas
           tuned == Promises!Applied(before, list)
           result == Promises!Configured(k, connection, options)
<1>1. connection.pragmas \in Pragmas /\ before \in Pragmas
  <2>1. connection.pragmas \in Pragmas
    BY UnsetIs DEF Promises!Connections
  <2>2. "5000" \in Promises!Settings
    BY DEF Promises!Settings
  <2> QED
    BY <2>1, <2>2, PragmaSet DEF before
<1>2. list \in Asked
  BY PromisesAssumption DEF Promises!PromisesAssumption, Asked
<1> HIDE DEF before, list
<1>3. tuned \in Progress /\ Tells(tuned, list, Len(list), before)
  BY <1>1, <1>2, AppliedTells
<1>4. Promises!Tuned(connection.pragmas, options) = tuned
  BY DEF Promises!Tuned, before, list
<1> HIDE DEF tuned
<1>5. /\ result.throws = (tuned.failed \/ options.conflict)
      /\ result.connection = [connection EXCEPT !.pragmas = tuned.pragmas, !.by = @ \cup {k},
                                !.functions = IF tuned.failed THEN @ ELSE Promises!Registered(@)]
  BY <1>4 DEF Promises!Configured
<1>6. tuned.failed \in BOOLEAN /\ tuned.pragmas \in Pragmas
  BY <1>3 DEF Progress
<1>7. Promises!Registered(connection.functions) = Promises!Functions
  BY DEF Promises!Registered, Promises!Connections
<1> HIDE DEF result
<1> DEFINE c == result.connection
<1>8. /\ c.owner = connection.owner /\ c.closedBy = connection.closedBy /\ c.pragmas = tuned.pragmas
      /\ c.by = connection.by \cup {k}
      /\ c.functions = IF tuned.failed THEN connection.functions ELSE Promises!Functions
      /\ c = [owner |-> c.owner, pragmas |-> c.pragmas, functions |-> c.functions,
              by |-> c.by, closedBy |-> c.closedBy]
  BY <1>5, <1>7 DEF Promises!Connections
<1> HIDE DEF c
<1>9. c \in Promises!Connections
  <2>1. /\ c.owner \in Factories \cup {Caller} /\ c.closedBy \in Seq(Factories \cup {Caller})
        /\ c.by \in SUBSET Factories /\ c.functions \in {{}, Promises!Functions}
        /\ c.pragmas \in [DOMAIN Promises!Unset -> Promises!Settings]
    BY <1>6, <1>8, UnsetIs DEF Promises!Connections
  <2> QED
    BY <1>8, <2>1 DEF Promises!Connections
<1>10. ASSUME ~tuned.failed, connection.pragmas.journal_mode = "wal"
       PROVE  AsAsked(list, tuned.pragmas)
  <2>1. \A key \in DOMAIN Promises!Unset : before[key] = Defaults[key]
    BY <1>10 DEF Promises!Unset, before, Defaults, Promises!Connections
  <2> QED
    BY <1>3, <1>10, <2>1 DEF Tells, AsAsked
<1> QED
  BY <1>5, <1>6, <1>8, <1>9, <1>10 DEF result, list, c

\* A step of a factory.
LEMMA FactoryKeeps ==
  ASSUME LocalsInv, NEW k \in Factories, NEW d \in Databases, NEW connection \in Promises!Connections,
         NEW options \in Options, Promises!Factory(k, d, connection, options),
         connection.closedBy = <<>>,
         \/ db[d] = nothing /\ connection.by = {} /\ connection.pragmas.journal_mode = "wal"
         \/ /\ db[d] = connection
            /\ connection.owner = Caller \/ (\E j \in Factories : backend[j] # nothing /\ backend[j].db = d)
  PROVE  LocalsInv'
<1> DEFINE result == Promises!Configured(k, connection, options)
           c == result.connection
           b == [db |-> d, closed |-> FALSE, options |-> options]
<1>1. /\ c \in Promises!Connections /\ c.owner = connection.owner /\ c.closedBy = connection.closedBy
      /\ c.by = connection.by \cup {k}
      /\ connection.functions = Promises!Functions => c.functions = Promises!Functions
      /\ ~result.throws =>
           /\ c.functions = Promises!Functions
           /\ connection.pragmas.journal_mode = "wal" => AsAsked(options.pragmas, c.pragmas)
  BY ConfiguredIs
<1>2. /\ backend[k] = nothing /\ db' = [db EXCEPT ![d] = c]
      /\ backend' = IF result.throws THEN backend ELSE [backend EXCEPT ![k] = b]
  BY DEF Promises!Factory
<1> HIDE DEF result, c
<1>3. b \in Promises!Opened /\ b # nothing /\ c # nothing
  <2>1. b \in Promises!Opened
    BY DEF Promises!Opened
  <2>2. nothing \notin Promises!Connections \cup Promises!Opened
    BY PromisesAssumption DEF Promises!PromisesAssumption
  <2> QED
    BY <1>1, <2>1, <2>2
<1> HIDE DEF b
<1>4. LocalTypes'
  BY <1>1, <1>2, <1>3 DEF LocalsInv, LocalTypes
<1>5. /\ db'[d] = c /\ \A e \in Databases : e # d => db'[e] = db[e]
      /\ \A j \in Factories : j # k => backend'[j] = backend[j]
      /\ backend'[k] = IF result.throws THEN nothing ELSE b
  BY <1>2 DEF LocalsInv, LocalTypes
<1>6. \A j \in Factories : backend[j] # nothing => backend[j].db \in Databases
  BY DEF LocalsInv, LocalTypes, Promises!Opened
<1>7. ASSUME NEW j \in Factories, j # k PROVE Connected(j)'
  <2>1. SUFFICES ASSUME backend[j] # nothing PROVE Connected(j)'
    BY <1>5, <1>7 DEF Connected
  <2>2. Connected(j) /\ backend[j].db \in Databases
    BY <1>6, <2>1 DEF LocalsInv
  <2>3. CASE backend[j].db # d
    BY <1>5, <1>7, <2>2, <2>3 DEF Connected
  <2>4. CASE backend[j].db = d
    <3>1. db[d] # nothing /\ db[d].functions = Promises!Functions /\ j \in db[d].by
      BY <2>1, <2>2, <2>4 DEF Connected
    <3>2. db[d] = connection
      <4>1. db[d] # nothing
        BY <3>1
      <4> QED
        BY <4>1
    <3>3. k \in c.by /\ j \in connection.by /\ connection.functions = Promises!Functions
      BY <1>1, <3>1, <3>2
    <3>4. c.functions = Promises!Functions /\ j \in c.by /\ c.by # {j}
      <4>1. c.functions = Promises!Functions /\ c.by = connection.by \cup {k} /\ j # k
        BY <1>1, <1>7, <3>3
      <4> QED
        BY <3>3, <4>1
    <3> QED
      BY <1>3, <1>5, <1>7, <2>4, <3>4 DEF Connected
  <2> QED
    BY <2>3, <2>4
<1>8. Connected(k)'
  <2>1. SUFFICES ASSUME ~result.throws PROVE Connected(k)'
    BY <1>5 DEF Connected
  <2>2. backend'[k] = b /\ b.db = d /\ b.options = options
    BY <1>5, <2>1 DEF b
  <2>3. c.functions = Promises!Functions /\ k \in c.by
    BY <1>1, <2>1
  <2>4. ASSUME c.owner = k, c.by = {k} PROVE AsAsked(options.pragmas, c.pragmas)
    <3>1. CASE db[d] = nothing
      <4>1. nothing \notin Promises!Connections
        BY PromisesAssumption DEF Promises!PromisesAssumption
      <4>2. connection.pragmas.journal_mode = "wal"
        BY <3>1, <4>1
      <4> QED
        BY <1>1, <2>1, <4>2
    <3>2. CASE db[d] # nothing
      <4>1. connection.owner = k /\ k # Caller /\ db[d] = connection
        BY <1>1, <2>4, <3>2, PromisesAssumption DEF Promises!PromisesAssumption
      <4>2. PICK j \in Factories : backend[j] # nothing /\ backend[j].db = d
        BY <3>2, <4>1
      <4>3. j # k /\ j \in connection.by
        BY <1>2, <4>1, <4>2 DEF LocalsInv, Connected
      <4> QED
        BY <1>1, <2>4, <4>3
    <3> QED
      BY <3>1, <3>2
  <2> QED
    BY <1>3, <1>5, <2>2, <2>3, <2>4 DEF Connected
<1>9. ASSUME NEW e \in Databases PROVE ClosedRight(e)'
  <2>1. CASE e = d
    <3>1. c.closedBy = <<>>
      BY <1>1
    <3> QED
      BY <1>5, <2>1, <3>1 DEF ClosedRight
  <2>2. CASE e # d
    <3>1. ClosedRight(e) /\ db'[e] = db[e]
      BY <1>5, <2>2 DEF LocalsInv
    <3>2. ASSUME db[e] # nothing, db[e].closedBy # <<>>, db[e].owner \in Factories
          PROVE  backend'[db[e].owner] = backend[db[e].owner]
      <4>1. backend[db[e].owner] # nothing
        BY <3>1, <3>2 DEF ClosedRight
      <4> QED
        BY <1>2, <1>5, <3>2, <4>1
    <3> QED
      BY <3>1, <3>2 DEF ClosedRight
  <2> QED
    BY <2>1, <2>2
<1> QED
  BY <1>4, <1>7, <1>8, <1>9 DEF LocalsInv

\* close() of a backend.
LEMMA CloseKeeps ==
  ASSUME LocalsInv, NEW k \in Factories, Promises!Close(k)
  PROVE  LocalsInv'
<1> DEFINE b == backend[k]
           d == b.db
           owned == db[d].owner = k
           closes == ~b.closed /\ owned
<1>1. /\ b # nothing /\ b \in Promises!Opened /\ d \in Databases /\ b.closed \in BOOLEAN
      /\ b = [db |-> d, closed |-> b.closed, options |-> b.options]
  BY DEF Promises!Close, LocalsInv, LocalTypes, Promises!Opened
<1>2. Connected(k) /\ ClosedRight(d)
  BY <1>1 DEF LocalsInv
<1>3. /\ db[d] # nothing /\ db[d] \in Promises!Connections
      /\ db[d].functions = Promises!Functions /\ k \in db[d].by
  BY <1>1, <1>2 DEF Connected, LocalsInv, LocalTypes
<1>4. closes => db[d].closedBy = <<>>
  BY <1>1, <1>2, <1>3 DEF ClosedRight
<1> DEFINE e == [db[d] EXCEPT !.closedBy = Append(@, k)]
           c == [b EXCEPT !.closed = @ \/ owned]
<1>5. /\ db' = IF closes THEN [db EXCEPT ![d] = e] ELSE db
      /\ backend' = [backend EXCEPT ![k] = c]
  BY <1>1 DEF Promises!Close, Promises!Closed
<1>6. /\ e.owner = db[d].owner /\ e.functions = db[d].functions /\ e.by = db[d].by
      /\ e.pragmas = db[d].pragmas
      /\ closes => (e.closedBy = <<k>> /\ e \in Promises!Connections)
  <2>1. closes => Append(db[d].closedBy, k) = <<k>>
    <3>1. Append(<<>>, k) = <<k>>
      OBVIOUS
    <3> QED
      BY <1>4, <3>1
  <2>2. <<k>> \in Seq(Factories \cup {Caller})
    OBVIOUS
  <2>3. /\ e.owner = db[d].owner /\ e.functions = db[d].functions /\ e.by = db[d].by
        /\ e.pragmas = db[d].pragmas /\ e.closedBy = Append(db[d].closedBy, k)
        /\ e = [owner |-> e.owner, pragmas |-> e.pragmas, functions |-> e.functions,
                by |-> e.by, closedBy |-> e.closedBy]
    <3> DEFINE o == db[d]
               a == Append(o.closedBy, k)
    <3>1. o \in Promises!Connections /\ e = [o EXCEPT !.closedBy = a]
      BY <1>3
    <3> HIDE DEF o, a, e
    <3>2. e.closedBy = a /\ e.owner = o.owner /\ e.functions = o.functions /\ e.by = o.by /\ e.pragmas = o.pragmas
      BY <3>1 DEF Promises!Connections
    <3>3. e = [owner |-> e.owner, pragmas |-> e.pragmas, functions |-> e.functions,
               by |-> e.by, closedBy |-> e.closedBy]
      BY <3>1 DEF Promises!Connections
    <3> QED
      BY <3>2, <3>3 DEF o, a
  <2> HIDE DEF e
  <2> QED
    BY <1>3, <2>1, <2>2, <2>3 DEF Promises!Connections
<1>7. c.db = d /\ c.options = b.options /\ (owned => c.closed) /\ (b.closed => c.closed) /\ c \in Promises!Opened
  BY <1>1 DEF Promises!Opened
<1>8. c # nothing /\ (closes => e # nothing)
  BY <1>6, <1>7, PromisesAssumption DEF Promises!PromisesAssumption
<1> HIDE DEF e, c
<1>9. /\ \A f \in Databases : db'[f] = IF closes /\ f = d THEN e ELSE db[f]
      /\ \A j \in Factories : backend'[j] = IF j = k THEN c ELSE backend[j]
  BY <1>1, <1>5 DEF LocalsInv, LocalTypes
<1>10. LocalTypes'
  BY <1>5, <1>6, <1>7 DEF LocalsInv, LocalTypes
<1>11. ASSUME NEW f \in Databases
       PROVE  /\ db'[f] = nothing <=> db[f] = nothing
              /\ db[f] # nothing => /\ db'[f].functions = db[f].functions /\ db'[f].by = db[f].by
                                    /\ db'[f].owner = db[f].owner /\ db'[f].pragmas = db[f].pragmas
  BY <1>3, <1>6, <1>8, <1>9
<1>12. ASSUME NEW j \in Factories PROVE Connected(j)'
  <2>1. /\ backend'[j] # nothing <=> backend[j] # nothing
        /\ backend[j] # nothing => backend'[j].db = backend[j].db /\ backend'[j].options = backend[j].options
    BY <1>1, <1>7, <1>8, <1>9
  <2>2. SUFFICES ASSUME backend[j] # nothing PROVE Connected(j)'
    BY <2>1 DEF Connected
  <2>3. backend[j].db \in Databases /\ Connected(j)
    BY <2>2 DEF LocalsInv, LocalTypes, Promises!Opened
  <2> QED
    BY <1>11, <2>1, <2>2, <2>3 DEF Connected
<1>13. ASSUME NEW f \in Databases PROVE ClosedRight(f)'
  <2>1. CASE closes /\ f = d
    <3>1. db'[f] = e /\ e.closedBy = <<k>> /\ e.owner = k
      BY <1>6, <1>9, <2>1
    <3>2. backend'[k] = c /\ c # nothing /\ c.db = f /\ c.closed
      BY <1>7, <1>8, <1>9, <2>1
    <3> QED
      BY <3>1, <3>2 DEF ClosedRight
  <2>2. CASE ~(closes /\ f = d)
    <3>1. db'[f] = db[f] /\ ClosedRight(f)
      BY <1>9, <2>2 DEF LocalsInv
    <3>2. ASSUME NEW j \in Factories, backend[j] # nothing, backend[j].db = f, backend[j].closed
          PROVE  backend'[j] # nothing /\ backend'[j].db = f /\ backend'[j].closed
      BY <1>7, <1>8, <1>9, <3>2
    <3> QED
      BY <3>1, <3>2 DEF ClosedRight
  <2> QED
    BY <2>1, <2>2
<1> QED
  BY <1>10, <1>12, <1>13 DEF LocalsInv

\* A caller's own connections.
LEMMA CallerKeeps ==
  ASSUME LocalsInv, NEW d \in Databases, Promises!CallerOpens(d) \/ Promises!CallerCloses(d)
  PROVE  LocalsInv'
<1>1. Caller \notin Factories /\ nothing \notin Promises!Connections
  BY PromisesAssumption DEF Promises!PromisesAssumption
<1>2. CASE Promises!CallerOpens(d)
  <2> DEFINE e == Promises!Connection(Caller, Promises!Unset)
  <2>1. db[d] = nothing /\ db' = [db EXCEPT ![d] = e] /\ backend' = backend
    BY <1>2 DEF Promises!CallerOpens
  <2>2. e \in Promises!Connections /\ e.closedBy = <<>> /\ e.owner = Caller
    BY UnsetIs, FreshConnection
  <2> HIDE DEF e
  <2>3. \A f \in Databases : db'[f] = IF f = d THEN e ELSE db[f]
    BY <2>1 DEF LocalsInv, LocalTypes
  <2>4. LocalTypes'
    BY <2>1, <2>2 DEF LocalsInv, LocalTypes
  <2>5. ASSUME NEW j \in Factories PROVE Connected(j)'
    <3>1. backend[j] # nothing => backend[j].db \in Databases
      BY DEF LocalsInv, LocalTypes, Promises!Opened
    <3> QED
      BY <2>1, <2>3, <3>1 DEF LocalsInv, Connected
  <2>6. ASSUME NEW f \in Databases PROVE ClosedRight(f)'
    BY <2>1, <2>2, <2>3 DEF LocalsInv, ClosedRight
  <2> QED
    BY <2>4, <2>5, <2>6 DEF LocalsInv
<1>3. CASE Promises!CallerCloses(d)
  <2> DEFINE e == [db[d] EXCEPT !.closedBy = Append(@, Caller)]
  <2>1. /\ db[d] # nothing /\ db[d].closedBy = <<>> /\ db[d].owner = Caller
        /\ db' = [db EXCEPT ![d] = e] /\ backend' = backend /\ db[d] \in Promises!Connections
    BY <1>3 DEF Promises!CallerCloses, Promises!IsOpen, LocalsInv, LocalTypes
  <2>2. /\ e.owner = Caller /\ e.functions = db[d].functions /\ e.by = db[d].by /\ e.pragmas = db[d].pragmas
        /\ e.closedBy = <<Caller>> /\ e \in Promises!Connections
    <3>1. Append(db[d].closedBy, Caller) = <<Caller>>
      BY <2>1
    <3>2. <<Caller>> \in Seq(Factories \cup {Caller})
      OBVIOUS
    <3> QED
      BY <2>1, <3>1, <3>2 DEF Promises!Connections
  <2> HIDE DEF e
  <2>3. \A f \in Databases : db'[f] = IF f = d THEN e ELSE db[f]
    BY <2>1 DEF LocalsInv, LocalTypes
  <2>4. LocalTypes'
    BY <2>1, <2>2 DEF LocalsInv, LocalTypes
  <2>5. ASSUME NEW j \in Factories PROVE Connected(j)'
    <3>1. SUFFICES ASSUME backend[j] # nothing PROVE Connected(j)'
      BY <2>1 DEF Connected
    <3>2. backend[j].db \in Databases /\ Connected(j) /\ e # nothing
      BY <1>1, <2>2, <3>1 DEF LocalsInv, LocalTypes, Promises!Opened
    <3> QED
      BY <2>1, <2>2, <2>3, <3>1, <3>2 DEF Connected
  <2>6. ASSUME NEW f \in Databases PROVE ClosedRight(f)'
    <3>1. CASE f = d
      <4>1. db'[f] = e /\ e.closedBy = <<e.owner>> /\ e.owner \notin Factories
        BY <1>1, <2>2, <2>3, <3>1
      <4> QED
        BY <4>1 DEF ClosedRight
    <3>2. CASE f # d
      BY <2>1, <2>3, <3>2 DEF LocalsInv, ClosedRight
    <3> QED
      BY <3>1, <3>2
  <2> QED
    BY <2>4, <2>5, <2>6 DEF LocalsInv
<1> QED
  BY <1>2, <1>3

\* Connections and backends stay as they should, whatever is opened and closed.
LEMMA LocalsInduct == Promises!Spec => []LocalsInv
<1>1. Promises!Init => LocalsInv
  <2> SUFFICES ASSUME Promises!Init PROVE LocalsInv
    OBVIOUS
  <2>1. db = [d \in Databases |-> nothing] /\ backend = [k \in Factories |-> nothing]
    BY DEF Promises!Init
  <2> QED
    BY <2>1 DEF LocalsInv, LocalTypes, Connected, ClosedRight
<1>2. LocalsInv /\ [Promises!Next]_(Promises!vars) => LocalsInv'
  <2> SUFFICES ASSUME LocalsInv, [Promises!Next]_(Promises!vars) PROVE LocalsInv'
    OBVIOUS
  <2>1. ASSUME UNCHANGED <<db, backend>> PROVE LocalsInv'
    BY <2>1 DEF LocalsInv, LocalTypes, Connected, ClosedRight
  <2>2. CASE Promises!Derive
    BY <2>1, <2>2 DEF Promises!Derive, Promises!Create, Promises!Subgraph, Promises!localVars
  <2>3. ASSUME NEW k \in Factories, Promises!Close(k) PROVE LocalsInv'
    BY <2>3, CloseKeeps
  <2>4. ASSUME NEW k \in Factories, NEW options \in Options, Promises!OpenPath(k, options) PROVE LocalsInv'
    <3> DEFINE c == Promises!Connection(k, [Promises!Unset EXCEPT !.journal_mode = "wal"])
    <3>1. PICK d \in Databases : db[d] = nothing /\ Promises!Factory(k, d, c, options)
      BY <2>4 DEF Promises!OpenPath
    <3>2. c \in Promises!Connections /\ c.closedBy = <<>> /\ c.by = {} /\ c.pragmas.journal_mode = "wal"
      <4>1. "wal" \in Promises!Settings /\ k \in Factories \cup {Caller}
        BY DEF Promises!Settings
      <4> DEFINE p == [Promises!Unset EXCEPT !.journal_mode = "wal"]
      <4>2. p \in Pragmas /\ p.journal_mode = "wal"
        BY <4>1, UnsetIs, PragmaSet
      <4> HIDE DEF p
      <4>3. Promises!Connection(k, p) \in Promises!Connections /\ Promises!Connection(k, p).pragmas = p
            /\ Promises!Connection(k, p).by = {} /\ Promises!Connection(k, p).closedBy = <<>>
        BY <4>1, <4>2, FreshConnection
      <4> QED
        BY <4>2, <4>3 DEF p
    <3> HIDE DEF c
    <3> QED
      BY <3>1, <3>2, FactoryKeeps
  <2>5. ASSUME NEW k \in Factories, NEW options \in Options, NEW d \in Databases, Promises!Wrap(k, d, options)
        PROVE  LocalsInv'
    <3> DEFINE c == db[d]
    <3>1. /\ c # nothing /\ c.closedBy = <<>> /\ Promises!Factory(k, d, c, options)
          /\ c.owner = Caller \/ (\E j \in Factories : backend[j] # nothing /\ backend[j].db = d)
      BY <2>5 DEF Promises!Wrap, Promises!IsOpen, Promises!AtHand
    <3>2. c \in Promises!Connections
      BY <3>1 DEF LocalsInv, LocalTypes
    <3> HIDE DEF c
    <3>3. db[d] = c
      BY DEF c
    <3> QED
      BY <3>1, <3>2, <3>3, FactoryKeeps
  <2>6. ASSUME NEW d \in Databases, Promises!CallerOpens(d) \/ Promises!CallerCloses(d) PROVE LocalsInv'
    BY <2>6, CallerKeeps
  <2>7. CASE UNCHANGED Promises!vars
    BY <2>1, <2>7 DEF Promises!vars, Promises!localVars
  <2> QED
    BY <2>2, <2>3, <2>4, <2>5, <2>6, <2>7 DEF Promises!Next, Promises!OpenAndClose
<1> QED
  BY <1>1, <1>2, PTL DEF Promises!Spec

\* ... and that is what the two properties ask.
LEMMA LocalsAre ==
  ASSUME LocalsInv
  PROVE  Promises!ClosedByItsOwner /\ Promises!BackendsAreReady
<1>1. Promises!ClosedByItsOwner
  BY DEF LocalsInv, ClosedRight, Promises!ClosedByItsOwner
<1>2. Promises!BackendsAreReady
  <2> SUFFICES ASSUME NEW k \in Factories, backend[k] # nothing, Promises!IsOpen(backend[k].db)
               PROVE  LET d == backend[k].db
                          asked == backend[k].options.pragmas
                      IN  /\ Promises!Functions \subseteq db[d].functions
                          /\ db[d].owner = k /\ db[d].by = {k} =>
                               \A key \in DOMAIN Promises!Unset :
                                 IF \E i \in DOMAIN asked : asked[i][1] = key
                                 THEN <<key, db[d].pragmas[key]>> \in Promises!Range(asked)
                                 ELSE db[d].pragmas[key] = [journal_mode |-> "wal", busy_timeout |-> "5000"][key]
    BY DEF Promises!BackendsAreReady
  <2> DEFINE d == backend[k].db
             asked == backend[k].options.pragmas
             p == db[d].pragmas
  <2>1. /\ db[d].functions = Promises!Functions
        /\ db[d].owner = k /\ db[d].by = {k} => AsAsked(asked, p)
    BY DEF LocalsInv, Connected
  <2>2. asked \in Asked
    BY PromisesAssumption DEF LocalsInv, LocalTypes, Promises!Opened, Promises!PromisesAssumption, Asked
  <2> HIDE DEF asked, p
  <2>3. DOMAIN asked = 1..Len(asked)
    BY <2>2 DEF Asked
  <2>4. AsAsked(asked, p) =>
          \A key \in DOMAIN Promises!Unset :
            IF \E i \in DOMAIN asked : asked[i][1] = key
            THEN <<key, p[key]>> \in Promises!Range(asked)
            ELSE p[key] = [journal_mode |-> "wal", busy_timeout |-> "5000"][key]
    BY <2>3 DEF AsAsked, Named, Defaults, Promises!Range
  <2> QED
    BY <2>1, <2>4 DEF p, asked
<1> QED
  BY <1>1, <1>2

-----------------------------------------------------------------------------
(* Paths.                                                                   *)

Unsplit == STRING \ DOMAIN Split
Path == Seq(Unsplit)
PatternWords == GraphNames \cup {"*", "**", "root"}

PathsInv ==
  /\ collection \in Collections
  /\ address \in Path
  /\ pattern \in Seq(PatternWords)

\* The constants, by their segments.
LEMMA PathConstants ==
  /\ Collections \subseteq Path /\ Templates \subseteq Path
  /\ \A c \in Collections : Len(c) % 2 = 1
  /\ PathUids \cup GraphNames \cup Parameters \subseteq STRING
  /\ \A s \in DOMAIN Split : Split[s] \in Path
<1>0. GraphAt!PathsAssumption
  BY PathsAssumption
<1>1. ASSUME NEW p \in Seq(STRING), GraphAt!Range(p) \cap DOMAIN Split = {} PROVE p \in Path
  <2>1. DOMAIN p = 1..Len(p) /\ Len(p) \in Nat /\ \A i \in 1..Len(p) : p[i] \in STRING
    OBVIOUS
  <2>2. \A i \in 1..Len(p) : p[i] \in Unsplit
    BY <1>1, <2>1 DEF GraphAt!Range, Unsplit
  <2> QED
    BY <2>1, <2>2 DEF Path
<1>2. ASSUME NEW s \in DOMAIN Split PROVE Split[s] \in Path
  <2>1. Split[s] \in Seq(STRING) /\ Split[s] \in GraphAt!Range(Split)
    BY <1>0 DEF GraphAt!PathsAssumption, GraphAt!Range
  <2>2. GraphAt!Range(Split[s]) \cap DOMAIN Split = {}
    BY <1>0, <2>1 DEF GraphAt!PathsAssumption
  <2> QED
    BY <1>1, <2>1, <2>2
<1>3. ASSUME NEW p \in Collections \cup Templates PROVE p \in Path
  <2>1. p \in Seq(STRING) /\ GraphAt!Range(p) \cap DOMAIN Split = {}
    BY <1>0 DEF GraphAt!PathsAssumption
  <2> QED
    BY <1>1, <2>1
<1> QED
  BY <1>0, <1>2, <1>3 DEF GraphAt!PathsAssumption

\* Both modules have FlattenSeq from the library.
LEMMA SameFlatten == \A q : GraphAt!FlattenSeq(q) = Scopes!FlattenSeq(q)
  BY DEF GraphAt!FlattenSeq, Scopes!FlattenSeq

\* What the address bar reads back has no segment that falls apart ...
LEMMA DecodedIn == ASSUME NEW p \in Seq(STRING) PROVE GraphAt!Decode(p) \in Path
<1> DEFINE q == [i \in 1..Len(p) |-> IF p[i] \in DOMAIN Split THEN Split[p[i]] ELSE <<p[i]>>]
<1>1. Len(p) \in Nat /\ \A i \in 1..Len(p) : p[i] \in STRING
  OBVIOUS
<1>2. ASSUME NEW i \in 1..Len(p) PROVE q[i] \in Path
  <2>1. CASE p[i] \in DOMAIN Split
    BY <2>1, PathConstants
  <2>2. CASE p[i] \notin DOMAIN Split
    <3>1. p[i] \in Unsplit
      BY <1>1, <2>2 DEF Unsplit
    <3>2. <<p[i]>> \in Path
      BY <3>1 DEF Path
    <3> QED
      BY <2>2, <3>2
  <2> QED
    BY <2>1, <2>2
<1>3. q \in Seq(Seq(Unsplit))
  <2>1. q \in [1..Len(p) -> Seq(Unsplit)]
    BY <1>2 DEF Path
  <2> HIDE DEF q
  <2> QED
    BY <1>1, <2>1
<1>4. Scopes!FlattenSeq(q) \in Path
  <2> HIDE DEF q
  <2> QED
    BY <1>3, FlattenedIn DEF Path
<1>5. GraphAt!Decode(p) = Scopes!FlattenSeq(q)
  BY SameFlatten DEF GraphAt!Decode
<1> QED
  BY <1>4, <1>5

\* The start of a sequence.
LEMMA StartOf ==
  ASSUME NEW S, NEW s \in Seq(S), NEW k \in 0..Len(s)
  PROVE  /\ SubSeq(s, 1, k) \in Seq(S) /\ Len(SubSeq(s, 1, k)) = k
         /\ \A i \in 1..k : SubSeq(s, 1, k)[i] = s[i]
  OBVIOUS

\* A start goes on with what comes next.
LEMMA StartGoesOn ==
  ASSUME NEW S, NEW s \in Seq(S), NEW k \in 0..Len(s), NEW t \in Seq(S), k + Len(t) <= Len(s),
         \A i \in 1..Len(t) : t[i] = s[k + i]
  PROVE  SubSeq(s, 1, k) \o t = SubSeq(s, 1, k + Len(t))
<1> DEFINE a == SubSeq(s, 1, k)
           m == k + Len(t)
           c == SubSeq(s, 1, m)
<1>1. k \in Nat /\ Len(t) \in Nat /\ m \in 0..Len(s)
  OBVIOUS
<1>2. a \in Seq(S) /\ Len(a) = k /\ \A i \in 1..k : a[i] = s[i]
  BY StartOf
<1>3. c \in Seq(S) /\ Len(c) = m /\ \A i \in 1..m : c[i] = s[i]
  <2> HIDE DEF m
  <2> QED
    BY <1>1, StartOf
<1> HIDE DEF a, c
<1> DEFINE b == a \o t
<1>4. /\ b \in Seq(S) /\ Len(b) = m
      /\ \A i \in 1..m : b[i] = IF i <= k THEN a[i] ELSE t[i - k]
  BY <1>1, <1>2, ConcatProperties
<1> HIDE DEF b
<1>5. ASSUME NEW i \in 1..m PROVE b[i] = c[i]
  <2>1. CASE i <= k
    BY <1>1, <1>2, <1>3, <1>4, <2>1
  <2>2. CASE i > k
    <3>1. i - k \in 1..Len(t) /\ k + (i - k) = i
      BY <1>1, <2>2
    <3> QED
      BY <1>3, <1>4, <2>2, <3>1
  <2> QED
    BY <1>1, <2>1, <2>2
<1>6. b = c
  <2> HIDE DEF m
  <2> QED
    BY <1>3, <1>4, <1>5, SameSequence
<1> QED
  BY <1>6 DEF a, b, c, m

\* ... and one that has none is read back as it is.
LEMMA DecodedSame == ASSUME NEW p \in Path PROVE GraphAt!Decode(p) = p
<1> DEFINE q == [i \in 1..Len(p) |-> <<p[i]>>]
           n == Len(p)
<1>1. n \in Nat /\ \A i \in 1..n : p[i] \in Unsplit
  BY DEF Path
<1>2. GraphAt!Decode(p) = Scopes!FlattenSeq(q)
  <2>1. \A i \in 1..Len(p) : p[i] \notin DOMAIN Split
    BY <1>1 DEF Unsplit
  <2>2. [i \in 1..Len(p) |-> IF p[i] \in DOMAIN Split THEN Split[p[i]] ELSE <<p[i]>>] = q
    BY <2>1
  <2> QED
    BY <2>2, SameFlatten DEF GraphAt!Decode
<1>3. q \in Seq(Seq(Unsplit)) /\ Len(q) = n /\ \A k \in 1..n : q[k] = <<p[k]>>
  <2>1. q \in [1..n -> Seq(Unsplit)]
    BY <1>1
  <2>2. \A k \in 1..n : q[k] = <<p[k]>>
    OBVIOUS
  <2> HIDE DEF q
  <2> QED
    BY <1>1, <2>1, <2>2
<1> HIDE DEF q
<1>4. PICK g \in [0..Len(q) -> Seq(Unsplit)] : Joined(g, q) /\ Scopes!FlattenSeq(q) = g[Len(q)]
  BY <1>3, Flattened
<1> DEFINE I == {k \in Nat : k <= n => g[k] = SubSeq(p, 1, k)}
<1>5. 0 \in I
  <2>1. SubSeq(p, 1, 0) = <<>>
    BY DEF Path
  <2> QED
    BY <1>4, <2>1 DEF Joined
<1>6. ASSUME NEW k \in I PROVE k + 1 \in I
  <2>0. k \in Nat /\ (k + 1) - 1 = k
    OBVIOUS
  <2>1. SUFFICES ASSUME k + 1 <= n PROVE g[k + 1] = SubSeq(p, 1, k + 1)
    BY <2>0
  <2>2. k + 1 \in 1..n /\ k \in 0..n /\ k + 1 \in 0..n
    BY <1>1, <2>0, <2>1
  <2>3. g[k] = SubSeq(p, 1, k)
    BY <1>6, <2>2
  <2>4. g[k + 1] = g[k] \o q[k + 1]
    <3>1. \A j \in 1..n : g[j] = g[j - 1] \o q[j]
      BY <1>3, <1>4 DEF Joined
    <3>2. g[k + 1] = g[(k + 1) - 1] \o q[k + 1]
      BY <2>2, <3>1, Zenon
    <3> QED
      BY <2>0, <3>2
  <2>5. q[k + 1] \in Path /\ Len(q[k + 1]) = 1 /\ q[k + 1][1] = p[k + 1]
    <3>1. q[k + 1] = <<p[k + 1]>> /\ p[k + 1] \in Unsplit
      BY <1>1, <1>3, <2>2
    <3> QED
      BY <3>1 DEF Path
  <2> DEFINE t == q[k + 1]
  <2>6. t \in Path /\ Len(t) = 1 /\ k + Len(t) <= Len(p) /\ \A i \in 1..Len(t) : t[i] = p[k + i]
    BY <2>0, <2>2, <2>5
  <2> HIDE DEF t
  <2>7. SubSeq(p, 1, k) \o t = SubSeq(p, 1, k + 1)
    BY <2>2, <2>6, StartGoesOn DEF Path
  <2> QED
    BY <2>3, <2>4, <2>7 DEF t
<1>7. I = Nat
  <2> HIDE DEF I
  <2>1. I \in SUBSET Nat
    BY DEF I
  <2> QED
    BY <1>5, <1>6, <2>1, Induction
<1>8. g[n] = SubSeq(p, 1, n)
  BY <1>1, <1>7
<1>9. SubSeq(p, 1, n) = p
  BY <1>1 DEF Path
<1> QED
  BY <1>2, <1>3, <1>4, <1>8, <1>9

\* A scope as pairs, and the pairs as a scope.
Pairs(s) == GraphAt!ParseScopeSegments(s)

\* parseScopeSegments, pair by pair.
LEMMA PairsAre ==
  ASSUME NEW S, NEW s \in Seq(S)
  PROVE  /\ Pairs(s) \in Seq(Seq(S)) /\ Len(Pairs(s)) = Len(s) \div 2
         /\ \A i \in 1..(Len(s) \div 2) : /\ Pairs(s)[i] = <<s[2 * i - 1], s[2 * i]>>
                                         /\ s[2 * i - 1] \in S /\ s[2 * i] \in S
<1> DEFINE n == Len(s) \div 2
           q == [i \in 1..n |-> <<s[2 * i - 1], s[2 * i]>>]
<1>1. n \in Nat /\ \A i \in 1..n : 2 * i - 1 \in 1..Len(s) /\ 2 * i \in 1..Len(s)
  OBVIOUS
<1>2. \A i \in 1..n : s[2 * i - 1] \in S /\ s[2 * i] \in S
  <2> HIDE DEF n
  <2> QED
    BY <1>1
<1>3. Pairs(s) = q
  BY DEF Pairs, GraphAt!ParseScopeSegments
<1> HIDE DEF n
<1>4. \A i \in 1..n : <<s[2 * i - 1], s[2 * i]>> \in Seq(S)
  BY <1>2
<1>5. q \in [1..n -> Seq(S)] /\ \A i \in 1..n : q[i] = <<s[2 * i - 1], s[2 * i]>>
  BY <1>4
<1> HIDE DEF q
<1>6. q \in Seq(Seq(S)) /\ Len(q) = n
  BY <1>1, <1>5
<1> QED
  BY <1>2, <1>3, <1>5, <1>6 DEF n

\* The first pairs, flattened, are the start of the scope.
LEMMA PairsFlatten ==
  ASSUME NEW S, NEW s \in Seq(S), NEW m \in 0..(Len(s) \div 2)
  PROVE  GraphAt!FlattenSeq(SubSeq(Pairs(s), 1, m)) = SubSeq(s, 1, 2 * m)
<1> DEFINE q == SubSeq(Pairs(s), 1, m)
           n == Len(s) \div 2
<1>1. /\ m \in Nat /\ n \in Nat /\ m <= n /\ 2 * n <= Len(s) /\ Len(s) \in Nat
  OBVIOUS
<1>2. q \in Seq(Seq(S)) /\ Len(q) = m /\ \A i \in 1..m : q[i] = Pairs(s)[i]
  <2>1. Pairs(s) \in Seq(Seq(S)) /\ Len(Pairs(s)) = n
    BY PairsAre
  <2>2. m \in 0..Len(Pairs(s))
    BY <2>1
  <2> QED
    BY <2>1, <2>2, StartOf
<1> HIDE DEF q
<1>3. ASSUME NEW i \in 1..m
      PROVE  q[i] \in Seq(S) /\ Len(q[i]) = 2 /\ q[i][1] = s[2 * i - 1] /\ q[i][2] = s[2 * i]
  <2>1. i \in 1..n
    BY <1>1
  <2>2. q[i] = <<s[2 * i - 1], s[2 * i]>> /\ s[2 * i - 1] \in S /\ s[2 * i] \in S
    BY <1>2, <2>1, PairsAre
  <2> QED
    BY <2>2
<1> HIDE DEF n
<1>4. PICK g \in [0..Len(q) -> Seq(S)] : Joined(g, q) /\ Scopes!FlattenSeq(q) = g[Len(q)]
  BY <1>2, Flattened
<1>5. g[0] = <<>> /\ \A j \in 1..m : g[j] = g[j - 1] \o q[j]
  BY <1>2, <1>4 DEF Joined
<1> DEFINE I == {k \in Nat : k <= m => g[k] = SubSeq(s, 1, 2 * k)}
<1>6. 0 \in I
  <2>1. SubSeq(s, 1, 0) = <<>>
    OBVIOUS
  <2> QED
    BY <1>5, <2>1
<1>7. ASSUME NEW k \in I PROVE k + 1 \in I
  <2>0. k \in Nat /\ (k + 1) - 1 = k
    OBVIOUS
  <2>1. SUFFICES ASSUME k + 1 <= m PROVE g[k + 1] = SubSeq(s, 1, 2 * (k + 1))
    BY <2>0
  <2>2. k + 1 \in 1..m /\ k <= m /\ 2 * k \in 0..Len(s) /\ 2 * k + 2 <= Len(s) /\ 2 * (k + 1) = 2 * k + 2
    BY <1>1, <2>0, <2>1
  <2>3. g[k + 1] = SubSeq(s, 1, 2 * k) \o q[k + 1]
    BY <1>5, <1>7, <2>0, <2>2
  <2> DEFINE t == q[k + 1]
  <2>4. t \in Seq(S) /\ Len(t) = 2 /\ t[1] = s[2 * k + 1] /\ t[2] = s[2 * k + 2]
    <3>1. 2 * (k + 1) - 1 = 2 * k + 1 /\ 2 * (k + 1) = 2 * k + 2
      BY <2>0
    <3> QED
      BY <1>3, <2>2, <3>1
  <2> HIDE DEF t
  <2>5. \A i \in 1..Len(t) : t[i] = s[2 * k + i]
    BY <2>0, <2>4
  <2>6. SubSeq(s, 1, 2 * k) \o t = SubSeq(s, 1, 2 * k + Len(t))
    BY <2>2, <2>4, <2>5, StartGoesOn
  <2> QED
    BY <2>2, <2>3, <2>4, <2>6 DEF t
<1>8. I = Nat
  <2> HIDE DEF I
  <2>1. I \in SUBSET Nat
    BY DEF I
  <2> QED
    BY <1>6, <1>7, <2>1, Induction
<1>9. g[m] = SubSeq(s, 1, 2 * m)
  <2>1. m \in I
    BY <1>1, <1>8
  <2> QED
    BY <1>1, <2>1
<1> QED
  BY <1>2, <1>4, <1>9, SameFlatten DEF q

\* A graph's path is its collection and its scope.
LEMMA ScopeOf ==
  ASSUME collection \in Path, NEW p \in Path
  PROVE  /\ GraphAt!GraphScope(p) \in Path
         /\ GraphAt!PathType(p) = "graph" =>
              /\ p # <<>> /\ p = collection \o GraphAt!GraphScope(p)
              /\ Len(p) = Len(collection) + Len(GraphAt!GraphScope(p))
              /\ GraphAt!GraphScope(p) = SubSeq(p, Len(collection) + 1, Len(p))
<1> DEFINE l == Len(collection)
           r == SubSeq(p, l + 1, Len(p))
<1>1. l \in Nat /\ Len(p) \in Nat /\ (\A i \in 1..l : collection[i] \in Unsplit) /\ \A i \in 1..Len(p) : p[i] \in Unsplit
  BY DEF Path
<1>2. <<>> \in Path
  BY DEF Path
<1>3. CASE GraphAt!PathType(p) # "graph"
  BY <1>2, <1>3 DEF GraphAt!GraphScope
<1>4. CASE GraphAt!PathType(p) = "graph"
  <2>1. p # <<>> /\ IsPrefix(collection, p)
    BY <1>4 DEF GraphAt!PathType, GraphAt!Home, GraphAt!IsPrefix, IsPrefix
  <2>2. l <= Len(p) /\ \A i \in 1..l : p[i] = collection[i]
    BY <2>1, PrefixIs DEF Path
  <2>3. GraphAt!GraphScope(p) = r
    BY <1>4 DEF GraphAt!GraphScope
  <2>4. r \in Seq(Unsplit) /\ Len(r) = Len(p) - l /\ \A i \in 1..(Len(p) - l) : r[i] = p[l + i]
    BY <1>1, <2>2 DEF Path
  <2> HIDE DEF r
  <2>5. collection \o r = p
    <3>1. SubSeq(p, 1, l) = collection
      <4>1. SubSeq(p, 1, l) \in Seq(Unsplit) /\ Len(SubSeq(p, 1, l)) = l
            /\ \A i \in 1..l : SubSeq(p, 1, l)[i] = p[i]
        BY <1>1, <2>2, StartOf DEF Path
      <4> QED
        BY <1>1, <2>2, <4>1, SameSequence DEF Path
    <3>2. l + Len(r) = Len(p) /\ l \in 0..Len(p) /\ \A i \in 1..Len(r) : r[i] = p[l + i]
      BY <1>1, <2>2, <2>4
    <3>3. SubSeq(p, 1, l) \o r = SubSeq(p, 1, l + Len(r))
      <4> HIDE DEF l
      <4> QED
        BY <1>1, <2>4, <3>2, StartGoesOn DEF Path
    <3>4. SubSeq(p, 1, Len(p)) = p
      BY DEF Path
    <3> QED
      BY <3>1, <3>2, <3>3, <3>4
  <2> QED
    BY <1>1, <2>1, <2>3, <2>4, <2>5 DEF Path, r
<1> QED
  BY <1>3, <1>4

\* Sequences from their elements.
LEMMA TwoOf ==
  ASSUME NEW S, NEW a \in S, NEW b \in S
  PROVE  /\ <<a, b>> \in Seq(S) /\ Len(<<a, b>>) = 2 /\ <<a, b>>[1] = a /\ <<a, b>>[2] = b
  OBVIOUS

\* ... of any length.
LEMMA SequenceOf ==
  ASSUME NEW S, NEW n \in Nat, NEW f \in [1..n -> S]
  PROVE  f \in Seq(S) /\ Len(f) = n
  OBVIOUS

\* Paths put together.
LEMMA PathJoins ==
  ASSUME NEW p \in Path, NEW q \in Path
  PROVE  /\ p \o q \in Path /\ Len(p \o q) = Len(p) + Len(q)
         /\ \A i \in 1..(Len(p) + Len(q)) : (p \o q)[i] = IF i <= Len(p) THEN p[i] ELSE q[i - Len(p)]
  BY ConcatProperties DEF Path

\* popToDepth and the breadcrumb's links.
LEMMA PoppedIs ==
  ASSUME collection \in Path, NEW p \in Path, NEW m \in Nat
  PROVE  LET scope == GraphAt!GraphScope(p)
             k == IF m < Len(scope) \div 2 THEN m ELSE Len(scope) \div 2
         IN  /\ k \in 0..(Len(scope) \div 2) /\ 2 * k \in 0..Len(scope)
             /\ GraphAt!PopToDepth(p, m) = collection \o SubSeq(scope, 1, 2 * k)
             /\ SubSeq(scope, 1, 2 * k) \in Path
             /\ GraphAt!PopToDepth(p, m) \in Path
<1> DEFINE scope == GraphAt!GraphScope(p)
           n == Len(scope) \div 2
           k == IF m < n THEN m ELSE n
<1>1. scope \in Path /\ Len(scope) \in Nat
  BY ScopeOf DEF Path
<1>2. Len(Pairs(scope)) = n /\ n \in Nat
  BY <1>1, PairsAre DEF Path
<1>3. k \in 0..n /\ 2 * k \in 0..Len(scope)
  BY <1>1, <1>2
<1>4. GraphAt!PopToDepth(p, m) = collection \o GraphAt!FlattenSeq(SubSeq(Pairs(scope), 1, k))
  BY <1>2 DEF GraphAt!PopToDepth, Pairs
<1> HIDE DEF k, scope
<1>5. GraphAt!FlattenSeq(SubSeq(Pairs(scope), 1, k)) = SubSeq(scope, 1, 2 * k)
  BY <1>1, <1>3, PairsFlatten DEF Path
<1>6. SubSeq(scope, 1, 2 * k) \in Path
  BY <1>1, <1>3, StartOf DEF Path
<1>7. collection \o SubSeq(scope, 1, 2 * k) \in Path
  BY <1>6, PathJoins
<1> QED
  BY <1>3, <1>4, <1>5, <1>6, <1>7 DEF k, scope

\* A link of the breadcrumb.
LEMMA CrumbIs ==
  ASSUME collection \in Path, NEW p \in Path, p # <<>>,
         NEW i \in 0..Len(GraphAt!ParseScopeSegments(GraphAt!GraphScope(p)))
  PROVE  LET scope == GraphAt!GraphScope(p)
         IN  /\ i \in 0..(Len(scope) \div 2)
             /\ GraphAt!BreadcrumbLink(p, i) = <<p[1]>> \o SubSeq(scope, 1, 2 * i)
             /\ GraphAt!BreadcrumbLink(p, i) \in Path
<1> DEFINE scope == GraphAt!GraphScope(p)
           n == Len(scope) \div 2
<1>1. scope \in Path /\ Len(scope) \in Nat
  BY ScopeOf DEF Path
<1>2. Len(Pairs(scope)) = n /\ n \in Nat
  BY <1>1, PairsAre DEF Path
<1>3. i \in 0..n /\ 2 * i \in 0..Len(scope)
  <2>1. i \in 0..n
    BY <1>2 DEF Pairs
  <2> QED
    BY <1>1, <2>1
<1>4. GraphAt!BreadcrumbLink(p, i) = <<p[1]>> \o GraphAt!FlattenSeq(SubSeq(Pairs(scope), 1, i))
  BY DEF GraphAt!BreadcrumbLink, Pairs
<1> HIDE DEF scope
<1>5. GraphAt!FlattenSeq(SubSeq(Pairs(scope), 1, i)) = SubSeq(scope, 1, 2 * i)
  BY <1>1, <1>3, PairsFlatten DEF Path
<1>6. SubSeq(scope, 1, 2 * i) \in Path
  BY <1>1, <1>3, StartOf DEF Path
<1>7. <<p[1]>> \in Path
  <2>1. p[1] \in Unsplit
    BY DEF Path
  <2> QED
    BY <2>1 DEF Path
<1>8. <<p[1]>> \o SubSeq(scope, 1, 2 * i) \in Path
  BY <1>6, <1>7, PathJoins
<1> QED
  BY <1>3, <1>4, <1>5, <1>8 DEF scope

\* The link to a collection has the template's segments, and the node for its first parameter.
LEMMA LinkTo ==
  ASSUME NEW t \in Templates, NEW uid \in PathUids
  PROVE  LET p == GraphAt!CollectionLink(t, uid)
         IN  /\ p \in Seq(STRING) /\ Len(p) = Len(t)
             /\ uid \notin DOMAIN Split => p \in Path
             /\ \E k : /\ (\E i \in 1..Len(t) : t[i] \in Parameters) => k \in Parameters
                       /\ \A i \in 1..Len(t) :
                            p[i] = IF t[i] = k /\ t[i] \in Parameters THEN uid ELSE t[i]
<1> DEFINE p == GraphAt!CollectionLink(t, uid)
           at == {i \in 1..Len(t) : t[i] \in Parameters}
           k == t[GraphAt!Least(at)]
<1>1. t \in Path /\ Len(t) \in Nat /\ (\A i \in 1..Len(t) : t[i] \in Unsplit) /\ uid \in STRING
  BY PathConstants DEF Path
<1>2. CASE at = {}
  <2>1. p = t
    BY <1>2 DEF GraphAt!CollectionLink
  <2>2. \A i \in 1..Len(t) : t[i] \notin Parameters
    BY <1>2
  <2>3. t \in Seq(STRING)
    BY <1>1 DEF Unsplit, Path
  <2> QED
    BY <1>1, <2>1, <2>2, <2>3
<1>3. CASE at # {}
  <2>1. GraphAt!Least(at) \in at
    <3>1. at \in SUBSET Nat
      OBVIOUS
    <3> HIDE DEF at
    <3>2. \E x \in at : \A y \in at : x <= y
      BY <1>3, <3>1, Least
    <3> QED
      BY <3>2 DEF GraphAt!Least
  <2>2. k \in Parameters
    BY <2>1
  <2>3. p = [i \in 1..Len(t) |-> IF t[i] = k THEN uid ELSE t[i]]
    BY <1>3 DEF GraphAt!CollectionLink, GraphAt!ResolveCollectionPath
  <2> HIDE DEF k, p, at
  <2>4. p \in Seq(STRING) /\ Len(p) = Len(t)
    <3>1. p \in [1..Len(t) -> STRING]
      BY <1>1, <2>3 DEF Unsplit
    <3> QED
      BY <1>1, <3>1, SequenceOf
  <2>5. ASSUME uid \notin DOMAIN Split PROVE p \in Path
    <3>1. uid \in Unsplit
      BY <1>1, <2>5 DEF Unsplit
    <3>2. p \in [1..Len(t) -> Unsplit]
      BY <1>1, <2>3, <3>1
    <3> QED
      BY <1>1, <3>2, SequenceOf DEF Path
  <2>6. \A i \in 1..Len(t) : p[i] = IF t[i] = k /\ t[i] \in Parameters THEN uid ELSE t[i]
    BY <2>2, <2>3
  <2> QED
    BY <2>2, <2>4, <2>5, <2>6 DEF p
<1> QED
  BY <1>2, <1>3

\* No address holds a segment that would fall apart.
LEMMA PathsInduct == GraphAt!Spec => []PathsInv
<1>1. GraphAt!Init => PathsInv
  <2>1. <<>> \in Path /\ <<>> \in Seq(PatternWords)
    BY DEF Path
  <2> QED
    BY <2>1 DEF GraphAt!Init, GraphAt!Home, PathsInv
<1>2. PathsInv /\ [GraphAt!Next]_(GraphAt!vars) => PathsInv'
  <2> SUFFICES ASSUME PathsInv, [GraphAt!Next]_(GraphAt!vars) PROVE PathsInv'
    OBVIOUS
  <2>0. collection \in Path /\ address \in Path
    BY PathConstants DEF PathsInv
  <2>1. CASE GraphAt!NavigateToRoot
    BY <2>0, <2>1 DEF GraphAt!NavigateToRoot, PathsInv
  <2>2. CASE GraphAt!Enter
    <3>1. PICK uid \in PathUids, name \in GraphNames :
            address' = GraphAt!Decode(address \o <<uid, name>>) /\ UNCHANGED <<collection, pattern>>
      BY <2>2 DEF GraphAt!Enter, GraphAt!EnterSubgraph
    <3>2. address \in Seq(STRING) /\ <<uid, name>> \in Seq(STRING)
      <4>1. uid \in STRING /\ name \in STRING
        BY PathConstants
      <4>2. \A i \in 1..Len(address) : address[i] \in STRING
        BY <2>0 DEF Path, Unsplit
      <4>3. address \in [1..Len(address) -> STRING] /\ Len(address) \in Nat
        BY <2>0, <4>2 DEF Path
      <4>4. address \in Seq(STRING)
        BY <4>3, SequenceOf
      <4> QED
        BY <4>1, <4>4, TwoOf
    <3>3. address \o <<uid, name>> \in Seq(STRING)
      BY <3>2, ConcatProperties
    <3>4. address' \in Path
      BY <3>1, <3>3, DecodedIn
    <3> QED
      BY <3>1, <3>4 DEF PathsInv
  <2>3. CASE GraphAt!Leave
    <3>1. address' = GraphAt!NavigateUp(address) /\ UNCHANGED <<collection, pattern>>
      BY <2>3 DEF GraphAt!Leave
    <3>2. Len(address) >= 3 => SubSeq(address, 1, Len(address) - 2) \in Path
      <4>1. ASSUME Len(address) >= 3 PROVE Len(address) - 2 \in 0..Len(address)
        BY <2>0, <4>1 DEF Path
      <4> QED
        BY <2>0, <4>1, StartOf DEF Path
    <3>3. <<>> \in Path
      BY DEF Path
    <3>4. address' \in Path
      BY <3>1, <3>2, <3>3 DEF GraphAt!NavigateUp, GraphAt!Home
    <3> QED
      BY <3>1, <3>4 DEF PathsInv
  <2>4. CASE GraphAt!Pop
    <3>1. PICK m \in 0..MaxChain : address' = GraphAt!PopToDepth(address, m) /\ UNCHANGED <<collection, pattern>>
      BY <2>4 DEF GraphAt!Pop
    <3>2. m \in Nat
      OBVIOUS
    <3>3. address' \in Path
      BY <2>0, <3>1, <3>2, PoppedIs
    <3> QED
      BY <3>1, <3>3 DEF PathsInv
  <2>5. CASE GraphAt!Crumb
    <3>1. PICK i \in 0..Len(GraphAt!ParseScopeSegments(GraphAt!GraphScope(address))) :
            /\ GraphAt!GraphScope(address) # <<>>
            /\ address' = GraphAt!BreadcrumbLink(address, i)
            /\ UNCHANGED <<collection, pattern>>
      BY <2>5 DEF GraphAt!Crumb
    <3>2. address # <<>>
      BY <3>1 DEF GraphAt!GraphScope, GraphAt!PathType, GraphAt!Home
    <3>3. address' \in Path
      BY <2>0, <3>1, <3>2, CrumbIs
    <3> QED
      BY <3>1, <3>3 DEF PathsInv
  <2>6. CASE GraphAt!OpenCollection
    <3>1. PICK t \in Templates, uid \in PathUids :
            address' = GraphAt!Decode(GraphAt!CollectionLink(t, uid)) /\ UNCHANGED <<collection, pattern>>
      BY <2>6 DEF GraphAt!OpenCollection
    <3>2. address' \in Path
      BY <3>1, LinkTo, DecodedIn
    <3> QED
      BY <3>1, <3>2 DEF PathsInv
  <2>7. CASE GraphAt!Lengthen
    <3>1. PICK s \in PatternWords : pattern' = Append(pattern, s) /\ UNCHANGED <<collection, address>>
      BY <2>7 DEF GraphAt!Lengthen, PatternWords, GraphAt!One, GraphAt!Many
    <3>2. pattern' \in Seq(PatternWords)
      BY <3>1 DEF PathsInv
    <3> QED
      BY <3>1, <3>2 DEF PathsInv
  <2>8. CASE UNCHANGED GraphAt!vars
    BY <2>8 DEF GraphAt!vars, PathsInv
  <2> QED
    BY <2>1, <2>2, <2>3, <2>4, <2>5, <2>6, <2>7, <2>8 DEF GraphAt!Next
<1> QED
  BY <1>1, <1>2, PTL DEF GraphAt!Spec

\* The path of names that the server's client is told, one call at a time.
LEMMA NamesAreTold ==
  ASSUME NEW s \in Path
  PROVE  GraphAt!ServerScopePath(s) = GraphAt!ScopeToNamesPath(s) /\ GraphAt!ScopeToNamesPath(s) \in Path
<1> DEFINE n == Len(s) \div 2
           pairs == Pairs(s)
           names == [i \in 1..n |-> s[2 * i]]
<1>1. n \in Nat /\ Len(pairs) = n /\ \A i \in 1..n : pairs[i][2] = s[2 * i] /\ s[2 * i] \in Unsplit
  <2>1. Len(pairs) = n /\ \A i \in 1..n : pairs[i] = <<s[2 * i - 1], s[2 * i]>> /\ s[2 * i] \in Unsplit
    BY PairsAre DEF Path
  <2>2. n \in Nat
    BY DEF Path
  <2> QED
    BY <2>1, <2>2
<1>2. names \in Seq(Unsplit) /\ Len(names) = n /\ GraphAt!ScopeToNamesPath(s) = names
  <2>1. names \in [1..n -> Unsplit]
    BY <1>1
  <2>2. GraphAt!ScopeToNamesPath(s) = names
    BY DEF GraphAt!ScopeToNamesPath
  <2> HIDE DEF names, n
  <2> QED
    BY <1>1, <2>1, <2>2, SequenceOf
<1>3. \A i \in 1..n : names[i] = pairs[i][2]
  BY <1>1
<1> DEFINE F(f) == [k \in 0..Len(pairs) |-> IF k = 0 THEN <<>> ELSE Append(f[k - 1], pairs[k][2])]
           told == CHOOSE f : f = F(f)
<1>4. GraphAt!ServerScopePath(s) = told[Len(pairs)]
  BY DEF GraphAt!ServerScopePath, Pairs
<1> HIDE DEF names, n, pairs
<1>5. told = F(told)
  <2> DEFINE g == [k \in 0..n |-> SubSeq(names, 1, k)]
  <2>1. ASSUME NEW k \in 0..n PROVE g[k] = IF k = 0 THEN <<>> ELSE Append(g[k - 1], pairs[k][2])
    <3>1. CASE k = 0
      BY <1>2, <3>1
    <3>2. CASE k # 0
      <4> DEFINE j == k - 1
      <4>1. j \in 0..n /\ k = j + 1 /\ k \in 1..n /\ k \in 0..Len(names) /\ j \in 0..Len(names)
        BY <1>1, <1>2, <3>2
      <4> DEFINE t == <<names[k]>>
      <4>2. t \in Seq(Unsplit) /\ Len(t) = 1 /\ j + Len(t) <= Len(names) /\ \A i \in 1..Len(t) : t[i] = names[j + i]
        <5>1. names[k] \in Unsplit
          BY <1>2, <4>1
        <5> QED
          BY <1>1, <1>2, <4>1, <5>1
      <4> HIDE DEF t
      <4>3. SubSeq(names, 1, j) \o t = SubSeq(names, 1, k)
        <5>1. j + Len(t) = k
          BY <4>1, <4>2
        <5> HIDE DEF j
        <5>2. SubSeq(names, 1, j) \o t = SubSeq(names, 1, j + Len(t))
          BY <1>2, <4>1, <4>2, StartGoesOn
        <5> QED
          BY <5>1, <5>2
      <4>4. SubSeq(names, 1, j) \o t = Append(SubSeq(names, 1, j), names[k])
        <5>1. SubSeq(names, 1, j) \in Seq(Unsplit)
          BY <1>2, <4>1, StartOf
        <5>2. \A a \in Seq(Unsplit) : \A x : a \o <<x>> = Append(a, x)
          OBVIOUS
        <5> QED
          BY <5>1, <5>2 DEF t
      <4>5. g[k] = SubSeq(names, 1, k) /\ g[k - 1] = SubSeq(names, 1, j)
        BY <4>1
      <4> HIDE DEF g
      <4>6. g[k] = Append(g[k - 1], names[k])
        BY <4>3, <4>4, <4>5
      <4> QED
        BY <1>3, <3>2, <4>1, <4>6
    <3> QED
      BY <3>1, <3>2
  <2>2. g = [k \in 0..n |-> IF k = 0 THEN <<>> ELSE Append(g[k - 1], pairs[k][2])]
    <3>1. g = [k \in 0..n |-> g[k]]
      OBVIOUS
    <3> HIDE DEF g
    <3> QED
      BY <2>1, <3>1
  <2>3. g = F(g)
    <3> HIDE DEF g
    <3> QED
      BY <1>1, <2>2
  <2> HIDE DEF g, F
  <2> QED
    BY <2>3
<1> HIDE DEF told
<1>6. \A k \in 0..n : told[k] = IF k = 0 THEN <<>> ELSE Append(told[k - 1], names[k])
  <2>1. told = [k \in 0..n |-> IF k = 0 THEN <<>> ELSE Append(told[k - 1], pairs[k][2])]
    BY <1>1, <1>5
  <2>2. \A k \in 0..n : told[k] = IF k = 0 THEN <<>> ELSE Append(told[k - 1], pairs[k][2])
    BY <2>1
  <2>3. \A k \in 0..n : k # 0 => pairs[k][2] = names[k]
    BY <1>1, <1>3
  <2> QED
    BY <2>2, <2>3
<1> DEFINE I == {k \in Nat : k <= n => told[k] = SubSeq(names, 1, k)}
<1>7. 0 \in I
  <2>1. SubSeq(names, 1, 0) = <<>>
    BY <1>2
  <2>2. 0 \in 0..n
    BY <1>1
  <2>3. told[0] = <<>>
    BY <1>6, <2>2
  <2> QED
    BY <2>1, <2>3
<1>8. ASSUME NEW k \in I PROVE k + 1 \in I
  <2>0. k \in Nat /\ (k + 1) - 1 = k
    OBVIOUS
  <2>1. SUFFICES ASSUME k + 1 <= n PROVE told[k + 1] = SubSeq(names, 1, k + 1)
    BY <2>0
  <2>2. k + 1 \in 0..n /\ k + 1 # 0 /\ k <= n /\ k + 1 \in 1..n /\ k \in 0..Len(names)
    BY <1>1, <1>2, <2>0, <2>1
  <2>3. told[k + 1] = Append(SubSeq(names, 1, k), names[k + 1])
    BY <1>6, <1>8, <2>0, <2>2
  <2> DEFINE t == <<names[k + 1]>>
  <2>4. t \in Seq(Unsplit) /\ Len(t) = 1 /\ k + Len(t) <= Len(names) /\ \A i \in 1..Len(t) : t[i] = names[k + i]
    <3>1. names[k + 1] \in Unsplit
      BY <1>2, <2>2
    <3> QED
      BY <1>1, <1>2, <2>0, <2>2, <3>1
  <2> HIDE DEF t
  <2>5. SubSeq(names, 1, k) \o t = SubSeq(names, 1, k + 1)
    BY <1>2, <2>2, <2>4, StartGoesOn
  <2>6. SubSeq(names, 1, k) \o t = Append(SubSeq(names, 1, k), names[k + 1])
    <3>1. SubSeq(names, 1, k) \in Seq(Unsplit)
      BY <1>2, <2>2, StartOf
    <3>2. \A a \in Seq(Unsplit) : \A x : a \o <<x>> = Append(a, x)
      OBVIOUS
    <3> QED
      BY <3>1, <3>2 DEF t
  <2> QED
    BY <2>3, <2>5, <2>6
<1>9. I = Nat
  <2> HIDE DEF I
  <2>1. I \in SUBSET Nat
    BY DEF I
  <2> QED
    BY <1>7, <1>8, <2>1, Induction
<1>10. told[n] = SubSeq(names, 1, n)
  <2>1. n \in I
    BY <1>1, <1>9
  <2> QED
    BY <1>1, <2>1
<1>11. SubSeq(names, 1, n) = names
  BY <1>2
<1> QED
  BY <1>1, <1>2, <1>4, <1>10, <1>11 DEF Path

\* What the editor shows, the server's client allows.
LEMMA OffersAllowed == ASSUME PathsInv PROVE GraphAt!OfferedIsAllowed
<1>1. collection \in Path /\ address \in Path
  BY PathConstants DEF PathsInv
<1>2. GraphAt!ServerScopePath(GraphAt!GraphScope(address)) = GraphAt!NamesHere
  BY <1>1, ScopeOf, NamesAreTold DEF GraphAt!NamesHere
<1> QED
  BY <1>2 DEF GraphAt!OfferedIsAllowed, GraphAt!IsTypeVisibleInScope

-----------------------------------------------------------------------------
\* The least of a set of positions.
LEMMA LeastIs ==
  ASSUME NEW T \in SUBSET Nat, NEW x \in T, \A y \in T : x <= y
  PROVE  GraphAt!Least(T) = x
<1>1. \A z \in T : (\A y \in T : z <= y) => z = x
  OBVIOUS
<1> QED
  BY <1>1 DEF GraphAt!Least

\* Even and odd positions.
LEMMA OddOf == ASSUME NEW i \in Nat, i >= 1 PROVE 2 * i - 1 \in Nat /\ (2 * i - 1) % 2 = 1
  OBVIOUS

\* ... and their sums and differences.
LEMMA OddTwice ==
  ASSUME NEW a \in Nat, NEW b \in Nat, a % 2 = 1
  PROVE  /\ b % 2 = 1 => (a + b) % 2 = 0
         /\ b % 2 = 0 /\ a < b => (b - a) % 2 = 1
  OBVIOUS

\* Every odd position belongs to a pair.
LEMMA HalfOf ==
  ASSUME NEW j \in Nat, j % 2 = 1
  PROVE  (j + 1) \div 2 \in Nat /\ j = 2 * ((j + 1) \div 2) - 1
  OBVIOUS

\* ... of the pairs there are.
LEMMA HalfWithin ==
  ASSUME NEW n \in Nat, NEW j \in 1..2 * n, j % 2 = 1
  PROVE  \E i \in 1..n : j = 2 * i - 1
<1> DEFINE i == (j + 1) \div 2
<1>1. i \in Nat /\ j = 2 * i - 1
  BY HalfOf
<1> HIDE DEF i
<1>2. i \in 1..n
  BY <1>1
<1> QED
  BY <1>1, <1>2

\* A path of a graph, by its collection and its scope.
LEMMA GraphPathIs ==
  ASSUME PathsInv, GraphAt!PathType(address) = "graph", GraphAt!Whole(address)
  PROVE  LET scope == GraphAt!GraphScope(address)
         IN  /\ collection \in Path /\ scope \in Path /\ address \in Path
             /\ address = collection \o scope
             /\ Len(address) = Len(collection) + Len(scope)
             /\ Len(collection) \in Nat /\ Len(scope) \in Nat /\ Len(collection) >= 1
             /\ Len(collection) % 2 = 1 /\ Len(scope) % 2 = 0
             /\ 2 * (Len(scope) \div 2) = Len(scope)
             /\ \A i \in 1..Len(collection) : address[i] = collection[i]
             /\ \A i \in 1..Len(scope) : address[Len(collection) + i] = scope[i]
<1> DEFINE scope == GraphAt!GraphScope(address)
           l == Len(collection)
           m == Len(scope)
<1>1. collection \in Path /\ address \in Path /\ l % 2 = 1
  BY PathConstants DEF PathsInv
<1>2. scope \in Path /\ address = collection \o scope /\ Len(address) = l + m
  BY <1>1, ScopeOf
<1>3. m % 2 = 0
  BY DEF GraphAt!Whole
<1> HIDE DEF scope
<1>4. l \in Nat /\ m \in Nat
  BY <1>1, <1>2 DEF Path
<1>5. l >= 1 /\ 2 * (m \div 2) = m
  BY <1>1, <1>3, <1>4
<1>6. \A i \in 1..(l + m) : address[i] = IF i <= l THEN collection[i] ELSE scope[i - l]
  BY <1>1, <1>2, PathJoins
<1> HIDE DEF l, m
<1>7. (\A i \in 1..l : address[i] = collection[i]) /\ \A i \in 1..m : address[l + i] = scope[i]
  <2>1. ASSUME NEW i \in 1..l PROVE address[i] = collection[i]
    BY <1>4, <1>6, <2>1
  <2>2. ASSUME NEW i \in 1..m PROVE address[l + i] = scope[i]
    <3>1. l + i \in 1..(l + m) /\ ~(l + i <= l) /\ (l + i) - l = i
      BY <1>4
    <3> QED
      BY <1>6, <3>1
  <2> QED
    BY <2>1, <2>2
<1> QED
  BY <1>1, <1>2, <1>3, <1>4, <1>5, <1>7 DEF l, m, scope

\* Both searches for an ancestor find the pair that the path goes through first.
LEMMA AncestorsFound == ASSUME PathsInv PROVE GraphAt!AncestorsAgree
<1> SUFFICES ASSUME GraphAt!PathType(address) = "graph", GraphAt!Whole(address)
             PROVE  GraphAt!AncestorsAgree
  BY DEF GraphAt!AncestorsAgree
<1> DEFINE scope == GraphAt!GraphScope(address)
           l == Len(collection)
           m == Len(scope)
           n == m \div 2
           segs == Pairs(scope)
<1>1. /\ collection \in Path /\ scope \in Path /\ address \in Path /\ address = collection \o scope
      /\ Len(address) = l + m /\ l \in Nat /\ m \in Nat /\ l >= 1 /\ l % 2 = 1 /\ m % 2 = 0 /\ 2 * n = m
      /\ (\A i \in 1..l : address[i] = collection[i]) /\ \A i \in 1..m : address[l + i] = scope[i]
  BY GraphPathIs
<1>2. /\ Len(segs) = n /\ n \in Nat
      /\ \A i \in 1..n : segs[i] = <<scope[2 * i - 1], scope[2 * i]>>
  BY SMTT(30), <1>1, PairsAre DEF Path
<1>3. GraphAt!ParseStorageScope(scope) = segs
  <2>1. ~(Len(scope) % 2 # 0)
    BY <1>1
  <2> QED
    BY <2>1 DEF GraphAt!ParseStorageScope, Pairs
<1>4. SUFFICES ASSUME NEW uid \in (PathUids \cup GraphNames) \ GraphAt!Range(collection)
               PROVE  LET through == {i \in 1..Len(segs) : segs[i][1] = uid}
                          found == GraphAt!ResolveAncestorScope(scope, uid)
                      IN  IF through = {}
                          THEN found = nothing /\ GraphAt!ResolveAncestorCollection(address, uid) = nothing
                          ELSE LET i == GraphAt!Least(through)
                               IN  /\ found = GraphAt!FlattenSeq(SubSeq(segs, 1, i - 1))
                                   /\ GraphAt!IsPrefix(GraphAt!AppendStorageScope(found, uid, segs[i][2]), scope)
                                   /\ GraphAt!ResolveAncestorCollection(address, uid) = collection \o found
  BY <1>3 DEF GraphAt!AncestorsAgree
<1> DEFINE through == {i \in 1..Len(segs) : segs[i][1] = uid}
           inScope == {i \in 1..Len(scope) : i % 2 = 1 /\ scope[i] = uid}
           inPath == {i \in 1..Len(address) : i % 2 = 0 /\ address[i] = uid}
           found == GraphAt!ResolveAncestorScope(scope, uid)
           inGraph == GraphAt!ResolveAncestorCollection(address, uid)
<1>5. \A i \in 1..l : collection[i] # uid
  BY <1>1, <1>4 DEF GraphAt!Range, Path
<1>6. /\ found = IF inScope = {} THEN nothing ELSE SubSeq(scope, 1, GraphAt!Least(inScope) - 1)
      /\ inGraph = IF inPath = {} THEN nothing ELSE SubSeq(address, 1, GraphAt!Least(inPath) - 1)
  BY DEF GraphAt!ResolveAncestorScope, GraphAt!ResolveAncestorCollection
<1>7. \A i : i \in through <=> i \in 1..n /\ scope[2 * i - 1] = uid
  BY <1>2
<1> HIDE DEF scope, segs, found, inGraph
<1>8. \A i : i \in inScope <=> i \in 1..m /\ i % 2 = 1 /\ scope[i] = uid
  OBVIOUS
<1>9. \A i : i \in inPath <=> i \in 1..(l + m) /\ i % 2 = 0 /\ address[i] = uid
  BY <1>1
<1> HIDE DEF l, m, n
<1> HIDE DEF through, inScope, inPath
<1>10. \A i \in through : 2 * i - 1 \in inScope /\ l + (2 * i - 1) \in inPath
  <2> SUFFICES ASSUME NEW i \in through PROVE 2 * i - 1 \in inScope /\ l + (2 * i - 1) \in inPath
    OBVIOUS
  <2>1. i \in 1..n /\ scope[2 * i - 1] = uid
    BY <1>7
  <2>2. 2 * i - 1 \in 1..m /\ 2 * i - 1 \in Nat /\ (2 * i - 1) % 2 = 1
    BY <1>1, <1>2, <2>1, OddOf
  <2>3. l + (2 * i - 1) \in 1..(l + m)
    BY <1>1, <2>2
  <2>4. (l + (2 * i - 1)) % 2 = 0
    BY <1>1, <2>2, OddTwice
  <2> QED
    BY <1>1, <1>8, <1>9, <2>1, <2>2, <2>3, <2>4
<1>11. \A j \in inScope : \E i \in through : j = 2 * i - 1
  <2> SUFFICES ASSUME NEW j \in inScope PROVE \E i \in through : j = 2 * i - 1
    OBVIOUS
  <2>1. j \in 1..m /\ j % 2 = 1 /\ scope[j] = uid
    BY <1>8
  <2>2. PICK i \in 1..n : j = 2 * i - 1
    BY <1>1, <1>2, <2>1, HalfWithin
  <2> QED
    BY <1>7, <2>1, <2>2
<1>12. \A j \in inPath : \E i \in through : j = l + (2 * i - 1)
  <2> SUFFICES ASSUME NEW j \in inPath PROVE \E i \in through : j = l + (2 * i - 1)
    OBVIOUS
  <2>1. j \in 1..(l + m) /\ j % 2 = 0 /\ address[j] = uid
    BY <1>9
  <2>2. j > l
    BY <1>1, <1>5, <2>1
  <2>3. j - l \in 1..m /\ (j - l) % 2 = 1 /\ l + (j - l) = j
    <3>1. j \in Nat /\ l < j
      BY <1>1, <2>1, <2>2
    <3>2. (j - l) % 2 = 1
      BY <1>1, <2>1, <3>1, OddTwice
    <3> QED
      BY <1>1, <2>1, <3>1, <3>2
  <2>4. scope[j - l] = uid
    BY <1>1, <2>1, <2>3
  <2>5. PICK i \in 1..n : j - l = 2 * i - 1
    BY <1>1, <1>2, <2>3, HalfWithin
  <2>6. i \in through
    BY <1>7, <2>4, <2>5
  <2>7. j = l + (2 * i - 1)
    BY <1>1, <2>1, <2>3, <2>5
  <2> QED
    BY <2>6, <2>7
<1>13. CASE through = {}
  BY <1>6, <1>11, <1>12, <1>13 DEF through, found, inGraph
<1>14. CASE through # {}
  <2>1. PICK i \in through : \A k \in through : i <= k
    <3>1. through \in SUBSET Nat
      BY <1>2, <1>7
    <3> QED
      BY <1>14, <3>1, Least
  <2>2. i \in Nat /\ i \in 1..n /\ scope[2 * i - 1] = uid /\ through \in SUBSET Nat
    BY <1>2, <1>7, <2>1
  <2>3. GraphAt!Least(through) = i
    BY <2>1, <2>2, LeastIs
  <2>4. GraphAt!Least(inScope) = 2 * i - 1
    <3>1. inScope \in SUBSET Nat
      BY <1>1, <1>8
    <3>2. 2 * i - 1 \in inScope
      BY <1>10
    <3>3. ASSUME NEW j \in inScope PROVE 2 * i - 1 <= j
      <4>1. PICK k \in through : j = 2 * k - 1
        BY <1>11
      <4> QED
        BY <2>1, <2>2, <4>1
    <3> QED
      BY <3>1, <3>2, <3>3, LeastIs
  <2>5. GraphAt!Least(inPath) = l + (2 * i - 1)
    <3>1. inPath \in SUBSET Nat
      BY <1>1, <1>9
    <3>2. l + (2 * i - 1) \in inPath
      BY <1>10
    <3>3. ASSUME NEW j \in inPath PROVE l + (2 * i - 1) <= j
      <4>1. PICK k \in through : j = l + (2 * k - 1)
        BY <1>12
      <4>2. i <= k /\ k \in Nat
        BY <2>1, <2>2
      <4> QED
        BY <1>1, <2>2, <4>1, <4>2
    <3> QED
      BY <3>1, <3>2, <3>3, LeastIs
  <2> DEFINE k == i - 1
  <2>6. /\ k \in 0..n /\ 2 * k \in 0..m /\ (2 * i - 1) - 1 = 2 * k /\ (l + (2 * i - 1)) - 1 = l + 2 * k
        /\ 2 * k + 2 <= m /\ 2 * k + 1 = 2 * i - 1 /\ 2 * k + 2 = 2 * i
    BY <1>1, <1>2, <2>2
  <2> HIDE DEF k
  <2> DEFINE up == SubSeq(scope, 1, 2 * k)
  <2>7. found = up
    BY <1>6, <1>10, <2>1, <2>4, <2>6
  <2>8. inGraph = SubSeq(address, 1, l + 2 * k)
    BY <1>6, <1>10, <2>1, <2>5, <2>6
  <2>9. up \in Path /\ Len(up) = 2 * k /\ \A j \in 1..(2 * k) : up[j] = scope[j]
    BY <1>1, <2>6, StartOf DEF Path, m
  <2> HIDE DEF up
  <2>10. collection \o up = SubSeq(address, 1, l + 2 * k)
    <3>1. SubSeq(address, 1, l) = collection
      <4>1. l \in 0..Len(address)
        BY <1>1
      <4>2. SubSeq(address, 1, l) \in Path /\ Len(SubSeq(address, 1, l)) = l
            /\ \A j \in 1..l : SubSeq(address, 1, l)[j] = address[j]
        BY <1>1, <4>1, StartOf DEF Path
      <4> QED
        BY <1>1, <4>2, SameSequence DEF Path, l
    <3>2. l \in 0..Len(address) /\ l + Len(up) <= Len(address) /\ \A j \in 1..Len(up) : up[j] = address[l + j]
      <4>1. l \in 0..Len(address) /\ l + 2 * k <= Len(address)
        BY <1>1, <2>6
      <4>2. \A j \in 1..(2 * k) : j \in 1..m
        BY <1>1, <2>6
      <4> QED
        BY <1>1, <2>9, <4>1, <4>2
    <3>3. SubSeq(address, 1, l) \o up = SubSeq(address, 1, l + Len(up))
      BY <1>1, <2>9, <3>2, StartGoesOn DEF Path
    <3> QED
      BY <2>9, <3>1, <3>3
  <2>11. GraphAt!FlattenSeq(SubSeq(segs, 1, k)) = up
    BY <1>1, <2>6, PairsFlatten DEF segs, up, Path, n, m
  <2>12. GraphAt!IsPrefix(GraphAt!AppendStorageScope(up, uid, segs[i][2]), scope)
    <3> DEFINE t == <<uid, segs[i][2]>>
    <3>1. segs[i][2] = scope[2 * i]
      BY <1>2, <2>2
    <3>2. scope[2 * i] \in Unsplit /\ uid \in Unsplit
      <4>1. 2 * i \in 1..m /\ 2 * i - 1 \in 1..m
        BY <1>1, <2>2, <2>6
      <4>2. \A j \in 1..m : scope[j] \in Unsplit
        BY <1>1 DEF Path, m
      <4> QED
        BY <2>2, <4>1, <4>2
    <3>3. t \in Path /\ Len(t) = 2 /\ t[1] = scope[2 * k + 1] /\ t[2] = scope[2 * k + 2]
      BY <2>2, <2>6, <3>1, <3>2, TwoOf DEF Path
    <3> HIDE DEF t
    <3>4. 2 * k \in 0..Len(scope) /\ 2 * k + Len(t) <= Len(scope) /\ \A j \in 1..Len(t) : t[j] = scope[2 * k + j]
      <4>1. 2 * k \in 0..Len(scope) /\ 2 * k + 2 <= Len(scope)
        BY <2>6 DEF m
      <4>2. \A j \in 1..2 : j = 1 \/ j = 2
        OBVIOUS
      <4> QED
        BY <3>3, <4>1, <4>2
    <3>5. up \o t = SubSeq(scope, 1, 2 * k + Len(t))
      <4> DEFINE e == 2 * k
      <4>1. e \in 0..Len(scope) /\ e + Len(t) <= Len(scope) /\ \A j \in 1..Len(t) : t[j] = scope[e + j]
        BY <3>4
      <4> HIDE DEF e
      <4>2. SubSeq(scope, 1, e) \o t = SubSeq(scope, 1, e + Len(t))
        <5>1. scope \in Seq(Unsplit) /\ t \in Seq(Unsplit)
          BY <1>1, <3>3 DEF Path
        <5> QED
          BY <4>1, <5>1, StartGoesOn
      <4> QED
        BY <4>2 DEF e, up
    <3>6. up \o t = SubSeq(scope, 1, 2 * k + 2) /\ 2 * k + 2 \in 0..Len(scope)
      BY <1>1, <2>6, <3>3, <3>5 DEF m
    <3>7. /\ up \o t \in Path /\ Len(up \o t) = 2 * k + 2
          /\ \A j \in 1..(2 * k + 2) : (up \o t)[j] = scope[j]
      <4> DEFINE e == 2 * k + 2
      <4>1. e \in 0..Len(scope) /\ up \o t = SubSeq(scope, 1, e)
        BY <3>6
      <4> HIDE DEF e
      <4>2. /\ SubSeq(scope, 1, e) \in Path /\ Len(SubSeq(scope, 1, e)) = e
            /\ \A j \in 1..e : SubSeq(scope, 1, e)[j] = scope[j]
        BY <1>1, <4>1, StartOf DEF Path
      <4> QED
        BY <4>1, <4>2 DEF e
    <3> DEFINE w == up \o t
    <3>8. w \in Path /\ Len(w) <= Len(scope) /\ \A j \in 1..Len(w) : w[j] = scope[j]
      BY <2>6, <3>7 DEF m
    <3>9. GraphAt!AppendStorageScope(up, uid, segs[i][2]) = w
      BY DEF GraphAt!AppendStorageScope, t
    <3> HIDE DEF w
    <3>10. IsPrefix(w, scope)
      BY <1>1, <3>8, PrefixIs DEF Path
    <3> QED
      BY <3>9, <3>10 DEF GraphAt!IsPrefix, IsPrefix
  <2> QED
    BY <1>14, <2>3, <2>7, <2>8, <2>10, <2>11, <2>12 DEF k, through, found, inGraph
<1> QED
  BY <1>13, <1>14

\* Who enters a subgraph comes back; every crumb is a graph on the way.
LEMMA EnteredLeaves == ASSUME PathsInv PROVE GraphAt!EnteredIsLeft
<1> SUFFICES ASSUME GraphAt!PathType(address) = "graph", GraphAt!Whole(address),
                    NEW uid \in PathUids \ DOMAIN Split, NEW name \in GraphNames \ DOMAIN Split,
                    GraphAt!PathType(GraphAt!EnterSubgraph(address, uid, name)) = "graph"
             PROVE  LET inner == GraphAt!EnterSubgraph(address, uid, name)
                    IN  /\ GraphAt!ParseScopeSegments(GraphAt!GraphScope(inner))
                             = Append(GraphAt!ParseScopeSegments(GraphAt!GraphScope(address)), <<uid, name>>)
                        /\ GraphAt!ServerCollection(GraphAt!GraphScope(inner)) = inner
                        /\ GraphAt!NavigateUp(inner) = address
  BY DEF GraphAt!EnteredIsLeft
<1> DEFINE inner == GraphAt!EnterSubgraph(address, uid, name)
           step == <<uid, name>>
           scope == GraphAt!GraphScope(address)
           below == GraphAt!GraphScope(inner)
           l == Len(collection)
           m == Len(scope)
<1>1. /\ collection \in Path /\ scope \in Path /\ address \in Path /\ address = collection \o scope
      /\ Len(address) = l + m /\ l \in Nat /\ m \in Nat /\ l >= 1 /\ m % 2 = 0
  BY GraphPathIs
<1>2. uid \in Unsplit /\ name \in Unsplit
  BY PathConstants DEF Unsplit
<1>3. step \in Path /\ Len(step) = 2 /\ step[1] = uid /\ step[2] = name
  BY <1>2, TwoOf DEF Path
<1> HIDE DEF step, scope
<1> DEFINE whole == address \o step
<1>4. whole \in Path /\ Len(whole) = l + m + 2
      /\ \A i \in 1..(l + m + 2) : whole[i] = IF i <= l + m THEN address[i] ELSE step[i - (l + m)]
  <2>1. /\ address \o step \in Path /\ Len(address \o step) = Len(address) + Len(step)
           /\ \A i \in 1..(Len(address) + Len(step)) :
                (address \o step)[i] = IF i <= Len(address) THEN address[i] ELSE step[i - Len(address)]
    <3>1. address \in Path /\ step \in Path
      BY <1>1, <1>3
    <3> QED
      BY <3>1, PathJoins
  <2> HIDE DEF l, m
  <2>2. Len(address) = l + m /\ Len(step) = 2
    BY <1>1, <1>3
  <2> QED
    BY <2>1, <2>2
<1>5. inner = whole
  BY <1>4, DecodedSame DEF GraphAt!EnterSubgraph, step
<1>6. /\ inner = collection \o below /\ below = SubSeq(inner, l + 1, Len(inner)) /\ below \in Path
      /\ Len(inner) = l + Len(below)
  BY <1>1, <1>4, <1>5, ScopeOf
<1>7. Len(below) = m + 2
  <2>1. Len(below) \in Nat
    BY <1>6 DEF Path
  <2> HIDE DEF below, inner, whole, l, m
  <2> QED
    BY <1>1, <1>4, <1>5, <1>6, <2>1
<1>8. below = scope \o step
  <2>1. \A i \in 1..(m + 2) : below[i] = inner[l + i]
    <3> HIDE DEF below, inner, whole, l, m
    <3>1. \A i \in 1..(l + (m + 2)) : (collection \o below)[i] = IF i <= l THEN collection[i] ELSE below[i - l]
      BY <1>1, <1>6, <1>7, PathJoins DEF l
    <3> SUFFICES ASSUME NEW i \in 1..(m + 2) PROVE below[i] = inner[l + i]
      OBVIOUS
    <3>2. l + i \in 1..(l + (m + 2)) /\ ~(l + i <= l) /\ (l + i) - l = i
      BY <1>1
    <3> QED
      BY <1>6, <3>1, <3>2
  <2> DEFINE both == scope \o step
  <2>2. /\ both \in Path /\ Len(both) = m + 2
        /\ \A i \in 1..(m + 2) : both[i] = IF i <= m THEN scope[i] ELSE step[i - m]
    <3>1. /\ scope \o step \in Path /\ Len(scope \o step) = Len(scope) + Len(step)
             /\ \A i \in 1..(Len(scope) + Len(step)) :
                  (scope \o step)[i] = IF i <= Len(scope) THEN scope[i] ELSE step[i - Len(scope)]
      <4>1. scope \in Path /\ step \in Path
        BY <1>1, <1>3
      <4> QED
        BY <4>1, PathJoins
    <3> QED
      BY <1>3, <3>1
  <2>3. \A i \in 1..m : address[l + i] = scope[i]
    BY GraphPathIs DEF scope
  <2> HIDE DEF both, below, inner, whole, l, m
  <2>4. ASSUME NEW i \in 1..(m + 2) PROVE below[i] = both[i]
    <3>1. l + i \in 1..(l + m + 2) /\ (l + i) - (l + m) = i - m /\ (l + i <= l + m <=> i <= m)
      BY <1>1
    <3>2. below[i] = IF l + i <= l + m THEN address[l + i] ELSE step[(l + i) - (l + m)]
      BY <1>4, <1>5, <2>1, <3>1
    <3>3. CASE i <= m
      BY <1>1, <2>2, <2>3, <3>1, <3>2, <3>3
    <3>4. CASE ~(i <= m)
      BY <2>2, <3>1, <3>2, <3>4
    <3> QED
      BY <3>3, <3>4
  <2>5. below = both
    BY <1>6, <1>7, <2>2, <2>4, SameSequence DEF Path
  <2> QED
    BY <2>5 DEF both
<1> HIDE DEF below
<1>9. Pairs(below) = Append(Pairs(scope), step)
  <2> DEFINE n == m \div 2
  <2>1. (m + 2) \div 2 = n + 1 /\ n \in Nat /\ 2 * n = m
    <3> HIDE DEF m
    <3> QED
      BY <1>1
  <2>2. /\ Pairs(scope) \in Seq(Path) /\ Len(Pairs(scope)) = n
        /\ \A i \in 1..n : Pairs(scope)[i] = <<scope[2 * i - 1], scope[2 * i]>>
    BY <1>1, PairsAre DEF Path
  <2>3. /\ Pairs(below) \in Seq(Path) /\ Len(Pairs(below)) = (m + 2) \div 2
        /\ \A i \in 1..((m + 2) \div 2) : Pairs(below)[i] = <<below[2 * i - 1], below[2 * i]>>
    <3>1. below \in Seq(Unsplit)
      BY <1>6 DEF Path
    <3> HIDE DEF m
    <3> QED
      BY <1>7, <3>1, PairsAre DEF Path
  <2>4. /\ \A i \in 1..m : below[i] = scope[i]
        /\ below[m + 1] = uid /\ below[m + 2] = name
    <3>1. \A i \in 1..(m + 2) : below[i] = IF i <= m THEN scope[i] ELSE step[i - m]
      BY SMTT(30), <1>1, <1>3, <1>8, PathJoins
    <3> HIDE DEF m
    <3>2. m + 1 \in 1..(m + 2) /\ m + 2 \in 1..(m + 2) /\ (m + 1) - m = 1 /\ (m + 2) - m = 2
          /\ ~(m + 1 <= m) /\ ~(m + 2 <= m)
      BY <1>1
    <3>3. \A i \in 1..m : i \in 1..(m + 2) /\ i <= m
      BY <1>1
    <3> QED
      BY <1>3, <3>1, <3>2, <3>3
  <2> HIDE DEF n, m
  <2> DEFINE a == Pairs(below)
             b == Append(Pairs(scope), step)
  <2>5. /\ b \in Seq(Path) /\ Len(b) = n + 1 /\ b[n + 1] = step /\ \A i \in 1..n : b[i] = Pairs(scope)[i]
    BY <1>3, <2>1, <2>2
  <2>6. a \in Seq(Path) /\ Len(a) = n + 1 /\ \A i \in 1..(n + 1) : a[i] = <<below[2 * i - 1], below[2 * i]>>
    BY <2>1, <2>3
  <2> HIDE DEF a, b
  <2>7. ASSUME NEW i \in 1..(n + 1) PROVE a[i] = b[i]
    <3>1. CASE i \in 1..n
      <4>1. 2 * i - 1 \in 1..m /\ 2 * i \in 1..m
        BY <2>1, <3>1
      <4> QED
        BY <2>2, <2>4, <2>5, <2>6, <3>1, <4>1
    <3>2. CASE i = n + 1
      <4>1. 2 * i - 1 = m + 1 /\ 2 * i = m + 2
        BY <2>1, <3>2
      <4>2. a[i] = <<uid, name>>
        BY <2>4, <2>6, <4>1
      <4> QED
        BY <2>5, <3>2, <4>2 DEF step
    <3> QED
      BY <2>1, <3>1, <3>2
  <2>8. a = b
    BY <2>5, <2>6, <2>7, SameSequence
  <2> QED
    BY <2>8 DEF a, b
<1>10. GraphAt!ServerCollection(below) = inner
  <2>1. ~(Len(below) % 2 # 0)
    <3> HIDE DEF m
    <3> QED
      BY <1>1, <1>7
  <2> QED
    BY <1>6, <2>1 DEF GraphAt!ServerCollection
<1>11. GraphAt!NavigateUp(inner) = address
  <2>1. Len(inner) = l + m + 2 /\ Len(inner) >= 3 /\ Len(inner) - 2 = l + m /\ l + m \in 0..Len(inner)
    <3> HIDE DEF l, m
    <3> QED
      BY <1>1, <1>4, <1>5
  <2>2. GraphAt!NavigateUp(inner) = SubSeq(inner, 1, l + m)
    BY <2>1 DEF GraphAt!NavigateUp
  <2> DEFINE k == l + m
             a == SubSeq(inner, 1, k)
  <2>3. k \in 0..Len(whole) /\ Len(address) = k
    BY <1>1, <1>5, <2>1
  <2>4. a \in Path /\ Len(a) = k /\ \A i \in 1..k : a[i] = whole[i]
    <3> HIDE DEF k, whole, inner
    <3> QED
      BY <1>4, <1>5, <2>3, StartOf DEF Path
  <2>5. \A i \in 1..k : whole[i] = address[i]
    <3> HIDE DEF whole, l, m
    <3> QED
      BY <1>1, <1>4
  <2> HIDE DEF k, a, whole
  <2>6. a = address
    BY <1>1, <2>3, <2>4, <2>5, SameSequence DEF Path
  <2> QED
    BY <2>2, <2>6 DEF a, k
<1> QED
  BY <1>9, <1>10, <1>11 DEF below, scope, Pairs, step, inner

\* The breadcrumb and popToDepth lead to the graphs on the way.
LEMMA CrumbsAre == ASSUME PathsInv PROVE GraphAt!CrumbsLead
<1> SUFFICES ASSUME GraphAt!PathType(address) = "graph", GraphAt!Whole(address)
             PROVE  GraphAt!CrumbsLead
  BY DEF GraphAt!CrumbsLead
<1> DEFINE scope == GraphAt!GraphScope(address)
           l == Len(collection)
           m == Len(scope)
           n == m \div 2
           deep == Len(GraphAt!ParseScopeSegments(scope))
<1>1. /\ collection \in Path /\ scope \in Path /\ address \in Path /\ address = collection \o scope
      /\ Len(address) = l + m /\ l \in Nat /\ m \in Nat /\ l >= 1 /\ 2 * n = m
      /\ (\A i \in 1..l : address[i] = collection[i]) /\ \A i \in 1..m : address[l + i] = scope[i]
  BY GraphPathIs
<1>2. deep = n /\ n \in Nat
  <2>1. Len(Pairs(scope)) = n
    BY <1>1, PairsAre DEF Path
  <2> QED
    BY <1>1, <2>1 DEF Pairs
<1>3. ASSUME NEW i \in 0..n
      PROVE  /\ GraphAt!PopToDepth(address, i) = collection \o SubSeq(scope, 1, 2 * i)
             /\ SubSeq(scope, 1, 2 * i) \in Path /\ Len(SubSeq(scope, 1, 2 * i)) = 2 * i
             /\ \A j \in 1..(2 * i) : SubSeq(scope, 1, 2 * i)[j] = scope[j]
             /\ 2 * i \in 0..m
  <2>1. i \in Nat /\ (IF i < n THEN i ELSE n) = i
    BY <1>2
  <2>2. GraphAt!PopToDepth(address, i) = collection \o SubSeq(scope, 1, 2 * i)
    BY <1>1, <2>1, PoppedIs
  <2> HIDE DEF scope, n
  <2>3. 2 * i \in 0..m
    BY <1>1, <1>2
  <2> QED
    BY <1>1, <2>2, <2>3, StartOf DEF Path
<1>4. GraphAt!PopToDepth(address, n) = address
  <2>1. n \in 0..n
    BY <1>2
  <2>2. GraphAt!PopToDepth(address, n) = collection \o SubSeq(scope, 1, m)
    BY <1>1, <1>3, <2>1
  <2>3. SubSeq(scope, 1, m) = scope
    <3> HIDE DEF scope
    <3> QED
      BY <1>1 DEF Path
  <2> QED
    BY <1>1, <2>2, <2>3
<1> HIDE DEF scope
<1>5. ASSUME NEW i \in 0..n PROVE GraphAt!IsPrefix(GraphAt!PopToDepth(address, i), address)
  <2> DEFINE up == SubSeq(scope, 1, 2 * i)
             w == collection \o up
  <2>1. up \in Path /\ Len(up) = 2 * i /\ (\A j \in 1..(2 * i) : up[j] = scope[j]) /\ 2 * i \in 0..m
    BY <1>3
  <2> HIDE DEF up, l, m
  <2>2. /\ w \in Path /\ Len(w) = l + 2 * i
        /\ \A j \in 1..(l + 2 * i) : w[j] = IF j <= l THEN collection[j] ELSE up[j - l]
    <3>1. /\ collection \o up \in Path /\ Len(collection \o up) = Len(collection) + Len(up)
             /\ \A j \in 1..(Len(collection) + Len(up)) :
                  (collection \o up)[j] = IF j <= Len(collection) THEN collection[j] ELSE up[j - Len(collection)]
      <4>1. collection \in Path /\ up \in Path
        BY <1>1, <2>1
      <4> QED
        BY <4>1, PathJoins
    <3> QED
      BY <2>1, <3>1 DEF l
  <2> HIDE DEF w
  <2>3. ASSUME NEW j \in 1..(l + 2 * i) PROVE w[j] = address[j]
    <3>1. CASE j <= l
      BY <1>1, <2>2, <3>1
    <3>2. CASE ~(j <= l)
      <4> DEFINE k == j - l
      <4>1. k \in 1..(2 * i) /\ k \in 1..m /\ l + k = j
        BY <1>1, <2>1, <3>2
      <4>2. w[j] = up[k]
        BY <2>2, <3>2
      <4> HIDE DEF k
      <4> QED
        BY <1>1, <2>1, <4>1, <4>2
    <3> QED
      BY <3>1, <3>2
  <2>4. Len(w) <= Len(address)
    BY <1>1, <2>1, <2>2
  <2>5. \A j \in 1..Len(w) : w[j] = address[j]
    BY <2>2, <2>3
  <2>6. IsPrefix(w, address)
    BY <1>1, <2>2, <2>4, <2>5, PrefixIs DEF Path
  <2> QED
    BY <1>3, <2>6 DEF GraphAt!IsPrefix, IsPrefix, w, up
<1>6. ASSUME NEW i \in 0..n, l = 1 PROVE GraphAt!BreadcrumbLink(address, i) = GraphAt!PopToDepth(address, i)
  <2>1. address # <<>>
    BY <1>1
  <2>2. i \in 0..deep
    BY <1>2
  <2>3. GraphAt!BreadcrumbLink(address, i) = <<address[1]>> \o SubSeq(scope, 1, 2 * i)
    BY <1>1, <2>1, <2>2, CrumbIs DEF scope
  <2>4. <<address[1]>> = collection
    <3>1. address[1] = collection[1] /\ Len(collection) = 1
      BY <1>1, <1>6
    <3>2. <<collection[1]>> = collection
      BY <1>1, <3>1 DEF Path
    <3> QED
      BY <3>1, <3>2
  <2> QED
    BY <1>3, <2>3, <2>4
<1> QED
  BY <1>2, <1>4, <1>5, <1>6 DEF GraphAt!CrumbsLead, scope

\* A link to a collection is read back as that collection and its parameters.
LEMMA CollectionLinksRead == ASSUME PathsInv PROVE GraphAt!CollectionLinksLead
<1> SUFFICES ASSUME NEW t \in Templates, NEW uid \in PathUids \ DOMAIN Split
             PROVE  LET p == GraphAt!Decode(GraphAt!CollectionLink(t, uid))
                    IN  /\ GraphAt!PathType(p) = "collection"
                        /\ GraphAt!MatchCollectionTemplate(p, t)
                        /\ GraphAt!ResolveCollectionPath(t, GraphAt!ParamsOf(p, t)) = p
  BY DEF GraphAt!CollectionLinksLead
<1> DEFINE p == GraphAt!CollectionLink(t, uid)
<1>1. p \in Path /\ Len(p) = Len(t) /\ t \in Path
  BY LinkTo, PathConstants
<1>2. PICK k : \A i \in 1..Len(t) : p[i] = IF t[i] = k /\ t[i] \in Parameters THEN uid ELSE t[i]
  BY LinkTo
<1>3. GraphAt!Decode(GraphAt!CollectionLink(t, uid)) = p
  BY <1>1, DecodedSame
<1> HIDE DEF p
<1>4. GraphAt!MatchCollectionTemplate(p, t)
  BY <1>1, <1>2 DEF GraphAt!MatchCollectionTemplate
<1>5. GraphAt!PathType(p) = "collection"
  BY <1>4 DEF GraphAt!PathType
<1>6. GraphAt!ResolveCollectionPath(t, GraphAt!ParamsOf(p, t)) = p
  <2> DEFINE params == GraphAt!ParamsOf(p, t)
             r == [i \in 1..Len(t) |-> IF t[i] \in DOMAIN params THEN params[t[i]] ELSE t[i]]
  <2>1. DOMAIN t = 1..Len(t) /\ Len(t) \in Nat /\ p = [i \in 1..Len(t) |-> p[i]]
    BY <1>1 DEF Path
  <2>2. /\ DOMAIN params = Parameters \cap GraphAt!Range(t)
        /\ \A w \in DOMAIN params : params[w] = p[CHOOSE i \in 1..Len(t) : t[i] = w]
    BY DEF GraphAt!ParamsOf
  <2> HIDE DEF params
  <2>3. ASSUME NEW i \in 1..Len(t) PROVE (IF t[i] \in DOMAIN params THEN params[t[i]] ELSE t[i]) = p[i]
    <3>1. t[i] \in DOMAIN params <=> t[i] \in Parameters
      BY <2>1, <2>2 DEF GraphAt!Range
    <3>2. CASE t[i] \in Parameters
      <4> DEFINE j == CHOOSE j \in 1..Len(t) : t[j] = t[i]
      <4>1. j \in 1..Len(t) /\ t[j] = t[i]
        OBVIOUS
      <4>2. params[t[i]] = p[j]
        BY <2>2, <3>1, <3>2
      <4> HIDE DEF j
      <4>3. p[j] = p[i]
        BY <1>2, <4>1
      <4> QED
        BY <3>1, <3>2, <4>2, <4>3
    <3>3. CASE t[i] \notin Parameters
      BY <1>2, <3>1, <3>3
    <3> QED
      BY <3>2, <3>3
  <2>4. r = p
    BY <2>1, <2>3
  <2> QED
    BY <2>4 DEF GraphAt!ResolveCollectionPath, params
<1> QED
  BY <1>3, <1>4, <1>5, <1>6

-----------------------------------------------------------------------------
\* A pattern is matched from its last segment on.
Starting(g, path, q) ==
  /\ g[0] = {Len(path) + 1}
  /\ \A k \in 1..Len(q) : g[k] = GraphAt!Takes(path, q[Len(q) + 1 - k], k = 1, g[k - 1])

\* matchSegments goes over the pattern once.
LEMMA SegmentsRun ==
  ASSUME NEW path, Len(path) \in Nat, NEW q, Len(q) \in Nat
  PROVE  \E g : Starting(g, path, q) /\ (GraphAt!MatchSegments(path, q) <=> 1 \in g[Len(q)])
<1> DEFINE n == Len(q)
           T == SUBSET (1..(Len(path) + 1))
           first == {Len(path) + 1}
           Taken(k, w) == GraphAt!Takes(path, q[n + 1 - k], k = 1, w)
           step == [k \in 1..n |-> [w \in T |-> Taken(k, w)]]
<1>1. first \in T
  OBVIOUS
<1>2. \A k \in 1..n, w \in T : Taken(k, w) \in T
  BY DEF GraphAt!Takes
<1> HIDE DEF Taken
<1>3. \A k \in 1..n : step[k] \in [T -> T] /\ \A w \in T : step[k][w] = Taken(k, w)
  <2> HIDE DEF T, n
  <2> QED
    BY <1>2
<1>4. PICK g \in [0..n -> T] : Goes(g, n, first, step)
  <2>1. n \in Nat
    OBVIOUS
  <2> HIDE DEF n, T, step, first
  <2> QED
    BY <1>1, <1>3, <2>1, Recursion, Zenon
<1> DEFINE F(f) == [k \in 0..n |-> IF k = 0 THEN first ELSE Taken(k, f[k - 1])]
           f == CHOOSE f : f = F(f)
<1>5. g = F(g)
  <2>1. ASSUME NEW k \in 0..n PROVE g[k] = IF k = 0 THEN first ELSE Taken(k, g[k - 1])
    <3>1. CASE k = 0
      BY <1>4, <3>1 DEF Goes
    <3>2. CASE k # 0
      <4>1. k \in 1..n /\ k - 1 \in 0..n
        BY <3>2
      <4>2. g[k] = step[k][g[k - 1]]
        BY <1>4, <4>1 DEF Goes
      <4> HIDE DEF n, T, step
      <4>3. g[k - 1] \in T
        BY <4>1
      <4> QED
        BY <1>3, <3>2, <4>1, <4>2, <4>3
    <3> QED
      BY <3>1, <3>2
  <2> HIDE DEF first
  <2> QED
    BY <2>1
<1>6. f = F(f)
  BY <1>5
<1>7. GraphAt!MatchSegments(path, q) <=> 1 \in f[n]
  BY DEF GraphAt!MatchSegments, Taken
<1> HIDE DEF f
<1>8. \A k \in 0..n : f[k] = IF k = 0 THEN first ELSE Taken(k, f[k - 1])
  <2> HIDE DEF first
  <2> QED
    BY <1>6
<1>9. Starting(f, path, q)
  <2>1. 0 \in 0..n /\ \A k \in 1..n : k \in 0..n /\ k # 0
    OBVIOUS
  <2>2. f[0] = first
    BY <1>8, <2>1
  <2>3. \A k \in 1..n : f[k] = Taken(k, f[k - 1])
    BY <1>8, <2>1
  <2> QED
    BY <2>2, <2>3 DEF Starting, Taken
<1> QED
  BY <1>7, <1>9

\* A cut of the path from position i on, for the last k segments of a pattern.
Fits(c, j, path, q) ==
  CASE q[j] = "**" -> c[j - 1] <= c[j]
    [] q[j] = "*"  -> c[j] = c[j - 1] + 1
    [] OTHER       -> c[j] = c[j - 1] + 1 /\ path[c[j]] = q[j]
CutFrom(c, i, k, path, q) ==
  /\ c[Len(q) - k] = i - 1 /\ c[Len(q)] = Len(path)
  /\ \A j \in (Len(q) - k + 1)..Len(q) : Fits(c, j, path, q)
Cuttings(path, q) == [0..Len(q) -> 0..Len(path)]

\* From where the last segments match is from where the path can be cut for them.
LEMMA CutsAre ==
  ASSUME NEW path, Len(path) \in Nat, NEW q, Len(q) \in Nat, NEW g, Starting(g, path, q)
  PROVE  \A i \in 1..(Len(path) + 1) :
           i \in g[Len(q)] <=> \E c \in Cuttings(path, q) : CutFrom(c, i, Len(q), path, q)
<1> DEFINE n == Len(q)
           m == Len(path)
           C == Cuttings(path, q)
           I == {k \in Nat : k <= n => \A i \in 1..(m + 1) : i \in g[k] <=> \E c \in C : CutFrom(c, i, k, path, q)}
<1>0. n \in Nat /\ m \in Nat /\ \A c \in C, j \in 0..n : c[j] \in 0..m
  BY DEF Cuttings
<1> HIDE DEF C
<1>1. 0 \in I
  <2> SUFFICES ASSUME NEW i \in 1..(m + 1) PROVE i \in g[0] <=> \E c \in C : CutFrom(c, i, 0, path, q)
    OBVIOUS
  <2>1. i \in g[0] <=> i - 1 = m
    BY <1>0 DEF Starting
  <2>2. n - 0 = n /\ (n - 0) + 1 = n + 1 /\ (n + 1)..n = {}
    BY <1>0
  <2>3. \A c : CutFrom(c, i, 0, path, q) <=> c[n] = i - 1 /\ c[n] = m
    BY <2>2 DEF CutFrom
  <2>4. ASSUME i - 1 = m PROVE \E c \in C : CutFrom(c, i, 0, path, q)
    <3> DEFINE c == [j \in 0..n |-> m]
    <3>1. c \in C /\ c[n] = m
      BY <1>0 DEF Cuttings, C
    <3> QED
      BY <2>3, <2>4, <3>1
  <2> QED
    BY <2>1, <2>3, <2>4
<1>2. ASSUME NEW k \in I PROVE k + 1 \in I
  <2>0. k \in Nat /\ k + 1 \in Nat /\ (k + 1) - 1 = k /\ (k + 1 = 1 <=> k = 0)
    OBVIOUS
  <2>1. SUFFICES ASSUME k + 1 <= n, NEW i \in 1..(m + 1)
                 PROVE  i \in g[k + 1] <=> \E c \in C : CutFrom(c, i, k + 1, path, q)
    BY <2>0
  <2> DEFINE e == n - (k + 1)
             s == q[e + 1]
  <2>2. /\ e \in 0..n /\ e + 1 \in 0..n /\ n - k = e + 1 /\ e + 1 <= n /\ n + 1 - (k + 1) = e + 1
        /\ k + 1 \in 1..n /\ k <= n /\ (e + 1) - 1 = e
    BY <1>0, <2>0, <2>1
  <2>3. \A h \in 1..(m + 1) : h \in g[k] <=> \E c \in C : CutFrom(c, h, k, path, q)
    BY <1>2, <2>2
  <2>4. g[k + 1] = GraphAt!Takes(path, s, k = 0, g[k])
    <3>1. g[k + 1] = GraphAt!Takes(path, q[n + 1 - (k + 1)], k + 1 = 1, g[(k + 1) - 1])
      BY <2>2 DEF Starting
    <3>2. (k + 1 = 1) = (k = 0)
      BY <2>0
    <3> QED
      BY <2>0, <2>2, <3>1, <3>2
  <2> HIDE DEF e, s, I
  <2>5. \A c : CutFrom(c, i, k + 1, path, q) <=>
                 /\ c[e] = i - 1 /\ c[n] = m /\ Fits(c, e + 1, path, q)
                 /\ \A j \in (e + 2)..n : Fits(c, j, path, q)
    <3>1. \A j : j \in (e + 1)..n <=> (j = e + 1 \/ j \in (e + 2)..n)
      BY <1>0, <2>2
    <3>2. \A c : CutFrom(c, i, k + 1, path, q) <=>
                   c[e] = i - 1 /\ c[n] = m /\ \A j \in (e + 1)..n : Fits(c, j, path, q)
      BY DEF CutFrom, e
    <3> QED
      BY <3>1, <3>2
  <2>6. \A c, h : CutFrom(c, h, k, path, q) <=>
                    c[e + 1] = h - 1 /\ c[n] = m /\ \A j \in (e + 2)..n : Fits(c, j, path, q)
    <3>1. (n - k) + 1 = e + 2
      BY <1>0, <2>0, <2>2
    <3> QED
      BY <2>2, <3>1 DEF CutFrom
  \* What remains of a cut, and a cut before it.
  <2>7. ASSUME NEW c \in C, CutFrom(c, i, k + 1, path, q)
        PROVE  c[e + 1] + 1 \in g[k] /\ Fits(c, e + 1, path, q) /\ c[e] = i - 1 /\ c[e + 1] \in 0..m
    <3> DEFINE h == c[e + 1] + 1
    <3>1. c[e + 1] \in 0..m /\ h \in 1..(m + 1) /\ h - 1 = c[e + 1]
      BY <1>0, <2>2
    <3> HIDE DEF h
    <3>2. CutFrom(c, h, k, path, q)
      BY <2>5, <2>6, <2>7, <3>1
    <3> QED
      BY <2>3, <2>5, <2>7, <3>1, <3>2 DEF h
  <2>8. ASSUME NEW h \in g[k], h \in 1..(m + 1),
               \A c \in C : (c[e] = i - 1 /\ c[e + 1] = h - 1) => Fits(c, e + 1, path, q)
        PROVE  \E c \in C : CutFrom(c, i, k + 1, path, q)
    <3>1. PICK c \in C : CutFrom(c, h, k, path, q)
      BY <2>3, <2>8
    <3> DEFINE d == [c EXCEPT ![e] = i - 1]
    <3>2. d \in C /\ d[e] = i - 1 /\ \A j \in (e + 1)..n : d[j] = c[j]
      <4>1. i - 1 \in 0..m /\ c \in [0..n -> 0..m] /\ \A j \in (e + 1)..n : j \in 0..n /\ j # e
        BY <1>0, <2>2 DEF C, Cuttings
      <4> QED
        BY <2>2, <4>1 DEF C, Cuttings
    <3> HIDE DEF d
    <3>3. \A j \in (e + 2)..n : j \in (e + 1)..n /\ j - 1 \in (e + 1)..n
      BY <1>0, <2>2
    <3>4. \A j \in (e + 2)..n : Fits(d, j, path, q)
      BY <2>6, <3>1, <3>2, <3>3 DEF Fits
    <3>5. e + 1 \in (e + 1)..n /\ n \in (e + 1)..n
      BY <1>0, <2>2
    <3>6. d[e + 1] = h - 1 /\ d[n] = m
      BY <2>6, <3>1, <3>2, <3>5
    <3> QED
      BY <2>5, <2>8, <3>2, <3>4, <3>6
  <2>9. \A c : Fits(c, e + 1, path, q) <=>
                 CASE s = "**" -> c[e] <= c[e + 1]
                   [] s = "*"  -> c[e + 1] = c[e] + 1
                   [] OTHER    -> c[e + 1] = c[e] + 1 /\ path[c[e + 1]] = s
    BY <2>2 DEF Fits, s
  <2>10. CASE s = "**"
    <3>1. i \in g[k + 1] <=> (k = 0 \/ \E h \in g[k] : i <= h)
      BY <2>4, <2>10 DEF GraphAt!Takes, GraphAt!Many
    <3>2. k = 0 => (m + 1 \in g[k] /\ i <= m + 1)
      BY <1>0 DEF Starting
    <3>3. \A h \in g[k] : h \in 1..(m + 1)
      <4>1. CASE k = 0
        BY <1>0, <4>1 DEF Starting
      <4>2. CASE k # 0
        <5>1. k \in 1..n
          BY <1>0, <2>0, <2>2, <4>2
        <5>2. g[k] = GraphAt!Takes(path, q[n + 1 - k], k = 1, g[k - 1])
          BY <5>1 DEF Starting
        <5> QED
          BY <1>0, <5>2 DEF GraphAt!Takes
      <4> QED
        BY <4>1, <4>2
    <3>4. ASSUME NEW h \in g[k], i <= h PROVE \E c \in C : CutFrom(c, i, k + 1, path, q)
      <4>1. h \in 1..(m + 1) /\ i - 1 <= h - 1
        BY <1>0, <3>3, <3>4
      <4>2. \A c \in C : (c[e] = i - 1 /\ c[e + 1] = h - 1) => Fits(c, e + 1, path, q)
        BY <2>9, <2>10, <4>1
      <4> QED
        BY <2>8, <4>1, <4>2
    <3>5. ASSUME NEW c \in C, CutFrom(c, i, k + 1, path, q) PROVE \E h \in g[k] : i <= h
      <4>1. c[e + 1] + 1 \in g[k] /\ Fits(c, e + 1, path, q) /\ c[e] = i - 1 /\ c[e + 1] \in 0..m
        BY <2>7, <3>5
      <4>2. i - 1 <= c[e + 1]
        BY <2>9, <2>10, <4>1
      <4>3. i <= c[e + 1] + 1
        BY <1>0, <4>1, <4>2
      <4> QED
        BY <4>1, <4>3
    <3> QED
      BY <3>1, <3>2, <3>4, <3>5
  <2>11. CASE s # "**"
    <3>1. i \in g[k + 1] <=> i \in 1..m /\ s \in {"*", path[i]} /\ i + 1 \in g[k]
      BY <2>4, <2>11 DEF GraphAt!Takes, GraphAt!Many, GraphAt!One
    <3>2. ASSUME i \in 1..m, s \in {"*", path[i]}, i + 1 \in g[k]
          PROVE  \E c \in C : CutFrom(c, i, k + 1, path, q)
      <4> DEFINE h == i + 1
      <4>1. h \in 1..(m + 1) /\ h - 1 = i /\ (i - 1) + 1 = i
        BY <1>0, <3>2
      <4>2. \A c \in C : (c[e] = i - 1 /\ c[e + 1] = h - 1) => Fits(c, e + 1, path, q)
        BY <2>9, <2>11, <3>2, <4>1
      <4> HIDE DEF h
      <4>3. h \in g[k]
        BY <3>2 DEF h
      <4> QED
        BY <2>8, <4>1, <4>2, <4>3
    <3>3. ASSUME NEW c \in C, CutFrom(c, i, k + 1, path, q)
          PROVE  i \in 1..m /\ s \in {"*", path[i]} /\ i + 1 \in g[k]
      <4>1. c[e + 1] + 1 \in g[k] /\ Fits(c, e + 1, path, q) /\ c[e] = i - 1 /\ c[e + 1] \in 0..m
        BY <2>7, <3>3
      <4>2. c[e + 1] = c[e] + 1 /\ (s = "*" \/ path[c[e + 1]] = s)
        BY <2>9, <2>11, <4>1
      <4>3. c[e + 1] = i
        BY <1>0, <4>1, <4>2
      <4>4. i \in 1..m
        BY <1>0, <4>1, <4>3
      <4> QED
        BY <4>1, <4>2, <4>3, <4>4
    <3> QED
      BY <3>1, <3>2, <3>3
  <2> QED
    BY <2>10, <2>11
<1>3. I = Nat
  <2> HIDE DEF I
  <2>1. I \in SUBSET Nat
    BY DEF I
  <2> QED
    BY <1>1, <1>2, <2>1, Induction
<1> QED
  BY <1>0, <1>3 DEF C

\* So a pattern admits what can be cut as it says.
LEMMA PatternsCut == ASSUME PathsInv PROVE GraphAt!PatternsMeanCuts
<1> DEFINE path == GraphAt!NamesHere
           n == Len(pattern)
           m == Len(path)
           Cut(c) ==
             /\ c[0] = 0 /\ c[n] = m
             /\ \A j \in 1..n : Fits(c, j, path, pattern)
<1>1. path \in Path /\ m \in Nat /\ n \in Nat
  <2>1. GraphAt!GraphScope(address) \in Path
    BY PathConstants, ScopeOf DEF PathsInv
  <2>2. path \in Path
    BY <2>1, NamesAreTold DEF GraphAt!NamesHere
  <2>3. pattern \in Seq(PatternWords)
    BY DEF PathsInv
  <2> HIDE DEF path
  <2> QED
    BY <2>2, <2>3 DEF Path
<1> HIDE DEF path
<1>2. \A c : CutFrom(c, 1, n, path, pattern) <=> Cut(c)
  <2>1. n - n = 0 /\ 1 - 1 = 0 /\ (n - n) + 1 = 1
    BY <1>1
  <2> QED
    BY <2>1 DEF CutFrom
<1>3. GraphAt!MatchSegments(path, pattern) <=> \E c \in [0..n -> 0..m] : Cut(c)
  <2>1. PICK g : Starting(g, path, pattern) /\ (GraphAt!MatchSegments(path, pattern) <=> 1 \in g[n])
    BY <1>1, SegmentsRun
  <2>2. 1 \in 1..(m + 1)
    BY <1>1
  <2>3. 1 \in g[n] <=> \E c \in Cuttings(path, pattern) : CutFrom(c, 1, n, path, pattern)
    BY <1>1, <2>1, <2>2, CutsAre
  <2> QED
    BY <1>2, <2>1, <2>3 DEF Cuttings
<1>4. pattern = <<"**">> => \E c \in [0..n -> 0..m] : Cut(c)
  <2> SUFFICES ASSUME pattern = <<"**">> PROVE \E c \in [0..n -> 0..m] : Cut(c)
    OBVIOUS
  <2> DEFINE c == [j \in 0..1 |-> IF j = 0 THEN 0 ELSE m]
  <2>1. n = 1 /\ pattern[1] = "**"
    OBVIOUS
  <2>2. c \in [0..n -> 0..m] /\ c[0] = 0 /\ c[1] = m
    BY <1>1, <2>1
  <2> HIDE DEF c
  <2>3. \A j \in 1..n : Fits(c, j, path, pattern)
    <3>1. \A j \in 1..n : j = 1 /\ j - 1 = 0
      BY <2>1
    <3> QED
      BY <1>1, <2>1, <2>2, <3>1 DEF Fits
  <2> QED
    BY <2>1, <2>2, <2>3
<1>5. GraphAt!MatchScope(path, pattern) =
        IF pattern = <<"root">> THEN path = <<>> ELSE \E c \in [0..n -> 0..m] : Cut(c)
  <2>1. <<"root">> # <<"**">>
    OBVIOUS
  <2> HIDE DEF Cut, n, m
  <2>2. CASE pattern = <<"root">>
    <3>1. GraphAt!MatchScope(path, pattern) = (path = <<>>)
      BY <2>1, <2>2 DEF GraphAt!MatchScope, GraphAt!Many
    <3> QED
      BY <2>2, <3>1
  <2>3. CASE pattern = <<"**">>
    BY <1>4, <2>1, <2>3 DEF GraphAt!MatchScope, GraphAt!Many
  <2>4. CASE pattern # <<"root">> /\ pattern # <<"**">>
    <3>1. GraphAt!MatchScope(path, pattern) = GraphAt!MatchSegments(path, pattern)
      BY <2>4 DEF GraphAt!MatchScope, GraphAt!Many
    <3>2. GraphAt!MatchSegments(path, pattern) \in BOOLEAN
      BY DEF GraphAt!MatchSegments
    <3> QED
      BY <1>3, <2>4, <3>1, <3>2
  <2> QED
    BY <2>2, <2>3, <2>4
<1> QED
  BY <1>5 DEF GraphAt!PatternsMeanCuts, GraphAt!One, GraphAt!Many, path, Fits

-----------------------------------------------------------------------------
(* The library.                                                             *)

\* Each part behaves as its module says, whatever part it is that moves.
LEMMA PartsAreSpecs ==
  LibrarySpec => Spec /\ Scopes!Spec /\ Entries!Spec /\ Handles!Spec /\ GraphAt!Spec /\ Promises!Spec
<1> DEFINE all == <<part, vars, partVars>>
<1>1. LibraryInit => /\ Init /\ Scopes!Init /\ Entries!Init
                     /\ Handles!Init /\ GraphAt!Init /\ Promises!Init
  BY DEF LibraryInit
<1>2. [LibraryNext]_all => [Next]_vars
  BY DEF LibraryNext
<1>3. [LibraryNext]_all => [Scopes!Next]_(Scopes!vars)
  BY DEF LibraryNext, partVars, scopeVars, Scopes!vars
<1>4. [LibraryNext]_all => [Entries!Next]_(Entries!vars)
  BY DEF LibraryNext, partVars, entryVars, Entries!vars, Entries!Next
<1>5. [LibraryNext]_all => [Handles!Next]_(Handles!vars)
  BY DEF LibraryNext, partVars, handleVars, Handles!vars
<1>6. [LibraryNext]_all => [GraphAt!Next]_(GraphAt!vars)
  BY DEF LibraryNext, partVars, addressVars, GraphAt!vars
<1>7. [LibraryNext]_all => [Promises!Next]_(Promises!vars)
  BY DEF LibraryNext, partVars, promiseVars, Promises!vars, Promises!promiseVars, Promises!localVars,
         Promises!Next
<1> QED
  BY <1>1, <1>2, <1>3, <1>4, <1>5, <1>6, <1>7, PTL
  DEF LibrarySpec, Spec, Scopes!Spec, Entries!Spec, Handles!Spec, GraphAt!Spec, Promises!Spec

\* What createRegistry and createMergedRegistry answer agrees with the entries
\* given, a chain they accept brings up to date every record the chain can have
\* stamped, and the types of Firestore come back from a migration as they went
\* in: for any number of entries, steps and nested values (registry.ts,
\* migration.ts, serialization.ts).
THEOREM RegistryTheorem == LibrarySpec => []RegistryAnswers
<1>1. Entries!Spec => [](Entries!ViewsAgree /\ Entries!TopologyCoversLookups)
  BY ViewsInduct
<1>2. Entries!Spec => []Entries!ValidChainsReach
  BY VersionsAssumption, ChainsInduct
<1>3. /\ Entries!ViewsAgree /\ Entries!TopologyCoversLookups
      /\ Entries!ValidChainsReach /\ Entries!MigratedIsWhatWasStored
      => RegistryAnswers
  BY DEF RegistryAnswers
<1> QED
  BY <1>1, <1>2, <1>3, PartsAreSpecs, TagsInduct, PTL

\* No two subgraphs share a table and a cascade drops the tables of the
\* descendants of its node and of nothing else, for all uids and names of
\* WordsAssumption, however deep (sqlite/catalog.ts, sqlite/backend.ts).
THEOREM ScopesTheorem == LibrarySpec => []ScopesSeparate
<1>1. Scopes!Spec => [](Scopes!TypeOK /\ Scopes!OneTablePerGraph /\ Scopes!CascadeMatchesDescendants)
  BY ScopesAssumption, ScopesInduct
<1>2. Scopes!TypeOK /\ Scopes!OneTablePerGraph /\ Scopes!CascadeMatchesDescendants => ScopesSeparate
  BY DEF ScopesSeparate
<1> QED
  BY <1>1, <1>2, PartsAreSpecs, PTL

\* subgraph() leads every chain of calls to the one store of its graph, a path
\* leads to its graph and back, a pattern admits what can be cut as it says, a
\* backend runs what it promises and its subgraphs with it, and connections are
\* ready for the backends that share them and closed by who opened them: for all
\* segments, paths, stubs and factories of the three assumptions, however long the
\* chains, patterns and sequences of calls (scope-path.ts, scope.ts, sqlite/local.ts).
THEOREM HandlesTheorem == LibrarySpec => []HandlesMean
<1>1. Handles!Spec => [](Handles!OneStorePerGraph /\ Handles!ScopeIsLogical /\ Handles!CapabilitiesMeanMethods)
  <2>1. HandlesInv => Handles!OneStorePerGraph /\ Handles!ScopeIsLogical /\ Handles!CapabilitiesMeanMethods
    BY HandlesAre
  <2> QED
    BY <2>1, HandlesInduct, PTL
<1>2. GraphAt!Spec => [](/\ GraphAt!PatternsMeanCuts /\ GraphAt!OfferedIsAllowed /\ GraphAt!AncestorsAgree
                         /\ GraphAt!EnteredIsLeft /\ GraphAt!CrumbsLead /\ GraphAt!CollectionLinksLead)
  <2>1. PathsInv => /\ GraphAt!PatternsMeanCuts /\ GraphAt!OfferedIsAllowed /\ GraphAt!AncestorsAgree
                    /\ GraphAt!EnteredIsLeft /\ GraphAt!CrumbsLead /\ GraphAt!CollectionLinksLead
    BY PatternsCut, OffersAllowed, AncestorsFound, EnteredLeaves, CrumbsAre, CollectionLinksRead
  <2> QED
    BY <2>1, PathsInduct, PTL
<1>3. Promises!Spec => [](/\ Promises!DeclaredIsThere /\ Promises!UndeclaredIsRefused
                          /\ Promises!ReadsRunHere /\ Promises!TraversalsAreAnswered
                          /\ Promises!SubgraphsKeepTheirWord)
  <2>1. PromisesInv => /\ Promises!DeclaredIsThere /\ Promises!UndeclaredIsRefused
                       /\ Promises!ReadsRunHere /\ Promises!TraversalsAreAnswered
                       /\ Promises!SubgraphsKeepTheirWord
    BY PromisesAre
  <2> QED
    BY <2>1, PromisesInduct, PTL
<1>4. Promises!Spec => [](Promises!ClosedByItsOwner /\ Promises!BackendsAreReady)
  <2>1. LocalsInv => Promises!ClosedByItsOwner /\ Promises!BackendsAreReady
    BY LocalsAre
  <2> QED
    BY <2>1, LocalsInduct, PTL
<1>5. /\ Handles!OneStorePerGraph /\ Handles!ScopeIsLogical /\ Handles!CapabilitiesMeanMethods
      /\ GraphAt!PatternsMeanCuts /\ GraphAt!OfferedIsAllowed /\ GraphAt!AncestorsAgree
      /\ GraphAt!EnteredIsLeft /\ GraphAt!CrumbsLead /\ GraphAt!CollectionLinksLead
      /\ Promises!DeclaredIsThere /\ Promises!UndeclaredIsRefused
      /\ Promises!ReadsRunHere /\ Promises!TraversalsAreAnswered /\ Promises!SubgraphsKeepTheirWord
      /\ Promises!ClosedByItsOwner /\ Promises!BackendsAreReady
      => HandlesMean
  BY DEF HandlesMean
<1> QED
  BY <1>1, <1>2, <1>3, <1>4, <1>5, PartsAreSpecs, PTL

=============================================================================
