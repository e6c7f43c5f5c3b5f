----------------------------- MODULE GraphPaths -----------------------------
(***************************************************************************)
(* Where a graph is, told from a path.  The editor keeps the path of the    *)
(* collection it shows in the address bar, `address`: the graph's collection,     *)
(* followed by a uid and a name for each subgraph() call, which is the      *)
(* graph's scope.  The library finds ancestors in either form, and scope.ts *)
(* and the editor's copy of it decide which graphs an `allowedIn` pattern   *)
(* admits.  A path, a scope and a pattern are sequences of segments.        *)
(***************************************************************************)
EXTENDS Naturals, SequencesExt

CONSTANTS
  Uids, Names,   \* of nodes, of subgraphs
  Split,         \* [uid |-> the segments it is read back as], for uids with "~2F"
  Collections,   \* collections a graph may be in
  Templates,     \* path templates of other collections
  Params,        \* segments of templates that stand for any segment
  None,
  MaxDepth,      \* bound: subgraphs entered
  MaxLength      \* bound: segments of a pattern

VARIABLES
  collection,    \* collection of the root graph
  address,         \* decoded path in the address bar, <<>> for the application's root
  pattern        \* an allowedIn pattern

vars == <<collection, address, pattern>>

\* Collections lie below documents, and documents in collections; what is read
\* back from a split segment is not split again.
PathsAssumption ==
  /\ Uids \cup Names \cup Params \subseteq STRING
  /\ Collections \cup Templates \subseteq Seq(STRING)
  /\ \A c \in Collections : Len(c) % 2 = 1
  /\ Split \in [DOMAIN Split -> Seq(STRING)]
  /\ \A p \in Collections \cup Templates \cup Range(Split) : Range(p) \cap DOMAIN Split = {}

One == "*"
Many == "**"
Home == <<>>

Least(S) == CHOOSE n \in S : \A m \in S : n <= m

-----------------------------------------------------------------------------
(* Patterns.                                                                *)

\* Mutant: '**' takes at least one segment.
TakesSome(p, seg, last, after) ==
  IF seg = Many THEN {i \in 1..(Len(p) + 1) : \E k \in after : i < k}
  ELSE {i \in 1..Len(p) : seg \in {One, p[i]} /\ i + 1 \in after}

\* From where a path matches a segment of a pattern and all that follows it, when it
\* matches what follows from the positions `after`; the last segment may be '**'.
Takes(p, seg, last, after) ==
  IF seg = Many THEN {i \in 1..(Len(p) + 1) : last \/ \E k \in after : i <= k}
  ELSE {i \in 1..Len(p) : seg \in {One, p[i]} /\ i + 1 \in after}

\* matchSegments(path, pi, pattern, qi): where the last n segments of the pattern match.
MatchSegments(p, q) ==
  LET starts[n \in 0..Len(q)] ==
        IF n = 0 THEN {Len(p) + 1} ELSE Takes(p, q[Len(q) + 1 - n], n = 1, starts[n - 1])
  IN  1 \in starts[Len(q)]

MatchScope(p, q) ==
  CASE q = <<"root">> -> p = <<>>
    [] q = <<Many>>    -> TRUE
    [] OTHER          -> MatchSegments(p, q)

\* A type without patterns is allowed everywhere ...
MatchScopeAny(p, patterns) == patterns = {} \/ \E q \in patterns : MatchScope(p, q)

\* ... but the editor shows it in the root graph only.
IsTypeVisibleInScope(p, patterns) ==
  IF p = <<>> THEN MatchScopeAny(p, patterns) ELSE patterns # {} /\ MatchScopeAny(p, patterns)

-----------------------------------------------------------------------------
(* Scopes.                                                                  *)

\* parseScopeSegments: a segment without a partner is left out.
ParseScopeSegments(s) == [i \in 1..(Len(s) \div 2) |-> <<s[2 * i - 1], s[2 * i]>>]

\* parseStorageScope throws where there is one.
ParseStorageScope(s) == IF Len(s) % 2 # 0 THEN None ELSE ParseScopeSegments(s)

ScopeToNamesPath(s) == [i \in 1..(Len(s) \div 2) |-> s[2 * i]]

AppendStorageScope(s, uid, name) == s \o <<uid, name>>

\* Mutant: the name of a subgraph is taken for a node.
AncestorAnywhere(s, uid) ==
  LET at == {i \in 1..Len(s) : s[i] = uid}
  IN  IF at = {} THEN None ELSE SubSeq(s, 1, Least(at) - 1)

\* The scope in which the node is whose subgraph the path goes through.
ResolveAncestorScope(s, uid) ==
  LET at == {i \in 1..Len(s) : i % 2 = 1 /\ s[i] = uid}
  IN  IF at = {} THEN None ELSE SubSeq(s, 1, Least(at) - 1)

\* Mutant: the innermost of several.
InnermostCollection(p, uid) ==
  LET at == {i \in 1..Len(p) : i % 2 = 0 /\ p[i] = uid}
  IN  IF at = {} THEN None ELSE SubSeq(p, 1, CHOOSE i \in at : \A j \in at : j <= i)

\* The same for the path of a collection, where documents come second.
ResolveAncestorCollection(p, uid) ==
  LET at == {i \in 1..Len(p) : i % 2 = 0 /\ p[i] = uid}
  IN  IF at = {} THEN None ELSE SubSeq(p, 1, Least(at) - 1)

-----------------------------------------------------------------------------
(* What is at a path, and where the editor's links lead.                    *)

\* An address has its slashes as "~2F": a uid that has one falls apart.
Decode(p) == FlattenSeq([i \in 1..Len(p) |-> IF p[i] \in DOMAIN Split THEN Split[p[i]] ELSE <<p[i]>>])

MatchCollectionTemplate(p, t) ==
  /\ Len(p) = Len(t)
  /\ \A i \in 1..Len(t) : t[i] \in Params \cup {p[i]}

ParamsOf(p, t) ==
  [k \in Params \cap Range(t) |-> p[CHOOSE i \in 1..Len(t) : t[i] = k]]

\* A parameter without a value stays in the path.
ResolveCollectionPath(t, params) ==
  [i \in 1..Len(t) |-> IF t[i] \in DOMAIN params THEN params[t[i]] ELSE t[i]]

\* Mutant: the graph comes first.
GraphFirst(p) ==
  IF p # Home /\ IsPrefix(collection, p) THEN "graph"
  ELSE IF \E t \in Templates : MatchCollectionTemplate(p, t) THEN "collection" ELSE "unknown"

\* Templates come first: the graph's collection begins their paths too.
PathType(p) ==
  IF \E t \in Templates : MatchCollectionTemplate(p, t) THEN "collection"
  ELSE IF p # Home /\ IsPrefix(collection, p) THEN "graph" ELSE "unknown"

GraphScope(p) ==
  IF PathType(p) = "graph" THEN SubSeq(p, Len(collection) + 1, Len(p)) ELSE <<>>

EnterSubgraph(p, uid, name) == Decode(p \o <<uid, name>>)

\* Mutant: one segment up, to the node's document.
UpOneSegment(p) ==
  IF PathType(p) = "graph" /\ Len(p) >= 3 THEN SubSeq(p, 1, Len(p) - 1) ELSE Home

NavigateUp(p) ==
  IF PathType(p) = "graph" /\ Len(p) >= 3 THEN SubSeq(p, 1, Len(p) - 2) ELSE Home

PopToDepth(p, depth) ==
  LET segs == ParseScopeSegments(GraphScope(p))
  IN  collection \o FlattenSeq(SubSeq(segs, 1, IF depth < Len(segs) THEN depth ELSE Len(segs)))

\* The breadcrumb takes the first segment for the graph's collection.
BreadcrumbLink(p, i) == <<p[1]>> \o FlattenSeq(SubSeq(ParseScopeSegments(GraphScope(p)), 1, i))

\* The link to an attached collection has the node for its first parameter.
CollectionLink(t, uid) ==
  LET at == {i \in 1..Len(t) : t[i] \in Params}
  IN  IF at = {} THEN t
      ELSE ResolveCollectionPath(t, [k \in {t[Least(at)]} |-> uid])

\* What the server reads for a scope, None when it refuses the scope.
ServerCollection(scope) == IF Len(scope) % 2 # 0 THEN None ELSE collection \o scope

\* The scopePath of the client it makes, one subgraph() call for each pair.
ServerScopePath(scope) ==
  LET pairs == ParseScopeSegments(scope)
      names[n \in 0..Len(pairs)] ==
        IF n = 0 THEN <<>> ELSE Append(names[n - 1], pairs[n][2])
  IN  names[Len(pairs)]

-----------------------------------------------------------------------------

Init == collection \in Collections /\ address = Home /\ pattern = <<>>

NavigateToRoot == address' = collection /\ UNCHANGED <<collection, pattern>>

Enter == \E uid \in Uids, name \in Names :
  /\ PathType(address) = "graph"
  /\ Len(address) - Len(collection) <= 2 * (MaxDepth - 1)
  /\ address' = EnterSubgraph(address, uid, name)
  /\ UNCHANGED <<collection, pattern>>

Leave ==
  /\ address # Home
  /\ address' = NavigateUp(address)
  /\ UNCHANGED <<collection, pattern>>

Pop == \E depth \in 0..MaxDepth :
  /\ address # Home
  /\ address' = PopToDepth(address, depth)
  /\ UNCHANGED <<collection, pattern>>

\* The breadcrumb is there inside a subgraph only.
Crumb == \E i \in 0..Len(ParseScopeSegments(GraphScope(address))) :
  /\ GraphScope(address) # <<>>
  /\ address' = BreadcrumbLink(address, i)
  /\ UNCHANGED <<collection, pattern>>

OpenCollection == \E t \in Templates, uid \in Uids :
  /\ PathType(address) = "graph"
  /\ address' = Decode(CollectionLink(t, uid))
  /\ UNCHANGED <<collection, pattern>>

Lengthen == \E s \in Names \cup {One, Many, "root"} :
  /\ Len(pattern) < MaxLength
  /\ pattern' = Append(pattern, s)
  /\ UNCHANGED <<collection, address>>

Next == NavigateToRoot \/ Enter \/ Leave \/ Pop \/ Crumb \/ OpenCollection \/ Lengthen

Spec == Init /\ [][Next]_vars

-----------------------------------------------------------------------------

\* A scope of whole pairs: no uid fell apart on the way.
Whole(p) == Len(GraphScope(p)) % 2 = 0

NamesHere == ScopeToNamesPath(GraphScope(address))

\* A pattern admits exactly the paths that can be cut into one piece for each
\* of its segments: any piece for '**', one name for '*', itself for a name.
\* 'root' alone admits the root graph and no other.
PatternsMeanCuts ==
  LET n == Len(pattern)
      path == NamesHere
      Cut(c) ==
        /\ c[0] = 0 /\ c[n] = Len(path)
        /\ \A j \in 1..n :
             CASE pattern[j] = Many -> c[j - 1] <= c[j]
               [] pattern[j] = One -> c[j] = c[j - 1] + 1
               [] OTHER -> c[j] = c[j - 1] + 1 /\ path[c[j]] = pattern[j]
  IN  MatchScope(path, pattern) =
        IF pattern = <<"root">> THEN path = <<>>
        ELSE \E c \in [0..n -> 0..Len(path)] : Cut(c)

\* A type the editor offers in a graph is one the client of that graph, which
\* the server makes from the scope alone, allows there.
OfferedIsAllowed ==
  \A patterns \in {{}, {pattern}} :
    IsTypeVisibleInScope(NamesHere, patterns) =>
      MatchScopeAny(ServerScopePath(GraphScope(address)), patterns)

\* The two ways to look for an ancestor agree: on the graph in which the path
\* meets the node first, when it meets it at all; never on a subgraph's name.
AncestorsAgree ==
  PathType(address) = "graph" /\ Whole(address) =>
    LET scope == GraphScope(address)
        segs == ParseStorageScope(scope)
    IN  \A uid \in (Uids \cup Names) \ Range(collection) :
          LET through == {i \in 1..Len(segs) : segs[i][1] = uid}
              found == ResolveAncestorScope(scope, uid)
          IN  IF through = {}
              THEN found = None /\ ResolveAncestorCollection(address, uid) = None
              ELSE LET i == Least(through)
                   IN  /\ found = FlattenSeq(SubSeq(segs, 1, i - 1))
                       /\ IsPrefix(AppendStorageScope(found, uid, segs[i][2]), scope)
                       /\ ResolveAncestorCollection(address, uid) = collection \o found

\* Who enters a subgraph sees it, its server reads it, and up leads back, unless
\* the path is another collection's or the uid or the name has an encoded slash.
EnteredIsLeft ==
  PathType(address) = "graph" /\ Whole(address) =>
    \A uid \in Uids \ DOMAIN Split, name \in Names \ DOMAIN Split :
      LET inner == EnterSubgraph(address, uid, name)
      IN  PathType(inner) = "graph" =>
            /\ ParseScopeSegments(GraphScope(inner))
                 = Append(ParseScopeSegments(GraphScope(address)), <<uid, name>>)
            /\ ServerCollection(GraphScope(inner)) = inner
            /\ NavigateUp(inner) = address

\* Each crumb is the graph of its depth: the links of the breadcrumb and popToDepth
\* agree where the graph's collection is at the top, and the last one is here.
CrumbsLead ==
  PathType(address) = "graph" /\ Whole(address) =>
    LET depth == Len(ParseScopeSegments(GraphScope(address)))
    IN  /\ PopToDepth(address, depth) = address
        /\ \A i \in 0..depth :
             /\ IsPrefix(PopToDepth(address, i), address)
             /\ Len(collection) = 1 => BreadcrumbLink(address, i) = PopToDepth(address, i)

\* A link to a collection shows that collection, and the parameters read from
\* the path are those it was made of.
CollectionLinksLead ==
  \A t \in Templates, uid \in Uids \ DOMAIN Split :
    LET p == Decode(CollectionLink(t, uid))
    IN  /\ PathType(p) = "collection"
        /\ MatchCollectionTemplate(p, t)
        /\ ResolveCollectionPath(t, ParamsOf(p, t)) = p

=============================================================================
