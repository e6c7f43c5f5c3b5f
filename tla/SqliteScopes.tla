---------------------------- MODULE SqliteScopes ----------------------------
(***************************************************************************)
(* How a graph's position becomes a table name, and how a cascade finds the *)
(* graphs below a node: the naming of sqlite/catalog.ts on the names of     *)
(* sqlite/backend.ts' subgraph(), against what SQLite makes of the names.   *)
(*                                                                          *)
(* A position is the chain of subgraph() calls that leads to it, each one a *)
(* parent uid and a name.  The code writes it as a storage scope, "uid/name *)
(* /uid/name..."; here a string is a sequence of characters.                *)
(***************************************************************************)
EXTENDS Naturals, Sequences, SequencesExt

CONSTANTS
  Words,     \* uids and subgraph names in use: sequences of characters
  Hex,       \* Hex[c]: the code point of a character that is escaped by it
  Letters,   \* the characters of a SQL identifier
  Lower,     \* Lower[c]: the lower case of a letter, c itself otherwise
  MaxDepth   \* bound: nested subgraph() calls

VARIABLES here, there   \* two open graphs: the chains that lead to them

vars == <<here, there>>

\* What begins an escape in a table name is LIKE's wildcard for one character.
Mark == "_"

Call == [uid : Words, name : Words]

\* The characters that mangling escapes, and those of a scope.
Escaped == {Mark, "-", "/"} \cup DOMAIN Hex
Characters == Letters \cup Escaped

-----------------------------------------------------------------------------
(* The code.                                                                *)

\* subgraph(): the storage scope of a chain.
Scope(chain) ==
  FlattenSeq([i \in DOMAIN chain |->
    (IF i = 1 THEN <<>> ELSE <<"/">>) \o chain[i].uid \o <<"/">> \o chain[i].name])

\* Mutant: the escape character is not escaped.
EscapesTooLittle(ch) ==
  CASE ch = "-"         -> <<Mark, "h">>
    [] ch = "/"         -> <<Mark, "s">>
    [] ch \in DOMAIN Hex -> <<Mark, "u">> \o Hex[ch] \o <<Mark>>
    [] OTHER            -> <<ch>>

\* Mutant: only the characters of nanoids are escaped.
EscapesNanoids(ch) ==
  CASE ch = Mark -> <<Mark, Mark>>
    [] ch = "-" -> <<Mark, "h">>
    [] ch = "/" -> <<Mark, "s">>
    [] OTHER    -> <<ch>>

\* One character of a table name.
Mangle(ch) ==
  CASE ch = Mark         -> <<Mark, Mark>>
    [] ch = "-"         -> <<Mark, "h">>
    [] ch = "/"         -> <<Mark, "s">>
    [] ch \in DOMAIN Hex -> <<Mark, "u">> \o Hex[ch] \o <<Mark>>
    [] OTHER            -> <<ch>>

\* mangleStorageScope and tableForScope.
TableForScope(scope) == FlattenSeq([i \in DOMAIN scope |-> Mangle(scope[i])])

\* Mutant: wildcards stay wildcards.
EscapesNothing(prefix) == prefix

\* escapeLikePrefix.
EscapeLikePrefix(prefix) ==
  FlattenSeq([i \in DOMAIN prefix |->
    IF prefix[i] \in {"\\", "%", Mark} THEN <<"\\", prefix[i]>> ELSE <<prefix[i]>>])

\* The pattern compileCatalogDescendants binds for the node uid of a graph.
DescendantsOf(chain, uid) ==
  LET scope == Scope(chain)
  IN  EscapeLikePrefix(scope \o (IF scope = <<>> THEN <<>> ELSE <<"/">>) \o uid)
        \o <<"/", "%">>

-----------------------------------------------------------------------------
(* SQLite.                                                                  *)

Folded(s) == [i \in DOMAIN s |-> Lower[s[i]]]

\* Words are not empty, hold no "/" and differ in more than case; an escape is
\* written in lower case and ends at its second mark.
WordsAssumption ==
  /\ Words \subseteq Seq(Characters \ {"/"}) \ {<<>>}
  /\ \A v, w \in Words : Folded(v) = Folded(w) => v = w
  /\ {Mark, "h", "s", "u"} \subseteq Letters
  /\ Letters \cap Escaped = {Mark}
  /\ {Mark, "-", "/"} \cap DOMAIN Hex = {}
  /\ \A c \in DOMAIN Hex : Hex[c] \in Seq({l \in Letters \ {Mark} : Lower[l] = l})
  /\ \A c, e \in DOMAIN Hex : Hex[c] = Hex[e] => c = e
  /\ Lower \in [Characters -> Characters]
  /\ \A c \in Escaped \cup {"h", "s", "u"} : Lower[c] = c
  /\ \A c \in Letters \ {Mark} : Lower[c] \in Letters \ {Mark}

\* Table names are compared without regard to case.
SameTable(s, t) == Folded(s) = Folded(t)

\* One character of a pattern: where in s the pattern so far may have got to, and
\* whether its last character escapes the next one.
LikeStep(s, so, ch) ==
  CASE ~so.escape /\ ch = "\\" -> [so EXCEPT !.escape = TRUE]
    [] ~so.escape /\ ch = "%"  -> [so EXCEPT !.at = {i \in 0..Len(s) : \E k \in so.at : k <= i}]
    [] ~so.escape /\ ch = Mark  -> [so EXCEPT !.at = {i \in 1..Len(s) : i - 1 \in so.at}]
    [] OTHER -> [escape |-> FALSE,
                 at |-> {i \in 1..Len(s) : i - 1 \in so.at /\ Lower[s[i]] = Lower[ch]}]

\* s LIKE p ESCAPE '\', which has no regard to case either.
Like(s, p) ==
  LET so[j \in 0..Len(p)] ==
        IF j = 0 THEN [escape |-> FALSE, at |-> {0}] ELSE LikeStep(s, so[j - 1], p[j])
  IN  Len(s) \in so[Len(p)].at

-----------------------------------------------------------------------------

Init == here = <<>> /\ there = <<>>

\* subgraph(uid, name) on either graph.
OpenHere(call)  == /\ Len(here) < MaxDepth
                   /\ here' = Append(here, call)
                   /\ UNCHANGED there
OpenThere(call) == /\ Len(there) < MaxDepth
                   /\ there' = Append(there, call)
                   /\ UNCHANGED here

Next == \E call \in Call : OpenHere(call) \/ OpenThere(call)

Spec == Init /\ [][Next]_vars

-----------------------------------------------------------------------------
(* Properties.                                                              *)

\* Chains of calls; and every table name can be written as an identifier.
TypeOK ==
  /\ here \in Seq(Call)
  /\ there \in Seq(Call)
  /\ ToSet(TableForScope(Scope(here))) \subseteq Letters

\* Graphs at different positions have different tables: mangling is injective.
OneTablePerGraph ==
  here # there
    => ~SameTable(TableForScope(Scope(here)), TableForScope(Scope(there)))

\* A cascade of the node uid of the graph here matches the scope of the graph
\* there exactly when that graph was derived from that node.
CascadeMatchesDescendants ==
  \A uid \in Words :
    Like(Scope(there), DescendantsOf(here, uid))
      <=> /\ Len(there) > Len(here)
          /\ SubSeq(there, 1, Len(here)) = here
          /\ there[Len(here) + 1].uid = uid

=============================================================================
