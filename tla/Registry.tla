------------------------------ MODULE Registry ------------------------------
(***************************************************************************)
(* Registries (registry.ts): the entries of a graph's types, the four views *)
(* createRegistry builds over them, and createMergedRegistry, which lays a  *)
(* base over an extension.  An entry keeps its triple and the subgraph its  *)
(* edges lead to; its `id` tells entries of one triple apart.               *)
(*                                                                          *)
(* createRegistry refuses an entry whose migrations form no chain           *)
(* (validateMigrationChain of migration.ts), so that what it accepts brings *)
(* every record up to date (applyMigrationChain).  Both walk the steps      *)
(* once, in the order of fromVersion.                                       *)
(*                                                                          *)
(* What crosses the boundary of the migration sandbox (serialization.ts,    *)
(* internal/serialization-tag.ts): Firestore's own types become tagged      *)
(* objects on the way in and are rebuilt on the way out, and once more when *)
(* a result is written back, where there is a Firestore to make references  *)
(* with.  A value is the function from the places of its leaves to the      *)
(* leaves: a place is the list positions and object keys that lead there. A *)
(* leaf is <<"plain", p>>, <<"type", t>> (an object of a Firestore type,    *)
(* whose content is abstracted) or the tagged object <<"tagged", t>>.       *)
(***************************************************************************)
EXTENDS Naturals, Sequences, FiniteSetsExt, SequencesExt

CONSTANTS
  Triples,    \* <<aType, axbType, bType>>
  Segments,   \* targetGraph values
  None,       \* no targetGraph
  MaxEntries, \* bound: entries of each registry
  MaxVersion, \* bound: the highest version a step leads to
  Tags,       \* Firestore's types, "DocumentReference" among them
  Plain,      \* numbers, texts, null, empty lists and objects
  Names,      \* keys of objects
  MaxNesting  \* bound: how deep values are nested

VARIABLES
  base,   \* entries of the base registry, in the order they were given
  ext,    \* entries of the extension
  chain,  \* the migrations of one entry given so far, a set of [from, to]
  value,  \* the data of a stored record
  level   \* how deep it is nested

vars == <<base, ext, chain, value, level>>

Entry == [t : Triples, graph : Segments \cup {None}, id : Nat]

Missing == [t |-> <<>>, graph |-> None, id |-> 0]

-----------------------------------------------------------------------------
(* createRegistry over a list of entries.                                   *)

\* The map is filled in order: the last entry of a triple answers.
Lookup(es, t) ==
  LET found == { i \in DOMAIN es : es[i].t = t }
  IN  IF found = {} THEN Missing ELSE es[Max(found)]

\* lookupByAxbType: every entry given, the ones the map lost included.
LookupByAxbType(es, axb) == { e \in ToSet(es) : e.t[2] = axb }

\* Mutant: subgraphs are told apart by the relation that leads to them.
TopologyByRelation(es, a) ==
  { es[i] : i \in { i \in DOMAIN es :
      /\ es[i].t[1] = a
      /\ es[i].graph # None
      /\ \A j \in 1..(i - 1) : es[j].t[1] = a => es[j].t[2] # es[i].t[2] } }

\* getSubgraphTopology: the first entry that leads from `a` to each segment.
Topology(es, a) ==
  { es[i] : i \in { i \in DOMAIN es :
      /\ es[i].t[1] = a
      /\ es[i].graph # None
      /\ \A j \in 1..(i - 1) : es[j].t[1] = a => es[j].graph # es[i].graph } }

Keys(es) == { e.t : e \in ToSet(es) }

-----------------------------------------------------------------------------
(* createMergedRegistry: the base wins.                                     *)

\* Mutant: the extension is asked first.
ExtensionFirst(t) ==
  IF Lookup(ext, t) # Missing THEN Lookup(ext, t) ELSE Lookup(base, t)

MergedLookup(t) ==
  IF Lookup(base, t) # Missing THEN Lookup(base, t) ELSE Lookup(ext, t)

\* Mutant: the lists are joined as they are.
JoinedByAxbType(axb) == LookupByAxbType(base, axb) \cup LookupByAxbType(ext, axb)

MergedByAxbType(axb) ==
  LET own == LookupByAxbType(base, axb)
  IN  own \cup { e \in LookupByAxbType(ext, axb) : \A f \in own : f.t # e.t }

MergedTopology(a) ==
  LET own == Topology(base, a)
  IN  own \cup { e \in Topology(ext, a) : \A f \in own : f.graph # e.graph }

\* validate: the entry whose schema and allowedIn judge a write.
Judge(t) == IF t \in Keys(base) THEN Lookup(base, t) ELSE Lookup(ext, t)

-----------------------------------------------------------------------------
(* validateMigrationChain and applyMigrationChain.                          *)

Versions == 0..MaxVersion
Steps == [from : Versions, to : Versions]

Froms(ms)  == { m.from : m \in ms }
Target(ms) == Max({ m.to : m \in ms })

\* Two steps from one version are refused before either walk.
StepFrom(ms, v) == CHOOSE m \in ms : m.from = v

\* The version the walk holds before the steps from v on: walk[0] is where it
\* starts and walk[MaxVersion + 1] where it ends.
Walk(ms, start) ==
  LET walk[v \in 0..(MaxVersion + 1)] ==
        IF v = 0 THEN start
        ELSE IF walk[v - 1] = v - 1 /\ v - 1 \in Froms(ms)
          THEN StepFrom(ms, v - 1).to
          ELSE walk[v - 1]
  IN  walk

\* Mutant: the chain is not followed from version 0.
EndsAnywhere(ms) ==
  /\ \A m \in ms : m.to > m.from
  /\ \A m, n \in ms : m.from = n.from => m = n

\* validateMigrationChain: steps go up, no two start at one version, no step
\* starts beyond the version reached when its turn comes, and the walk ends at
\* the highest version.
Valid(ms) ==
  /\ \A m \in ms : m.to > m.from
  /\ \A m, n \in ms : m.from = n.from => m = n
  /\ ms # {} =>
       LET walk == Walk(ms, 0)
       IN  /\ \A m \in ms : m.from <= walk[m.from]
           /\ walk[MaxVersion + 1] = Target(ms)

\* applyMigrationChain: the version a record of stamp v ends at.  Any other
\* than the target is an "Incomplete migration chain".
Reached(ms, v) == Walk(ms, v)[MaxVersion + 1]

-----------------------------------------------------------------------------
(* serializeFirestoreTypes and deserializeFirestoreTypes.                   *)

Known == Tags
Tagged(t) == <<"tagged", t>>
Just(leaf) == [place \in {<<>>} |-> leaf]
Leaves == {<<"plain", p>> : p \in Plain} \cup {<<"type", t>> : t \in Tags}

InAList(place) == \E i \in DOMAIN place : place[i][1] = "list"

\* Mutant: an object inside a list is left as it is.
SerializeFields(v) ==
  [place \in DOMAIN v |->
     IF v[place][1] = "type" /\ ~InAList(place) THEN Tagged(v[place][2]) ELSE v[place]]

\* Lists and objects are walked to their leaves.
Serialize(v) ==
  [place \in DOMAIN v |-> IF v[place][1] = "type" THEN Tagged(v[place][2]) ELSE v[place]]

\* A known tag is rebuilt; a reference needs a Firestore and stays tagged without.
Rebuilt(t, firestore) ==
  IF t \notin Known \/ (t = "DocumentReference" /\ ~firestore) THEN Tagged(t) ELSE <<"type", t>>

\* Mutant: what is of a Firestore type already is walked like any object.
DeserializeAgain(v, firestore) ==
  [place \in DOMAIN v |->
     CASE v[place][1] = "tagged" -> Rebuilt(v[place][2], firestore)
       [] v[place][1] = "type"   -> <<"plain", "{}">>
       [] OTHER                  -> v[place]]

Deserialize(v, firestore) ==
  [place \in DOMAIN v |->
     IF v[place][1] = "tagged" THEN Rebuilt(v[place][2], firestore) ELSE v[place]]

\* defaultExecutor: what an identity migration gets and returns through JSON.
ThroughSandbox(v) == Deserialize(Serialize(v), FALSE)

\* buildFirestoreUpdateArgs: replaced data is deserialized with the store's Firestore.
WrittenBack(v) == Deserialize(v, TRUE)

-----------------------------------------------------------------------------

Given(es, t, g) ==
  /\ Len(es) < MaxEntries
  /\ es' = Append(es, [t |-> t, graph |-> g, id |-> Len(es) + 1])

Register == \E t \in Triples, g \in Segments \cup {None} :
              Given(base, t, g) /\ UNCHANGED <<ext, chain, value, level>>

Extend == \E t \in Triples, g \in Segments \cup {None} :
            Given(ext, t, g) /\ UNCHANGED <<base, chain, value, level>>

AddStep == \E m \in Steps \ chain :
             chain' = chain \cup {m} /\ UNCHANGED <<base, ext, value, level>>

\* A list or an object whose elements are the values of `parts`.
Nested(parts) ==
  [place \in UNION { {<<step>> \o rest : rest \in DOMAIN parts[step]} : step \in DOMAIN parts } |->
     parts[Head(place)][Tail(place)]]

\* Alone, or beside itself or a leaf, in the two steps given.
Beside(first, second) ==
  {Nested([step \in {first} |-> value])}
    \cup { Nested([step \in {first, second} |-> IF step = second THEN value ELSE other]) :
             other \in {value} \cup {Just(leaf) : leaf \in Leaves} }

\* How deep a value is is bounded by the steps that built it.
InList == value' \in Beside(<<"list", "0">>, <<"list", "1">>)
InMap == \E k, l \in Names : k # l /\ value' \in Beside(<<"map", k>>, <<"map", l>>)

Nest ==
  /\ level < MaxNesting
  /\ level' = level + 1
  /\ InList \/ InMap
  /\ UNCHANGED <<base, ext, chain>>

Init ==
  /\ base = <<>> /\ ext = <<>> /\ chain = {}
  /\ value \in {Just(leaf) : leaf \in Leaves} /\ level = 0

Next == Register \/ Extend \/ AddStep \/ Nest

Spec == Init /\ [][Next]_vars

-----------------------------------------------------------------------------
(* Properties.                                                              *)

\* The three ways to ask for a type agree: what lookup answers is what validate
\* judges by and is among the entries of its relation, which holds no entry of
\* the extension that the base shadows.
ViewsAgree ==
  \A t \in Triples :
    LET found == MergedLookup(t)
        named == { e \in MergedByAxbType(t[2]) : e.t = t }
    IN  /\ Judge(t) = found
        /\ (found = Missing) = (named = {})
        /\ found # Missing => found \in named
        /\ t \in Keys(base) => named \subseteq ToSet(base)

\* A cascade finds its child graphs in the topology: each segment a lookup can
\* send an edge to is there, and is there once, so that no child is forgotten
\* and none is destroyed twice.
TopologyCoversLookups ==
  \A t \in Triples :
    LET graph == MergedLookup(t).graph
        rows  == MergedTopology(t[1])
    IN  /\ graph # None => \E e \in rows : e.graph = graph
        /\ \A e, f \in rows : e.graph = f.graph => e = f

\* The versions the chain's own steps produce from version 0: the stamps its
\* records can have.
Produced(ms) ==
  LET up[n \in 0..(MaxVersion + 1)] ==
        IF n = 0 THEN {0}
        ELSE up[n - 1] \cup { m.to : m \in { m \in ms : m.from \in up[n - 1] } }
  IN  up[MaxVersion + 1]

\* A registry that accepts a chain can read every record that some prefix of
\* the chain has stamped: no stamp it produces is left behind.
ValidChainsReach ==
  Valid(chain) /\ chain # {} =>
    \A v \in Produced(chain) : Reached(chain, v) = Target(chain)

\* The objects of a Firestore type, or of a tag, somewhere in a value.
Somewhere(kind, v) == {v[place][2] : place \in {place \in DOMAIN v : v[place][1] = kind}}

\* Whatever a document holds, wherever it holds it, a migration that returns its
\* input returns the document: nothing but plain JSON goes in, what comes out is
\* at most a reference short, and the write back puts it right, without touching
\* what is right already, be it the result of a sandbox or of a static migration.
MigratedIsWhatWasStored ==
  /\ Somewhere("type", Serialize(value)) = {}
  /\ Somewhere("tagged", ThroughSandbox(value)) \subseteq {"DocumentReference"}
  /\ WrittenBack(ThroughSandbox(value)) = value
  /\ ThroughSandbox(ThroughSandbox(value)) = ThroughSandbox(value)
  /\ WrittenBack(value) = value

=============================================================================
