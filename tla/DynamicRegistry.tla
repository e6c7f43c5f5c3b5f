-------------------------- MODULE DynamicRegistry --------------------------
(***************************************************************************)
(* Types defined at run time: dynamic-registry.ts and the methods of        *)
(* client.ts that define a type and reload the registry.  A definition is a *)
(* node of the meta graph, put (that is: merged) under a uid its name       *)
(* determines.  A reload reads the node types and the edge types with two   *)
(* queries nothing orders, compiles what it read and installs the result.   *)
(* Definitions, reloads that overlap and restarts of the process interleave.*)
(***************************************************************************)
EXTENDS Naturals, FiniteSets

CONSTANTS
  NodeTypes, EdgeTypes,  \* names
  Static,                \* the names the static registry has, {} without one
  Properties,            \* properties a type's JSON schema may list
  Reloads,               \* reloadRegistry calls that may overlap
  Limit,                 \* the default limit of a query
  Leftover,              \* definitions an earlier deployment left
  MaxDefines,            \* bound: calls that define a type
  MaxFaults              \* bound: restarts and queries that fail

VARIABLES
  meta,      \* meta[n]: the stored definition of n, or Undefined
  registry,  \* what the last reload installed, or NotLoaded
  reload,    \* reload[r]: what call r has read so far, or Idle
  defines,   \* definitions so far
  faults

vars == <<meta, registry, reload, defines, faults>>

Types == NodeTypes \cup EdgeTypes

\* `asked` is what the last call named, `props` what is stored after its merge;
\* seq numbers the calls.  A chain is stored unvalidated.
Definition ==
  [seq : 0..MaxDefines, asked : SUBSET Properties, props : SUBSET Properties,
   chain : {"none", "valid", "invalid"}]

Undefined == [seq |-> 0, asked |-> {}, props |-> {}, chain |-> "undefined"]
NotLoaded == [n \in {} |-> Undefined]
Idle == [active |-> FALSE]

Seen(n) == meta[n] # Undefined
Defined(names) == { n \in names : Seen(n) }

-----------------------------------------------------------------------------
(* Definitions.                                                             *)

\* Mutant: the definition replaces the one before.
Replaced(old, seq, props, chain) ==
  [seq |-> seq, asked |-> props, props |-> props, chain |-> chain]

\* putNode: properties of the stored schema stay, and so does a chain the call
\* does not give; a chain is an array, taken whole.
Merged(old, seq, props, chain) ==
  [seq   |-> seq,
   asked |-> props,
   props |-> props \cup old.props,
   chain |-> IF chain = "none" /\ old # Undefined THEN old.chain ELSE chain]

\* defineNodeType, defineEdgeType: not a name of the static registry.  Sources
\* that do not compile are refused here; the chain's shape is not looked at.
Define(n, props, chain) ==
  /\ n \notin Static
  /\ defines < MaxDefines
  /\ defines' = defines + 1
  /\ meta' = [meta EXCEPT ![n] = Merged(@, defines + 1, props, chain)]
  /\ UNCHANGED <<registry, reload, faults>>

-----------------------------------------------------------------------------
(* Reloads.                                                                 *)

Start(r) ==
  /\ reload[r] = Idle
  /\ reload' = [reload EXCEPT ![r] =
       [active |-> TRUE, todo |-> {"nodes", "edges"}, read |-> NotLoaded,
        since |-> [n \in Types |-> meta[n].seq]]]
  /\ UNCHANGED <<meta, registry, defines, faults>>

\* findNodes: at most Limit of the definitions there are.
Answers(kind) ==
  LET there == Defined(IF kind = "nodes" THEN NodeTypes ELSE EdgeTypes)
  IN  { S \in SUBSET there :
          IF Cardinality(there) <= Limit THEN S = there ELSE Cardinality(S) = Limit }

\* Mutant: a reload in flight lends its answer to one that starts later.
ReadShared(r, kind) ==
  /\ reload[r].active
  /\ kind \in reload[r].todo
  /\ \E S \in Answers(kind), q \in Reloads :
       LET old == IF reload[q].active THEN reload[q].read ELSE NotLoaded
       IN  reload' = [reload EXCEPT
             ![r].todo = @ \ {kind},
             ![r].read = [n \in DOMAIN @ \cup S |->
                            IF n \in DOMAIN @ THEN @[n]
                            ELSE IF n \in DOMAIN old THEN old[n] ELSE meta[n]]]
  /\ UNCHANGED <<meta, registry, defines, faults>>

\* One of the two queries of createRegistryFromGraph answers.
Read(r, kind) ==
  /\ reload[r].active
  /\ kind \in reload[r].todo
  /\ \E S \in Answers(kind) :
       reload' = [reload EXCEPT
         ![r].todo = @ \ {kind},
         ![r].read = [n \in DOMAIN @ \cup S |-> IF n \in S THEN meta[n] ELSE @[n]]]
  /\ UNCHANGED <<meta, registry, defines, faults>>

\* Mutant: createRegistry does not look at the chains.
Anything(read) == TRUE

\* createRegistry: the chain of every entry is validated.
Compiles(read) == \A n \in DOMAIN read : read[n].chain # "invalid"

\* Mutant: the first registry that compiles is kept.
InstalledOnce(read) == IF registry = NotLoaded /\ Compiles(read) THEN read ELSE registry

\* The registry is installed in one assignment, after everything that can throw.
Installed(read) == IF Compiles(read) THEN read ELSE registry

Finish(r) ==
  /\ reload[r].active
  /\ reload[r].todo = {}
  /\ registry' = Installed(reload[r].read)
  /\ reload' = [reload EXCEPT ![r] = Idle]
  /\ UNCHANGED <<meta, defines, faults>>

\* A query, or the sandbox that compiles the sources, fails.
Fail(r) ==
  /\ reload[r].active
  /\ faults < MaxFaults
  /\ faults' = faults + 1
  /\ reload' = [reload EXCEPT ![r] = Idle]
  /\ UNCHANGED <<meta, registry, defines>>

\* The process starts again with the registry it was configured with.
Restart ==
  /\ faults < MaxFaults
  /\ faults' = faults + 1
  /\ registry' = NotLoaded
  /\ reload' = [r \in Reloads |-> Idle]
  /\ UNCHANGED <<meta, defines>>

-----------------------------------------------------------------------------
(* What a write of type n is judged by: getRegistryForType.                 *)

StaticEntry == [Undefined EXCEPT !.chain = "static"]

\* Mutant: dynamic definitions are merged over the static ones.
DynamicFirst(n) ==
  IF n \in DOMAIN registry THEN registry[n]
  ELSE IF n \in Static THEN StaticEntry ELSE Undefined

\* createMergedRegistry(static, dynamic), or the static one before a reload.
Judge(n) ==
  IF n \in Static THEN StaticEntry
  ELSE IF n \in DOMAIN registry THEN registry[n] ELSE Undefined

-----------------------------------------------------------------------------

Init ==
  /\ meta \in { [n \in Types |-> IF n \in DOMAIN left
                   THEN [Undefined EXCEPT !.chain = left[n]] ELSE Undefined] :
                left \in UNION { [S -> {"none", "valid", "invalid"}] :
                                 S \in SUBSET Leftover } }
  /\ registry = NotLoaded
  /\ reload = [r \in Reloads |-> Idle]
  /\ defines = 0
  /\ faults = 0

Steps(r) == (\E kind \in {"nodes", "edges"} : Read(r, kind)) \/ Finish(r)

Next ==
  \/ \E n \in Types, props \in SUBSET Properties,
        chain \in {"none", "valid", "invalid"} : Define(n, props, chain)
  \/ \E r \in Reloads : Start(r) \/ Steps(r) \/ Fail(r)
  \/ Restart

Spec == Init /\ [][Next]_vars

\* A host that keeps calling reloadRegistry; a call that began goes on.
Fairness == \A r \in Reloads : WF_vars(Start(r)) /\ WF_vars(Steps(r))

FairSpec == Spec /\ Fairness

-----------------------------------------------------------------------------
(* Properties.                                                              *)

TypeOK ==
  /\ meta \in [Types -> Definition \cup {Undefined}
                 \cup { [Undefined EXCEPT !.chain = c] : c \in {"none", "valid", "invalid"} }]
  /\ DOMAIN registry \subseteq Types
  /\ defines \in 0..MaxDefines
  /\ faults \in 0..MaxFaults
  /\ \A r \in Reloads : reload[r].active =>
       /\ DOMAIN reload[r].read \subseteq Types
       /\ reload[r].todo \subseteq {"nodes", "edges"}

Few == /\ Cardinality(Defined(NodeTypes)) <= Limit
       /\ Cardinality(Defined(EdgeTypes)) <= Limit

\* A reload that installs a registry installs no definition older than the ones
\* acknowledged before it was called, although its two queries are unordered
\* and others overlap it: as long as one query holds all definitions.
ReloadSeesAcknowledged ==
  [][\A r \in Reloads :
       /\ reload[r].active /\ ~reload'[r].active
       /\ registry' # registry /\ registry' # NotLoaded
       /\ Few
       => \A n \in Types : reload[r].since[n] > 0 =>
            n \in DOMAIN registry' /\ registry'[n].seq >= reload[r].since[n]]_vars

\* No type is ever judged by a definition whose migrations form no chain: a
\* reload that meets one fails as a whole and the registry before it stays.
ServedChainsAreValid == \A n \in Types : Judge(n).chain # "invalid"

\* Types of the static registry are never overridden, not even by definitions
\* that were stored before the static registry had them.
StaticNeverOverridden == \A n \in Static : Judge(n) = StaticEntry

\* Both, in well-typed states: what getRegistryForType hands out is sound.
ServedTypesAreSound == TypeOK /\ ServedChainsAreValid /\ StaticNeverOverridden

\* What the names and bounds are.
RegistryAssumption ==
  /\ IsFiniteSet(NodeTypes) /\ IsFiniteSet(EdgeTypes) /\ Leftover \subseteq Types
  /\ Limit \in Nat /\ MaxDefines \in Nat /\ MaxFaults \in Nat

\* Once definitions stop, and unless a stored one is broken, a host that keeps
\* reloading ends with the newest definition of every type, for good: an old
\* reload that finishes late is overtaken.
Converges ==
  <>[](Few /\ (\A n \in Types : meta[n].chain # "invalid") =>
         \A n \in Types : Seen(n) => n \in DOMAIN registry /\ registry[n] = meta[n])

\* README.md:514: a second definition of a type overwrites the first, and after
\* a reload the latest schema is used.
LatestSchemaIsUsed ==
  \A n \in DOMAIN registry : registry[n].seq > 0 => registry[n].props = registry[n].asked

=============================================================================
