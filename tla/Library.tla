------------------------------- MODULE Library -------------------------------
(***************************************************************************)
(* What the library computes without a question: how writes become          *)
(* documents (Documents), scopes tables (SqliteScopes), entries a registry, *)
(* steps a migration chain and values what a migration is given (Registry), *)
(* segments a handle (Subgraphs), how paths lead to graphs and patterns     *)
(* match (GraphPaths), and what backends promise and factories open         *)
(* (Capabilities).  They share no state: each behaviour enlarges the input  *)
(* of one of them, `part`, and the others keep their first input.           *)
(***************************************************************************)
EXTENDS Documents

CONSTANTS
  nothing,                                    \* no targetGraph
  Words, Hex, Letters, Lower, MaxCalls,       \* SqliteScopes
  Triples, Segments, MaxEntries, MaxVersion,  \* Registry
  Tags, Plain, Names, MaxNesting,
  Roots, Passed, Routed,                      \* Subgraphs
  BaseCaps, RoutedCaps, Declared,
  PathUids, GraphNames, Split, Collections,   \* GraphPaths
  Templates, Parameters, MaxLength,
  MaxChain,                                   \* Subgraphs, GraphPaths
  Depth, Unforwarded,                         \* Capabilities
  Factories, Databases, Options, Caller

VARIABLES
  part,
  here, there,                     \* SqliteScopes
  base, ext, chain, value, level,  \* Registry
  left, right,                     \* Subgraphs
  collection, address, pattern,    \* GraphPaths
  env, root, handle, depth, db, backend   \* Capabilities

Scopes == INSTANCE SqliteScopes WITH MaxDepth <- MaxCalls

ASSUME ScopesAssumption == Scopes!WordsAssumption

Entries == INSTANCE Registry WITH None <- nothing

ASSUME VersionsAssumption == MaxVersion \in Nat

Handles == INSTANCE Subgraphs WITH Segments <- Passed, MaxDepth <- MaxChain

ASSUME HandlesAssumption == Handles!SegmentsAssumption

GraphAt == INSTANCE GraphPaths WITH
  Uids <- PathUids, Names <- GraphNames, Params <- Parameters, None <- nothing, MaxDepth <- MaxChain

ASSUME PathsAssumption == GraphAt!PathsAssumption

Promises == INSTANCE Capabilities WITH Missing <- Unforwarded, Calls <- Factories, None <- nothing

ASSUME PromisesAssumption == Promises!PromisesAssumption

scopeVars == <<here, there>>
entryVars == <<base, ext, chain, value, level>>
handleVars == <<left, right>>
addressVars == <<collection, address, pattern>>
promiseVars == <<env, root, handle, depth, db, backend>>
partVars == <<scopeVars, entryVars, handleVars, addressVars, promiseVars>>

-----------------------------------------------------------------------------
LibraryInit ==
  /\ Init /\ Scopes!Init /\ Entries!Init
  /\ Handles!Init /\ GraphAt!Init /\ Promises!Init

LibraryNext ==
  /\ UNCHANGED part
  /\ IF part = "documents" THEN Next ELSE UNCHANGED vars
  /\ IF part = "scopes" THEN Scopes!Next ELSE UNCHANGED scopeVars
  /\ CASE part = "entries" -> Entries!Register \/ Entries!Extend
       [] part = "chains"  -> Entries!AddStep
       [] part = "values"  -> Entries!Nest
       [] OTHER            -> UNCHANGED entryVars
  /\ IF part = "handles" THEN Handles!Next ELSE UNCHANGED handleVars
  /\ IF part = "paths" THEN GraphAt!Next ELSE UNCHANGED addressVars
  /\ CASE part = "promises" -> Promises!Derive
       [] part = "locals"   -> Promises!OpenAndClose
       [] OTHER             -> UNCHANGED promiseVars

LibrarySpec == LibraryInit /\ [][LibraryNext]_<<part, vars, partVars>>

-----------------------------------------------------------------------------
(* The properties of the parts; each is stated in the module of its part,   *)
(* and asked where that part moves.                                         *)

\* Distinct graphs have distinct tables, and the LIKE pattern of a cascade finds
\* the tables of descendants only (SqliteScopes).
ScopesSeparate ==
  part = "scopes" =>
    Scopes!TypeOK /\ Scopes!OneTablePerGraph /\ Scopes!CascadeMatchesDescendants

\* A registry's lookups, topology, merge and migration chains answer what its
\* entries say, and a migration that returns its input returns the document
\* (Registry).
RegistryAnswers ==
  /\ part = "entries" => Entries!ViewsAgree /\ Entries!TopologyCoversLookups
  /\ part = "chains" => Entries!ValidChainsReach
  /\ part = "values" => Entries!MigratedIsWhatWasStored

\* A chain of subgraph() calls leads to the one store of its graph, under the
\* scope of its calls, and promises only methods it has; a path leads to its
\* graph and back, names its ancestors and is cut by the patterns that say so;
\* what is promised runs, there and in every subgraph, and what is not is
\* refused; and the backends that share a local database are ready while it is
\* open, and only who opened it closes it (Subgraphs, GraphPaths, Capabilities).
HandlesMean ==
  /\ part = "handles" =>
       Handles!OneStorePerGraph /\ Handles!ScopeIsLogical /\ Handles!CapabilitiesMeanMethods
  /\ part = "paths" =>
       /\ GraphAt!PatternsMeanCuts
       /\ GraphAt!OfferedIsAllowed
       /\ GraphAt!AncestorsAgree
       /\ GraphAt!EnteredIsLeft
       /\ GraphAt!CrumbsLead
       /\ GraphAt!CollectionLinksLead
  /\ part = "promises" =>
       /\ Promises!DeclaredIsThere
       /\ Promises!UndeclaredIsRefused
       /\ Promises!ReadsRunHere
       /\ Promises!TraversalsAreAnswered
       /\ Promises!SubgraphsKeepTheirWord
  /\ part = "locals" => Promises!ClosedByItsOwner /\ Promises!BackendsAreReady
=============================================================================
