----------------------------- MODULE Subgraphs -----------------------------
(***************************************************************************)
(* Where the handle a chain of subgraph() calls returns keeps its rows, and *)
(* what it can do: the Firestore and Durable Object backends, which name a  *)
(* child by appending to their own path, and the routing backend, which     *)
(* asks a callback for another store first and wraps whatever it gets.      *)
(* Two callers hold a handle each.  A path is spelled out, segment by       *)
(* segment, because a segment with a slash in it could spell two.           *)
(***************************************************************************)
EXTENDS Naturals, Sequences, SequencesExt, FiniteSets

CONSTANTS
  Roots,       \* keys or collections of root graphs
  Segments,    \* uids and subgraph names callers may pass, as sequences
  Routed,      \* names the route callback sends to a store of their own
  BaseCaps,    \* capabilities of the base backend
  RoutedCaps,  \* and of the stores the callback returns
  Declared,    \* whether routedCapabilities is given: some of TRUE, FALSE
  MaxDepth     \* bound: subgraph() calls in a chain

VARIABLES left, right

\* Strings, spelled out.
SegmentsAssumption == \A s \in Roots \cup Segments : s \in Seq(Range(s))

vars == <<left, right>>

Slash == "/"

\* assertValidSubgraphArgs, validateSegment, createDOClient's rootKey.
Valid(segment) == segment # <<>> /\ ~Contains(segment, Slash)

\* Mutant: a name may be a path.
NonEmpty(segment) == segment # <<>>

Join(path, segment) ==
  IF path = <<>> THEN segment ELSE path \o <<Slash>> \o segment

-----------------------------------------------------------------------------
(* Handles.  store: [caps, place], the wrapped backend.                     *)

Base(root) == [caps |-> BaseCaps, place |-> root]

\* The backend's own subgraph(): uid and name become part of the path.
Below(store, uid, name) ==
  [store EXCEPT !.place = Join(Join(@, uid), name)]

\* Mutant: a store is chosen by the subgraph's name alone.
RouteByName(root, storage, name) ==
  [caps |-> RoutedCaps, place |-> <<"routed">> \o root \o <<Slash>> \o name]

\* route(ctx): a fresh store for each storage scope.
Route(root, storage, name) ==
  [caps |-> RoutedCaps, place |-> <<"routed">> \o root \o <<Slash>> \o storage]

\* The constructor: an extension method is installed when the wrapped backend
\* has it and the wrapper declares it.
Wrap(root, chain, store, storage, scope, caps) ==
  [root |-> root, chain |-> chain, store |-> store, storage |-> storage,
   scope |-> scope, caps |-> caps, methods |-> store.caps \cap caps]

\* createRoutingBackend: with routedCapabilities, what every store can do.
RootHandle(root, declared) ==
  Wrap(root, <<>>, Base(root), <<>>, <<>>,
       IF declared THEN BaseCaps \cap RoutedCaps ELSE BaseCaps)

\* Mutant: the scope path starts over in a routed store.
RoutedScope(h, uid, name) ==
  LET storage == Join(Join(h.storage, uid), name)
      routed  == name \in Routed
      store   == IF routed THEN Route(h.root, storage, name) ELSE Below(h.store, uid, name)
  IN  Wrap(h.root, Append(h.chain, <<uid, name>>), store, storage,
           IF routed THEN <<name>> ELSE Append(h.scope, name), store.caps)

\* Mutant: the child declares what its parent declared.
InheritedCaps(h, uid, name) ==
  LET storage == Join(Join(h.storage, uid), name)
      store   == IF name \in Routed THEN Route(h.root, storage, name)
                 ELSE Below(h.store, uid, name)
  IN  Wrap(h.root, Append(h.chain, <<uid, name>>), store, storage,
           Append(h.scope, name), h.caps)

\* RoutingStorageBackend.subgraph: the storage scope and the logical scope grow
\* with the chain whichever store answers, and the child is wrapped again.
Child(h, uid, name) ==
  LET storage == Join(Join(h.storage, uid), name)
      store   == IF name \in Routed THEN Route(h.root, storage, name)
                 ELSE Below(h.store, uid, name)
  IN  Wrap(h.root, Append(h.chain, <<uid, name>>), store, storage,
           Append(h.scope, name), store.caps)

-----------------------------------------------------------------------------

\* client.subgraph(uid, name).
Opened(h) ==
  IF Len(h.chain) = MaxDepth THEN {}
  ELSE { Child(h, uid, name) : uid, name \in { x \in Segments : Valid(x) } }

OpenLeft  == left' \in Opened(left) /\ UNCHANGED right
OpenRight == right' \in Opened(right) /\ UNCHANGED left

Init ==
  \E declared \in Declared :
    /\ left \in { RootHandle(r, declared) : r \in { r \in Roots : Valid(r) } }
    /\ right \in { RootHandle(r, declared) : r \in { r \in Roots : Valid(r) } }

Next == OpenLeft \/ OpenRight

Spec == Init /\ [][Next]_vars

-----------------------------------------------------------------------------

\* Two handles share their rows exactly when they were opened by the same
\* chain of calls from the same root, through routed stores and across them.
OneStorePerGraph ==
  (left.store.place = right.store.place)
    = (left.root = right.root /\ left.chain = right.chain)

\* allowedIn is judged by the names of the whole chain, also inside a routed
\* store whose own path starts over.
ScopeIsLogical ==
  \A h \in {left, right} : h.scope = [i \in DOMAIN h.chain |-> h.chain[i][2]]

\* A capability a handle declares is a method it has, and the other way round.
CapabilitiesMeanMethods ==
  \A h \in {left, right} : h.caps = h.methods

=============================================================================
