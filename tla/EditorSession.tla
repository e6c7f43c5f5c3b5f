---------------------------- MODULE EditorSession ----------------------------
(***************************************************************************)
(* The schema the editor's server answers with: the types of the files,     *)
(* found once at the start, and those stored in the graph, read anew by     *)
(* every "Reload schema".  A reload reads the node types and the edge types *)
(* in two queries and then replaces registry, client, templates and bundle  *)
(* in one step; nothing keeps two reloads apart.                            *)
(*                                                                          *)
(* A stored type is the number of its newest definition, 0 for none; every  *)
(* definition brings its template with it.                                  *)
(***************************************************************************)
EXTENDS Integers, FiniteSets, Sequences

CONSTANTS
    NodeNames, EdgeNames,  \* names a type may have
    FileNames,             \* those the entities directory defines
    Tag,                   \* the custom element a name is sanitised to
    Reloads,               \* calls of reloadSchema
    MaxDefines,            \* bound: types stored in a behaviour
    MaxViews               \* bound: calls of getViews

SessionAssumption == MaxDefines \in Nat /\ MaxViews \in Nat

VARIABLES
    stored,   \* the meta-nodes in the graph: names -> newest definition
    call,     \* Reloads -> [step, nodes, edges, since]
    served,   \* state.dynamicTypeMeta: what the last reload to end had read
    views     \* state.viewRegistry: templates listed for a type of the files

sessionVars == <<stored, call, served, views>>

Names == NodeNames \cup EdgeNames
Nothing == [n \in Names |-> 0]

TypeOK ==
    /\ stored \in [Names -> 0 .. MaxDefines]
    /\ served \in [Names -> 0 .. MaxDefines]
    /\ views \in [FileNames -> 0 .. MaxViews]
    /\ \A r \in Reloads : call[r].step \in {"begun", "idle", "over"}

Init ==
    /\ stored = Nothing
    /\ call = [r \in Reloads |-> [step |-> "idle", nodes |-> Nothing,
                                  edges |-> Nothing, since |-> Nothing,
                                  read |-> {}]]
    /\ served = Nothing
    /\ views = [n \in FileNames |-> 0]

----------------------------------------------------------------------------
(* Mutant: stored types are merged as they come.                            *)
Unfiltered(loaded) == {n \in Names : loaded[n] # 0}

(* The entries of state.registry that come from the graph: not those a type *)
(* of the files shadows.                                                    *)
Filtered(loaded) == {n \in Names \ FileNames : loaded[n] # 0}

(* The element the browser defines for a tag: nodes come before edges in    *)
(* the bundle, and a tag that is taken keeps its first template.            *)
ShownFor(tag) ==
    LET of(kind) == {n \in kind : served[n] # 0 /\ Tag[n] = tag}
    IN  IF of(NodeNames) # {} THEN CHOOSE n \in of(NodeNames) : TRUE
        ELSE CHOOSE n \in of(EdgeNames) : TRUE

(* getViews: the views of the files, and the template of every stored type, *)
(* shadowed or not.  The record of a type of the files is the server's own, *)
(* so that what is added to it stays.                                       *)
GetViews ==
    /\ \A n \in FileNames : views[n] < MaxViews
    /\ \E n \in FileNames : served[n] # 0
    /\ views' = [n \in FileNames |-> IF served[n] # 0 THEN views[n] + 1 ELSE views[n]]
    /\ UNCHANGED <<stored, call, served>>

----------------------------------------------------------------------------
(* Another client defines a type, anew or again.                            *)
Define(n) ==
    /\ stored[n] < MaxDefines
    /\ stored' = [stored EXCEPT ![n] = @ + 1]
    /\ UNCHANGED <<call, served, views>>

(* reloadDynamicSchema, loadDynamicTypes: two queries at a time, each with  *)
(* an answer of its own moment.                                             *)
Begin(r) ==
    /\ call[r].step = "idle"
    /\ call' = [call EXCEPT ![r].step = "begun", ![r].since = stored]
    /\ UNCHANGED <<stored, served, views>>

ReadNodeTypes(r) ==
    /\ call[r].step = "begun" /\ "nodes" \notin call[r].read
    /\ call' = [call EXCEPT ![r].nodes = stored, ![r].read = @ \cup {"nodes"}]
    /\ UNCHANGED <<stored, served, views>>

ReadEdgeTypes(r) ==
    /\ call[r].step = "begun" /\ "edges" \notin call[r].read
    /\ call' = [call EXCEPT ![r].edges = stored, ![r].read = @ \cup {"edges"}]
    /\ UNCHANGED <<stored, served, views>>

(* Mutant: what the first reload found is kept.                             *)
LoadedOnce(r) ==
    IF served # Nothing THEN served
    ELSE [n \in Names |-> IF n \in NodeNames THEN call[r].nodes[n] ELSE call[r].edges[n]]

(* state.dynamicTypeMeta, registry and client, replaced in one step.        *)
Loaded(r) == [n \in Names |-> IF n \in NodeNames THEN call[r].nodes[n] ELSE call[r].edges[n]]

Install(r) ==
    /\ call[r].step = "begun" /\ call[r].read = {"nodes", "edges"}
    /\ served' = Loaded(r)
    /\ call' = [call EXCEPT ![r].step = "over"]
    /\ UNCHANGED <<stored, views>>

Next ==
    \/ GetViews
    \/ \E n \in Names : Define(n)
    \/ \E r \in Reloads : Begin(r) \/ ReadNodeTypes(r) \/ ReadEdgeTypes(r) \/ Install(r)

Spec ==
    /\ Init /\ [][Next]_sessionVars
    /\ \A r \in Reloads :
          /\ WF_sessionVars(ReadNodeTypes(r)) /\ WF_sessionVars(ReadEdgeTypes(r))
          /\ WF_sessionVars(Install(r))

----------------------------------------------------------------------------
(* No stored type takes the place of one of the files, in a registry merged *)
(* from both.                                                               *)
FilesWin == Filtered(served) \cap FileNames = {}

(* A reload that ends serves every definition acknowledged before it began, *)
(* or a newer one, even when others run beside it.                          *)
ReloadIsFresh ==
    [][\A r \in Reloads :
          call[r].step = "begun" /\ call'[r].step = "over" =>
              \A n \in Names : served'[n] >= call[r].since[n]]_sessionVars

(* What does not hold: a reload that ends never brings back what an earlier *)
(* one had replaced; nodes and edges of one answer are of one moment; a     *)
(* type's template is listed once, and shown for that type only.            *)
ServedGoesForward == [][\A n \in Names : served'[n] >= served[n]]_sessionVars
ListedOnce == \A n \in FileNames : views[n] <= 1
OwnTemplate == \A n \in {k \in Names : served[k] # 0} : ShownFor(Tag[n]) = n
=============================================================================
