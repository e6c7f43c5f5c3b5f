---------------------------- MODULE EditorWrites ----------------------------
(***************************************************************************)
(* What the editor's procedures write (createNode ... deleteCollectionDoc  *)
(* of trpc.ts), the form that adds an edge (EdgeEditor) and the page that  *)
(* deletes a node (NodeDetail), for several users at once.  A procedure    *)
(* that decides by what it read writes in a later step.  A cascade is      *)
(* external here: it may stop halfway.                                     *)
(***************************************************************************)
EXTENDS Integers, FiniteSets

CONSTANTS
  Users,
  Uids,         \* nodes
  Names,        \* what may be typed for a node: its uid, or with its type before it
  Strip,        \* stripTypePrefix: the uid a name stands for
  Types,
  MaxRequests,  \* bounds the requests of a behaviour
  None

VARIABLES
  node,      \* the type of each node, or None
  edges,     \* pairs of names; the relation is always the same
  doc,       \* the partition of a collection's document, or None
  request,   \* for each user, the request under way, or None
  form,      \* the edge form of one user
  misled,    \* nodes whose page was left as deleted while they were still there
  raced,     \* a request wrote after something it had read was changed
  loose,     \* an edge was left or made on purpose or unchecked
  made       \* requests so far

vars == <<node, edges, doc, request, form, misled, raced, loose, made>>

\* What a request has read before it writes: a node, a node that an edge is to be
\* put to, the edges of a node, or whether a document is of a partition.
IsRequest(r) ==
  \/ r \in [kind : {"update"}, uid : Uids, seen : {None} \cup Types, edge : {None}, stale : BOOLEAN]
  \/ r \in [kind : {"edge+node"}, uid : Uids, seen : {None} \cup Types, edge : Uids \X Uids, stale : BOOLEAN]
  \/ r \in [kind : {"cascade"}, uid : Uids, seen : SUBSET (Names \X Names), edge : {None}, stale : BOOLEAN]
  \/ r \in [kind : {"doc"}, uid : {None}, seen : BOOLEAN, edge : Types, stale : BOOLEAN]

\* A name is some node's; what stands for none of them is no type, name or request.
EditorAssumption ==
  /\ Uids \subseteq Names
  /\ Strip \in [Names -> Uids]
  /\ None \notin Types \cup Names /\ ~IsRequest(None)
  /\ MaxRequests \in Nat

Exists(name) == name \in Uids /\ node[name] # None

BlankForm == [target |-> None, committed |-> None, check |-> "none", stale |-> FALSE]

Init ==
  /\ node \in [Uids -> {None} \cup Types]
  /\ edges = {} /\ doc \in {None} \cup Types
  /\ request = [user \in Users |-> None]
  /\ form = BlankForm
  /\ misled = {}
  /\ raced = FALSE /\ loose = FALSE /\ made = 0

\* Every write makes what others have read out of date.
Outdate(user) ==
  [other \in Users |->
     IF other = user THEN None
     ELSE IF request[other] = None THEN None ELSE [request[other] EXCEPT !.stale = TRUE]]

Begins(user) == request[user] = None /\ made < MaxRequests /\ made' = made + 1

Wrote(user) ==
  /\ request' = Outdate(user)
  /\ form' = [form EXCEPT !.stale = TRUE]

Rejected(user) == request' = [request EXCEPT ![user] = None] /\ UNCHANGED form

-----------------------------------------------------------------------------
(* Procedures of one step. *)

\* An upsert: a node of another type changes its type.
createNode(user) ==
  /\ Begins(user)
  /\ \E u \in Uids, type \in Types : node' = [node EXCEPT ![u] = type]
  /\ Wrote(user)
  /\ UNCHANGED <<edges, doc, misled, raced, loose>>

\* Edges stay.
deleteNode(user, u) ==
  /\ Begins(user)
  /\ node' = [node EXCEPT ![u] = None]
  /\ loose' = (loose \/ \E e \in edges : u \in {e[1], e[2]})
  /\ Wrote(user)
  /\ UNCHANGED <<edges, doc, misled, raced>>

deleteEdge(user) ==
  /\ Begins(user)
  /\ \E chosen \in SUBSET edges : chosen # {} /\ edges' = edges \ chosen   \* deleteEdgesBatch: several
  /\ Wrote(user)
  /\ UNCHANGED <<node, doc, misled, raced, loose>>

-----------------------------------------------------------------------------
(* Procedures that read first. *)

Reads(user, what) ==
  /\ Begins(user)
  /\ request' = [request EXCEPT ![user] = what]
  /\ UNCHANGED <<node, edges, doc, form, misled, raced, loose>>

Under(user, kind) == request[user] # None /\ request[user].kind = kind

Commits(user) ==
  /\ Wrote(user)
  /\ raced' = (raced \/ request[user].stale)
  /\ UNCHANGED made

Request(kind, u, seen, edge) == [kind |-> kind, uid |-> u, seen |-> seen, edge |-> edge, stale |-> FALSE]

updateNodeReads(user) == \E u \in Uids : Reads(user, Request("update", u, node[u], None))

\* Mutant: the type of the new node is a default.
DefaultType(r) == CHOOSE type \in Types : TRUE

\* The node is put back as it was read: with its type, and if it was deleted.
UpdatedType(r) == r.seen

updateNode(user) ==
  /\ Under(user, "update")
  /\ LET r == request[user]
     IN  IF r.seen = None
           THEN Rejected(user) /\ UNCHANGED <<node, raced, made>>
           ELSE node' = [node EXCEPT ![r.uid] = UpdatedType(r)] /\ Commits(user)
  /\ UNCHANGED <<edges, doc, misled, loose>>

\* The new node and the edge in one transaction, decided by a look before it at
\* the new node and the edge.  Nobody looks at the node on the other side.
createEdgeWithNodeReads(user) ==
  \E u \in Uids, v \in Uids : \E edge \in {<<v, u>>, <<u, v>>} :
    Reads(user, Request("edge+node", u, node[u], edge))

Conflict(r) == r.seen # None /\ r.edge \in edges

\* Mutant: the edge is looked at instead of the node.
EdgeIsMissing(r) == r.edge \notin edges /\ r.seen # None

\* The node is written unless it was there.
NodeIsMissing(r) == r.seen = None

createEdgeWithNode(user) ==
  /\ Under(user, "edge+node")
  /\ LET r == request[user]
     IN  IF Conflict(r)
           THEN Rejected(user) /\ UNCHANGED <<node, edges, raced, loose, made>>
           ELSE /\ \E type \in Types :
                     node' = IF NodeIsMissing(r) THEN [node EXCEPT ![r.uid] = type] ELSE node
                /\ edges' = edges \cup {r.edge}
                /\ loose' = (loose \/ \E end \in {r.edge[1], r.edge[2]} \ {r.uid} : ~Exists(end))
                /\ Commits(user)
  /\ UNCHANGED <<doc, misled>>

\* removeNodeCascade: the edges found are deleted with the node, or some of
\* them, with or without the node, and the answer says whether it was.
deleteNodeCascadeReads(user, u) ==
  Reads(user, Request("cascade", u, {e \in edges : u \in {e[1], e[2]}}, None))

\* Mutant: a cascade that kept the node is a success.
SuccessAnyway(nodeDeleted) == TRUE

Success(nodeDeleted) == nodeDeleted

deleteNodeCascade(user) ==
  /\ Under(user, "cascade")
  /\ LET r == request[user]
     IN  \E deleted \in SUBSET r.seen, nodeDeleted \in BOOLEAN :
           /\ edges' = edges \ deleted
           /\ node' = IF nodeDeleted THEN [node EXCEPT ![r.uid] = None] ELSE node
           /\ loose' = (loose \/ (nodeDeleted /\ deleted # r.seen))
           \* onSuccess leaves the page when the answer says success.
           /\ misled' = IF Success(nodeDeleted) /\ node'[r.uid] # None THEN misled \cup {r.uid} ELSE misled
  /\ Commits(user)
  /\ UNCHANGED doc

-----------------------------------------------------------------------------
(* Documents of a collection with a type partition. *)

\* Updates and deletes look at the document's partition first.
ReadDoc(user, type) == Reads(user, Request("doc", None, doc = type, type))

\* Mutant: a document of another partition will do.
FindsAny(r) == doc # None

Finds(r) == r.seen

writeCollectionDoc(user) ==
  /\ Under(user, "doc")
  /\ LET r == request[user]
     IN  IF ~Finds(r)
           THEN Rejected(user) /\ UNCHANGED <<doc, raced, made>>
           ELSE doc' \in {r.edge, None} /\ Commits(user)   \* set with merge, or delete
  /\ UNCHANGED <<node, edges, misled, loose>>

-----------------------------------------------------------------------------
(* The form: a target is typed or picked, checked, and used. *)

FormStep == UNCHANGED <<node, edges, doc, request, misled, raced, loose, made>>

Type == FormStep /\ \E name \in Names : form' = [form EXCEPT !.target = name]

\* On blur, or by picking: the check starts.
Commit ==
  /\ FormStep
  /\ form.target # None /\ form.target # form.committed
  /\ form' = [form EXCEPT !.committed = form.target, !.check = "pending"]

CheckAnswers ==
  /\ FormStep
  /\ form.check = "pending"
  /\ form' = [form EXCEPT !.check = IF node[Strip[form.committed]] # None THEN "exists" ELSE "missing", !.stale = FALSE]

\* Another mode or relation forgets the check, not the target.
ChangeMode == FormStep /\ form' = [BlankForm EXCEPT !.target = form.target]

\* Mutant: nothing keeps the button disabled.
CanSubmitAnyway == form.target # None

\* Only a check that says the node is missing keeps the button disabled.
CanSubmit == form.target # None /\ form.check # "missing"

\* Whether the target itself was found, and found under this very name.
Checked ==
  /\ form.check = "exists" /\ form.committed = form.target
  /\ Strip[form.target] = form.target

\* a is the node of the page.
createEdge(user, a) ==
  /\ Begins(user)
  /\ CanSubmit
  /\ edges' = edges \cup {<<a, form.target>>}
  /\ loose' = (loose \/ (~Checked /\ form.check # "missing"))
  /\ raced' = (raced \/ form.stale \/ ~Exists(a))
  /\ request' = Outdate(user)
  /\ form' = BlankForm
  /\ UNCHANGED <<node, doc, misled>>

Next ==
  \/ \E user \in Users :
       \/ createNode(user) \/ deleteEdge(user)
       \/ updateNodeReads(user) \/ updateNode(user)
       \/ createEdgeWithNodeReads(user) \/ createEdgeWithNode(user)
       \/ deleteNodeCascade(user) \/ writeCollectionDoc(user)
       \/ \E u \in Uids : deleteNode(user, u) \/ deleteNodeCascadeReads(user, u) \/ createEdge(user, u)
       \/ \E type \in Types : ReadDoc(user, type)
  \/ Type \/ Commit \/ CheckAnswers \/ ChangeMode

Spec == Init /\ [][Next]_vars

-----------------------------------------------------------------------------
TypeOK ==
  /\ node \in [Uids -> {None} \cup Types]
  /\ edges \subseteq Names \X Names
  /\ doc \in {None} \cup Types
  /\ DOMAIN request = Users /\ \A user \in Users : request[user] = None \/ IsRequest(request[user])
  /\ form \in [target : {None} \cup Names, committed : {None} \cup Names,
               check : {"none", "pending", "exists", "missing"}, stale : BOOLEAN]
  /\ made \in 0..MaxRequests

\* An edge has both its ends, unless a node was deleted without its edges, a
\* cascade stopped halfway, an edge was made to a node that nobody checked (also
\* the one createEdgeWithNode is called from), or two users changed the same nodes between the look and the write.
NoDanglingEdge == ~raced /\ ~loose => \A e \in edges : Exists(e[1]) /\ Exists(e[2])

\* The page of a node is left after a cascade only when the node is gone.
PageLeftWhenGone == misled = {}

\* A write of a partition's document leaves those of other partitions alone,
\* unless the document moved between the look and the write.
PartitionsAreKept ==
  [][ \A user \in Users : Under(user, "doc") /\ doc' # doc /\ request'[user] = None /\ request[user] # None
        => doc = request[user].edge \/ request[user].stale ]_vars

\* An update changes neither the type of a node nor brings one back, unless
\* the node was changed between the look and the write.
UpdatesKeepType ==
  [][ \A user \in Users : Under(user, "update") /\ request'[user] = None /\ ~request[user].stale => node' = node ]_vars
=============================================================================
