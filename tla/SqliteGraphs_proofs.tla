------------------------ MODULE SqliteGraphs_proofs ------------------------
(***************************************************************************)
(* Proofs about SqliteGraphs: type correctness for every driver, and for    *)
(* drivers whose batches are atomic that the catalog and the tables never   *)
(* disagree.                                                                *)
(***************************************************************************)
EXTENDS SqliteGraphs, TLAPS

-----------------------------------------------------------------------------
(* Type correctness.                                                        *)

OpType == [pc      : {"idle", "ensure", "register", "run", "missing"},
           kind    : {"single", "batch"},
           retried : BOOLEAN]

CascadeType == [pc     : {"idle", "list", "count", "write",
                          "done", "partial", "rejected"},
                edges  : SUBSET Row,
                found  : SUBSET Graphs,
                left   : SUBSET Graphs,
                todo   : SUBSET Statement,
                old    : SUBSET (Graphs \X Row),
                failed : BOOLEAN,
                begun  : 0..MaxCascades]

\* The part of TypeOK that the writes of handles can disturb ...
WritesTyped ==
  /\ tables \subseteq Graphs
  /\ catalog \subseteq Graphs
  /\ rows \in [Graphs -> SUBSET Row]
  /\ ensured \in [Handles -> BOOLEAN]
  /\ op \in [Handles -> OpType]
  /\ ops \in [Handles -> 0..MaxOps]
  /\ failures \in 0..MaxFailures

RowsAtHome == \A p \in Stored : p[2].of = "write" => Opens[p[2].id] = p[1]

CascadesTyped == cascade \in [Nodes -> CascadeType]

LEMMA TypeParts ==
  /\ TypeOK <=> WritesTyped /\ RowsAtHome /\ CascadesTyped
  /\ TypeOK' <=> WritesTyped' /\ RowsAtHome' /\ CascadesTyped'
BY DEF TypeOK, WritesTyped, RowsAtHome, CascadesTyped, OpType, CascadeType

LEMMA RowTypes ==
  /\ NoRow \in Row
  /\ \A n \in Nodes : NodeRow(n) \in Row /\ EdgeRows(n) \subseteq Row
  /\ WritesTyped => \A h \in Handles : WrittenRow(h) \in Row
<1>1. 0 \in 0..MaxOps
  BY GraphsAssumption
<1>2. NoRow \in Row
  BY <1>1 DEF NoRow, Row
<1>3. ASSUME NEW n \in Nodes PROVE NodeRow(n) \in Row /\ EdgeRows(n) \subseteq Row
  <2>1. NodeRow(n) \in Row
    BY <1>1 DEF NodeRow, Row
  <2>2. ASSUME NEW x \in Edges[n] PROVE EdgeRow(x) \in Row
    <3>1. x \in UNION { Edges[m] : m \in Nodes }
      OBVIOUS
    <3>2. QED BY <3>1, <1>1 DEF EdgeRow, Row
  <2>3. QED BY <2>1, <2>2 DEF EdgeRows
<1>4. ASSUME WritesTyped, NEW h \in Handles PROVE WrittenRow(h) \in Row
  <2>1. ops[h] \in 0..MaxOps
    BY <1>4 DEF WritesTyped
  <2>2. QED BY <2>1 DEF WrittenRow, Row
<1>5. QED BY <1>2, <1>3, <1>4

LEMMA RestingTyped == Resting \in CascadeType
BY GraphsAssumption DEF Resting, CascadeType

LEMMA TypeInit == Init => TypeOK
<1> SUFFICES ASSUME Init PROVE TypeOK
  OBVIOUS
<1>1. rows \in [Graphs -> SUBSET Row]
  BY RowTypes DEF Init
<1>2. WritesTyped
  <2>1. Idle \in OpType
    BY DEF Idle, OpType
  <2>2. QED BY <1>1, <2>1, GraphsAssumption DEF WritesTyped, Init
<1>3. RowsAtHome
  <2>1. ASSUME NEW g \in Graphs, NEW x \in rows[g] PROVE x.of # "write"
    BY DEF Init, NodeRow, EdgeRows, EdgeRow
  <2>2. QED BY <2>1 DEF RowsAtHome, Stored
<1>4. CascadesTyped
  BY RestingTyped DEF CascadesTyped, Init
<1>5. QED BY <1>2, <1>3, <1>4, TypeParts

LEMMA SameRows == rows' = rows => (Stored' = Stored /\ (RowsAtHome => RowsAtHome'))
BY DEF Stored, RowsAtHome

LEMMA GotoTyped ==
  ASSUME op \in [Handles -> OpType], NEW h \in Handles,
         NEW pc \in {"idle", "ensure", "register", "run", "missing"}, Goto(h, pc)
  PROVE  op' \in [Handles -> OpType]
<1>1. [op[h] EXCEPT !.pc = pc] \in OpType
  BY DEF OpType
<1>2. QED BY <1>1 DEF Goto

LEMMA TypeWrite ==
  ASSUME TypeOK, NEW h \in Handles, Write(h)
  PROVE  TypeOK'
<1> USE TypeParts
<1>0. op \in [Handles -> OpType] /\ WritesTyped /\ RowsAtHome /\ CascadesTyped
  BY DEF WritesTyped
<1>t. Table(h) \in Graphs
  BY GraphsAssumption DEF Table
<1>c. CascadesTyped'
  <2>1. UNCHANGED cascade
    BY DEF Write, Begin, Bootstrap, CreateTable, Register, BootstrapFails, Run, Heal, Miss
  <2>2. QED BY <2>1, <1>0 DEF CascadesTyped
<1>s. ASSUME UNCHANGED rows PROVE RowsAtHome'
  BY <1>s, <1>0, SameRows
<1>1. ASSUME NEW kind \in Kinds, Begin(h, kind) PROVE TypeOK'
  <2>1. [pc |-> IF ensured[h] THEN "run" ELSE "ensure", kind |-> kind, retried |-> FALSE] \in OpType
    BY GraphsAssumption DEF OpType
  <2>2. op' \in [Handles -> OpType]
    BY <1>0, <1>1, <2>1 DEF Begin
  <2>3. ops' \in [Handles -> 0..MaxOps]
    BY <1>0, <1>1, GraphsAssumption DEF Begin, WritesTyped
  <2>4. WritesTyped'
    BY <1>0, <1>1, <2>2, <2>3 DEF Begin, WritesTyped, schema
  <2>5. QED BY <2>4, <1>c, <1>s, <1>1 DEF Begin, schema
<1>2. CASE Bootstrap(h)
  <2>1. op' \in [Handles -> OpType]
    BY <1>0, <1>2, GotoTyped DEF Bootstrap
  <2>2. WritesTyped'
    BY <1>0, <1>2, <2>1, <1>t DEF Bootstrap, Bootstraps, WritesTyped
  <2>3. QED BY <2>2, <1>c, <1>s, <1>2 DEF Bootstrap
<1>3. CASE CreateTable(h)
  <2>1. op' \in [Handles -> OpType]
    BY <1>0, <1>3, GotoTyped DEF CreateTable
  <2>2. WritesTyped'
    BY <1>0, <1>3, <2>1, <1>t DEF CreateTable, WritesTyped
  <2>3. QED BY <2>2, <1>c, <1>s, <1>3 DEF CreateTable
<1>4. CASE Register(h)
  <2>1. op' \in [Handles -> OpType]
    BY <1>0, <1>4, GotoTyped DEF Register
  <2>2. WritesTyped'
    BY <1>0, <1>4, <2>1, <1>t DEF Register, WritesTyped
  <2>3. QED BY <2>2, <1>c, <1>s, <1>4 DEF Register
<1>5. CASE BootstrapFails(h)
  <2>1. op' \in [Handles -> OpType]
    BY <1>0, <1>5, GotoTyped DEF BootstrapFails
  <2>2. failures' \in 0..MaxFailures
    BY <1>0, <1>5, GraphsAssumption DEF BootstrapFails, WritesTyped
  <2>3. WritesTyped'
    BY <1>0, <1>5, <2>1, <2>2 DEF BootstrapFails, WritesTyped, schema
  <2>4. QED BY <2>3, <1>c, <1>s, <1>5 DEF BootstrapFails, schema
<1>6. CASE Run(h)
  <2>1. op' \in [Handles -> OpType]
    BY <1>0, <1>6, GotoTyped DEF Run
  <2>2. WrittenRow(h) \in Row
    BY <1>0, RowTypes
  <2>3. WritesTyped'
    BY <1>0, <1>6, <2>1, <2>2, <1>t DEF Run, WritesTyped
  <2>4. RowsAtHome'
    <3>1. ASSUME NEW g \in Graphs, NEW x \in rows'[g], x.of = "write"
          PROVE  Opens[x.id] = g
      <4>1. CASE x \in rows[g]
        <5>1. x \in Row
          BY <4>1, <1>0 DEF WritesTyped
        <5>2. <<g, x>> \in Stored
          BY <4>1, <5>1 DEF Stored
        <5>3. QED BY <5>2, <3>1, <1>0 DEF RowsAtHome
      <4>2. CASE x \notin rows[g]
        <5>1. x = WrittenRow(h) /\ g = Table(h)
          BY <4>2, <3>1, <1>6, <1>0, <1>t DEF Run, WritesTyped
        <5>2. QED BY <5>1 DEF WrittenRow, Table
      <4>3. QED BY <4>1, <4>2
    <3>2. QED BY <3>1 DEF RowsAtHome, Stored
  <2>5. QED BY <2>3, <2>4, <1>c
<1>7. CASE Heal(h)
  <2>1. [op[h] EXCEPT !.pc = "ensure", !.retried = TRUE] \in OpType
    BY <1>0 DEF OpType
  <2>2. op' \in [Handles -> OpType]
    BY <1>0, <1>7, <2>1 DEF Heal
  <2>3. WritesTyped'
    BY <1>0, <1>7, <2>2 DEF Heal, WritesTyped, schema
  <2>4. QED BY <2>3, <1>c, <1>s, <1>7 DEF Heal, schema
<1>8. CASE Miss(h)
  <2>1. op' \in [Handles -> OpType]
    BY <1>0, <1>8, GotoTyped DEF Miss
  <2>2. WritesTyped'
    BY <1>0, <1>8, <2>1 DEF Miss, WritesTyped, schema
  <2>3. QED BY <2>2, <1>c, <1>s, <1>8 DEF Miss, schema
<1>9. QED BY <1>1, <1>2, <1>3, <1>4, <1>5, <1>6, <1>7, <1>8 DEF Write

\* A step of one cascade that leaves handles alone.
LEMMA CascadeSet ==
  ASSUME CascadesTyped, NEW n \in Nodes, NEW c \in CascadeType,
         cascade' = [cascade EXCEPT ![n] = c]
  PROVE  CascadesTyped'
BY DEF CascadesTyped

LEMMA AppliesTyped ==
  ASSUME WritesTyped, RowsAtHome, NEW C, Applies(C)
  PROVE  /\ tables' \subseteq Graphs
         /\ catalog' \subseteq Graphs
         /\ rows' \in [Graphs -> SUBSET Row]
         /\ RowsAtHome'
<1>1. \A g \in Graphs : rows'[g] \subseteq rows[g]
  BY DEF Applies, WritesTyped
<1>2. rows' \in [Graphs -> SUBSET Row]
  BY <1>1 DEF Applies, WritesTyped
<1>3. RowsAtHome'
  BY <1>1 DEF RowsAtHome, Stored
<1>4. QED BY <1>2, <1>3 DEF Applies, WritesTyped

LEMMA TypeCascade ==
  ASSUME TypeOK, NEW n \in Nodes, Cascade(n)
  PROVE  TypeOK'
<1>0. WritesTyped /\ RowsAtHome /\ CascadesTyped /\ cascade[n] \in CascadeType
  BY TypeParts DEF CascadesTyped
<1>h. Home[n] \in Graphs /\ Below[n] \subseteq Graphs
  BY GraphsAssumption
<1>q. ASSUME WritesTyped', RowsAtHome', CascadesTyped' PROVE TypeOK'
  BY <1>q, TypeParts
<1>u. ASSUME UNCHANGED <<schema, ensured, op, ops, failures>>
      PROVE  WritesTyped' /\ RowsAtHome'
  BY <1>0, <1>u, SameRows DEF WritesTyped, schema
<1>1. ASSUME NEW nth \in 0..MaxCascades, Start(n, nth) PROVE TypeOK'
  <2> DEFINE c == [Resting EXCEPT !.pc    = "list",
                                  !.edges = EdgeRows(n) \cap rows[Home[n]],
                                  !.old   = Doomed(n),
                                  !.begun = nth]
  <2>1. EdgeRows(n) \cap rows[Home[n]] \subseteq Row
    BY RowTypes
  <2>2. Doomed(n) \subseteq Graphs \X Row
    BY DEF Doomed, Stored
  <2>3. c \in CascadeType
    BY <2>1, <2>2, RestingTyped DEF CascadeType
  <2>4. CascadesTyped'
    <3>1. cascade' = [cascade EXCEPT ![n] = c]
      BY <1>1 DEF Start
    <3>2. QED BY <3>1, <2>3, <1>0, CascadeSet
  <2>5. WritesTyped' /\ RowsAtHome'
    BY <1>1, <1>0, <1>h, SameRows DEF Start, Bootstraps, WritesTyped
  <2>6. QED BY <2>4, <2>5, <1>q
<1>2. CASE First(n)
  <2>1. cascade[n].begun + 1 \in 0..MaxCascades
    BY <1>2, <1>0, GraphsAssumption DEF First, CascadeType
  <2>2. QED BY <2>1, <1>2, <1>1 DEF First
<1>3. CASE Retry(n)
  <2>1. cascade[n].begun \in 0..MaxCascades
    BY <1>0 DEF CascadeType
  <2>2. QED BY <2>1, <1>3, <1>1 DEF Retry
<1>4. CASE List(n)
  <2> DEFINE c == [cascade[n] EXCEPT !.pc    = "count",
                                     !.found = Descendants(n),
                                     !.left  = Descendants(n)]
  <2>1. c \in CascadeType
    BY <1>0, <1>h DEF CascadeType, Descendants
  <2>2. CascadesTyped'
    BY <2>1, <1>4, <1>0, CascadeSet DEF List
  <2>3. QED BY <2>2, <1>4, <1>u, <1>q DEF List
<1>5. CASE Count(n)
  <2>1. PICK g \in tables : cascade' = [cascade EXCEPT ![n].left = @ \ {g}]
    BY <1>5 DEF Count
  <2>2. [cascade[n] EXCEPT !.left = @ \ {g}] \in CascadeType
    BY <1>0 DEF CascadeType
  <2>3. CascadesTyped'
    BY <2>1, <2>2, <1>0, CascadeSet
  <2>4. QED BY <2>3, <1>5, <1>u, <1>q DEF Count
<1>6. CASE CountMisses(n)
  <2>1. [cascade[n] EXCEPT !.pc = "rejected"] \in CascadeType
    BY <1>0 DEF CascadeType
  <2>2. CascadesTyped'
    BY <2>1, <1>6, <1>0, CascadeSet DEF CountMisses
  <2>3. QED BY <2>2, <1>6, <1>u, <1>q DEF CountMisses
<1>7. CASE Build(n)
  <2>1. Statements(n) \subseteq Statement
    <3>1. cascade[n].edges \cup {NodeRow(n)} \subseteq Row /\ NoRow \in Row
      BY <1>0, RowTypes DEF CascadeType
    <3>2. cascade[n].found \subseteq Graphs
      BY <1>0 DEF CascadeType
    <3>3. QED BY <3>1, <3>2, <1>h DEF Statements, Statement
  <2>2. [cascade[n] EXCEPT !.pc = "write", !.todo = Statements(n)] \in CascadeType
    BY <2>1, <1>0 DEF CascadeType
  <2>3. CascadesTyped'
    BY <2>2, <1>7, <1>0, CascadeSet DEF Build
  <2>4. QED BY <2>3, <1>7, <1>u, <1>q DEF Build
<1>8. CASE Commit(n)
  <2>1. PICK C \in SUBSET cascade[n].todo :
             Applies(C) /\ cascade' = [cascade EXCEPT ![n].todo = @ \ C]
    BY <1>8 DEF Commit
  <2>2. [cascade[n] EXCEPT !.todo = @ \ C] \in CascadeType
    BY <1>0 DEF CascadeType
  <2>3. CascadesTyped'
    BY <2>1, <2>2, <1>0, CascadeSet
  <2>4. RowsAtHome'
    BY <2>1, <1>0, AppliesTyped
  <2>5. WritesTyped'
    BY <2>1, <1>0, <1>8, AppliesTyped DEF Commit, WritesTyped
  <2>6. QED BY <2>3, <2>4, <2>5, <1>q
<1>9. CASE Skip(n)
  <2>1. PICK C \in SUBSET cascade[n].todo :
             cascade' = [cascade EXCEPT ![n].todo = @ \ C, ![n].failed = TRUE]
    BY <1>9 DEF Skip
  <2>2. [cascade[n] EXCEPT !.todo = @ \ C, !.failed = TRUE] \in CascadeType
    BY <1>0 DEF CascadeType
  <2>3. CascadesTyped'
    <3> DEFINE c == [cascade[n] EXCEPT !.todo = @ \ C, !.failed = TRUE]
    <3>1. cascade' = [cascade EXCEPT ![n] = c] /\ c \in CascadeType
      BY <2>1, <2>2
    <3> HIDE DEF c
    <3>2. QED BY <3>1, <1>0, CascadeSet
  <2>4. failures' \in 0..MaxFailures
    BY <1>9, <1>0, GraphsAssumption DEF Skip, WritesTyped
  <2>5. WritesTyped' /\ RowsAtHome'
    BY <2>4, <1>9, <1>0, SameRows DEF Skip, WritesTyped, schema
  <2>6. QED BY <2>3, <2>5, <1>q
<1>10. CASE Finish(n)
  <2>1. [cascade[n] EXCEPT !.pc = Verdict(n)] \in CascadeType
    BY <1>0 DEF CascadeType, Verdict
  <2>2. CascadesTyped'
    BY <2>1, <1>10, <1>0, CascadeSet DEF Finish
  <2>3. QED BY <2>2, <1>10, <1>u, <1>q DEF Finish
<1>11. QED BY <1>2, <1>3, <1>4, <1>5, <1>6, <1>7, <1>8, <1>9, <1>10 DEF Cascade, Proceed

LEMMA TypeStutter == TypeOK /\ UNCHANGED vars => TypeOK'
BY SameRows, TypeParts DEF vars, WritesTyped, CascadesTyped

\* Every reachable state is type-correct, whatever the graphs, the nodes, the
\* handles and the driver's caps are; in particular a row written through a
\* handle is never in the table of another graph.
THEOREM TypeCorrect == Spec => []TypeOK
<1>1. TypeOK /\ [Next]_vars => TypeOK'
  BY TypeWrite, TypeCascade, TypeStutter DEF Next
<1>2. QED BY <1>1, TypeInit, PTL DEF Spec

-----------------------------------------------------------------------------
(* Drivers whose batches are atomic.                                        *)

AtomicDriver == BatchSize = 0 /\ SplitSchema = FALSE

\* A cascade's statements are run all or none.
Whole == \A n \in Nodes : cascade[n].pc = "write" => cascade[n].todo \in {{}, Statements(n)}

Listed ==
  /\ TablesAreListed
  /\ \A h \in Handles : op[h].pc # "register"
  /\ Whole

\* The graphs whose tables the statements drop are those they unlist.
LEMMA DropsAreUnlists ==
  ASSUME NEW n \in Nodes
  PROVE  /\ Of(Statements(n), "drop") = cascade[n].found
         /\ Of(Statements(n), "unlist") = cascade[n].found
         /\ Of(Statements(n), "delete") = {Home[n]}
         /\ Deleted(Statements(n), Home[n]) = cascade[n].edges \cup {NodeRow(n)}
         /\ \A g \in Graphs \ {Home[n]} : Deleted(Statements(n), g) = {}
         /\ Statements(n) # {}
<1> DEFINE D == { [kind |-> "delete", graph |-> Home[n], row |-> r] :
                    r \in cascade[n].edges \cup {NodeRow(n)} }
<1>1. ASSUME NEW k \in {"drop", "unlist"}
      PROVE  Of(Statements(n), k) = cascade[n].found
  <2>1. ASSUME NEW g \in cascade[n].found PROVE g \in Of(Statements(n), k)
    <3> DEFINE x == [kind |-> k, graph |-> g, row |-> NoRow]
    <3>1. x \in Statements(n)
      BY DEF Statements
    <3>2. x.kind = k /\ x.graph = g
      OBVIOUS
    <3> HIDE DEF x
    <3>3. QED BY <3>1, <3>2 DEF Of
  <2>2. \A x \in Statements(n) : x.kind = k => x.graph \in cascade[n].found
    BY DEF Statements
  <2>3. Of(Statements(n), k) \subseteq cascade[n].found
    BY <2>2 DEF Of
  <2>4. QED BY <2>1, <2>3
<1>2. D \subseteq Statements(n)
  BY DEF Statements
<1>3. \A x \in Statements(n) : x.kind = "delete" => x \in D
  BY DEF Statements
<1>4. \A r \in cascade[n].edges \cup {NodeRow(n)} :
         [kind |-> "delete", graph |-> Home[n], row |-> r] \in Statements(n)
  BY <1>2
<1>5. Of(Statements(n), "delete") = {Home[n]}
  <2>1. \A x \in Statements(n) : x.kind = "delete" => x.graph = Home[n]
    BY <1>3
  <2>2. [kind |-> "delete", graph |-> Home[n], row |-> NodeRow(n)] \in Statements(n)
    BY <1>4
  <2>3. QED BY <2>1, <2>2 DEF Of
<1>6. Deleted(Statements(n), Home[n]) = cascade[n].edges \cup {NodeRow(n)}
  <2>1. \A x \in Statements(n) :
           x.kind = "delete" => x.row \in cascade[n].edges \cup {NodeRow(n)}
    BY <1>3
  <2>2. QED BY <2>1, <1>4 DEF Deleted
<1>7. \A g \in Graphs \ {Home[n]} : Deleted(Statements(n), g) = {}
  BY <1>3 DEF Deleted
<1>8. QED BY <1>1, <1>4, <1>5, <1>6, <1>7

\* Without caps, what a step of the chunk loop runs is everything.
LEMMA ChunkIsAll ==
  ASSUME AtomicDriver, Whole, NEW n \in Nodes, cascade[n].pc = "write",
         NEW C, Chunk(C, cascade[n].todo)
  PROVE  C = cascade[n].todo /\ C = Statements(n)
BY DEF AtomicDriver, Chunk, Whole

LEMMA ListedWrite ==
  ASSUME AtomicDriver, TypeOK, Listed, NEW h \in Handles, Write(h)
  PROVE  Listed'
<1>0. op \in [Handles -> OpType]
  BY TypeParts DEF WritesTyped
<1>1. Whole'
  <2>1. UNCHANGED cascade
    BY DEF Write, Begin, Bootstrap, CreateTable, Register, BootstrapFails, Run, Heal, Miss
  <2>2. QED BY <2>1 DEF Listed, Whole, Statements
<1>2. \A x \in Handles : op'[x].pc # "register"
  <2>1. ASSUME NEW pc \in {"idle", "run", "missing"}, Goto(h, pc)
        PROVE  \A x \in Handles : op'[x].pc # "register"
    BY <2>1, <1>0 DEF Goto, Listed, OpType
  <2>2. CASE \E kind \in Kinds : Begin(h, kind)
    BY <2>2, <1>0 DEF Begin, Listed
  <2>3. CASE Heal(h)
    <3>1. op' = [op EXCEPT ![h] = [@ EXCEPT !.pc = "ensure", !.retried = TRUE]]
      BY <2>3 DEF Heal
    <3>2. op'[h].pc = "ensure" /\ \A x \in Handles \ {h} : op'[x] = op[x]
      BY <3>1, <1>0 DEF OpType
    <3>3. QED BY <3>2 DEF Listed
  <2>4. CASE Bootstrap(h) \/ Register(h) \/ BootstrapFails(h) \/ Run(h) \/ Miss(h)
    BY <2>4, <2>1 DEF Bootstrap, Register, BootstrapFails, Run, Miss
  <2>5. ~CreateTable(h)
    BY DEF CreateTable, AtomicDriver
  <2>6. QED BY <2>2, <2>3, <2>4, <2>5 DEF Write
<1>3. TablesAreListed'
  BY DEF Write, Begin, Bootstrap, CreateTable, Register, BootstrapFails, Run, Heal, Miss,
         Bootstraps, schema, Listed, AtomicDriver, TablesAreListed
<1>4. QED BY <1>1, <1>2, <1>3 DEF Listed

LEMMA ListedCascade ==
  ASSUME AtomicDriver, TypeOK, Listed, NEW n \in Nodes, Cascade(n)
  PROVE  Listed'
<1>0. cascade[n] \in CascadeType /\ CascadesTyped /\ Whole /\ TablesAreListed
  BY TypeParts DEF CascadesTyped, Listed
<1>1. UNCHANGED op
  BY DEF Cascade, Proceed, First, Retry, Start, List, Count, CountMisses, Build, Commit, Skip, Finish
<1>2. TablesAreListed'
  <2>1. CASE Commit(n)
    <3>1. PICK C \in SUBSET cascade[n].todo : Chunk(C, cascade[n].todo) /\ Applies(C)
      BY <2>1 DEF Commit
    <3>2. C = Statements(n)
      BY <3>1, <2>1, <1>0, ChunkIsAll DEF Commit
    <3>3. Of(C, "drop") = Of(C, "unlist")
      BY <3>2, DropsAreUnlists
    <3>4. QED BY <3>1, <3>3, <1>0 DEF Applies, TablesAreListed
  <2>2. CASE ~Commit(n)
    BY <2>2, <1>0 DEF Cascade, Proceed, First, Retry, Start, List, Count, CountMisses, Build,
                      Skip, Finish, Bootstraps, schema, TablesAreListed
  <2>3. QED BY <2>1, <2>2
<1>3. Whole'
  <2>1. \A m \in Nodes \ {n} : cascade'[m] = cascade[m]
    BY <1>0 DEF Cascade, Proceed, First, Retry, Start, List, Count, CountMisses, Build, Commit,
                Skip, Finish, CascadesTyped
  <2>2. cascade'[n].pc = "write" => cascade'[n].todo \in {{}, Statements(n)'}
    <3>1. CASE First(n) \/ Retry(n)
      <4>1. cascade'[n].pc = "list"
        BY <3>1, <1>0 DEF First, Retry, Start, CascadesTyped, Resting
      <4>2. QED BY <4>1
    <3>2. CASE List(n) \/ Count(n) \/ CountMisses(n)
      <4>1. CASE List(n)
        BY <4>1, <1>0 DEF List, CascadesTyped, CascadeType
      <4>2. CASE Count(n)
        BY <4>2, <1>0 DEF Count, CountsNext, CascadesTyped, CascadeType
      <4>3. CASE CountMisses(n)
        BY <4>3, <1>0 DEF CountMisses, CascadesTyped, CascadeType
      <4>4. QED BY <3>2, <4>1, <4>2, <4>3
    <3>3. CASE Build(n)
      <4>1. cascade'[n] = [cascade[n] EXCEPT !.pc = "write", !.todo = Statements(n)]
        BY <3>3, <1>0 DEF Build, CascadesTyped
      <4>2. /\ cascade'[n].todo = Statements(n)
            /\ cascade'[n].edges = cascade[n].edges
            /\ cascade'[n].found = cascade[n].found
        BY <4>1, <1>0 DEF CascadeType
      <4>3. QED BY <4>2 DEF Statements
    <3>4. CASE Commit(n) \/ Skip(n)
      <4>1. PICK C \in SUBSET cascade[n].todo :
                 /\ Chunk(C, cascade[n].todo)
                 /\ cascade'[n].todo = cascade[n].todo \ C
        <5>1. CASE Commit(n)
          <6>1. PICK C \in SUBSET cascade[n].todo :
                     /\ Chunk(C, cascade[n].todo)
                     /\ cascade' = [cascade EXCEPT ![n].todo = @ \ C]
            BY <5>1 DEF Commit
          <6>2. QED BY <6>1, <1>0 DEF CascadesTyped, CascadeType
        <5>2. CASE Skip(n)
          <6>1. PICK C \in SUBSET cascade[n].todo :
                     /\ Chunk(C, cascade[n].todo)
                     /\ cascade' = [cascade EXCEPT ![n].todo = @ \ C, ![n].failed = TRUE]
            BY <5>2 DEF Skip
          <6>2. QED BY <6>1, <1>0 DEF CascadesTyped, CascadeType
        <5>3. QED BY <3>4, <5>1, <5>2
      <4>2. C = cascade[n].todo
        BY <4>1, <3>4, <1>0, ChunkIsAll DEF Commit, Skip
      <4>3. QED BY <4>1, <4>2
    <3>5. CASE Finish(n)
      <4>1. cascade'[n].pc # "write"
        BY <3>5, <1>0 DEF Finish, Verdict, CascadesTyped, CascadeType
      <4>2. QED BY <4>1
    <3>6. QED BY <3>1, <3>2, <3>3, <3>4, <3>5 DEF Cascade, Proceed
  <2>3. QED BY <2>1, <2>2, <1>0 DEF Whole, Statements
<1>4. QED BY <1>1, <1>2, <1>3 DEF Listed

LEMMA ListedInit == Init => Listed
BY DEF Init, Listed, TablesAreListed, Whole, Idle, Resting

\* On a driver whose batches are atomic the catalog lists exactly the graphs
\* that have a table, however many cascades, retries, failures and healing
\* writers race.
THEOREM ListedTheorem == AtomicDriver => (Spec => []TablesAreListed)
<1> SUFFICES ASSUME AtomicDriver PROVE Spec => []TablesAreListed
  OBVIOUS
<1>1. TypeOK /\ Listed /\ UNCHANGED vars => Listed'
  BY DEF Listed, TablesAreListed, Whole, Statements, vars
<1>2. TypeOK /\ Listed /\ [Next]_vars => Listed'
  BY <1>1, ListedWrite, ListedCascade DEF Next
<1>3. Spec => []Listed
  BY <1>2, ListedInit, TypeCorrect, PTL DEF Spec
<1>4. Listed => TablesAreListed
  BY DEF Listed
<1>5. QED BY <1>3, <1>4, PTL

-----------------------------------------------------------------------------
(* A cascade that reports success removed what was there.                   *)
(*                                                                          *)
(* The rows a cascade has to remove stay within its reach until its one     *)
(* batch runs: every stored row lies in a table, every table is listed, and *)
(* a row that is gone never comes back, because a write stores its row only *)
(* once.                                                                    *)

RowsNeedTables == \A p \in Stored : p[1] \in tables

Active == {"ensure", "register", "run"}

\* The write that stored the row is over.
Past(p) ==
  p[2].of = "write" =>
    /\ p[2].id \in Handles
    /\ p[2].nth \in Nat
    /\ p[2].nth <= ops[p[2].id]
    /\ op[p[2].id].pc \in Active => p[2].nth < ops[p[2].id]

Remaining(n) == cascade[n].old \cap Stored

AtHome(n, p) == p[1] = Home[n] /\ p[2] \in cascade[n].edges \cup {NodeRow(n)}

Reach(n)  == \A p \in Remaining(n) : AtHome(n, p) \/ p[1] \in Below[n]
Caught(n) == \A p \in Remaining(n) : AtHome(n, p) \/ p[1] \in cascade[n].found

OnTrack(n) ==
  /\ cascade[n].pc = "list"  => Reach(n)
  /\ cascade[n].pc = "count" => Caught(n)
  /\ cascade[n].pc = "write" /\ cascade[n].todo # {} => Caught(n)
  /\ cascade[n].pc = "write" /\ cascade[n].todo = {} /\ ~cascade[n].failed => Remaining(n) = {}
  /\ cascade[n].pc = "done"  => Remaining(n) = {}

Removes ==
  /\ RowsNeedTables
  /\ \A p \in Stored : Past(p)
  /\ \A n \in Nodes : \A p \in cascade[n].old : Past(p)
  /\ \A n \in Nodes : OnTrack(n)

LEMMA RemovesInit == Init => Removes
<1> SUFFICES ASSUME Init PROVE Removes
  OBVIOUS
<1>1. \A p \in Stored : p[1] \in tables /\ p[2].of # "write"
  BY DEF Init, Stored, NodeRow, EdgeRows, EdgeRow
<1>2. \A n \in Nodes : cascade[n].pc = "idle" /\ cascade[n].old = {}
  BY DEF Init, Resting
<1>3. QED BY <1>1, <1>2 DEF Removes, RowsNeedTables, Past, OnTrack

\* Past is stable: only Begin makes a write active, with a new number.
LEMMA PastStable ==
  ASSUME TypeOK, [Next]_vars, NEW p, Past(p)
  PROVE  Past(p)'
<1>0. op \in [Handles -> OpType] /\ ops \in [Handles -> 0..MaxOps]
  BY TypeParts DEF WritesTyped
<1> SUFFICES ASSUME p[2].of = "write" PROVE Past(p)'
  BY DEF Past
<1> DEFINE x == p[2].id
<1>1. x \in Handles /\ p[2].nth \in Nat /\ p[2].nth <= ops[x] /\ (op[x].pc \in Active => p[2].nth < ops[x])
  BY DEF Past
<1>2. CASE UNCHANGED <<op, ops>>
  BY <1>2 DEF Past
<1>3. ASSUME NEW h \in Handles, NEW kind \in Kinds, Begin(h, kind) PROVE Past(p)'
  <2>1. CASE h = x
    <3>1. ops'[x] = ops[x] + 1
      BY <2>1, <1>3, <1>0 DEF Begin
    <3>2. QED BY <3>1, <1>1, <1>0, GraphsAssumption DEF Past
  <2>2. CASE h # x
    <3>1. ops'[x] = ops[x] /\ op'[x] = op[x]
      BY <2>2, <1>3, <1>0 DEF Begin
    <3>2. QED BY <3>1, <1>1 DEF Past
  <2>3. QED BY <2>1, <2>2
<1>4. ASSUME NEW h \in Handles, Write(h), \A kind \in Kinds : ~Begin(h, kind)
      PROVE  Past(p)'
  <2>1. UNCHANGED ops /\ op[h].pc \in Active
    BY <1>4 DEF Write, Bootstrap, CreateTable, Register, BootstrapFails, Run, Heal, Miss, Active
  <2>2. \A y \in Handles \ {h} : op'[y] = op[y]
    BY <1>4, <1>0 DEF Write, Bootstrap, CreateTable, Register, BootstrapFails, Run, Heal, Miss, Goto
  <2>3. QED BY <2>1, <2>2, <1>1 DEF Past
<1>5. ASSUME NEW n \in Nodes, Cascade(n) PROVE UNCHANGED <<op, ops>>
  BY <1>5 DEF Cascade, Proceed, First, Retry, Start, List, Count, CountMisses, Build, Commit,
              Skip, Finish
<1>6. QED BY <1>2, <1>3, <1>4, <1>5 DEF Next, Write, vars

\* What remains of a cascade's old rows when no row of them is stored anew.
LEMMA OnTrackStable ==
  ASSUME NEW n \in Nodes, OnTrack(n),
         UNCHANGED <<cascade[n].pc, cascade[n].edges, cascade[n].found,
                     cascade[n].todo, cascade[n].old, cascade[n].failed>>,
         \A p \in cascade[n].old : p \in Stored' => p \in Stored
  PROVE  OnTrack(n)'
<1>1. Remaining(n)' \subseteq Remaining(n)
  BY DEF Remaining
<1>2. \A p : AtHome(n, p)' <=> AtHome(n, p)
  BY DEF AtHome, NodeRow
<1>3. QED BY <1>1, <1>2 DEF OnTrack, Reach, Caught

LEMMA RemovesWrite ==
  ASSUME TypeOK, Removes, NEW h \in Handles, Write(h)
  PROVE  Removes'
<1>0. WritesTyped
  BY TypeParts
<1>1. UNCHANGED cascade
  BY DEF Write, Begin, Bootstrap, CreateTable, Register, BootstrapFails, Run, Heal, Miss
<1>2. tables \subseteq tables'
  BY DEF Write, Begin, Bootstrap, CreateTable, Register, BootstrapFails, Run, Heal, Miss,
         Bootstraps, schema
<1>3. \A p : Past(p) => Past(p)'
  BY PastStable DEF Next
<1>4. CASE Run(h)
  <2>0. PICK w : w = <<Table(h), WrittenRow(h)>>
    OBVIOUS
  <2>1. Stored' \subseteq Stored \cup {w}
    <3>1. \A g \in Graphs : \A x \in rows'[g] :
             x \in rows[g] \/ (g = Table(h) /\ x = WrittenRow(h))
      BY <1>4, <1>0 DEF Run, WritesTyped
    <3>2. \A p \in Graphs \X Row : p = <<p[1], p[2]>>
      OBVIOUS
    <3>3. QED BY <2>0, <3>1, <3>2 DEF Stored
  <2>2. w[1] \in tables'
    BY <2>0, <1>4 DEF Run
  <2>3. w[2].of = "write" /\ w[2].id = h /\ w[2].nth = ops[h]
    BY <2>0 DEF WrittenRow
  <2>4. op[h].pc \in Active /\ op'[h].pc \notin Active /\ UNCHANGED ops
    BY <1>4, <1>0 DEF Run, Goto, WritesTyped, OpType, Active
  <2>5. ops[h] \in Nat
    BY <1>0, GraphsAssumption DEF WritesTyped
  <2>6. ~Past(w)
    BY <2>3, <2>4, <2>5 DEF Past
  <2>7. Past(w)'
    BY <2>3, <2>4, <2>5 DEF Past
  <2>8. ASSUME NEW n \in Nodes PROVE OnTrack(n)'
    <3>1. \A p \in cascade[n].old : p \in Stored' => p \in Stored
      BY <2>1, <2>6 DEF Removes
    <3>2. QED BY <3>1, <1>1, OnTrackStable DEF Removes
  <2>9. RowsNeedTables' /\ \A p \in Stored' : Past(p)'
    BY <2>1, <2>2, <2>7, <1>2, <1>3 DEF Removes, RowsNeedTables
  <2>10. QED BY <2>8, <2>9, <1>1, <1>3 DEF Removes
<1>5. CASE UNCHANGED rows
  <2>1. Stored' = Stored
    BY <1>5, SameRows
  <2>2. \A n \in Nodes : OnTrack(n)'
    BY <2>1, <1>1, OnTrackStable DEF Removes
  <2>3. QED BY <2>1, <2>2, <1>1, <1>2, <1>3 DEF Removes, RowsNeedTables
<1>6. Run(h) \/ UNCHANGED rows
  BY DEF Write, Begin, Bootstrap, CreateTable, Register, BootstrapFails, Heal, Miss, schema
<1>7. QED BY <1>4, <1>5, <1>6

\* A step of cascade n that keeps its old rows and stores no row anew needs to
\* show its own progress only.
LEMMA RemovesStep ==
  ASSUME TypeOK, Removes, [Next]_vars, NEW n \in Nodes,
         \A m \in Nodes \ {n} : cascade'[m] = cascade[m],
         UNCHANGED cascade[n].old,
         Stored' \subseteq Stored, RowsNeedTables', OnTrack(n)'
  PROVE  Removes'
<1>1. \A p : Past(p) => Past(p)'
  BY PastStable
<1>2. \A m \in Nodes \ {n} : OnTrack(m)'
  BY OnTrackStable DEF Removes
<1>3. \A m \in Nodes : \A p \in cascade'[m].old : Past(p)'
  BY <1>1 DEF Removes
<1>4. QED BY <1>1, <1>2, <1>3 DEF Removes

LEMMA RemovesStart ==
  ASSUME TypeOK, Removes, NEW n \in Nodes, NEW nth, Start(n, nth), [Next]_vars
  PROVE  Removes'
<1>0. WritesTyped /\ CascadesTyped
  BY TypeParts
<1>1. Stored' = Stored
  BY SameRows DEF Start
<1>2. /\ \A m \in Nodes \ {n} : cascade'[m] = cascade[m]
      /\ cascade'[n] = [Resting EXCEPT !.pc    = "list",
                                       !.edges = EdgeRows(n) \cap rows[Home[n]],
                                       !.old   = Doomed(n),
                                       !.begun = nth]
  BY <1>0 DEF Start, CascadesTyped
<1>3. /\ cascade'[n].pc = "list"
      /\ cascade'[n].edges = EdgeRows(n) \cap rows[Home[n]]
      /\ cascade'[n].old = Doomed(n)
  BY <1>2 DEF Resting
<1>4. \A p : Past(p) => Past(p)'
  BY PastStable
<1>5. OnTrack(n)'
  <2>1. ASSUME NEW p \in Doomed(n) PROVE AtHome(n, p)' \/ p[1] \in Below[n]
    <3>1. p \in Stored /\ p[2] \in rows[p[1]]
      BY DEF Doomed, Stored
    <3>2. QED BY <3>1, <1>3 DEF Doomed, AtHome, NodeRow
  <2>2. QED BY <2>1, <1>3 DEF OnTrack, Reach, Remaining
<1>6. \A m \in Nodes \ {n} : OnTrack(m)'
  BY <1>1, <1>2, OnTrackStable DEF Removes
<1>7. \A m \in Nodes : \A p \in cascade'[m].old : Past(p)'
  <2>1. \A p \in Doomed(n) : Past(p)'
    BY <1>4 DEF Doomed, Removes
  <2>2. QED BY <2>1, <1>2, <1>3, <1>4 DEF Removes
<1>8. RowsNeedTables'
  BY <1>1 DEF Start, Bootstraps, Removes, RowsNeedTables
<1>9. QED BY <1>1, <1>4, <1>5, <1>6, <1>7, <1>8 DEF Removes

LEMMA RemovesCommit ==
  ASSUME AtomicDriver, TypeOK, Listed, Removes, NEW n \in Nodes, Commit(n)
  PROVE  Removes'
<1>0. WritesTyped /\ CascadesTyped /\ cascade[n] \in CascadeType /\ Whole
  BY TypeParts DEF CascadesTyped, Listed
<1>1. PICK C \in SUBSET cascade[n].todo :
           /\ Chunk(C, cascade[n].todo)
           /\ Applies(C)
           /\ cascade' = [cascade EXCEPT ![n].todo = @ \ C]
  BY DEF Commit
<1>2. C = cascade[n].todo /\ C = Statements(n)
  BY <1>1, <1>0, ChunkIsAll DEF Commit
<1>3. /\ Of(C, "drop") = cascade[n].found
      /\ Deleted(C, Home[n]) = cascade[n].edges \cup {NodeRow(n)}
      /\ C # {}
  BY <1>2, DropsAreUnlists
<1>4. \A g \in Graphs : /\ rows'[g] \subseteq rows[g] \ Deleted(C, g)
                        /\ g \in cascade[n].found => rows'[g] = {}
  BY <1>1, <1>3 DEF Applies
<1>5. Stored' \subseteq Stored
  BY <1>4 DEF Stored
<1>6. RowsNeedTables'
  <2>1. \A p \in Stored' : p[1] \notin cascade[n].found /\ p[1] \in tables
    BY <1>4, <1>5 DEF Stored, Removes, RowsNeedTables
  <2>2. QED BY <2>1, <1>1, <1>3 DEF Applies, RowsNeedTables
<1>7. /\ \A m \in Nodes \ {n} : cascade'[m] = cascade[m]
      /\ cascade'[n] = [cascade[n] EXCEPT !.todo = {}]
  BY <1>0, <1>1, <1>2 DEF CascadesTyped
<1>8. UNCHANGED cascade[n].old /\ cascade'[n].pc = "write" /\ cascade'[n].todo = {}
  BY <1>7, <1>0 DEF CascadeType, Commit
<1>9. Remaining(n)' = {}
  <2> SUFFICES ASSUME NEW p \in cascade[n].old, p \in Stored' PROVE FALSE
    BY <1>8 DEF Remaining
  <2>1. p \in Stored /\ p \in Remaining(n) /\ p[1] \in Graphs /\ p[2] \in rows'[p[1]]
    BY <1>5 DEF Remaining, Stored
  <2>2. Caught(n)
    BY <1>2, <1>3 DEF Removes, OnTrack, Commit
  <2>3. CASE AtHome(n, p)
    BY <2>1, <2>3, <1>3, <1>4 DEF AtHome
  <2>4. CASE p[1] \in cascade[n].found
    BY <2>1, <2>4, <1>4
  <2>5. QED BY <2>1, <2>2, <2>3, <2>4 DEF Caught
<1>10. OnTrack(n)'
  BY <1>8, <1>9 DEF OnTrack
<1>11. [Next]_vars
  BY DEF Next, Cascade, Proceed
<1>12. QED BY <1>5, <1>6, <1>7, <1>8, <1>10, <1>11, RemovesStep

LEMMA RemovesCascade ==
  ASSUME AtomicDriver, TypeOK, Listed, Removes, NEW n \in Nodes, Cascade(n)
  PROVE  Removes'
<1>0. cascade[n] \in CascadeType /\ CascadesTyped /\ Whole /\ TablesAreListed /\ OnTrack(n)
  BY TypeParts DEF CascadesTyped, Listed, Removes
<1>1. [Next]_vars
  BY DEF Next
<1>2. CASE First(n) \/ Retry(n)
  BY <1>2, <1>1, RemovesStart DEF First, Retry
<1>3. CASE Commit(n)
  BY <1>3, RemovesCommit
<1> DEFINE Quiet == List(n) \/ Count(n) \/ CountMisses(n) \/ Build(n) \/ Skip(n) \/ Finish(n)
<1>4. ASSUME Quiet PROVE /\ Stored' = Stored
                         /\ RowsNeedTables'
                         /\ \A m \in Nodes \ {n} : cascade'[m] = cascade[m]
                         /\ UNCHANGED cascade[n].old
                         /\ UNCHANGED cascade[n].edges
  <2>1. UNCHANGED <<tables, rows>>
    BY <1>4 DEF List, Count, CountMisses, Build, Skip, Finish, schema
  <2>2. Stored' = Stored /\ RowsNeedTables'
    BY <2>1, SameRows DEF Removes, RowsNeedTables
  <2>3. \A m \in Nodes \ {n} : cascade'[m] = cascade[m]
    BY <1>4, <1>0 DEF List, Count, CountMisses, Build, Skip, Finish, CascadesTyped
  <2>4. UNCHANGED cascade[n].old /\ UNCHANGED cascade[n].edges
    <3>1. CASE List(n)
      BY <3>1, <1>0 DEF List, CascadesTyped, CascadeType
    <3>2. CASE Count(n)
      BY <3>2, <1>0 DEF Count, CascadesTyped, CascadeType
    <3>3. CASE CountMisses(n)
      BY <3>3, <1>0 DEF CountMisses, CascadesTyped, CascadeType
    <3>4. CASE Build(n)
      BY <3>4, <1>0 DEF Build, CascadesTyped, CascadeType
    <3>5. CASE Skip(n)
      BY <3>5, <1>0 DEF Skip, CascadesTyped, CascadeType
    <3>6. CASE Finish(n)
      BY <3>6, <1>0 DEF Finish, CascadesTyped, CascadeType
    <3>7. QED BY <1>4, <3>1, <3>2, <3>3, <3>4, <3>5, <3>6
  <2>5. QED BY <2>2, <2>3, <2>4
<1>5. ASSUME Quiet PROVE Remaining(n)' = Remaining(n) /\ \A p : AtHome(n, p)' <=> AtHome(n, p)
  BY <1>4, <1>5 DEF Remaining, AtHome, NodeRow
<1>6. ASSUME Quiet PROVE OnTrack(n)'
  <2>1. CASE List(n)
    <3>1. cascade'[n].pc = "count" /\ cascade'[n].found = Descendants(n) /\ Reach(n)
      BY <2>1, <1>0 DEF List, CascadesTyped, CascadeType, OnTrack
    <3>2. \A p \in Remaining(n) : p[1] \in catalog
      BY <1>0 DEF Remaining, Removes, RowsNeedTables, TablesAreListed
    <3>3. Caught(n)'
      BY <3>1, <3>2, <1>5, <1>6 DEF Caught, Reach, Descendants
    <3>4. QED BY <3>1, <3>3 DEF OnTrack
  <2>2. CASE Count(n)
    <3>1. cascade'[n].pc = "count" /\ cascade'[n].found = cascade[n].found /\ Caught(n)
      BY <2>2, <1>0 DEF Count, CountsNext, CascadesTyped, CascadeType, OnTrack
    <3>2. QED BY <3>1, <1>5, <1>6 DEF OnTrack, Caught
  <2>3. CASE CountMisses(n)
    <3>1. cascade'[n].pc = "rejected"
      BY <2>3, <1>0 DEF CountMisses, CascadesTyped, CascadeType
    <3>2. QED BY <3>1 DEF OnTrack
  <2>4. CASE Build(n)
    <3>1. /\ cascade'[n].pc = "write"
          /\ cascade'[n].todo = Statements(n)
          /\ cascade'[n].found = cascade[n].found
          /\ Caught(n)
      BY <2>4, <1>0 DEF Build, CascadesTyped, CascadeType, OnTrack
    <3>2. cascade'[n].todo # {}
      BY <3>1, DropsAreUnlists
    <3>3. QED BY <3>1, <3>2, <1>5, <1>6 DEF OnTrack, Caught
  <2>5. CASE Skip(n)
    <3>1. PICK C \in SUBSET cascade[n].todo :
               /\ Chunk(C, cascade[n].todo)
               /\ cascade' = [cascade EXCEPT ![n].todo = @ \ C, ![n].failed = TRUE]
      BY <2>5 DEF Skip
    <3>2. C = cascade[n].todo
      BY <3>1, <2>5, <1>0, ChunkIsAll DEF Skip
    <3>3. cascade'[n].pc = "write" /\ cascade'[n].todo = {} /\ cascade'[n].failed
      BY <3>1, <3>2, <2>5, <1>0 DEF Skip, CascadesTyped, CascadeType
    <3>4. QED BY <3>3 DEF OnTrack
  <2>6. CASE Finish(n)
    <3>1. cascade'[n].pc = "partial" \/ (cascade'[n].pc = "done" /\ Remaining(n) = {})
      BY <2>6, <1>0 DEF Finish, Verdict, CascadesTyped, CascadeType, OnTrack
    <3>2. QED BY <3>1, <1>5, <1>6 DEF OnTrack
  <2>7. QED BY <1>6, <2>1, <2>2, <2>3, <2>4, <2>5, <2>6
<1>7. ASSUME Quiet PROVE Removes'
  BY <1>1, <1>4, <1>6, <1>7, RemovesStep
<1>8. QED BY <1>2, <1>3, <1>7 DEF Cascade, Proceed

\* On a driver whose batches are atomic, a cascade that reports success has
\* removed the node, its edges and every row below it that was there when it
\* started, whatever writers, retries and other cascades did meanwhile.
THEOREM RemovalTheorem == AtomicDriver => (Spec => []CascadeRemovesAll)
<1> SUFFICES ASSUME AtomicDriver PROVE Spec => []CascadeRemovesAll
  OBVIOUS
<1>1. TypeOK /\ Listed /\ Removes /\ UNCHANGED vars => Removes'
  <2> SUFFICES ASSUME TypeOK, Listed, Removes, UNCHANGED vars PROVE Removes'
    OBVIOUS
  <2>1. Stored' = Stored /\ UNCHANGED <<cascade, tables>>
    BY SameRows DEF vars
  <2>2. \A n \in Nodes : OnTrack(n)'
    BY <2>1, OnTrackStable DEF Removes
  <2>3. \A p : Past(p) => Past(p)'
    BY PastStable
  <2>4. QED BY <2>1, <2>2, <2>3 DEF Removes, RowsNeedTables
<1>2. TypeOK /\ Listed /\ Removes /\ [Next]_vars => Removes'
  BY <1>1, RemovesWrite, RemovesCascade DEF Next
<1>3. TypeOK /\ Listed /\ [Next]_vars => Listed'
  <2>1. TypeOK /\ Listed /\ UNCHANGED vars => Listed'
    BY DEF Listed, TablesAreListed, Whole, Statements, vars
  <2>2. QED BY <2>1, ListedWrite, ListedCascade DEF Next
<1>4. Spec => []Removes
  BY <1>2, <1>3, ListedInit, RemovesInit, TypeCorrect, PTL DEF Spec
<1>5. Removes => CascadeRemovesAll
  BY DEF Removes, OnTrack, Remaining, CascadeRemovesAll
<1>6. QED BY <1>4, <1>5, PTL

-----------------------------------------------------------------------------
(* The verdict of a cascade, on every driver and with chunks of any size.   *)
(*                                                                          *)
(* A node or edge that a cascade has to delete is gone or its DELETE is     *)
(* still to run, unless a chunk failed; and nobody stores it anew, because  *)
(* writes store rows of their own.                                          *)

Targets(n) == cascade[n].edges \cup {NodeRow(n)}

DeleteOf(n, r) == [kind |-> "delete", graph |-> Home[n], row |-> r]

OnCourse(n) ==
  /\ \A r \in cascade[n].edges : r.of = "edge"
  /\ cascade[n].pc = "write" /\ ~cascade[n].failed
       => \A r \in Targets(n) \cap rows[Home[n]] : DeleteOf(n, r) \in cascade[n].todo
  /\ cascade[n].pc = "done" => Targets(n) \cap rows[Home[n]] = {}

NodesGo == \A n \in Nodes : OnCourse(n)

\* The rows that a step leaves are old, or were written through a handle.
LEMMA OldOrWritten ==
  ASSUME TypeOK, [Next]_vars, NEW g \in Graphs, NEW r \in rows'[g]
  PROVE  r \in rows[g] \/ r.of = "write"
<1>0. WritesTyped
  BY TypeParts
<1>1. CASE UNCHANGED rows
  BY <1>1
<1>2. ASSUME NEW h \in Handles, Run(h) PROVE r \in rows[g] \/ r.of = "write"
  BY <1>2, <1>0 DEF Run, WritesTyped, WrittenRow
<1>3. ASSUME NEW n \in Nodes, Commit(n) PROVE r \in rows[g] \/ r.of = "write"
  BY <1>3 DEF Commit, Applies
<1>4. ASSUME NEW h \in Handles, Write(h) PROVE Run(h) \/ UNCHANGED rows
  BY <1>4 DEF Write, Begin, Bootstrap, CreateTable, Register, BootstrapFails, Heal, Miss, schema
<1>5. ASSUME NEW n \in Nodes, Cascade(n) PROVE Commit(n) \/ UNCHANGED rows
  BY <1>5 DEF Cascade, Proceed, First, Retry, Start, List, Count, CountMisses, Build, Skip,
              Finish, schema
<1>6. QED BY <1>1, <1>2, <1>3, <1>4, <1>5 DEF Next, vars

\* What others do keeps a cascade on course.
LEMMA OnCourseStable ==
  ASSUME TypeOK, [Next]_vars, NEW n \in Nodes, OnCourse(n), UNCHANGED cascade[n]
  PROVE  OnCourse(n)'
<1>1. Home[n] \in Graphs
  BY GraphsAssumption
<1>2. Targets(n)' = Targets(n) /\ \A r : DeleteOf(n, r)' = DeleteOf(n, r)
  BY DEF Targets, DeleteOf, NodeRow
<1>3. \A r \in Targets(n) : r.of \in {"edge", "node"}
  BY DEF OnCourse, Targets, NodeRow
<1>4. \A r \in Targets(n) : r \in rows'[Home[n]] => r \in rows[Home[n]]
  BY <1>1, <1>3, OldOrWritten
<1>5. QED BY <1>2, <1>4 DEF OnCourse

LEMMA CourseCommit ==
  ASSUME TypeOK, NEW n \in Nodes, OnCourse(n), Commit(n)
  PROVE  OnCourse(n)'
<1>0. WritesTyped /\ CascadesTyped /\ cascade[n] \in CascadeType /\ Home[n] \in Graphs
  BY TypeParts, GraphsAssumption DEF CascadesTyped
<1>1. PICK C \in SUBSET cascade[n].todo :
           /\ Applies(C)
           /\ cascade' = [cascade EXCEPT ![n].todo = @ \ C]
  BY DEF Commit
<1>2. cascade'[n] = [cascade[n] EXCEPT !.todo = cascade[n].todo \ C]
  BY <1>0, <1>1 DEF CascadesTyped
<1>3. /\ UNCHANGED <<cascade[n].pc, cascade[n].edges, cascade[n].failed>>
      /\ cascade'[n].todo = cascade[n].todo \ C
      /\ cascade[n].pc = "write"
  BY <1>0, <1>2 DEF CascadeType, Commit
<1>4. Targets(n)' = Targets(n) /\ \A r : DeleteOf(n, r)' = DeleteOf(n, r)
  BY <1>3 DEF Targets, DeleteOf, NodeRow
<1>5. ASSUME NEW r \in rows'[Home[n]] PROVE r \in rows[Home[n]] /\ DeleteOf(n, r) \notin C
  <2>1. r \in rows[Home[n]] /\ r \notin Deleted(C, Home[n])
    BY <1>0, <1>1 DEF Applies
  <2>2. DeleteOf(n, r).kind = "delete" /\ DeleteOf(n, r).graph = Home[n] /\ DeleteOf(n, r).row = r
    BY DEF DeleteOf
  <2>3. QED BY <2>1, <2>2 DEF Deleted
<1>6. QED BY <1>3, <1>4, <1>5 DEF OnCourse

LEMMA CourseCascade ==
  ASSUME TypeOK, NEW n \in Nodes, OnCourse(n), Cascade(n)
  PROVE  OnCourse(n)'
<1>0. CascadesTyped /\ cascade[n] \in CascadeType
  BY TypeParts DEF CascadesTyped
<1>1. CASE Commit(n)
  BY <1>1, CourseCommit
<1>2. CASE First(n) \/ Retry(n)
  <2>1. PICK nth : cascade' = [cascade EXCEPT ![n] =
                   [Resting EXCEPT !.pc    = "list",
                                   !.edges = EdgeRows(n) \cap rows[Home[n]],
                                   !.old   = Doomed(n),
                                   !.begun = nth]]
    BY <1>2 DEF First, Retry, Start
  <2>2. cascade'[n] = [Resting EXCEPT !.pc    = "list",
                                      !.edges = EdgeRows(n) \cap rows[Home[n]],
                                      !.old   = Doomed(n),
                                      !.begun = nth]
    BY <2>1, <1>0 DEF CascadesTyped
  <2>3. cascade'[n].pc = "list" /\ cascade'[n].edges \subseteq EdgeRows(n)
    BY <2>2 DEF Resting
  <2>4. \A r \in EdgeRows(n) : r.of = "edge"
    BY DEF EdgeRows, EdgeRow
  <2>5. QED BY <2>3, <2>4 DEF OnCourse
<1>3. ASSUME UNCHANGED cascade[n].edges, cascade'[n].pc \in {"count", "rejected", "partial"}
      PROVE  OnCourse(n)'
  BY <1>3 DEF OnCourse
<1>4. CASE List(n)
  BY <1>3, <1>4, <1>0 DEF List, CascadesTyped, CascadeType
<1>5. CASE Count(n)
  BY <1>3, <1>5, <1>0 DEF Count, CountsNext, CascadesTyped, CascadeType
<1>6. CASE CountMisses(n)
  BY <1>3, <1>6, <1>0 DEF CountMisses, CascadesTyped, CascadeType
<1>7. CASE Build(n)
  <2>1. cascade'[n] = [cascade[n] EXCEPT !.pc = "write", !.todo = Statements(n)]
    BY <1>7, <1>0 DEF Build, CascadesTyped
  <2>2. UNCHANGED cascade[n].edges /\ cascade'[n].todo = Statements(n) /\ cascade'[n].pc = "write"
    BY <2>1, <1>0 DEF CascadeType
  <2>3. Targets(n)' = Targets(n) /\ \A r : DeleteOf(n, r)' = DeleteOf(n, r)
    BY <2>2 DEF Targets, DeleteOf, NodeRow
  <2>4. \A r \in Targets(n) : DeleteOf(n, r) \in Statements(n)
    BY DEF Targets, DeleteOf, Statements
  <2>5. QED BY <2>2, <2>3, <2>4 DEF OnCourse
<1>8. CASE Skip(n)
  <2>1. PICK C \in SUBSET cascade[n].todo :
             cascade' = [cascade EXCEPT ![n].todo = @ \ C, ![n].failed = TRUE]
    BY <1>8 DEF Skip
  <2>2. UNCHANGED <<cascade[n].pc, cascade[n].edges>> /\ cascade'[n].failed
    BY <2>1, <1>0 DEF CascadesTyped, CascadeType
  <2>3. QED BY <2>2, <1>8 DEF OnCourse, Skip
<1>9. CASE Finish(n)
  <2>1. cascade'[n] = [cascade[n] EXCEPT !.pc = Verdict(n)] /\ UNCHANGED rows
    BY <1>9, <1>0 DEF Finish, CascadesTyped, schema
  <2>2. UNCHANGED cascade[n].edges /\ cascade'[n].pc = Verdict(n)
    BY <2>1, <1>0 DEF CascadeType
  <2>3. CASE cascade[n].failed
    BY <2>2, <2>3, <1>3 DEF Verdict
  <2>4. CASE ~cascade[n].failed
    <3>1. Targets(n) \cap rows[Home[n]] = {}
      BY <2>4, <1>9 DEF OnCourse, Finish
    <3>2. Targets(n)' = Targets(n)
      BY <2>2 DEF Targets, NodeRow
    <3>3. cascade'[n].pc = "done"
      BY <2>2, <2>4 DEF Verdict
    <3>4. QED BY <2>1, <2>2, <3>1, <3>2, <3>3 DEF OnCourse
  <2>5. QED BY <2>3, <2>4
<1>10. QED BY <1>1, <1>2, <1>4, <1>5, <1>6, <1>7, <1>8, <1>9 DEF Cascade, Proceed

\* nodeDeleted is never claimed in vain: on any driver, with chunks of any
\* size of which some fail, a cascade that reports success has deleted the node
\* and every edge that it found at it.
THEOREM NodeDeletedTheorem == Spec => []NodeDeletedIsTrue
<1>1. Init => NodesGo
  BY DEF Init, NodesGo, OnCourse, Resting
<1>2. TypeOK /\ NodesGo /\ [Next]_vars => NodesGo'
  <2> SUFFICES ASSUME TypeOK, NodesGo, [Next]_vars, NEW n \in Nodes PROVE OnCourse(n)'
    BY DEF NodesGo
  <2>1. OnCourse(n) /\ CascadesTyped
    BY TypeParts DEF NodesGo
  <2>2. CASE Cascade(n)
    BY <2>1, <2>2, CourseCascade
  <2>3. ASSUME NEW m \in Nodes \ {n}, Cascade(m) PROVE UNCHANGED cascade[n]
    BY <2>1, <2>3 DEF Cascade, Proceed, First, Retry, Start, List, Count, CountMisses, Build,
                      Commit, Skip, Finish, CascadesTyped
  <2>4. ASSUME NEW h \in Handles, Write(h) PROVE UNCHANGED cascade[n]
    BY <2>4 DEF Write, Begin, Bootstrap, CreateTable, Register, BootstrapFails, Run, Heal, Miss
  <2>5. CASE UNCHANGED vars
    BY <2>1, <2>5, OnCourseStable DEF vars
  <2>6. QED BY <2>1, <2>2, <2>3, <2>4, <2>5, OnCourseStable DEF Next
<1>3. Spec => []NodesGo
  BY <1>1, <1>2, TypeCorrect, PTL DEF Spec
<1>4. NodesGo => NodeDeletedIsTrue
  BY DEF NodesGo, OnCourse, Targets, NodeDeletedIsTrue
<1>5. QED BY <1>3, <1>4, PTL

-----------------------------------------------------------------------------
(* Healing.                                                                 *)
(*                                                                          *)
(* Every graph had a table to begin with, so a missing table was dropped by *)
(* a cascade that committed, and one that a write created again was dropped *)
(* by a second one.  Where batches are atomic, a cascade that committed is  *)
(* not retried: it must be begun again.                                     *)

Committed(n) ==
  /\ cascade[n].begun > 0
  /\ \/ cascade[n].begun > 1
     \/ cascade[n].pc = "done"
     \/ cascade[n].pc = "write" /\ cascade[n].todo = {} /\ ~cascade[n].failed

\* Nothing has failed in a cascade that has something to do.
Unfailed(n) ==
  cascade[n].pc \in {"list", "count"} \/ (cascade[n].pc = "write" /\ cascade[n].todo # {})
    => ~cascade[n].failed

OneDrop == \E x \in Nodes : Committed(x)

TwoDrops == \E x, y \in Nodes : Committed(x) /\ Committed(y) /\ (x = y => cascade[x].begun > 1)

\* What has happened when h is where it is.
Explained(h) ==
  /\ op[h].retried => OneDrop
  /\ op[h].pc = "run" /\ op[h].retried /\ Table(h) \notin tables => TwoDrops
  /\ op[h].pc = "missing" /\ op[h].kind = "single" => TwoDrops

Recreates ==
  /\ \A n \in Nodes : cascade[n].pc # "idle" => cascade[n].begun > 0
  /\ \A n \in Nodes : Unfailed(n)
  /\ tables # Graphs => OneDrop
  /\ \A h \in Handles : Explained(h)

LEMMA RecreatesInit == Init => Recreates
BY DEF Init, Recreates, Explained, Unfailed, Idle, Resting

\* What a cascade has committed stays committed, and it is not begun less.
LEMMA CommittedStable ==
  ASSUME AtomicDriver, TypeOK, Whole, NEW n \in Nodes, Cascade(n),
         cascade[n].pc # "idle" => cascade[n].begun > 0, Unfailed(n)
  PROVE  /\ \A m \in Nodes \ {n} : cascade'[m] = cascade[m]
         /\ cascade'[n].begun >= cascade[n].begun
         /\ cascade'[n].begun > 0
         /\ Committed(n) => Committed(n)'
         /\ Commit(n) => Committed(n)' /\ (Committed(n) => cascade[n].begun > 1)
<1>0. CascadesTyped /\ cascade[n] \in CascadeType /\ cascade[n].begun \in Nat
  <2>1. CascadesTyped /\ cascade[n] \in CascadeType
    BY TypeParts DEF CascadesTyped
  <2>2. QED BY <2>1, GraphsAssumption DEF CascadeType
<1>1. \A m \in Nodes \ {n} : cascade'[m] = cascade[m]
  BY <1>0 DEF Cascade, Proceed, First, Retry, Start, List, Count, CountMisses, Build, Commit,
              Skip, Finish, CascadesTyped
<1>2. ASSUME NEW nth, Start(n, nth) PROVE cascade'[n].begun = nth /\ cascade'[n].pc = "list"
  <2>1. cascade'[n] = [Resting EXCEPT !.pc    = "list",
                                      !.edges = EdgeRows(n) \cap rows[Home[n]],
                                      !.old   = Doomed(n),
                                      !.begun = nth]
    BY <1>2, <1>0 DEF Start, CascadesTyped
  <2>2. QED BY <2>1 DEF Resting
<1>3. CASE First(n)
  <2>1. cascade'[n].begun = cascade[n].begun + 1
    BY <1>2, <1>3 DEF First
  <2>2. Committed(n) => cascade'[n].begun > 1
    BY <2>1, <1>0 DEF Committed
  <2>3. ~Commit(n)
    BY <1>3 DEF First, Commit
  <2>4. QED BY <2>1, <2>2, <2>3, <1>0, <1>1 DEF Committed
<1>4. CASE Retry(n)
  <2>1. cascade'[n].begun = cascade[n].begun /\ cascade[n].pc \in {"partial", "rejected"}
    BY <1>2, <1>4 DEF Retry
  <2>2. Committed(n) => cascade[n].begun > 1
    BY <2>1 DEF Committed
  <2>3. ~Commit(n)
    BY <2>1 DEF Commit
  <2>4. QED BY <2>1, <2>2, <2>3, <1>0, <1>1 DEF Committed
<1>5. CASE List(n) \/ Count(n) \/ CountMisses(n) \/ Build(n)
  <2>1. cascade[n].pc \in {"list", "count"}
    BY <1>5 DEF List, Count, CountsNext, CountMisses, Build
  <2>2. UNCHANGED cascade[n].begun
    <3>1. CASE List(n)
      BY <3>1, <1>0 DEF List, CascadesTyped, CascadeType
    <3>2. CASE Count(n)
      BY <3>2, <1>0 DEF Count, CascadesTyped, CascadeType
    <3>3. CASE CountMisses(n)
      BY <3>3, <1>0 DEF CountMisses, CascadesTyped, CascadeType
    <3>4. CASE Build(n)
      BY <3>4, <1>0 DEF Build, CascadesTyped, CascadeType
    <3>5. QED BY <1>5, <3>1, <3>2, <3>3, <3>4
  <2>3. Committed(n) => cascade[n].begun > 1
    BY <2>1 DEF Committed
  <2>4. ~Commit(n)
    BY <2>1 DEF Commit
  <2>5. QED BY <2>1, <2>2, <2>3, <2>4, <1>0, <1>1 DEF Committed
<1>6. CASE Commit(n) \/ Skip(n)
  \* either takes all that is left, so nothing had been committed before
  <2>1. PICK C \in SUBSET cascade[n].todo :
             /\ Chunk(C, cascade[n].todo)
             /\ \/ Commit(n) /\ cascade' = [cascade EXCEPT ![n].todo = @ \ C]
                \/ ~Commit(n) /\ cascade' = [cascade EXCEPT ![n].todo = @ \ C, ![n].failed = TRUE]
    BY <1>6 DEF Commit, Skip
  <2>2. C = cascade[n].todo /\ C # {}
    BY <2>1, <1>6, ChunkIsAll DEF Commit, Skip, Chunk
  <2>3. UNCHANGED cascade[n].begun /\ cascade[n].pc = "write" /\ cascade'[n].pc = "write"
    BY <2>1, <1>0, <1>6 DEF Commit, Skip, CascadesTyped, CascadeType
  <2>4. Committed(n) => cascade[n].begun > 1
    BY <2>2, <2>3 DEF Committed
  <2>5. CASE Commit(n)
    <3>1. cascade'[n] = [cascade[n] EXCEPT !.todo = {}]
      BY <2>1, <2>2, <2>5, <1>0 DEF CascadesTyped
    <3>2. cascade'[n].todo = {} /\ cascade'[n].failed = cascade[n].failed
      BY <3>1, <1>0 DEF CascadeType
    <3>3. ~cascade[n].failed
      BY <2>2, <2>3 DEF Unfailed
    <3>4. QED BY <2>3, <2>4, <2>5, <3>2, <3>3, <1>0, <1>1 DEF Committed
  <2>6. CASE ~Commit(n)
    BY <2>3, <2>4, <2>6, <1>0, <1>1 DEF Committed
  <2>7. QED BY <2>5, <2>6
<1>7. CASE Finish(n)
  <2>1. cascade'[n] = [cascade[n] EXCEPT !.pc = Verdict(n)]
    BY <1>7, <1>0 DEF Finish, CascadesTyped
  <2>2. UNCHANGED <<cascade[n].begun, cascade[n].failed>> /\ cascade'[n].pc = Verdict(n)
    BY <2>1, <1>0 DEF CascadeType
  <2>3. cascade[n].pc = "write" /\ cascade[n].todo = {}
    BY <1>7 DEF Finish
  <2>4. ~Commit(n)
    <3>1. \A C : ~(C \in SUBSET cascade[n].todo /\ Chunk(C, cascade[n].todo))
      BY <2>3 DEF Chunk
    <3>2. QED BY <3>1 DEF Commit
  <2>5. QED BY <2>2, <2>3, <2>4, <1>0, <1>1 DEF Committed, Verdict
<1>8. QED BY <1>3, <1>4, <1>5, <1>6, <1>7 DEF Cascade, Proceed

\* A cascade starts without a failure, and a chunk that fails is its last.
LEMMA UnfailedStable ==
  ASSUME AtomicDriver, TypeOK, Whole, NEW n \in Nodes, Cascade(n), Unfailed(n)
  PROVE  Unfailed(n)'
<1>0. CascadesTyped /\ cascade[n] \in CascadeType
  BY TypeParts DEF CascadesTyped
<1>1. CASE First(n) \/ Retry(n)
  <2>1. PICK nth : cascade' = [cascade EXCEPT ![n] =
                   [Resting EXCEPT !.pc    = "list",
                                   !.edges = EdgeRows(n) \cap rows[Home[n]],
                                   !.old   = Doomed(n),
                                   !.begun = nth]]
    BY <1>1 DEF First, Retry, Start
  <2>2. cascade'[n] = [Resting EXCEPT !.pc    = "list",
                                      !.edges = EdgeRows(n) \cap rows[Home[n]],
                                      !.old   = Doomed(n),
                                      !.begun = nth]
    BY <2>1, <1>0 DEF CascadesTyped
  <2>3. ~cascade'[n].failed
    BY <2>2 DEF Resting
  <2>4. QED BY <2>3 DEF Unfailed
<1>2. CASE List(n)
  BY <1>2, <1>0 DEF List, Unfailed, CascadesTyped, CascadeType
<1>3. CASE Count(n)
  BY <1>3, <1>0 DEF Count, CountsNext, Unfailed, CascadesTyped, CascadeType
<1>4. CASE CountMisses(n)
  BY <1>4, <1>0 DEF CountMisses, Unfailed, CascadesTyped, CascadeType
<1>5. CASE Build(n)
  BY <1>5, <1>0 DEF Build, Unfailed, CascadesTyped, CascadeType
<1>6. CASE Commit(n) \/ Skip(n)
  <2>1. PICK C \in SUBSET cascade[n].todo :
             /\ Chunk(C, cascade[n].todo)
             /\ \/ cascade' = [cascade EXCEPT ![n].todo = @ \ C]
                \/ cascade' = [cascade EXCEPT ![n].todo = @ \ C, ![n].failed = TRUE]
    BY <1>6 DEF Commit, Skip
  <2>2. C = cascade[n].todo
    BY <2>1, <1>6, ChunkIsAll DEF Commit, Skip
  <2>3. cascade'[n].pc = "write" /\ cascade'[n].todo = {}
    BY <2>1, <2>2, <1>0, <1>6 DEF Commit, Skip, CascadesTyped, CascadeType
  <2>4. QED BY <2>3 DEF Unfailed
<1>7. CASE Finish(n)
  BY <1>7, <1>0 DEF Finish, Verdict, Unfailed, CascadesTyped, CascadeType
<1>8. QED BY <1>1, <1>2, <1>3, <1>4, <1>5, <1>6, <1>7 DEF Cascade, Proceed

LEMMA RecreatesCascade ==
  ASSUME AtomicDriver, TypeOK, Whole, Recreates, NEW n \in Nodes, Cascade(n)
  PROVE  Recreates'
<1>0. cascade[n].begun \in Nat /\ \A m \in Nodes : cascade[m].begun \in Nat
  BY TypeParts, GraphsAssumption DEF CascadesTyped, CascadeType
<1>1. /\ \A m \in Nodes \ {n} : cascade'[m] = cascade[m]
      /\ cascade'[n].begun >= cascade[n].begun
      /\ cascade'[n].begun > 0
      /\ Committed(n) => Committed(n)'
      /\ Commit(n) => Committed(n)' /\ (Committed(n) => cascade[n].begun > 1)
  BY CommittedStable DEF Recreates
<1>2. \A m \in Nodes : Committed(m) => Committed(m)'
  BY <1>1 DEF Committed
<1>3. \A m \in Nodes : cascade[m].begun > 1 => cascade'[m].begun > 1
  <2>1. cascade'[n].begun \in Nat
    BY TypeCascade, TypeParts, GraphsAssumption DEF CascadesTyped, CascadeType
  <2>2. cascade[n].begun > 1 => cascade'[n].begun > 1
    BY <1>0, <1>1, <2>1
  <2>3. QED BY <1>1, <2>2
<1>4. (OneDrop => OneDrop') /\ (TwoDrops => TwoDrops')
  BY <1>2, <1>3 DEF OneDrop, TwoDrops
<1>5. UNCHANGED op
  BY DEF Cascade, Proceed, First, Retry, Start, List, Count, CountMisses, Build, Commit, Skip, Finish
<1>6. \A m \in Nodes : (cascade'[m].pc # "idle" => cascade'[m].begun > 0) /\ Unfailed(m)'
  BY <1>1, UnfailedStable DEF Recreates, Unfailed
<1>7. CASE ~Commit(n)
  <2>1. tables \subseteq tables'
    BY <1>7 DEF Cascade, Proceed, First, Retry, Start, List, Count, CountMisses, Build, Skip,
                Finish, Bootstraps, schema
  <2>2. tables' # Graphs => OneDrop'
    <3>1. tables' \subseteq Graphs
      BY TypeCascade DEF TypeOK
    <3>2. QED BY <2>1, <3>1, <1>4 DEF Recreates
  <2>3. \A h \in Handles : Explained(h)'
    BY <2>1, <1>4, <1>5 DEF Recreates, Explained, Table
  <2>4. QED BY <2>2, <2>3, <1>6 DEF Recreates
<1>8. CASE Commit(n)
  <2>1. OneDrop'
    BY <1>1, <1>8 DEF OneDrop
  \* the cascade that drops now is a second one
  <2>2. ASSUME OneDrop PROVE TwoDrops'
    <3>1. PICK x \in Nodes : Committed(x)
      BY <2>2 DEF OneDrop
    <3>2. Committed(x)' /\ Committed(n)'
      BY <3>1, <1>1, <1>2, <1>8
    <3>3. x = n => cascade'[x].begun > 1
      BY <3>1, <1>1, <1>3, <1>8
    <3>4. QED BY <3>2, <3>3 DEF TwoDrops
  <2>3. \A h \in Handles : Explained(h)'
    BY <2>1, <2>2, <1>4, <1>5 DEF Recreates, Explained
  <2>4. QED BY <2>1, <2>3, <1>6 DEF Recreates
<1>9. QED BY <1>7, <1>8

LEMMA RecreatesWrite ==
  ASSUME AtomicDriver, TypeOK, Listed, Recreates, NEW h \in Handles, Write(h)
  PROVE  Recreates'
<1>0. op \in [Handles -> OpType] /\ op[h] \in OpType /\ Table(h) \in Graphs
  BY TypeParts, GraphsAssumption DEF WritesTyped, Table
<1>1. UNCHANGED cascade /\ tables \subseteq tables'
  BY DEF Write, Begin, Bootstrap, CreateTable, Register, BootstrapFails, Run, Heal, Miss,
         Bootstraps, schema
<1>2. (OneDrop' <=> OneDrop) /\ (TwoDrops' <=> TwoDrops)
  BY <1>1 DEF OneDrop, TwoDrops, Committed
<1>3. tables' # Graphs => OneDrop'
  <2>1. tables' \subseteq Graphs
    BY TypeWrite DEF TypeOK
  <2>2. QED BY <1>1, <1>2, <2>1 DEF Recreates
<1>4. ASSUME NEW x \in Handles \ {h} PROVE Explained(x)'
  <2>1. op'[x] = op[x]
    BY <1>0 DEF Write, Begin, Bootstrap, CreateTable, Register, BootstrapFails, Run, Heal, Miss, Goto
  <2>2. QED BY <2>1, <1>1, <1>2 DEF Recreates, Explained, Table
<1>5. Explained(h)'
  <2>1. CASE \E kind \in Kinds : Begin(h, kind)
    <3>1. ~op'[h].retried /\ op'[h].pc # "missing"
      BY <2>1, <1>0 DEF Begin
    <3>2. QED BY <3>1 DEF Explained
  <2>2. CASE Bootstrap(h)
    <3>1. op'[h].pc = "run" /\ op'[h].retried = op[h].retried /\ Table(h) \in tables'
      BY <2>2, <1>0 DEF Bootstrap, Bootstraps, Goto, OpType
    <3>2. QED BY <3>1, <1>2 DEF Recreates, Explained, Table
  <2>3. ~CreateTable(h) /\ ~Register(h)
    BY DEF CreateTable, Register, AtomicDriver, Listed
  <2>4. CASE BootstrapFails(h) \/ Run(h)
    <3>1. op'[h].pc = "idle" /\ op'[h].retried = op[h].retried
      BY <2>4, <1>0 DEF BootstrapFails, Run, Goto, OpType
    <3>2. QED BY <3>1, <1>2 DEF Recreates, Explained
  <2>5. CASE Heal(h)
    <3>1. op'[h].pc = "ensure" /\ OneDrop
      BY <2>5, <1>0 DEF Heal, Recreates, OpType
    <3>2. QED BY <3>1, <1>2 DEF Explained
  <2>6. CASE Miss(h)
    <3>1. /\ op'[h].pc = "missing"
          /\ op'[h].retried = op[h].retried
          /\ op'[h].kind = op[h].kind
      BY <2>6, <1>0 DEF Miss, Goto, OpType
    <3>2. op[h].kind = "single" => TwoDrops
      BY <2>6, <1>0 DEF Miss, Heals, Recreates, Explained, OpType
    <3>3. QED BY <3>1, <3>2, <1>2 DEF Recreates, Explained
  <2>7. QED BY <2>1, <2>2, <2>3, <2>4, <2>5, <2>6 DEF Write
<1>6. \A m \in Nodes : (cascade'[m].pc # "idle" => cascade'[m].begun > 0) /\ Unfailed(m)'
  BY <1>1 DEF Recreates, Unfailed
<1>7. QED BY <1>3, <1>4, <1>5, <1>6 DEF Recreates

\* On a driver whose batches are atomic, a single write heals a table that was
\* dropped under its handle: it fails only when a second cascade, or the same
\* one begun again, drops the table once more before the write runs.
THEOREM RecreateTheorem == AtomicDriver => (Spec => []WritesRecreate)
<1> SUFFICES ASSUME AtomicDriver PROVE Spec => []WritesRecreate
  OBVIOUS
<1>1. TypeOK /\ Listed /\ Recreates /\ [Next]_vars => Recreates'
  <2>1. Recreates /\ UNCHANGED vars => Recreates'
    BY DEF vars, Recreates, Explained, Unfailed, OneDrop, TwoDrops, Committed, Table
  <2>2. QED BY <2>1, RecreatesWrite, RecreatesCascade DEF Next, Listed
<1>2. TypeOK /\ Listed /\ [Next]_vars => Listed'
  <2>1. TypeOK /\ Listed /\ UNCHANGED vars => Listed'
    BY DEF Listed, TablesAreListed, Whole, Statements, vars
  <2>2. QED BY <2>1, ListedWrite, ListedCascade DEF Next
<1>3. Spec => []Recreates
  BY <1>1, <1>2, ListedInit, RecreatesInit, TypeCorrect, PTL DEF Spec
<1>4. Recreates => WritesRecreate
  BY DEF Recreates, Explained, TwoDrops, Committed, WritesRecreate
<1>5. QED BY <1>3, <1>4, PTL

=============================================================================
