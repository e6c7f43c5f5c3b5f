-------------------------- MODULE DeepCascade_proofs --------------------------
(***************************************************************************)
(* Proofs about cascades over subcollections and objects, for any tree of  *)
(* graphs, any documents and any number of cascades: nothing outside a     *)
(* node's hierarchy is deleted, nodeDeleted is never claimed in vain, a    *)
(* clean cascade has removed all it found, and every run is a run of       *)
(* CascadeContract.                                                        *)
(***************************************************************************)
EXTENDS DeepCascade, SequenceTheorems, TLAPS

-----------------------------------------------------------------------------
(* Stacks.                                                                  *)

LEMMA OneFrame ==
  ASSUME NEW F, NEW f \in F
  PROVE  /\ <<f>> \in Seq(F) /\ <<f>> # << >>
         /\ Len(<<f>>) = 1 /\ <<f>>[1] = f
OBVIOUS

LEMMA TopFrame ==
  ASSUME NEW F, NEW s \in Seq(F), s # << >>
  PROVE  /\ Len(s) \in Nat \ {0}
         /\ Head(s) = s[1] /\ Head(s) \in F
OBVIOUS

LEMMA Popped ==
  ASSUME NEW F, NEW s \in Seq(F), s # << >>
  PROVE  /\ Tail(s) \in Seq(F)
         /\ Len(Tail(s)) = Len(s) - 1
         /\ Len(s) # 1 => Tail(s) # << >>
         /\ \A i \in 1 .. Len(s) - 1 : Tail(s)[i] = s[i + 1]
<1>1. Len(s) \in Nat \ {0}
  BY TopFrame
<1>2. /\ Tail(s) \in Seq(F)
      /\ Len(Tail(s)) = Len(s) - 1
      /\ \A i \in 1 .. Len(s) - 1 : Tail(s)[i] = s[i + 1]
  BY HeadTailProperties
<1>3. ASSUME Len(s) # 1, Tail(s) = << >> PROVE FALSE
  <2>1. Len(Tail(s)) # 0
    BY <1>1, <1>2, <1>3
  <2>2. Len(<< >>) = 0
    OBVIOUS
  <2>3. QED
    BY <1>3, <2>1, <2>2, Zenon
<1>4. QED
  BY <1>2, <1>3

LEMMA Pushed ==
  ASSUME NEW F, NEW s \in Seq(F), NEW f \in F
  PROVE  /\ <<f>> \o s \in Seq(F) /\ <<f>> \o s # << >>
         /\ Len(<<f>> \o s) = Len(s) + 1
         /\ (<<f>> \o s)[1] = f
         /\ \A i \in 2 .. Len(s) + 1 : (<<f>> \o s)[i] = s[i - 1]
OBVIOUS

LEMMA Replaced ==
  ASSUME NEW F, NEW s \in Seq(F), s # << >>, NEW f \in F
  PROVE  /\ <<f>> \o Tail(s) \in Seq(F) /\ <<f>> \o Tail(s) # << >>
         /\ Len(<<f>> \o Tail(s)) = Len(s)
         /\ (<<f>> \o Tail(s))[1] = f
         /\ \A i \in 2 .. Len(s) : (<<f>> \o Tail(s))[i] = s[i]
<1>1. /\ Tail(s) \in Seq(F) /\ Len(Tail(s)) = Len(s) - 1 /\ Len(s) \in Nat \ {0}
      /\ \A i \in 1 .. Len(s) - 1 : Tail(s)[i] = s[i + 1]
  BY Popped, TopFrame
<1>2. /\ <<f>> \o Tail(s) \in Seq(F) /\ <<f>> \o Tail(s) # << >>
      /\ Len(<<f>> \o Tail(s)) = Len(Tail(s)) + 1
      /\ (<<f>> \o Tail(s))[1] = f
      /\ \A i \in 2 .. Len(Tail(s)) + 1 : (<<f>> \o Tail(s))[i] = Tail(s)[i - 1]
  BY <1>1, Pushed
<1>3. ASSUME NEW i \in 2 .. Len(s) PROVE (<<f>> \o Tail(s))[i] = s[i]
  <2>1. (<<f>> \o Tail(s))[i] = Tail(s)[i - 1]
    BY <1>1, <1>2
  <2>2. i - 1 \in 1 .. Len(s) - 1 /\ (i - 1) + 1 = i
    BY <1>1
  <2>3. Tail(s)[i - 1] = s[(i - 1) + 1]
    BY <1>1, <2>2
  <2>4. QED
    BY <2>1, <2>2, <2>3
<1>4. QED
  BY <1>1, <1>2, <1>3

-----------------------------------------------------------------------------
(* Type correctness.                                                        *)

\* Whoever is running has a frame.
Standing == \A n \in Deleted : Running(n) => cascade[n].stack # << >>
Typed == TypeOK /\ Standing

LEMMA TopTyped ==
  ASSUME Typed, NEW n \in Deleted, Running(n)
  PROVE  /\ cascade[n].stack \in Seq(Frames) /\ cascade[n].stack # << >>
         /\ Len(cascade[n].stack) \in Nat \ {0}
         /\ Top(n) = cascade[n].stack[1] /\ Top(n) \in Frames
<1>1. cascade[n] \in Cascades /\ cascade[n].stack # << >>
  BY DEF Typed, TypeOK, Standing
<1>2. cascade[n].stack \in Seq(Frames)
  BY <1>1 DEF Cascades
<1>3. QED
  BY <1>1, <1>2, TopFrame DEF Top

LEMMA StackStep ==
  ASSUME Typed, NEW n \in Deleted, NEW s \in Seq(Frames), s # << >>, Stack(n, s)
  PROVE  /\ cascade' \in [Deleted -> Cascades] /\ Standing'
         /\ cascade'[n].stack = s
         /\ cascade'[n].pc = cascade[n].pc /\ cascade'[n].deep = cascade[n].deep
         /\ cascade'[n].errors = cascade[n].errors /\ cascade'[n].nodeKept = cascade[n].nodeKept
         /\ \A x \in Deleted \ {n} : cascade'[x] = cascade[x]
<1>1. cascade \in [Deleted -> Cascades] /\ cascade[n] \in Cascades
  BY DEF Typed, TypeOK
<1>2. cascade' = [cascade EXCEPT ![n].stack = s]
  BY DEF Stack
<1>3. cascade'[n] = [cascade[n] EXCEPT !.stack = s]
  BY <1>1, <1>2
<1>4. /\ cascade'[n] \in Cascades /\ cascade'[n].stack = s
      /\ cascade'[n].pc = cascade[n].pc /\ cascade'[n].deep = cascade[n].deep
      /\ cascade'[n].errors = cascade[n].errors /\ cascade'[n].nodeKept = cascade[n].nodeKept
  BY <1>1, <1>3 DEF Cascades
<1>5. \A x \in Deleted \ {n} : cascade'[x] = cascade[x]
  BY <1>1, <1>2
<1>6. cascade' \in [Deleted -> Cascades]
  BY <1>1, <1>2, <1>4
<1>7. Standing'
  BY <1>4, <1>5 DEF Standing, Typed, Running
<1>8. QED
  BY <1>4, <1>5, <1>6, <1>7

LEMMA GotoStep ==
  ASSUME Typed, NEW n \in Deleted, NEW pc \in {"clean", "errors", "rejected"}, Goto(n, pc)
  PROVE  /\ cascade' \in [Deleted -> Cascades] /\ Standing'
         /\ cascade'[n].pc = pc /\ cascade'[n].deep = cascade[n].deep
         /\ cascade'[n].errors = cascade[n].errors /\ cascade'[n].nodeKept = cascade[n].nodeKept
         /\ \A x \in Deleted \ {n} : cascade'[x] = cascade[x]
<1>1. cascade \in [Deleted -> Cascades] /\ cascade[n] \in Cascades
  BY DEF Typed, TypeOK
<1>2. cascade' = [cascade EXCEPT ![n].pc = pc, ![n].stack = << >>]
  BY DEF Goto
<1>3. cascade'[n] = [cascade[n] EXCEPT !.pc = pc, !.stack = << >>]
  BY <1>1, <1>2
<1>4. << >> \in Seq(Frames)
  BY EmptySeq
<1>5. /\ cascade'[n] \in Cascades /\ cascade'[n].pc = pc /\ cascade'[n].deep = cascade[n].deep
      /\ cascade'[n].errors = cascade[n].errors /\ cascade'[n].nodeKept = cascade[n].nodeKept
  BY <1>1, <1>3, <1>4 DEF Cascades
<1>6. \A x \in Deleted \ {n} : cascade'[x] = cascade[x]
  BY <1>1, <1>2
<1>7. cascade' \in [Deleted -> Cascades]
  BY <1>1, <1>2, <1>5
<1>8. Standing'
  BY <1>5, <1>6 DEF Standing, Typed, Running
<1>9. QED
  BY <1>5, <1>6, <1>7, <1>8

LEMMA DeleteTyped ==
  ASSUME TypeOK, NEW N, NEW D, Delete(N, D)
  PROVE  /\ stored' = stored \ D /\ stored' \subseteq Docs
         /\ due' \in [Deleted -> SUBSET Docs] /\ promised' \in [Deleted -> SUBSET Docs]
         /\ \A x \in Deleted : due'[x] \subseteq due[x]
BY DEF TypeOK, Delete

LEMMA WithTopFrames ==
  ASSUME Typed, NEW n \in Deleted, Running(n), NEW f \in Frames
  PROVE  /\ WithTop(n, f) \in Seq(Frames) /\ WithTop(n, f) # << >>
         /\ Len(WithTop(n, f)) = Len(cascade[n].stack)
         /\ WithTop(n, f)[1] = f
         /\ \A i \in 2 .. Len(cascade[n].stack) : WithTop(n, f)[i] = cascade[n].stack[i]
BY TopTyped, Replaced DEF WithTop, Outer

\* The frames that the steps put on top.
LEMMA FramesTyped ==
  ASSUME Typed, NEW n \in Deleted, Running(n)
  PROVE  /\ \A m \in Nodes :
              [Top(n) EXCEPT !.docs = @ \ {m}, !.colls = Subgraphs(m)] \in Frames
         /\ \A g \in Graphs :
              /\ [Top(n) EXCEPT !.colls = @ \ {g}] \in Frames
              /\ Frame(g, Ids(g), Parents(g)) \in Frames
         /\ \A C : [Top(n) EXCEPT !.ids = @ \ C] \in Frames
         /\ Top(n).docs \subseteq Nodes /\ Top(n).colls \subseteq Graphs
         /\ Top(n).graph \in Graphs \cup {Root}
<1>1. Top(n) \in Frames
  BY TopTyped
<1>2. \A m \in Nodes : Subgraphs(m) \subseteq Graphs
  BY DEF Subgraphs
<1>3. \A g \in Graphs : Ids(g) \in SUBSET Docs /\ Parents(g) \in SUBSET Nodes
  BY DEF Ids, Parents, In, Typed, TypeOK
<1>4. QED
  BY <1>1, <1>2, <1>3 DEF Frames, Frame

LEMMA CutTyped ==
  ASSUME Typed, NEW n \in Deleted, Running(n), NEW C
  PROVE  CutChunk(n, C) \in Seq(Frames) /\ CutChunk(n, C) # << >>
BY FramesTyped, WithTopFrames DEF CutChunk

LEMMA BeginStep ==
  ASSUME Typed, NEW n \in Deleted, NEW deep \in BOOLEAN, Begin(n, deep)
  PROVE  /\ cascade' \in [Deleted -> Cascades] /\ Standing'
         /\ due' \in [Deleted -> SUBSET Docs]
         /\ due'[n] = Reach(n, deep)
         /\ \A x \in Deleted \ {n} : cascade'[x] = cascade[x] /\ due'[x] = due[x]
         /\ cascade'[n].pc = "running" /\ cascade'[n].deep = deep
         /\ cascade'[n].nodeKept = FALSE /\ cascade'[n].errors = FALSE
         /\ cascade'[n].stack = << Frame(Home[n], OwnIds(n), Walk(n, deep)) >>
         /\ Len(cascade'[n].stack) = 1
         /\ cascade'[n].stack[1] = Frame(Home[n], OwnIds(n), Walk(n, deep))
<1> DEFINE f == Frame(Home[n], OwnIds(n), Walk(n, deep))
           c == [Idle EXCEPT !.pc = "running", !.deep = deep, !.stack = <<f>>]
<1>1. n \in Nodes /\ n \in Docs /\ Home[n] \in Graphs \cup {Root} /\ Touching[n] \subseteq Docs
  BY DocumentsAssumption, OptionsAssumption DEF Docs
<1>2. OwnIds(n) \in SUBSET Docs /\ Walk(n, deep) \in SUBSET Nodes
  BY <1>1 DEF OwnIds, Walk
<1>3. f \in Frames
  BY <1>1, <1>2 DEF Frame, Frames
<1>4. <<f>> \in Seq(Frames) /\ <<f>> # << >> /\ Len(<<f>>) = 1 /\ <<f>>[1] = f
  BY <1>3, OneFrame
<1>5. /\ c.pc = "running" /\ c.deep = deep /\ c.stack = <<f>> /\ c.nodeKept = FALSE /\ c.errors = FALSE
      /\ c \in Cascades
  BY <1>4 DEF Idle, Cascades
<1>6. cascade \in [Deleted -> Cascades] /\ due \in [Deleted -> SUBSET Docs]
  BY DEF Typed, TypeOK
<1>7. cascade' = [cascade EXCEPT ![n] = c] /\ due' = [due EXCEPT ![n] = Reach(n, deep)]
  BY DEF Begin
<1>8. Reach(n, deep) \in SUBSET Docs
  BY DEF Reach, Typed, TypeOK
<1>9. /\ cascade' \in [Deleted -> Cascades] /\ cascade'[n] = c
      /\ \A x \in Deleted \ {n} : cascade'[x] = cascade[x]
  BY <1>5, <1>6, <1>7
<1>10. /\ due' \in [Deleted -> SUBSET Docs] /\ due'[n] = Reach(n, deep)
       /\ \A x \in Deleted \ {n} : due'[x] = due[x]
  BY <1>6, <1>7, <1>8
<1>11. Standing'
  BY <1>4, <1>5, <1>9 DEF Standing, Typed, Running
<1>12. QED
  BY <1>4, <1>5, <1>9, <1>10, <1>11

\* A chunk fails: the top frame loses it, and the result is marked.
LEMMA ChunkFailsStep ==
  ASSUME Typed, NEW n \in Deleted, Running(n), NEW C, NEW kept \in BOOLEAN,
         cascade' = [cascade EXCEPT ![n].stack = CutChunk(n, C), ![n].errors = TRUE,
                                    ![n].nodeKept = kept]
  PROVE  /\ cascade' \in [Deleted -> Cascades] /\ Standing'
         /\ cascade'[n].stack = CutChunk(n, C)
         /\ cascade'[n].pc = cascade[n].pc /\ cascade'[n].deep = cascade[n].deep
         /\ cascade'[n].nodeKept = kept /\ cascade'[n].errors
         /\ \A x \in Deleted \ {n} : cascade'[x] = cascade[x]
<1> DEFINE s == CutChunk(n, C)
<1>1. cascade \in [Deleted -> Cascades] /\ cascade[n] \in Cascades
  BY DEF Typed, TypeOK
<1>2. s \in Seq(Frames) /\ s # << >>
  BY CutTyped
<1>3. cascade'[n] = [cascade[n] EXCEPT !.stack = s, !.errors = TRUE, !.nodeKept = kept]
  BY <1>1
<1>4. /\ cascade'[n] \in Cascades /\ cascade'[n].stack = s
      /\ cascade'[n].pc = cascade[n].pc /\ cascade'[n].deep = cascade[n].deep
      /\ cascade'[n].nodeKept = kept /\ cascade'[n].errors
  BY <1>1, <1>2, <1>3 DEF Cascades
<1>5. \A x \in Deleted \ {n} : cascade'[x] = cascade[x]
  BY <1>1
<1>6. cascade' \in [Deleted -> Cascades]
  BY <1>1, <1>4
<1>7. Standing'
  BY <1>2, <1>4, <1>5 DEF Standing, Typed, Running
<1>8. QED
  BY <1>4, <1>5, <1>6, <1>7

\* TypeOK from its parts, with the bounded counters.
LEMMA TypedFromParts ==
  ASSUME backend' \in Backends, stored' \subseteq Docs,
         cascade' \in [Deleted -> Cascades], Standing',
         due' \in [Deleted -> SUBSET Docs], promised' \in [Deleted -> SUBSET Docs],
         failures' \in 0..MaxFailures, writes' \in 0..MaxWrites
  PROVE  Typed'
BY DEF Typed, TypeOK

LEMMA TypedStep == Typed /\ [Next]_vars => Typed'
<1> SUFFICES ASSUME Typed, [Next]_vars PROVE Typed'
  OBVIOUS
<1> USE TypedFromParts
<1>1. /\ backend \in Backends /\ stored \subseteq Docs
      /\ cascade \in [Deleted -> Cascades] /\ Standing
      /\ due \in [Deleted -> SUBSET Docs] /\ promised \in [Deleted -> SUBSET Docs]
      /\ failures \in 0..MaxFailures /\ writes \in 0..MaxWrites
      /\ TypeOK
  BY DEF Typed, TypeOK
<1>2. MaxFailures \in Nat /\ MaxWrites \in Nat /\ Deep \subseteq BOOLEAN
  BY OptionsAssumption
<1>3. cascade' = cascade => cascade' \in [Deleted -> Cascades] /\ Standing'
  BY <1>1 DEF Standing, Running
<1>4. failures < MaxFailures /\ failures' = failures + 1 => failures' \in 0..MaxFailures
  BY <1>1, <1>2
<1>5. writes < MaxWrites /\ writes' = writes + 1 => writes' \in 0..MaxWrites
  BY <1>1, <1>2
<1>6. ASSUME NEW n \in Deleted, NEW D, Delete({n}, D) \/ Delete({}, D)
      PROVE  stored' \subseteq Docs /\ due' \in [Deleted -> SUBSET Docs]
               /\ promised' \in [Deleted -> SUBSET Docs]
  BY <1>1, <1>6, DeleteTyped
<1>7. ASSUME NEW d \in Docs, Put(d) PROVE Typed'
  <2>1. stored' \subseteq Docs /\ due' \in [Deleted -> SUBSET Docs] /\ promised' \in [Deleted -> SUBSET Docs]
    BY <1>1, <1>7 DEF Put
  <2>2. QED
    BY <1>1, <1>3, <1>5, <1>7, <2>1 DEF Put
<1>8. ASSUME NEW d \in Docs, Remove(d) PROVE Typed'
  <2>1. stored' \subseteq Docs /\ due' \in [Deleted -> SUBSET Docs] /\ promised' \in [Deleted -> SUBSET Docs]
    BY <1>1, <1>8, DeleteTyped DEF Remove
  <2>2. QED
    BY <1>1, <1>3, <1>5, <1>8, <2>1 DEF Remove
<1>9. ASSUME NEW n \in Deleted, First(n) PROVE Typed'
  <2>1. PICK deep \in Deep : /\ Begin(n, deep)
                             /\ promised' = [promised EXCEPT ![n] = Reach(n, deep)]
    BY <1>9 DEF First
  <2>2. /\ cascade' \in [Deleted -> Cascades] /\ Standing' /\ due' \in [Deleted -> SUBSET Docs]
        /\ deep \in BOOLEAN
    BY <1>2, <2>1, BeginStep
  <2>3. promised' \in [Deleted -> SUBSET Docs]
    BY <1>1, <2>1 DEF Reach
  <2>4. QED
    BY <1>1, <1>9, <2>2, <2>3 DEF First
<1>10. ASSUME NEW n \in Deleted, Retry(n) PROVE Typed'
  <2>1. cascade[n].deep \in BOOLEAN
    BY <1>1 DEF Cascades
  <2>2. cascade' \in [Deleted -> Cascades] /\ Standing' /\ due' \in [Deleted -> SUBSET Docs]
    BY <1>10, <2>1, BeginStep DEF Retry
  <2>3. QED
    BY <1>1, <1>10, <2>2 DEF Retry
<1>11. ASSUME NEW n \in Deleted, List(n) PROVE Typed'
  <2>1. PICK m \in Top(n).docs :
          Stack(n, WithTop(n, [Top(n) EXCEPT !.docs = @ \ {m}, !.colls = Subgraphs(m)]))
    BY <1>11 DEF List
  <2>2. m \in Nodes
    BY <1>11, <2>1, FramesTyped DEF List
  <2>3. cascade' \in [Deleted -> Cascades] /\ Standing'
    BY <1>11, <2>1, <2>2, FramesTyped, WithTopFrames, StackStep DEF List
  <2>4. QED
    BY <1>1, <1>11, <2>3 DEF List
<1>12. ASSUME NEW n \in Deleted, Descend(n) PROVE Typed'
  <2>1. PICK g \in Top(n).colls : Enter(n, g)
    BY <1>12 DEF Descend
  <2> DEFINE t == WithTop(n, [Top(n) EXCEPT !.colls = @ \ {g}])
             f == Frame(g, Ids(g), Parents(g))
  <2>2. /\ f \in Frames
        /\ t \in Seq(Frames)
    BY <1>12, <2>1, FramesTyped, WithTopFrames DEF Descend
  <2>3. <<f>> \o t \in Seq(Frames) /\ <<f>> \o t # << >>
    BY <2>2, Pushed
  <2>4. Stack(n, <<f>> \o t)
    BY <2>1 DEF Enter
  <2>5. cascade' \in [Deleted -> Cascades] /\ Standing'
    BY <2>3, <2>4, StackStep
  <2>6. QED
    BY <1>1, <1>12, <2>5 DEF Descend
<1>13. ASSUME NEW n \in Deleted, Commit(n) PROVE Typed'
  <2>1. PICK C \in SUBSET Top(n).ids : Chunk(n, C) /\ Delete({n}, C) /\ Stack(n, CutChunk(n, C))
    BY <1>13 DEF Commit
  <2>2. cascade' \in [Deleted -> Cascades] /\ Standing'
    BY <1>13, <2>1, CutTyped, StackStep DEF Commit, Visited
  <2>3. QED
    BY <1>1, <1>6, <1>13, <2>1, <2>2 DEF Commit
<1>14. ASSUME NEW n \in Deleted, Outer(n) # << >>, Running(n), Stack(n, Outer(n))
       PROVE  cascade' \in [Deleted -> Cascades] /\ Standing'
  <2>1. Outer(n) \in Seq(Frames)
    BY <1>14, TopTyped, Popped DEF Outer
  <2>2. QED
    BY <1>14, <2>1, StackStep
<1>15. ASSUME NEW n \in Deleted, Running(n), ~AtRoot(n) PROVE Outer(n) # << >>
  BY <1>15, TopTyped, Popped DEF AtRoot, Outer
<1>16. ASSUME NEW n \in Deleted, Ascend(n) PROVE Typed'
  <2>1. cascade' \in [Deleted -> Cascades] /\ Standing'
    BY <1>14, <1>15, <1>16 DEF Ascend, Visited
  <2>2. QED
    BY <1>1, <1>16, <2>1 DEF Ascend
<1>17. ASSUME NEW n \in Deleted, Destroy(n) PROVE Typed'
  <2>1. cascade' \in [Deleted -> Cascades] /\ Standing'
    BY <1>14, <1>15, <1>17 DEF Destroy, Visited
  <2>2. QED
    BY <1>1, <1>6, <1>17, <2>1 DEF Destroy
<1>18. ASSUME NEW n \in Deleted, Resolve(n) PROVE Typed'
  <2>1. cascade' \in [Deleted -> Cascades] /\ Standing'
    BY <1>18, GotoStep DEF Resolve, Verdict
  <2>2. QED
    BY <1>1, <1>18, <2>1 DEF Resolve
<1>19. ASSUME NEW n \in Deleted, RemoveLocally(n) PROVE Typed'
  <2>1. cascade' \in [Deleted -> Cascades] /\ Standing'
    BY <1>19, GotoStep DEF RemoveLocally
  <2>2. QED
    BY <1>1, <1>6, <1>19, <2>1 DEF RemoveLocally
<1>20. ASSUME NEW n \in Deleted, ReadFails(n) PROVE Typed'
  <2>1. cascade' \in [Deleted -> Cascades] /\ Standing'
    BY <1>20, GotoStep DEF ReadFails
  <2>2. QED
    BY <1>1, <1>4, <1>20, <2>1 DEF ReadFails
<1>21. ASSUME NEW n \in Deleted, CallFails(n) PROVE Typed'
  <2>1. cascade' \in [Deleted -> Cascades] /\ Standing'
    BY <1>21, GotoStep DEF CallFails
  <2>2. stored' \subseteq Docs /\ due' \in [Deleted -> SUBSET Docs] /\ promised' \in [Deleted -> SUBSET Docs]
    BY <1>1, <1>6, <1>21 DEF CallFails
  <2>3. QED
    BY <1>1, <1>4, <1>21, <2>1, <2>2 DEF CallFails
<1>22. ASSUME NEW n \in Deleted, LocalError(n) PROVE Typed'
  <2>1. cascade' = [cascade EXCEPT ![n].pc = "errors", ![n].stack = << >>,
                                   ![n].errors = TRUE, ![n].nodeKept = TRUE]
    BY <1>22 DEF LocalError
  <2>2. << >> \in Seq(Frames)
    BY EmptySeq
  <2>3. cascade[n] \in Cascades
    BY <1>1
  <2>4. cascade'[n] = [cascade[n] EXCEPT !.pc = "errors", !.stack = << >>,
                                         !.errors = TRUE, !.nodeKept = TRUE]
    BY <1>1, <2>1
  <2>5. cascade'[n] \in Cascades /\ cascade'[n].pc = "errors"
    BY <2>2, <2>3, <2>4 DEF Cascades
  <2>6. \A x \in Deleted \ {n} : cascade'[x] = cascade[x]
    BY <1>1, <2>1
  <2>7. cascade' \in [Deleted -> Cascades]
    BY <1>1, <2>1, <2>5
  <2>8. Standing'
    BY <1>1, <2>5, <2>6 DEF Standing, Running
  <2>9. QED
    BY <1>1, <1>4, <1>22, <2>7, <2>8 DEF LocalError
<1>23. ASSUME NEW n \in Deleted, ChunkFails(n) PROVE Typed'
  <2>1. PICK C \in SUBSET Top(n).ids :
          /\ Delete({n}, C) \/ UNCHANGED <<stored, due, promised>>
          /\ cascade' = [cascade EXCEPT ![n].stack = CutChunk(n, C), ![n].errors = TRUE,
                                        ![n].nodeKept = KeepsNode(n, C)]
    BY <1>23 DEF ChunkFails
  <2>2. KeepsNode(n, C) \in BOOLEAN
    BY DEF KeepsNode, AtRoot
  <2>3. cascade' \in [Deleted -> Cascades] /\ Standing'
    BY <1>23, <2>1, <2>2, ChunkFailsStep DEF ChunkFails, Visited
  <2>4. stored' \subseteq Docs /\ due' \in [Deleted -> SUBSET Docs] /\ promised' \in [Deleted -> SUBSET Docs]
    BY <1>1, <1>6, <2>1
  <2>5. QED
    BY <1>1, <1>4, <1>23, <2>3, <2>4 DEF ChunkFails
<1>24. CASE UNCHANGED vars
  BY <1>1, <1>3, <1>24 DEF vars
<1>25. QED
  BY <1>7, <1>8, <1>9, <1>10, <1>11, <1>12, <1>13, <1>16, <1>17, <1>18, <1>19, <1>20,
     <1>21, <1>22, <1>23, <1>24 DEF Next, Proceed

LEMMA TypedInit == Init => Typed
<1> SUFFICES ASSUME Init PROVE Typed
  OBVIOUS
<1>1. << >> \in Seq(Frames)
  BY EmptySeq
<1>2. Idle \in Cascades /\ Idle.pc = "idle"
  BY <1>1 DEF Idle, Cascades
<1>3. cascade \in [Deleted -> Cascades] /\ Standing
  BY <1>2 DEF Init, Standing, Running
<1>4. failures \in 0..MaxFailures /\ writes \in 0..MaxWrites
  BY OptionsAssumption DEF Init
<1>5. QED
  BY <1>3, <1>4, OptionsAssumption DEF Init, Typed, TypeOK

\* Every reachable state is type-correct: the stack of a cascade consists of
\* frames, and a running cascade has one.
THEOREM TypeCorrect == Spec => []TypeOK
<1>1. Spec => []Typed
  BY TypedInit, TypedStep, PTL DEF Spec
<1>2. Typed => TypeOK
  BY DEF Typed
<1>3. QED
  BY <1>1, <1>2, PTL

-----------------------------------------------------------------------------
(* Nothing outside the hierarchy.                                           *)

\* What cascade n may delete.
Own(n, deep) ==
  {d \in Docs : d = n \/ d \in Touching[n] \/ (deep /\ Home[d] \in Below[n])}

\* A frame of cascade n stays at n and below it.
FrameWithin(n, deep, f) ==
  /\ f.ids \subseteq Own(n, deep)
  /\ \A m \in f.docs : deep /\ (m = n \/ Home[m] \in Below[n])
  /\ \A g \in f.colls : deep /\ g \in Below[n]

\* ... and every frame but the last is of a graph below n.
StackWithin(n, deep, s) ==
  \A i \in 1 .. Len(s) :
    /\ FrameWithin(n, deep, s[i])
    /\ i # Len(s) => deep /\ s[i].graph \in Below[n]

Within ==
  \A n \in Deleted : Running(n) => StackWithin(n, cascade[n].deep, cascade[n].stack)

\* The tree: the subgraphs of n, and of nodes below n, are below n.
LEMMA BelowCloses ==
  ASSUME NEW n \in Nodes, NEW m \in Nodes, m = n \/ Home[m] \in Below[n],
         NEW g \in Graphs, Owner[g] = m
  PROVE  g \in Below[n]
BY DocumentsAssumption

LEMMA TopWithin ==
  ASSUME Typed, Within, NEW n \in Deleted, Running(n)
  PROVE  /\ FrameWithin(n, cascade[n].deep, Top(n))
         /\ ~AtRoot(n) => cascade[n].deep /\ Top(n).graph \in Below[n]
<1> DEFINE s == cascade[n].stack
<1>1. StackWithin(n, cascade[n].deep, s)
  BY DEF Within
<1>2. Len(s) \in Nat \ {0} /\ Top(n) = s[1]
  BY TopTyped
<1>3. 1 \in 1 .. Len(s)
  BY <1>2
<1>4. QED
  BY <1>1, <1>2, <1>3 DEF StackWithin, AtRoot

\* The top frame is replaced by one of the same graph.
LEMMA ReplacedWithin ==
  ASSUME Typed, Within, NEW n \in Deleted, Running(n), NEW f \in Frames,
         f.graph = Top(n).graph, FrameWithin(n, cascade[n].deep, f)
  PROVE  StackWithin(n, cascade[n].deep, WithTop(n, f))
<1> DEFINE s == cascade[n].stack
           t == WithTop(n, f)
<1>1. /\ Len(t) = Len(s) /\ Len(s) \in Nat \ {0} /\ t[1] = f
      /\ \A i \in 2 .. Len(s) : t[i] = s[i]
  BY TopTyped, WithTopFrames
<1>2. StackWithin(n, cascade[n].deep, s) /\ Top(n) = s[1]
  BY TopTyped DEF Within
<1>3. ASSUME NEW i \in 1 .. Len(t)
      PROVE  /\ FrameWithin(n, cascade[n].deep, t[i])
             /\ i # Len(t) => cascade[n].deep /\ t[i].graph \in Below[n]
  <2>1. CASE i = 1
    BY <1>1, <1>2, <2>1 DEF StackWithin
  <2>2. CASE i # 1
    BY <1>1, <1>2, <2>2 DEF StackWithin
  <2>3. QED
    BY <2>1, <2>2
<1>4. QED
  BY <1>3 DEF StackWithin

LEMMA PushedWithin ==
  ASSUME NEW n, NEW deep, NEW t \in Seq(Frames), NEW f \in Frames,
         StackWithin(n, deep, t), t # << >>,
         FrameWithin(n, deep, f), deep, f.graph \in Below[n]
  PROVE  StackWithin(n, deep, <<f>> \o t)
<1> DEFINE u == <<f>> \o t
<1>1. /\ Len(t) \in Nat \ {0} /\ Len(u) = Len(t) + 1 /\ u[1] = f
      /\ \A i \in 2 .. Len(t) + 1 : u[i] = t[i - 1]
  BY Pushed, TopFrame
<1>2. ASSUME NEW i \in 1 .. Len(u)
      PROVE  /\ FrameWithin(n, deep, u[i])
             /\ i # Len(u) => deep /\ u[i].graph \in Below[n]
  <2>1. CASE i = 1
    BY <1>1, <2>1
  <2>2. CASE i # 1
    <3>1. i - 1 \in 1 .. Len(t) /\ u[i] = t[i - 1] /\ (i # Len(u) => i - 1 # Len(t))
      BY <1>1, <2>2
    <3>2. QED
      BY <3>1 DEF StackWithin
  <2>3. QED
    BY <2>1, <2>2
<1>3. QED
  BY <1>2 DEF StackWithin

LEMMA PoppedWithin ==
  ASSUME Typed, Within, NEW n \in Deleted, Running(n)
  PROVE  StackWithin(n, cascade[n].deep, Outer(n))
<1> DEFINE s == cascade[n].stack
<1>1. /\ Len(s) \in Nat \ {0} /\ Len(Tail(s)) = Len(s) - 1
      /\ \A i \in 1 .. Len(s) - 1 : Tail(s)[i] = s[i + 1]
  BY TopTyped, Popped
<1>2. StackWithin(n, cascade[n].deep, s)
  BY DEF Within
<1>3. ASSUME NEW i \in 1 .. Len(Tail(s))
      PROVE  /\ FrameWithin(n, cascade[n].deep, Tail(s)[i])
             /\ i # Len(Tail(s)) => cascade[n].deep /\ Tail(s)[i].graph \in Below[n]
  <2>1. i + 1 \in 1 .. Len(s) /\ Tail(s)[i] = s[i + 1] /\ (i # Len(Tail(s)) => i + 1 # Len(s))
    BY <1>1
  <2>2. QED
    BY <1>2, <2>1 DEF StackWithin
<1>4. QED
  BY <1>3 DEF StackWithin, Outer

\* A cascade that begins owns its node and its edges.
LEMMA BegunWithin ==
  ASSUME Typed, NEW n \in Deleted, NEW deep \in BOOLEAN, Begin(n, deep)
  PROVE  StackWithin(n, deep, cascade'[n].stack)
<1> DEFINE f == Frame(Home[n], OwnIds(n), Walk(n, deep))
<1>1. n \in Docs /\ Touching[n] \subseteq Docs
  BY DocumentsAssumption, OptionsAssumption DEF Docs
<1>2. OwnIds(n) \subseteq Own(n, deep) /\ \A m \in Walk(n, deep) : deep /\ m = n
  BY <1>1 DEF OwnIds, Own, Walk
<1>3. FrameWithin(n, deep, f)
  BY <1>2 DEF FrameWithin, Frame
<1>4. Len(cascade'[n].stack) = 1 /\ cascade'[n].stack[1] = f
  BY BeginStep
<1>5. QED
  BY <1>3, <1>4 DEF StackWithin

\* Documents that another step of cascade n leaves to it.
LEMMA WithinKept ==
  ASSUME Typed, Within, NEW n \in Deleted,
         \A x \in Deleted \ {n} : cascade'[x] = cascade[x],
         Running(n)' => StackWithin(n, cascade'[n].deep, cascade'[n].stack)
  PROVE  Within'
<1>1. ASSUME NEW x \in Deleted, Running(x)'
      PROVE  StackWithin(x, cascade'[x].deep, cascade'[x].stack)
  <2>1. CASE x = n
    BY <1>1, <2>1
  <2>2. CASE x # n
    BY <1>1, <2>2 DEF Within, Running
  <2>3. QED
    BY <2>1, <2>2
<1>2. QED
  BY <1>1 DEF Within, StackWithin, FrameWithin, Own

LEMMA WithinStep == Typed /\ Within /\ [Next]_vars => Within'
<1> SUFFICES ASSUME Typed, Within, [Next]_vars PROVE Within'
  OBVIOUS
<1>1. Deep \subseteq BOOLEAN /\ \A n \in Deleted : cascade[n].deep \in BOOLEAN
  BY OptionsAssumption DEF Typed, TypeOK, Cascades
<1>2. ASSUME cascade' = cascade PROVE Within'
  BY <1>2 DEF Within, Running, StackWithin, FrameWithin, Own
<1>3. ASSUME NEW n \in Deleted, First(n) \/ Retry(n) PROVE Within'
  <2>1. PICK deep \in BOOLEAN : Begin(n, deep)
    BY <1>1, <1>3 DEF First, Retry
  <2>2. /\ \A x \in Deleted \ {n} : cascade'[x] = cascade[x]
        /\ cascade'[n].deep = deep
    BY <2>1, BeginStep
  <2>3. StackWithin(n, deep, cascade'[n].stack)
    BY <2>1, BegunWithin
  <2>4. QED
    BY <2>2, <2>3, WithinKept
<1>4. ASSUME NEW n \in Deleted, List(n) PROVE Within'
  <2>1. PICK m \in Top(n).docs :
          Stack(n, WithTop(n, [Top(n) EXCEPT !.docs = @ \ {m}, !.colls = Subgraphs(m)]))
    BY <1>4 DEF List
  <2> DEFINE f == [Top(n) EXCEPT !.docs = @ \ {m}, !.colls = Subgraphs(m)]
  <2>2. m \in Nodes /\ n \in Nodes /\ Running(n) /\ f \in Frames /\ Top(n) \in Frames
    BY <1>4, <2>1, FramesTyped, TopTyped, OptionsAssumption DEF List
  <2>3. /\ f.graph = Top(n).graph /\ f.ids = Top(n).ids
        /\ f.docs \subseteq Top(n).docs /\ f.colls = Subgraphs(m)
    BY <2>2 DEF Frames
  <2>4. FrameWithin(n, cascade[n].deep, Top(n))
    BY <2>2, TopWithin
  <2>5. \A g \in Subgraphs(m) : g \in Graphs /\ Owner[g] = m
    BY DEF Subgraphs
  <2>6. \A g \in f.colls : cascade[n].deep /\ g \in Below[n]
    BY <2>1, <2>2, <2>3, <2>4, <2>5, BelowCloses DEF FrameWithin
  <2>7. FrameWithin(n, cascade[n].deep, f)
    BY <2>3, <2>4, <2>6 DEF FrameWithin
  <2>8. StackWithin(n, cascade[n].deep, WithTop(n, f))
    BY <2>2, <2>3, <2>7, ReplacedWithin
  <2>9. /\ cascade'[n].stack = WithTop(n, f) /\ cascade'[n].deep = cascade[n].deep
        /\ \A x \in Deleted \ {n} : cascade'[x] = cascade[x]
    BY <2>1, <2>2, WithTopFrames, StackStep
  <2>10. QED
    BY <2>8, <2>9, WithinKept
<1>5. ASSUME NEW n \in Deleted, Descend(n) PROVE Within'
  <2>1. PICK g \in Top(n).colls : Enter(n, g)
    BY <1>5 DEF Descend
  <2> DEFINE e == [Top(n) EXCEPT !.colls = @ \ {g}]
             t == WithTop(n, e)
             f == Frame(g, Ids(g), Parents(g))
  <2>2. /\ Running(n) /\ e \in Frames /\ f \in Frames /\ Top(n) \in Frames
        /\ t \in Seq(Frames) /\ t # << >>
    BY <1>5, <2>1, FramesTyped, TopTyped, WithTopFrames DEF Descend
  <2>3. FrameWithin(n, cascade[n].deep, Top(n))
    BY <2>2, TopWithin
  <2>4. /\ e.graph = Top(n).graph /\ e.ids = Top(n).ids /\ e.docs = Top(n).docs
        /\ e.colls \subseteq Top(n).colls
    BY <2>2 DEF Frames
  <2>5. StackWithin(n, cascade[n].deep, t)
    BY <2>2, <2>3, <2>4, ReplacedWithin DEF FrameWithin
  <2>6. cascade[n].deep /\ g \in Below[n]
    BY <2>1, <2>3 DEF FrameWithin
  <2>7. /\ f.graph = g /\ f.ids \subseteq In(g) /\ f.docs \subseteq In(g) /\ f.colls = {}
    BY DEF Frame, Ids, Parents
  <2>8. \A d \in In(g) : d \in Docs /\ Home[d] = g
    BY DEF In, Typed, TypeOK
  <2>9. FrameWithin(n, cascade[n].deep, f)
    BY <2>6, <2>7, <2>8 DEF FrameWithin, Own
  <2>10. StackWithin(n, cascade[n].deep, <<f>> \o t)
    BY <2>2, <2>5, <2>6, <2>7, <2>9, PushedWithin
  <2>11. <<f>> \o t \in Seq(Frames) /\ <<f>> \o t # << >>
    BY <2>2, Pushed
  <2>12. /\ cascade'[n].stack = <<f>> \o t /\ cascade'[n].deep = cascade[n].deep
         /\ \A x \in Deleted \ {n} : cascade'[x] = cascade[x]
    BY <2>1, <2>11, StackStep DEF Enter
  <2>13. QED
    BY <2>10, <2>12, WithinKept
<1>6. ASSUME NEW n \in Deleted, NEW C, Running(n)
      PROVE  StackWithin(n, cascade[n].deep, CutChunk(n, C))
  <2> DEFINE f == [Top(n) EXCEPT !.ids = @ \ C]
  <2>1. f \in Frames /\ Top(n) \in Frames /\ FrameWithin(n, cascade[n].deep, Top(n))
    BY <1>6, FramesTyped, TopTyped, TopWithin
  <2>2. /\ f.graph = Top(n).graph /\ f.ids \subseteq Top(n).ids /\ f.docs = Top(n).docs
        /\ f.colls = Top(n).colls
    BY <2>1 DEF Frames
  <2>3. QED
    BY <1>6, <2>1, <2>2, ReplacedWithin DEF FrameWithin, CutChunk
<1>7. ASSUME NEW n \in Deleted, Commit(n) PROVE Within'
  <2>1. PICK C \in SUBSET Top(n).ids : Stack(n, CutChunk(n, C))
    BY <1>7 DEF Commit
  <2>2. Running(n)
    BY <1>7 DEF Commit, Visited
  <2>3. /\ cascade'[n].stack = CutChunk(n, C) /\ cascade'[n].deep = cascade[n].deep
        /\ \A x \in Deleted \ {n} : cascade'[x] = cascade[x]
    BY <2>1, <2>2, CutTyped, StackStep
  <2>4. QED
    BY <1>6, <2>2, <2>3, WithinKept
<1>8. ASSUME NEW n \in Deleted, ChunkFails(n) PROVE Within'
  <2>1. PICK C \in SUBSET Top(n).ids :
          cascade' = [cascade EXCEPT ![n].stack = CutChunk(n, C), ![n].errors = TRUE,
                                     ![n].nodeKept = KeepsNode(n, C)]
    BY <1>8 DEF ChunkFails
  <2>2. KeepsNode(n, C) \in BOOLEAN
    BY DEF KeepsNode, AtRoot
  <2>3. Running(n)
    BY <1>8 DEF ChunkFails, Visited
  <2>4. /\ cascade'[n].stack = CutChunk(n, C) /\ cascade'[n].deep = cascade[n].deep
        /\ \A x \in Deleted \ {n} : cascade'[x] = cascade[x]
    BY <2>1, <2>2, <2>3, ChunkFailsStep
  <2>5. QED
    BY <1>6, <2>3, <2>4, WithinKept
<1>9. ASSUME NEW n \in Deleted, Ascend(n) \/ Destroy(n) PROVE Within'
  <2>1. Running(n) /\ ~AtRoot(n) /\ Stack(n, Outer(n))
    BY <1>9 DEF Ascend, Destroy, Visited
  <2>2. Outer(n) \in Seq(Frames) /\ Outer(n) # << >>
    BY <2>1, TopTyped, Popped DEF AtRoot, Outer
  <2>3. /\ cascade'[n].stack = Outer(n) /\ cascade'[n].deep = cascade[n].deep
        /\ \A x \in Deleted \ {n} : cascade'[x] = cascade[x]
    BY <2>1, <2>2, StackStep
  <2>4. QED
    BY <2>1, <2>3, PoppedWithin, WithinKept
<1>10. ASSUME NEW n \in Deleted, NEW pc \in {"clean", "errors", "rejected"}, Goto(n, pc)
       PROVE  Within'
  BY <1>10, GotoStep, WithinKept DEF Running
<1>11. ASSUME NEW n \in Deleted, Resolve(n) \/ RemoveLocally(n) \/ ReadFails(n) \/ CallFails(n)
       PROVE  Within'
  BY <1>10, <1>11 DEF Resolve, Verdict, RemoveLocally, ReadFails, CallFails
<1>12. ASSUME NEW n \in Deleted, LocalError(n) PROVE Within'
  <2>1. cascade' = [cascade EXCEPT ![n].pc = "errors", ![n].stack = << >>,
                                   ![n].errors = TRUE, ![n].nodeKept = TRUE]
    BY <1>12 DEF LocalError
  <2>2. cascade \in [Deleted -> Cascades] /\ cascade[n] \in Cascades
    BY DEF Typed, TypeOK
  <2>3. cascade'[n] = [cascade[n] EXCEPT !.pc = "errors", !.stack = << >>,
                                         !.errors = TRUE, !.nodeKept = TRUE]
    BY <2>1, <2>2
  <2>4. cascade'[n].pc = "errors" /\ \A x \in Deleted \ {n} : cascade'[x] = cascade[x]
    BY <2>1, <2>2, <2>3 DEF Cascades
  <2>5. QED
    BY <2>4, WithinKept DEF Running
<1>13. CASE UNCHANGED vars \/ \E d \in Docs : Put(d) \/ Remove(d)
  BY <1>2, <1>13 DEF vars, Put, Remove
<1>14. QED
  BY <1>3, <1>4, <1>5, <1>7, <1>8, <1>9, <1>11, <1>12, <1>13 DEF Next, Proceed

LEMMA WithinInit == Init => Within
BY DEF Init, Within, Running, Idle

\* What a step of cascade n deletes is its own.
LEMMA DeletesOwn ==
  ASSUME Typed, Within, [Next]_vars, NEW d \in stored, d \notin stored'
  PROVE  \/ writes' > writes
         \/ \E n \in Deleted :
              /\ cascade[n].pc = "running" /\ cascade[n] # cascade'[n]
              /\ \/ d \in {n} \cup Touching[n]
                 \/ cascade[n].deep /\ Home[d] \in Below[n]
<1>1. d \in Docs /\ writes \in Nat
  BY OptionsAssumption DEF Typed, TypeOK
<1>2. ASSUME NEW n \in Deleted, Running(n), NEW C, C \subseteq Top(n).ids
      PROVE  \A x \in C : \/ x \in {n} \cup Touching[n]
                          \/ cascade[n].deep /\ Home[x] \in Below[n]
  <2>1. FrameWithin(n, cascade[n].deep, Top(n))
    BY <1>2, TopWithin
  <2>2. C \subseteq Own(n, cascade[n].deep)
    BY <1>2, <2>1 DEF FrameWithin
  <2>3. QED
    BY <2>2 DEF Own
<1>3. ASSUME NEW n \in Deleted, Running(n), NEW C, C \subseteq Top(n).ids, C # {},
             cascade'[n].stack = CutChunk(n, C)
      PROVE  cascade[n] # cascade'[n]
  <2> DEFINE f == [Top(n) EXCEPT !.ids = @ \ C]
  <2>1. Top(n) \in Frames /\ Top(n) = cascade[n].stack[1] /\ f \in Frames
    BY <1>3, TopTyped, FramesTyped
  <2>2. f.ids = Top(n).ids \ C
    BY <2>1 DEF Frames
  <2>3. f.ids # Top(n).ids
    BY <1>3, <2>2
  <2>4. cascade'[n].stack[1] = f
    BY <1>3, <2>1, WithTopFrames DEF CutChunk
  <2>5. QED
    BY <2>1, <2>3, <2>4
<1>4. ASSUME NEW n \in Deleted, Commit(n)
      PROVE  /\ Running(n) /\ cascade[n] # cascade'[n]
             /\ \/ d \in {n} \cup Touching[n]
                \/ cascade[n].deep /\ Home[d] \in Below[n]
  <2>1. PICK C \in SUBSET Top(n).ids : Chunk(n, C) /\ Delete({n}, C) /\ Stack(n, CutChunk(n, C))
    BY <1>4 DEF Commit
  <2>2. Running(n)
    BY <1>4 DEF Commit, Visited
  <2>3. cascade'[n].stack = CutChunk(n, C)
    BY <2>1, <2>2, CutTyped, StackStep
  <2>4. C # {} /\ d \in C
    BY <2>1 DEF Chunk, Delete
  <2>5. QED
    BY <1>2, <1>3, <2>2, <2>3, <2>4
<1>5. ASSUME NEW n \in Deleted, ChunkFails(n)
      PROVE  /\ Running(n) /\ cascade[n] # cascade'[n]
             /\ \/ d \in {n} \cup Touching[n]
                \/ cascade[n].deep /\ Home[d] \in Below[n]
  <2>1. PICK C \in SUBSET Top(n).ids :
          /\ Chunk(n, C)
          /\ Delete({n}, C) \/ UNCHANGED <<stored, due, promised>>
          /\ cascade' = [cascade EXCEPT ![n].stack = CutChunk(n, C), ![n].errors = TRUE,
                                        ![n].nodeKept = KeepsNode(n, C)]
    BY <1>5 DEF ChunkFails
  <2>2. Running(n) /\ KeepsNode(n, C) \in BOOLEAN
    BY <1>5 DEF ChunkFails, Visited, KeepsNode, AtRoot
  <2>3. cascade'[n].stack = CutChunk(n, C)
    BY <2>1, <2>2, ChunkFailsStep
  <2>4. C # {} /\ d \in C
    BY <2>1 DEF Chunk, Delete
  <2>5. QED
    BY <1>2, <1>3, <2>2, <2>3, <2>4
<1>6. ASSUME NEW n \in Deleted, Running(n),
             IF AtRoot(n) THEN d \in {n} \cup Touching[n] ELSE d \in In(Top(n).graph)
      PROVE  \/ d \in {n} \cup Touching[n]
             \/ cascade[n].deep /\ Home[d] \in Below[n]
  <2>1. CASE AtRoot(n)
    BY <1>6, <2>1
  <2>2. CASE ~AtRoot(n)
    BY <1>6, <2>2, TopWithin DEF In
  <2>3. QED
    BY <2>1, <2>2
<1>7. ASSUME NEW n \in Deleted, Destroy(n)
      PROVE  /\ Running(n) /\ cascade[n] # cascade'[n]
             /\ \/ d \in {n} \cup Touching[n]
                \/ cascade[n].deep /\ Home[d] \in Below[n]
  <2>1. Running(n) /\ ~AtRoot(n) /\ Stack(n, Outer(n)) /\ Delete({n}, In(Top(n).graph))
    BY <1>7 DEF Destroy, Visited
  <2>2. /\ Outer(n) \in Seq(Frames) /\ Outer(n) # << >>
        /\ Len(Outer(n)) = Len(cascade[n].stack) - 1
        /\ Len(cascade[n].stack) \in Nat \ {0}
    BY <2>1, TopTyped, Popped DEF AtRoot, Outer
  <2>3. cascade'[n].stack = Outer(n)
    BY <2>1, <2>2, StackStep
  <2>4. d \in In(Top(n).graph)
    BY <2>1 DEF Delete
  <2>5. cascade[n] # cascade'[n]
    BY <2>2, <2>3
  <2>6. QED
    BY <1>6, <2>1, <2>4, <2>5
<1>8. ASSUME NEW n \in Deleted, RemoveLocally(n)
      PROVE  /\ Running(n) /\ cascade[n] # cascade'[n] /\ d \in {n} \cup Touching[n]
  <2>1. Running(n) /\ Goto(n, "clean") /\ Delete({n}, {n} \cup Touching[n])
    BY <1>8 DEF RemoveLocally, Visited
  <2>2. cascade'[n].pc = "clean" /\ cascade[n].pc = "running"
    BY <2>1, GotoStep DEF Running
  <2>3. QED
    BY <2>1, <2>2 DEF Delete
<1>9. ASSUME NEW n \in Deleted, CallFails(n)
      PROVE  /\ Running(n) /\ cascade[n] # cascade'[n]
             /\ \/ d \in {n} \cup Touching[n]
                \/ cascade[n].deep /\ Home[d] \in Below[n]
  <2>1. /\ Running(n) /\ Goto(n, "rejected")
        /\ Delete({n}, IF AtRoot(n) THEN {n} \cup Touching[n] ELSE In(Top(n).graph))
    BY <1>9 DEF CallFails, Visited
  <2>2. cascade'[n].pc = "rejected" /\ cascade[n].pc = "running"
    BY <2>1, GotoStep DEF Running
  <2>3. IF AtRoot(n) THEN d \in {n} \cup Touching[n] ELSE d \in In(Top(n).graph)
    BY <2>1 DEF Delete
  <2>4. QED
    BY <1>6, <2>1, <2>2, <2>3
<1>10. ASSUME NEW x \in Docs, Put(x) \/ Remove(x) PROVE writes' > writes
  BY <1>1, <1>10 DEF Put, Remove
<1>11. ASSUME NEW n \in Deleted,
              \/ First(n) \/ Retry(n) \/ List(n) \/ Descend(n) \/ Ascend(n) \/ Resolve(n)
              \/ ReadFails(n) \/ LocalError(n)
       PROVE  FALSE
  BY <1>11 DEF First, Retry, List, Descend, Ascend, Resolve, ReadFails, LocalError
<1>12. ~UNCHANGED vars
  BY DEF vars
<1>13. QED
  BY <1>4, <1>5, <1>7, <1>8, <1>9, <1>10, <1>11, <1>12 DEF Next, Proceed, Running

\* Whatever tree of graphs, however many cascades, failures and writers: a
\* cascade deletes nothing but its node, the node's edges and, unless it was
\* told to preserve them, documents in graphs below the node.
THEOREM OthersTheorem == Spec => OthersAreKept
<1>1. Init => Typed /\ Within
  BY TypedInit, WithinInit
<1>2. Typed /\ Within /\ [Next]_vars => (Typed /\ Within)'
  BY TypedStep, WithinStep
<1>3. Typed /\ Within /\ [Next]_vars =>
        [\A d \in stored \ stored' :
           \/ writes' > writes
           \/ \E n \in Deleted :
                /\ cascade[n].pc = "running" /\ cascade[n] # cascade'[n]
                /\ \/ d \in {n} \cup Touching[n]
                   \/ cascade[n].deep /\ Home[d] \in Below[n]]_vars
  BY DeletesOwn
<1>4. QED
  BY <1>1, <1>2, <1>3, PTL DEF Spec, OthersAreKept

-----------------------------------------------------------------------------
(* nodeDeleted.                                                             *)

Owed(n) == n \in due[n] /\ n \in stored

Bottom(s) == s[Len(s)]

\* The node's document is in the ids of its own graph until its chunk commits
\* or fails; it fails as the last one, after which the cascade only resolves.
NodeGoes(n) ==
  /\ Running(n) /\ cascade[n].nodeKept =>
       AtRoot(n) /\ Top(n).ids = {} /\ Top(n).docs = {} /\ Top(n).colls = {}
  /\ Running(n) /\ ~cascade[n].nodeKept /\ backend = "firestore" =>
       (Owed(n) => n \in Bottom(cascade[n].stack).ids)
  /\ cascade[n].pc \in {"clean", "errors"} /\ ~cascade[n].nodeKept => ~Owed(n)

NodesGo == \A n \in Deleted : NodeGoes(n)

\* The cascade alone takes on what it owes.
LEMMA OwedBefore ==
  ASSUME Typed, [Next]_vars, NEW n \in Deleted, Owed(n)', ~First(n), ~Retry(n)
  PROVE  Owed(n)
<1>1. due \in [Deleted -> SUBSET Docs]
  BY DEF Typed, TypeOK
<1>2. ASSUME NEW N, NEW D, Delete(N, D) PROVE Owed(n)
  BY <1>2, DeleteTyped DEF Owed, Typed
<1>3. ASSUME NEW d \in Docs, Put(d) PROVE Owed(n)
  <2>1. due'[n] = due[n] \ {d} /\ stored' = stored \cup {d}
    BY <1>3 DEF Put
  <2>2. QED
    BY <2>1 DEF Owed
<1>4. ASSUME NEW x \in Deleted, x # n, NEW deep \in BOOLEAN, Begin(x, deep), stored' = stored
      PROVE  Owed(n)
  BY <1>4, BeginStep DEF Owed
<1>5. ASSUME NEW x \in Deleted, First(x) \/ Retry(x) PROVE Owed(n)
  <2>1. Deep \subseteq BOOLEAN /\ cascade[x].deep \in BOOLEAN
    BY OptionsAssumption DEF Typed, TypeOK, Cascades
  <2>2. x # n
    BY <1>5
  <2>3. stored' = stored /\ \E deep \in BOOLEAN : Begin(x, deep)
    BY <1>5, <2>1 DEF First, Retry
  <2>4. QED
    BY <1>4, <2>2, <2>3
<1>6. ASSUME UNCHANGED <<stored, due>> PROVE Owed(n)
  BY <1>6 DEF Owed
<1>7. ASSUME NEW x \in Deleted,
             List(x) \/ Descend(x) \/ Ascend(x) \/ Resolve(x) \/ ReadFails(x) \/ LocalError(x)
      PROVE  Owed(n)
  BY <1>6, <1>7 DEF List, Descend, Ascend, Resolve, ReadFails, LocalError
<1>8. ASSUME NEW x \in Deleted,
             Commit(x) \/ Destroy(x) \/ RemoveLocally(x)
      PROVE  Owed(n)
  BY <1>2, <1>8 DEF Commit, Destroy, RemoveLocally
<1>9. ASSUME NEW x \in Deleted, ChunkFails(x) \/ CallFails(x)
      PROVE  Owed(n)
  BY <1>2, <1>6, <1>9 DEF ChunkFails, CallFails
<1>10. ASSUME NEW d \in Docs, Remove(d) PROVE Owed(n)
  BY <1>2, <1>10 DEF Remove
<1>11. CASE UNCHANGED vars
  BY <1>6, <1>11 DEF vars
<1>12. QED
  BY <1>3, <1>5, <1>7, <1>8, <1>9, <1>10, <1>11 DEF Next, Proceed

\* The frame of the node's own graph stays at the bottom.
LEMMA BottomStays ==
  ASSUME Typed, NEW n \in Deleted, Running(n)
  PROVE  /\ AtRoot(n) => Bottom(cascade[n].stack) = Top(n)
         /\ \A f \in Frames : /\ AtRoot(n) => Bottom(WithTop(n, f)) = f
                              /\ ~AtRoot(n) => Bottom(WithTop(n, f)) = Bottom(cascade[n].stack)
         /\ ~AtRoot(n) => Bottom(Outer(n)) = Bottom(cascade[n].stack)
<1> DEFINE s == cascade[n].stack
<1>1. /\ s \in Seq(Frames) /\ s # << >> /\ Top(n) = s[1]
      /\ Len(Tail(s)) = Len(s) - 1 /\ \A i \in 1 .. Len(s) - 1 : Tail(s)[i] = s[i + 1]
  BY TopTyped, Popped
<1>2. PICK k \in Nat \ {0} : k = Len(s)
  BY TopTyped
<1>3. ~AtRoot(n) => k # 1
  BY <1>2, Zenon DEF AtRoot
<1>4. k # 1 => k \in 2 .. k /\ k - 1 \in 1 .. k - 1 /\ (k - 1) + 1 = k
  OBVIOUS
<1>5. ASSUME NEW f \in Frames
      PROVE  /\ AtRoot(n) => Bottom(WithTop(n, f)) = f
             /\ ~AtRoot(n) => Bottom(WithTop(n, f)) = Bottom(s)
  <2>1. /\ Len(WithTop(n, f)) = Len(s) /\ WithTop(n, f)[1] = f
        /\ \A i \in 2 .. Len(s) : WithTop(n, f)[i] = s[i]
    BY WithTopFrames, Zenon
  <2>2. AtRoot(n) => Bottom(WithTop(n, f)) = f
    BY <2>1, Zenon DEF AtRoot, Bottom
  <2>3. ~AtRoot(n) => Bottom(WithTop(n, f)) = Bottom(s)
    BY <1>2, <1>3, <1>4, <2>1, Zenon DEF Bottom
  <2>4. QED
    BY <2>2, <2>3
<1>6. ASSUME ~AtRoot(n) PROVE Bottom(Outer(n)) = Bottom(s)
  <2>1. k - 1 \in 1 .. k - 1 /\ (k - 1) + 1 = k
    BY <1>3, <1>4, <1>6, Zenon
  <2>2. Tail(s)[k - 1] = s[(k - 1) + 1]
    BY <1>1, <1>2, <2>1, Zenon
  <2>3. Tail(s)[k - 1] = s[k]
    BY <2>1, <2>2, Zenon
  <2>4. QED
    BY <1>1, <1>2, <2>3, Zenon DEF Bottom, Outer
<1>7. AtRoot(n) => Bottom(s) = Top(n)
  BY <1>1, Zenon DEF AtRoot, Bottom
<1>8. QED
  BY <1>5, <1>6, <1>7, Zenon

LEMMA BottomReplaced ==
  ASSUME Typed, NEW n \in Deleted, Running(n), NEW f \in Frames
  PROVE  /\ AtRoot(n) => /\ Bottom(WithTop(n, f)) = f
                         /\ Bottom(cascade[n].stack) = Top(n)
         /\ ~AtRoot(n) => Bottom(WithTop(n, f)) = Bottom(cascade[n].stack)
<1>1. /\ AtRoot(n) => Bottom(cascade[n].stack) = Top(n)
      /\ \A x \in Frames : /\ AtRoot(n) => Bottom(WithTop(n, x)) = x
                           /\ ~AtRoot(n) => Bottom(WithTop(n, x)) = Bottom(cascade[n].stack)
  BY BottomStays
<1>2. QED
  BY <1>1, Zenon

LEMMA BottomPushed ==
  ASSUME NEW t \in Seq(Frames), t # << >>, NEW f \in Frames
  PROVE  Bottom(<<f>> \o t) = Bottom(t)
<1> DEFINE u == <<f>> \o t
<1>1. /\ Len(t) \in Nat \ {0} /\ Len(u) = Len(t) + 1
      /\ \A i \in 2 .. Len(t) + 1 : u[i] = t[i - 1]
  BY TopFrame, Pushed
<1>2. Len(t) + 1 \in 2 .. Len(t) + 1 /\ (Len(t) + 1) - 1 = Len(t)
  BY <1>1
<1>3. QED
  BY <1>1, <1>2 DEF Bottom

LEMMA BackendStays == [Next]_vars => backend' = backend
BY DEF Next, Proceed, vars, Put, Remove, First, Retry, List, Descend, Commit, Ascend, Resolve,
       Destroy, RemoveLocally, ReadFails, ChunkFails, LocalError, CallFails

\* First and Retry change their cascade.
LEMMA BeginsAlone ==
  ASSUME Typed, NEW x \in Deleted, First(x) \/ Retry(x)
  PROVE  cascade'[x] # cascade[x]
<1>1. PICK deep \in BOOLEAN : Begin(x, deep)
  BY OptionsAssumption DEF First, Retry, Typed, TypeOK, Cascades
<1>2. cascade'[x].pc = "running"
  BY <1>1, BeginStep
<1>3. cascade[x].pc # "running"
  BY DEF First, Retry
<1>4. QED
  BY <1>2, <1>3

\* A step that leaves cascade n as it is, or only changes other frames.
LEMMA GoesUnmoved ==
  ASSUME Typed, [Next]_vars, NEW n \in Deleted, NodeGoes(n), cascade'[n] = cascade[n]
  PROVE  NodeGoes(n)'
<1>1. Owed(n)' => Owed(n)
  BY OwedBefore, BeginsAlone
<1>2. backend' = backend
  BY BackendStays
<1>3. /\ Running(n)' = Running(n) /\ AtRoot(n)' = AtRoot(n) /\ Top(n)' = Top(n)
      /\ cascade'[n].nodeKept = cascade[n].nodeKept /\ cascade'[n].pc = cascade[n].pc
      /\ cascade'[n].stack = cascade[n].stack
  BY DEF Running, AtRoot, Top
<1>4. QED
  BY <1>1, <1>2, <1>3 DEF NodeGoes

LEMMA GoesMoved ==
  ASSUME Typed, [Next]_vars, NEW n \in Deleted, NodeGoes(n), Running(n),
         ~First(n), ~Retry(n), ~cascade[n].nodeKept, ~cascade'[n].nodeKept,
         cascade'[n].pc = cascade[n].pc,
         Owed(n)' /\ backend = "firestore" /\ n \in Bottom(cascade[n].stack).ids
           => n \in Bottom(cascade'[n].stack).ids
  PROVE  NodeGoes(n)'
<1>1. Owed(n)' => Owed(n)
  BY OwedBefore
<1>2. backend' = backend
  BY BackendStays
<1>3. Running(n)' /\ cascade'[n].pc = "running"
  BY DEF Running
<1>4. QED
  BY <1>1, <1>2, <1>3 DEF NodeGoes

LEMMA OthersUnmoved ==
  ASSUME Typed, [Next]_vars, NodesGo, NEW n \in Deleted, NodeGoes(n)',
         \A x \in Deleted \ {n} : cascade'[x] = cascade[x]
  PROVE  NodesGo'
<1>1. ASSUME NEW x \in Deleted PROVE NodeGoes(x)'
  <2>1. CASE x = n
    BY <2>1
  <2>2. CASE x # n
    BY <2>2, GoesUnmoved DEF NodesGo
  <2>3. QED
    BY <2>1, <2>2
<1>2. QED
  BY <1>1 DEF NodesGo

LEMMA NodesGoStep == Typed /\ NodesGo /\ [Next]_vars => NodesGo'
<1> SUFFICES ASSUME Typed, NodesGo, [Next]_vars PROVE NodesGo'
  OBVIOUS
<1>1. ASSUME cascade' = cascade PROVE NodesGo'
  BY <1>1, GoesUnmoved DEF NodesGo
<1>2. ASSUME NEW n \in Deleted PROVE NodeGoes(n)
  BY DEF NodesGo
<1>3. ASSUME NEW n \in Deleted, cascade'[n].pc # "idle", cascade'[n].pc # "running"
      PROVE  ~First(n) /\ ~Retry(n)
  <2>1. Deep \subseteq BOOLEAN /\ cascade[n].deep \in BOOLEAN
    BY OptionsAssumption DEF Typed, TypeOK, Cascades
  <2>2. QED
    BY <1>3, <2>1, BeginStep DEF First, Retry
<1>4. ASSUME NEW n \in Deleted, Running(n) PROVE ~First(n) /\ ~Retry(n)
  BY <1>4 DEF First, Retry, Running
<1>5. ASSUME NEW n \in Deleted, First(n) \/ Retry(n) PROVE NodesGo'
  <2>1. PICK deep \in BOOLEAN : Begin(n, deep)
    BY <1>5, OptionsAssumption DEF First, Retry, Typed, TypeOK, Cascades
  <2> DEFINE f == Frame(Home[n], OwnIds(n), Walk(n, deep))
  <2>2. /\ \A x \in Deleted \ {n} : cascade'[x] = cascade[x]
        /\ cascade'[n].pc = "running" /\ cascade'[n].nodeKept = FALSE
        /\ Len(cascade'[n].stack) = 1 /\ cascade'[n].stack[1] = f
    BY <2>1, BeginStep
  <2>3. backend = "firestore" => n \in f.ids
    BY DEF Frame, OwnIds
  <2>4. NodeGoes(n)'
    BY <2>2, <2>3, BackendStays DEF NodeGoes, Bottom
  <2>5. QED
    BY <2>2, <2>4, OthersUnmoved
<1>6. ASSUME NEW n \in Deleted, List(n) PROVE NodesGo'
  <2>1. PICK m \in Top(n).docs :
          Stack(n, WithTop(n, [Top(n) EXCEPT !.docs = @ \ {m}, !.colls = Subgraphs(m)]))
    BY <1>6 DEF List
  <2> DEFINE f == [Top(n) EXCEPT !.docs = @ \ {m}, !.colls = Subgraphs(m)]
  <2>2. Running(n) /\ f \in Frames /\ Top(n) \in Frames
    BY <1>6, <2>1, FramesTyped, TopTyped DEF List
  <2>3. f.ids = Top(n).ids
    BY <2>2 DEF Frames
  <2>4. /\ cascade'[n].stack = WithTop(n, f) /\ cascade'[n].pc = cascade[n].pc
        /\ cascade'[n].nodeKept = cascade[n].nodeKept
        /\ \A x \in Deleted \ {n} : cascade'[x] = cascade[x]
    BY <2>1, <2>2, WithTopFrames, StackStep
  <2>5. ~cascade[n].nodeKept
    BY <1>2, <2>1, <2>2 DEF NodeGoes
  <2>6. Bottom(WithTop(n, f)).ids = Bottom(cascade[n].stack).ids
    BY <2>2, <2>3, BottomReplaced
  <2>7. QED
    BY <1>2, <1>4, <2>2, <2>4, <2>5, <2>6, GoesMoved, OthersUnmoved
<1>7. ASSUME NEW n \in Deleted, Descend(n) PROVE NodesGo'
  <2>1. PICK g \in Top(n).colls : Enter(n, g)
    BY <1>7 DEF Descend
  <2> DEFINE e == [Top(n) EXCEPT !.colls = @ \ {g}]
             t == WithTop(n, e)
             f == Frame(g, Ids(g), Parents(g))
  <2>2. /\ Running(n) /\ e \in Frames /\ f \in Frames /\ Top(n) \in Frames
        /\ t \in Seq(Frames) /\ t # << >>
    BY <1>7, <2>1, FramesTyped, TopTyped, WithTopFrames DEF Descend
  <2>3. e.ids = Top(n).ids
    BY <2>2 DEF Frames
  <2>4. <<f>> \o t \in Seq(Frames) /\ <<f>> \o t # << >>
    BY <2>2, Pushed
  <2>5. /\ cascade'[n].stack = <<f>> \o t /\ cascade'[n].pc = cascade[n].pc
        /\ cascade'[n].nodeKept = cascade[n].nodeKept
        /\ \A x \in Deleted \ {n} : cascade'[x] = cascade[x]
    BY <2>1, <2>4, StackStep DEF Enter
  <2>6. ~cascade[n].nodeKept
    BY <1>2, <2>1, <2>2 DEF NodeGoes
  <2>7. Bottom(<<f>> \o t) = Bottom(t)
    BY <2>2, BottomPushed
  <2>8. Bottom(t).ids = Bottom(cascade[n].stack).ids
    BY <2>2, <2>3, BottomReplaced
  <2>9. QED
    BY <1>2, <1>4, <2>2, <2>5, <2>6, <2>7, <2>8, GoesMoved, OthersUnmoved
\* What a chunk leaves at the bottom.
<1>8. ASSUME NEW n \in Deleted, Running(n), NEW C
      PROVE  /\ AtRoot(n) => Bottom(CutChunk(n, C)).ids = Bottom(cascade[n].stack).ids \ C
             /\ ~AtRoot(n) => Bottom(CutChunk(n, C)) = Bottom(cascade[n].stack)
  <2> DEFINE f == [Top(n) EXCEPT !.ids = @ \ C]
  <2>1. f \in Frames /\ Top(n) \in Frames
    BY <1>8, FramesTyped, TopTyped
  <2>2. f.ids = Top(n).ids \ C
    BY <2>1 DEF Frames
  <2>3. QED
    BY <1>8, <2>1, <2>2, BottomReplaced DEF CutChunk
<1>9. ASSUME NEW n \in Deleted, Commit(n) PROVE NodesGo'
  <2>1. PICK C \in SUBSET Top(n).ids : Chunk(n, C) /\ Delete({n}, C) /\ Stack(n, CutChunk(n, C))
    BY <1>9 DEF Commit
  <2>2. Running(n)
    BY <1>9 DEF Commit, Visited
  <2>3. /\ cascade'[n].stack = CutChunk(n, C) /\ cascade'[n].pc = cascade[n].pc
        /\ cascade'[n].nodeKept = cascade[n].nodeKept
        /\ \A x \in Deleted \ {n} : cascade'[x] = cascade[x]
    BY <2>1, <2>2, CutTyped, StackStep
  <2>4. ~cascade[n].nodeKept
    BY <1>2, <2>1, <2>2 DEF NodeGoes, Chunk
  <2>5. Owed(n)' => n \notin C
    BY <2>1 DEF Delete, Owed
  <2>6. Owed(n)' /\ n \in Bottom(cascade[n].stack).ids => n \in Bottom(CutChunk(n, C)).ids
    BY <1>8, <2>2, <2>5
  <2>7. QED
    BY <1>2, <1>4, <2>2, <2>3, <2>4, <2>6, GoesMoved, OthersUnmoved
<1>10. ASSUME NEW n \in Deleted, ChunkFails(n) PROVE NodesGo'
  <2>1. PICK C \in SUBSET Top(n).ids :
          /\ Chunk(n, C)
          /\ cascade' = [cascade EXCEPT ![n].stack = CutChunk(n, C), ![n].errors = TRUE,
                                        ![n].nodeKept = KeepsNode(n, C)]
    BY <1>10 DEF ChunkFails
  <2>2. /\ Running(n) /\ Top(n).docs = {} /\ Top(n).colls = {}
        /\ KeepsNode(n, C) \in BOOLEAN
    BY <1>10 DEF ChunkFails, Visited, KeepsNode, AtRoot
  <2>3. /\ cascade'[n].stack = CutChunk(n, C) /\ cascade'[n].pc = cascade[n].pc
        /\ cascade'[n].nodeKept = KeepsNode(n, C)
        /\ \A x \in Deleted \ {n} : cascade'[x] = cascade[x]
    BY <2>1, <2>2, ChunkFailsStep
  <2>4. ~cascade[n].nodeKept
    BY <1>2, <2>1, <2>2 DEF NodeGoes, Chunk
  <2>5. CASE KeepsNode(n, C)
    <3> DEFINE f == [Top(n) EXCEPT !.ids = @ \ C]
    <3>1. AtRoot(n) /\ n \in C /\ C = Top(n).ids
      BY <2>1, <2>5 DEF KeepsNode, Chunk
    <3>2. f \in Frames /\ Top(n) \in Frames /\ cascade[n].stack \in Seq(Frames)
          /\ cascade[n].stack # << >>
      BY <2>2, FramesTyped, TopTyped
    <3>3. f.ids = {} /\ f.docs = {} /\ f.colls = {}
      BY <2>2, <3>1, <3>2 DEF Frames
    <3>4. /\ WithTop(n, f) \in Seq(Frames) /\ WithTop(n, f) # << >>
          /\ Len(WithTop(n, f)) = 1 /\ WithTop(n, f)[1] = f
      BY <2>2, <3>1, <3>2, WithTopFrames DEF AtRoot
    <3>5. Head(WithTop(n, f)) = f
      BY <3>4, TopFrame
    <3>6. AtRoot(n)' /\ Top(n)' = f
      BY <2>3, <3>4, <3>5 DEF AtRoot, Top, CutChunk
    <3>7. cascade'[n].pc = "running" /\ cascade'[n].nodeKept
      BY <2>2, <2>3, <2>5 DEF Running
    <3>8. NodeGoes(n)'
      BY <3>3, <3>6, <3>7 DEF NodeGoes
    <3>9. QED
      BY <2>3, <3>8, OthersUnmoved
  <2>6. CASE ~KeepsNode(n, C)
    <3>1. n \in Bottom(cascade[n].stack).ids => n \in Bottom(CutChunk(n, C)).ids
      BY <1>8, <2>2, <2>6 DEF KeepsNode
    <3>2. ~cascade'[n].nodeKept
      BY <2>3, <2>6
    <3>3. QED
      BY <1>2, <1>4, <2>2, <2>3, <2>4, <3>1, <3>2, GoesMoved, OthersUnmoved
  <2>7. QED
    BY <2>5, <2>6
<1>11. ASSUME NEW n \in Deleted, Ascend(n) \/ Destroy(n) PROVE NodesGo'
  <2>1. Running(n) /\ ~AtRoot(n) /\ Stack(n, Outer(n))
    BY <1>11 DEF Ascend, Destroy, Visited
  <2>2. Outer(n) \in Seq(Frames) /\ Outer(n) # << >>
    BY <2>1, TopTyped, Popped DEF AtRoot, Outer
  <2>3. /\ cascade'[n].stack = Outer(n) /\ cascade'[n].pc = cascade[n].pc
        /\ cascade'[n].nodeKept = cascade[n].nodeKept
        /\ \A x \in Deleted \ {n} : cascade'[x] = cascade[x]
    BY <2>1, <2>2, StackStep
  <2>4. ~cascade[n].nodeKept
    BY <1>2, <2>1 DEF NodeGoes
  <2>5. Bottom(Outer(n)) = Bottom(cascade[n].stack)
    BY <2>1, BottomStays
  <2>6. QED
    BY <1>2, <1>4, <2>1, <2>3, <2>4, <2>5, GoesMoved, OthersUnmoved
<1>12. ASSUME NEW n \in Deleted, Resolve(n) PROVE NodesGo'
  <2>1. /\ backend = "firestore" /\ Running(n) /\ AtRoot(n) /\ Top(n).ids = {}
        /\ Verdict(n) \in {"clean", "errors"} /\ Goto(n, Verdict(n))
    BY <1>12 DEF Resolve, Visited, Verdict
  <2>2. /\ cascade'[n].pc = Verdict(n) /\ cascade'[n].nodeKept = cascade[n].nodeKept
        /\ \A x \in Deleted \ {n} : cascade'[x] = cascade[x]
    BY <2>1, GotoStep
  <2>3. Bottom(cascade[n].stack).ids = {}
    BY <2>1, BottomStays
  <2>4. ~cascade[n].nodeKept => ~Owed(n)
    BY <1>2, <2>1, <2>3 DEF NodeGoes
  <2>5. Owed(n)' => Owed(n)
    BY <1>4, <2>1, OwedBefore
  <2>6. NodeGoes(n)'
    BY <2>1, <2>2, <2>4, <2>5 DEF NodeGoes, Running
  <2>7. QED
    BY <2>2, <2>6, OthersUnmoved
<1>13. ASSUME NEW n \in Deleted, RemoveLocally(n) PROVE NodesGo'
  <2>1. Goto(n, "clean") /\ Delete({n}, {n} \cup Touching[n])
    BY <1>13 DEF RemoveLocally
  <2>2. /\ cascade'[n].pc = "clean"
        /\ \A x \in Deleted \ {n} : cascade'[x] = cascade[x]
    BY <2>1, GotoStep
  <2>3. ~Owed(n)'
    BY <2>1 DEF Delete, Owed
  <2>4. NodeGoes(n)'
    BY <2>2, <2>3 DEF NodeGoes, Running
  <2>5. QED
    BY <2>2, <2>4, OthersUnmoved
<1>14. ASSUME NEW n \in Deleted, ReadFails(n) \/ CallFails(n) PROVE NodesGo'
  <2>1. Goto(n, "rejected")
    BY <1>14 DEF ReadFails, CallFails
  <2>2. /\ cascade'[n].pc = "rejected"
        /\ \A x \in Deleted \ {n} : cascade'[x] = cascade[x]
    BY <2>1, GotoStep
  <2>3. NodeGoes(n)'
    BY <2>2 DEF NodeGoes, Running
  <2>4. QED
    BY <2>2, <2>3, OthersUnmoved
<1>15. ASSUME NEW n \in Deleted, LocalError(n) PROVE NodesGo'
  <2>1. cascade' = [cascade EXCEPT ![n].pc = "errors", ![n].stack = << >>,
                                   ![n].errors = TRUE, ![n].nodeKept = TRUE]
    BY <1>15 DEF LocalError
  <2>2. cascade \in [Deleted -> Cascades] /\ cascade[n] \in Cascades
    BY DEF Typed, TypeOK
  <2>3. cascade'[n] = [cascade[n] EXCEPT !.pc = "errors", !.stack = << >>,
                                         !.errors = TRUE, !.nodeKept = TRUE]
    BY <2>1, <2>2
  <2>4. cascade'[n].pc = "errors" /\ cascade'[n].nodeKept = TRUE
    BY <2>2, <2>3 DEF Cascades
  <2>5. \A x \in Deleted \ {n} : cascade'[x] = cascade[x]
    BY <2>1, <2>2
  <2>6. NodeGoes(n)'
    BY <2>4 DEF NodeGoes, Running
  <2>7. QED
    BY <2>5, <2>6, OthersUnmoved
<1>16. CASE UNCHANGED vars \/ \E d \in Docs : Put(d) \/ Remove(d)
  BY <1>1, <1>16 DEF vars, Put, Remove
<1>17. QED
  BY <1>5, <1>6, <1>7, <1>9, <1>10, <1>11, <1>12, <1>13, <1>14, <1>15, <1>16 DEF Next, Proceed

LEMMA NodesGoInit == Init => NodesGo
BY DEF Init, NodesGo, NodeGoes, Running, Idle

\* nodeDeleted is never claimed in vain: for any tree, any chunk size and any
\* failures, a cascade that answers without counting the node's chunk among the
\* failed ones has deleted the node that was there when it began.
THEOREM NodeDeletedTheorem == Spec => []NodeDeletedIsTrue
<1>1. Init => Typed /\ NodesGo
  BY TypedInit, NodesGoInit
<1>2. Typed /\ NodesGo /\ [Next]_vars => (Typed /\ NodesGo)'
  BY TypedStep, NodesGoStep
<1>3. NodesGo => NodeDeletedIsTrue
  BY DEF NodesGo, NodeGoes, NodeDeletedIsTrue, Owed
<1>4. QED
  BY <1>1, <1>2, <1>3, PTL DEF Spec

-----------------------------------------------------------------------------
(* What a cascade owes stays in sight.  Whatever it has still to delete is  *)
(* in one of its frames or can be found from there, and the graph it deletes *)
(* from lies outside of all that its frames have yet to visit, so it never   *)
(* cuts off what it has still to find.                                       *)

\* The graphs at and below graph g.
From(g) == {h \in Graphs : h = g \/ \E p \in Nodes : Home[p] = g /\ h \in Below[p]}

\* Subgraphs of one node do not contain each other.
LEMMA SiblingsApart ==
  ASSUME NEW g \in Graphs, NEW h \in Graphs, g # h, Owner[g] = Owner[h]
  PROVE  g \notin From(h)
<1> SUFFICES ASSUME g \in From(h) PROVE FALSE
  OBVIOUS
<1>1. PICK p \in Nodes : Home[p] = h /\ g \in Below[p]
  BY DEF From
<1>2. Owner[g] = p \/ Home[Owner[g]] \in Below[p]
  BY <1>1, DocumentsAssumption
<1>3. h \in Below[p]
  BY <1>2, DocumentsAssumption
<1>4. QED
  BY <1>1, <1>3, DocumentsAssumption

\* A subgraph of a node is at or below h only if its node's graph is, or if it
\* is h.
LEMMA ChildOutside ==
  ASSUME NEW g \in Graphs, NEW h \in Graphs, NEW a \in Nodes, Owner[g] = a,
         Home[a] \notin From(h), Home[a] \in Graphs, g # h
  PROVE  g \notin From(h)
<1> SUFFICES ASSUME g \in From(h) PROVE FALSE
  OBVIOUS
<1>1. PICK p \in Nodes : Home[p] = h /\ g \in Below[p]
  BY DEF From
<1>2. p = a \/ Home[a] \in Below[p]
  BY <1>1, DocumentsAssumption
<1>3. QED
  BY <1>1, <1>2 DEF From

\* What is below a node is at or below one of its subgraphs, and the reverse.
LEMMA FromSubgraphs ==
  ASSUME NEW m \in Nodes
  PROVE  /\ \A g \in Below[m] : \E h \in Graphs : Owner[h] = m /\ g \in From(h)
         /\ \A h \in Graphs : Owner[h] = m => From(h) \subseteq Below[m]
<1>1. Below[m] \subseteq Graphs
  BY DocumentsAssumption
<1>2. ASSUME NEW g \in Below[m] PROVE \E h \in Graphs : Owner[h] = m /\ g \in From(h)
  BY <1>1, TreeAssumption DEF From
<1>3. ASSUME NEW h \in Graphs, Owner[h] = m, NEW g \in From(h) PROVE g \in Below[m]
  <2>1. h \in Below[m]
    BY <1>3, DocumentsAssumption
  <2>2. CASE g = h
    BY <2>1, <2>2
  <2>3. CASE g # h
    <3>1. PICK p \in Nodes : Home[p] = h /\ g \in Below[p]
      BY <2>3 DEF From
    <3>2. QED
      BY <2>1, <3>1, TreeAssumption
  <2>4. QED
    BY <2>2, <2>3
<1>4. QED
  BY <1>2, <1>3

\* What is below a node of graph g is below g.
LEMMA FromNodes ==
  ASSUME NEW g \in Graphs, NEW p \in Nodes, Home[p] = g
  PROVE  Below[p] \subseteq From(g)
BY DocumentsAssumption DEF From

-----------------------------------------------------------------------------
(* The shape of a stack.                                                    *)

\* A frame holds documents of its graph.
FrameAtHome(f) ==
  /\ \A d \in f.ids : Home[d] = f.graph
  /\ \A m \in f.docs : Home[m] = f.graph

\* Node a is the one whose subgraphs frame f is about to visit.
Visits(f, a) ==
  /\ Home[a] = f.graph
  /\ a \notin f.docs
  /\ \A g \in f.colls : Owner[g] = a

\* Graph g is below it, and not below what is still to be visited.
Passed(f, a, g) ==
  /\ g \in Below[a]
  /\ \A h \in f.colls : g \notin From(h)

StackShape(s) ==
  \A i \in 1 .. Len(s) :
    /\ FrameAtHome(s[i])
    /\ i # 1 \/ s[i].colls # {} =>
         \E a \in Nodes : Visits(s[i], a) /\ \A j \in 1 .. i - 1 : Passed(s[i], a, s[j].graph)

\* The frames of t are those of s, but the first lost ids.
LEMMA ShapeCut ==
  ASSUME NEW s \in Seq(Frames), s # << >>, NEW t \in Seq(Frames),
         Len(t) = Len(s), \A i \in 2 .. Len(s) : t[i] = s[i],
         t[1].graph = s[1].graph, t[1].ids \subseteq s[1].ids,
         t[1].docs = s[1].docs, t[1].colls = s[1].colls,
         StackShape(s)
  PROVE  StackShape(t)
<1>1. Len(s) \in Nat \ {0}
  BY TopFrame
<1>2. ASSUME NEW j \in 1 .. Len(s) PROVE t[j].graph = s[j].graph
  BY <1>1
<1>3. ASSUME NEW i \in 1 .. Len(s)
      PROVE  /\ FrameAtHome(t[i])
             /\ i # 1 \/ t[i].colls # {} =>
                  \E a \in Nodes : Visits(t[i], a) /\ \A j \in 1 .. i - 1 : Passed(t[i], a, t[j].graph)
  <2>1. /\ FrameAtHome(s[i])
        /\ i # 1 \/ s[i].colls # {} =>
             \E a \in Nodes : Visits(s[i], a) /\ \A j \in 1 .. i - 1 : Passed(s[i], a, s[j].graph)
    BY DEF StackShape
  <2>2. t[i].graph = s[i].graph /\ t[i].ids \subseteq s[i].ids /\ t[i].docs = s[i].docs /\ t[i].colls = s[i].colls
    BY <1>1
  <2>3. FrameAtHome(t[i])
    BY <2>1, <2>2 DEF FrameAtHome
  <2>4. ASSUME i # 1 \/ t[i].colls # {}
        PROVE  \E a \in Nodes : Visits(t[i], a) /\ \A j \in 1 .. i - 1 : Passed(t[i], a, t[j].graph)
    <3>1. PICK a \in Nodes : Visits(s[i], a) /\ \A j \in 1 .. i - 1 : Passed(s[i], a, s[j].graph)
      BY <2>1, <2>2, <2>4
    <3>2. Visits(t[i], a)
      BY <2>2, <3>1 DEF Visits
    <3>3. ASSUME NEW j \in 1 .. i - 1 PROVE Passed(t[i], a, t[j].graph)
      <4>1. j \in 1 .. Len(s)
        BY <1>1
      <4>2. QED
        BY <1>2, <2>2, <3>1, <4>1 DEF Passed
    <3>4. QED
      BY <3>2, <3>3
  <2>5. QED
    BY <2>3, <2>4
<1>4. QED
  BY <1>3 DEF StackShape

\* ... or the first turned to the subgraphs of one of its nodes.
LEMMA ShapeListed ==
  ASSUME NEW s \in Seq(Frames), s # << >>, NEW t \in Seq(Frames),
         Len(t) = Len(s), \A i \in 2 .. Len(s) : t[i] = s[i],
         NEW m \in s[1].docs, m \in Nodes,
         t[1].graph = s[1].graph, t[1].ids = s[1].ids,
         t[1].docs = s[1].docs \ {m}, \A g \in t[1].colls : Owner[g] = m,
         StackShape(s)
  PROVE  StackShape(t)
<1>1. Len(s) \in Nat \ {0} /\ 1 \in 1 .. Len(s)
  BY TopFrame
<1>2. ASSUME NEW j \in 1 .. Len(s) PROVE t[j].graph = s[j].graph
  BY <1>1
<1>3. FrameAtHome(s[1])
  BY <1>1 DEF StackShape
<1>4. FrameAtHome(t[1]) /\ Visits(t[1], m)
  BY <1>3 DEF FrameAtHome, Visits
<1>5. ASSUME NEW i \in 1 .. Len(s)
      PROVE  /\ FrameAtHome(t[i])
             /\ i # 1 \/ t[i].colls # {} =>
                  \E a \in Nodes : Visits(t[i], a) /\ \A j \in 1 .. i - 1 : Passed(t[i], a, t[j].graph)
  <2>1. CASE i = 1
    BY <1>4, <2>1
  <2>2. CASE i # 1
    <3>1. t[i] = s[i]
      BY <1>1, <2>2
    <3>2. /\ FrameAtHome(s[i])
          /\ \E a \in Nodes : Visits(s[i], a) /\ \A j \in 1 .. i - 1 : Passed(s[i], a, s[j].graph)
      BY <2>2 DEF StackShape
    <3>3. \A j \in 1 .. i - 1 : t[j].graph = s[j].graph
      BY <1>1, <1>2
    <3>4. QED
      BY <3>1, <3>2, <3>3
  <2>3. QED
    BY <2>1, <2>2
<1>6. QED
  BY <1>5 DEF StackShape

\* A frame is pushed for one of the subgraphs of the first.
LEMMA ShapeEntered ==
  ASSUME NEW s \in Seq(Frames), s # << >>, NEW t \in Seq(Frames),
         Len(t) = Len(s) + 1, \A i \in 2 .. Len(s) : t[i + 1] = s[i],
         NEW g \in s[1].colls,
         t[1].graph = g, t[1].colls = {}, FrameAtHome(t[1]),
         t[2].graph = s[1].graph, t[2].ids = s[1].ids, t[2].docs = s[1].docs,
         t[2].colls = s[1].colls \ {g},
         StackShape(s)
  PROVE  StackShape(t)
<1>1. Len(s) \in Nat \ {0} /\ 1 \in 1 .. Len(s) /\ s[1] \in Frames
  BY TopFrame
<1>2. s[1].colls \subseteq Graphs /\ g \in Graphs
  BY <1>1 DEF Frames
<1>3. PICK a \in Nodes : Visits(s[1], a)
  BY <1>1 DEF StackShape
<1>4. FrameAtHome(s[1]) /\ Owner[g] = a /\ Home[a] = s[1].graph
  BY <1>1, <1>3 DEF StackShape, Visits
<1>5. FrameAtHome(t[2]) /\ Visits(t[2], a)
  BY <1>3, <1>4 DEF FrameAtHome, Visits
<1>6. Passed(t[2], a, g)
  <2>1. g \in Below[a]
    BY <1>2, <1>4, DocumentsAssumption
  <2>2. ASSUME NEW h \in t[2].colls PROVE g \notin From(h)
    <3>1. h \in Graphs /\ h # g /\ Owner[h] = a
      BY <1>2, <1>3 DEF Visits
    <3>2. QED
      BY <1>2, <1>4, <3>1, SiblingsApart
  <2>3. QED
    BY <2>1, <2>2 DEF Passed
<1>7. ASSUME NEW j \in 2 .. Len(s) + 1 PROVE t[j].graph = s[j - 1].graph
  <2>1. CASE j = 2
    BY <2>1
  <2>2. CASE j # 2
    <3>1. j - 1 \in 2 .. Len(s) /\ (j - 1) + 1 = j
      BY <1>1, <2>2
    <3>2. QED
      BY <3>1
  <2>3. QED
    BY <2>1, <2>2
<1>8. ASSUME NEW i \in 1 .. Len(t)
      PROVE  /\ FrameAtHome(t[i])
             /\ i # 1 \/ t[i].colls # {} =>
                  \E b \in Nodes : Visits(t[i], b) /\ \A j \in 1 .. i - 1 : Passed(t[i], b, t[j].graph)
  <2>1. CASE i = 1
    BY <2>1
  <2>2. CASE i = 2
    <3>1. ASSUME NEW j \in 1 .. i - 1 PROVE Passed(t[i], a, t[j].graph)
      <4>1. j = 1
        BY <2>2
      <4>2. QED
        BY <1>6, <2>2, <4>1
    <3>2. QED
      BY <1>5, <2>2, <3>1
  <2>3. CASE i # 1 /\ i # 2
    <3> DEFINE k == i - 1
    <3>1. k \in 2 .. Len(s) /\ k \in 1 .. Len(s) /\ k # 1 /\ k + 1 = i
      BY <1>1, <2>3
    <3>2. t[i] = s[k]
      BY <3>1
    <3>3. /\ FrameAtHome(s[k]) /\ s[k] \in Frames
          /\ \E b \in Nodes : Visits(s[k], b) /\ \A j \in 1 .. k - 1 : Passed(s[k], b, s[j].graph)
      BY <3>1 DEF StackShape
    <3>4. PICK b \in Nodes : Visits(s[k], b) /\ \A j \in 1 .. k - 1 : Passed(s[k], b, s[j].graph)
      BY <3>3
    <3>5. Passed(s[k], b, s[1].graph)
      BY <3>1, <3>4
    <3>6. Home[a] \in Below[b] /\ Home[a] \in Graphs
      BY <1>4, <3>5, DocumentsAssumption DEF Passed
    <3>7. g \in Below[b]
      BY <1>2, <1>4, <3>6, DocumentsAssumption
    <3>8. ASSUME NEW h \in s[k].colls PROVE g \notin From(h)
      <4>1. h \in Graphs /\ Owner[h] = b /\ Home[a] \notin From(h)
        BY <1>4, <3>3, <3>4, <3>5 DEF Frames, Visits, Passed
      <4>2. a # b
        BY <3>6, DocumentsAssumption
      <4>3. h # g
        BY <1>4, <4>1, <4>2
      <4>4. QED
        BY <1>2, <1>4, <3>6, <4>1, <4>3, ChildOutside
    <3>9. Passed(s[k], b, g)
      BY <3>7, <3>8 DEF Passed
    <3>10. ASSUME NEW j \in 1 .. i - 1 PROVE Passed(t[i], b, t[j].graph)
      <4>1. CASE j = 1
        BY <3>2, <3>9, <4>1
      <4>2. CASE j # 1
        <5>1. j \in 2 .. Len(s) + 1 /\ j - 1 \in 1 .. k - 1
          BY <1>1, <3>1, <4>2
        <5>2. t[j].graph = s[j - 1].graph
          BY <1>7, <5>1
        <5>3. QED
          BY <3>2, <3>4, <5>1, <5>2
      <4>3. QED
        BY <4>1, <4>2
    <3>11. QED
      BY <3>2, <3>3, <3>4, <3>10
  <2>4. QED
    BY <2>1, <2>2, <2>3
<1>9. QED
  BY <1>8 DEF StackShape

\* The first frame is left.
LEMMA ShapePopped ==
  ASSUME NEW s \in Seq(Frames), s # << >>, StackShape(s)
  PROVE  StackShape(Tail(s))
<1> DEFINE t == Tail(s)
<1>1. /\ Len(s) \in Nat \ {0} /\ Len(t) = Len(s) - 1
      /\ \A i \in 1 .. Len(s) - 1 : t[i] = s[i + 1]
  BY TopFrame, Popped
<1>2. ASSUME NEW i \in 1 .. Len(t)
      PROVE  /\ FrameAtHome(t[i])
             /\ i # 1 \/ t[i].colls # {} =>
                  \E a \in Nodes : Visits(t[i], a) /\ \A j \in 1 .. i - 1 : Passed(t[i], a, t[j].graph)
  <2>1. i + 1 \in 1 .. Len(s) /\ i + 1 # 1 /\ t[i] = s[i + 1]
    BY <1>1
  <2>2. PICK a \in Nodes : /\ Visits(s[i + 1], a)
                           /\ \A j \in 1 .. (i + 1) - 1 : Passed(s[i + 1], a, s[j].graph)
    BY <2>1 DEF StackShape
  <2>3. ASSUME NEW j \in 1 .. i - 1 PROVE Passed(t[i], a, t[j].graph)
    <3>1. j + 1 \in 1 .. (i + 1) - 1 /\ t[j] = s[j + 1]
      BY <1>1
    <3>2. QED
      BY <2>1, <2>2, <3>1
  <2>4. FrameAtHome(t[i])
    BY <2>1 DEF StackShape
  <2>5. QED
    BY <2>1, <2>2, <2>3, <2>4
<1>3. QED
  BY <1>2 DEF StackShape

-----------------------------------------------------------------------------
(* What waits in a stack.  Lemmas about one backend b, one set S of         *)
(* documents that exist, and one stack.                                     *)

\* Document d is in one of the graphs of R, and a walk of R gets there.
Found(b, S, d, R) ==
  /\ Home[d] \in R
  /\ b = "objects" => Home[d] \in Known
  /\ \A m \in Nodes : Home[m] \in R /\ Home[d] \in Below[m] =>
       m \in S /\ (b = "objects" => Home[m] \in Known)

\* Document d is to go by frame f of cascade n, or by one that f leads to.
Waits(b, S, n, d, f, bottom) ==
  \/ b # "objects" /\ d \in f.ids
  \/ \E m \in f.docs : Found(b, S, d, Below[m])
  \/ \E g \in f.colls : Found(b, S, d, From(g))
  \/ b = "objects" /\ (IF bottom THEN d \in {n} \cup Touching[n] ELSE Home[d] = f.graph)

Covered(b, S, n, D, s) ==
  \A d \in D \cap S : \E i \in 1 .. Len(s) : Waits(b, S, n, d, s[i], i = Len(s))

LEMMA FoundWithin ==
  ASSUME NEW b, NEW S, NEW d, NEW R, NEW Q, Q \subseteq R, Home[d] \in Q, Found(b, S, d, R)
  PROVE  Found(b, S, d, Q)
BY DEF Found

\* A document stays found while no node above it goes.
LEMMA WaitsLonger ==
  ASSUME NEW b, NEW S, NEW S2, NEW n, NEW d, NEW f, NEW bottom,
         Waits(b, S, n, d, f, bottom),
         \A m \in Nodes : Home[d] \in Below[m] /\ m \in S => m \in S2
  PROVE  Waits(b, S2, n, d, f, bottom)
<1>1. \A R : Found(b, S, d, R) => Found(b, S2, d, R)
  BY DEF Found
<1>2. QED
  BY <1>1 DEF Waits

\* What somebody else does.
LEMMA CoveredLonger ==
  ASSUME NEW b, NEW S, NEW S2, NEW n, NEW D, NEW E, NEW s,
         Covered(b, S, n, D, s),
         \A d \in E \cap S2 :
           /\ d \in D \cap S
           /\ \A m \in Nodes : Home[d] \in Below[m] /\ m \in S => m \in S2
  PROVE  Covered(b, S2, n, E, s)
<1>1. ASSUME NEW d \in E \cap S2
      PROVE  \E i \in 1 .. Len(s) : Waits(b, S2, n, d, s[i], i = Len(s))
  <2>1. PICK i \in 1 .. Len(s) : Waits(b, S, n, d, s[i], i = Len(s))
    BY <1>1 DEF Covered
  <2>2. Waits(b, S2, n, d, s[i], i = Len(s))
    BY <1>1, <2>1, WaitsLonger
  <2>3. QED
    BY <2>2
<1>2. QED
  BY <1>1 DEF Covered

\* The subgraphs of node m are listed.
LEMMA CoveredListed ==
  ASSUME NEW b \in {"firestore", "objects"}, NEW S \in SUBSET Docs, NEW n, NEW D \in SUBSET Docs,
         NEW s \in Seq(Frames), s # << >>, NEW t \in Seq(Frames),
         Len(t) = Len(s), \A i \in 2 .. Len(s) : t[i] = s[i],
         s[1].colls = {}, NEW m \in s[1].docs, m \in Nodes,
         t[1].graph = s[1].graph, t[1].ids = s[1].ids, t[1].docs = s[1].docs \ {m},
         \A g \in Graphs :
           /\ Owner[g] = m
           /\ IF b = "firestore" THEN \E x \in S : Home[x] = g ELSE g \in Known
           => g \in t[1].colls,
         Covered(b, S, n, D, s)
  PROVE  Covered(b, S, n, D, t)
<1>1. Len(s) \in Nat \ {0} /\ 1 \in 1 .. Len(s)
  BY TopFrame
<1>2. ASSUME NEW d \in D \cap S, Found(b, S, d, Below[m])
      PROVE  \E g \in t[1].colls : Found(b, S, d, From(g))
  <2>1. Home[d] \in Below[m]
    BY <1>2 DEF Found
  <2>2. PICK g \in Graphs : Owner[g] = m /\ Home[d] \in From(g)
    BY <2>1, FromSubgraphs
  <2>3. From(g) \subseteq Below[m]
    BY <2>2, FromSubgraphs
  <2>4. Found(b, S, d, From(g))
    BY <1>2, <2>2, <2>3, FoundWithin
  <2>5. CASE Home[d] = g
    BY <1>2, <2>2, <2>4, <2>5 DEF Found
  <2>6. CASE Home[d] # g
    <3>1. PICK p \in Nodes : Home[p] = g /\ Home[d] \in Below[p]
      BY <2>2, <2>6 DEF From
    <3>2. g \in From(g)
      BY DEF From
    <3>3. p \in S /\ (b = "objects" => g \in Known)
      BY <2>4, <3>1, <3>2 DEF Found
    <3>4. QED
      BY <2>2, <2>4, <3>1, <3>3
  <2>7. QED
    BY <2>5, <2>6
<1>3. ASSUME NEW d \in D \cap S
      PROVE  \E i \in 1 .. Len(t) : Waits(b, S, n, d, t[i], i = Len(t))
  <2>1. PICK i \in 1 .. Len(s) : Waits(b, S, n, d, s[i], i = Len(s))
    BY <1>3 DEF Covered
  <2>2. CASE i = 1
    <3>1. Waits(b, S, n, d, s[1], 1 = Len(s))
      BY <2>1, <2>2
    <3>2. CASE \E p \in s[1].docs : Found(b, S, d, Below[p])
      <4>1. Waits(b, S, n, d, t[1], 1 = Len(t))
        BY <1>2, <3>2 DEF Waits
      <4>2. QED
        BY <1>1, <4>1
    <3>3. CASE ~\E p \in s[1].docs : Found(b, S, d, Below[p])
      <4>1. Waits(b, S, n, d, t[1], 1 = Len(t))
        BY <3>1, <3>3 DEF Waits
      <4>2. QED
        BY <1>1, <4>1
    <3>4. QED
      BY <3>2, <3>3
  <2>3. CASE i # 1
    <3>1. t[i] = s[i]
      BY <1>1, <2>3
    <3>2. QED
      BY <2>1, <3>1
  <2>4. QED
    BY <2>2, <2>3
<1>4. QED
  BY <1>3 DEF Covered

\* Subgraph g is entered.
LEMMA CoveredEntered ==
  ASSUME NEW b \in {"firestore", "objects"}, NEW S \in SUBSET Docs, NEW n, NEW D \in SUBSET Docs,
         NEW s \in Seq(Frames), s # << >>, NEW t \in Seq(Frames),
         Len(t) = Len(s) + 1, \A i \in 2 .. Len(s) : t[i + 1] = s[i],
         NEW g \in s[1].colls, g \in Graphs,
         t[1].graph = g, b = "firestore" => t[1].ids = {x \in S : Home[x] = g},
         t[1].docs = {x \in S : Home[x] = g} \cap Nodes,
         t[2].graph = s[1].graph, t[2].ids = s[1].ids, t[2].docs = s[1].docs,
         t[2].colls = s[1].colls \ {g},
         Covered(b, S, n, D, s)
  PROVE  Covered(b, S, n, D, t)
<1>5. PICK k \in Nat \ {0} : k = Len(s)
  BY TopFrame
<1>6. Len(t) = k + 1
  BY <1>5
<1>1. /\ Len(s) \in Nat \ {0} /\ 1 \in 1 .. Len(s) /\ 1 \in 1 .. Len(t) /\ 2 \in 1 .. Len(t)
      /\ 1 # Len(t) /\ (1 = Len(s) <=> 2 = Len(t))
  <2>1. 1 \in 1 .. k /\ 1 \in 1 .. k + 1 /\ 2 \in 1 .. k + 1 /\ 1 # k + 1 /\ (1 = k <=> 2 = k + 1)
    OBVIOUS
  <2>2. QED
    BY <1>5, <1>6, <2>1, Zenon
<1>2. ASSUME NEW d \in D \cap S, Found(b, S, d, From(g))
      PROVE  Waits(b, S, n, d, t[1], 1 = Len(t))
  <2>1. Home[d] \in From(g)
    BY <1>2 DEF Found
  <2>2. CASE Home[d] = g
    BY <1>1, <1>2, <2>2 DEF Waits
  <2>3. CASE Home[d] # g
    <3>1. PICK p \in Nodes : Home[p] = g /\ Home[d] \in Below[p]
      BY <2>1, <2>3 DEF From
    <3>2. g \in From(g)
      BY DEF From
    <3>3. p \in S
      BY <1>2, <3>1, <3>2 DEF Found
    <3>4. Found(b, S, d, Below[p])
      BY <1>2, <3>1, FromNodes, FoundWithin
    <3>5. p \in t[1].docs
      BY <3>1, <3>3
    <3>6. QED
      BY <3>4, <3>5 DEF Waits
  <2>4. QED
    BY <2>2, <2>3
<1>3. ASSUME NEW d \in D \cap S
      PROVE  \E i \in 1 .. Len(t) : Waits(b, S, n, d, t[i], i = Len(t))
  <2>1. PICK i \in 1 .. Len(s) : Waits(b, S, n, d, s[i], i = Len(s))
    BY <1>3 DEF Covered
  <2>2. CASE i = 1
    <3>1. Waits(b, S, n, d, s[1], 1 = Len(s))
      BY <2>1, <2>2
    <3>2. CASE Found(b, S, d, From(g))
      BY <1>1, <1>2, <3>2
    <3>3. CASE ~Found(b, S, d, From(g))
      <4>1. Waits(b, S, n, d, t[2], 2 = Len(t))
        BY <1>1, <3>1, <3>3 DEF Waits
      <4>2. QED
        BY <1>1, <4>1
    <3>4. QED
      BY <3>2, <3>3
  <2>3. CASE i # 1
    <3>1. t[i + 1] = s[i] /\ i + 1 \in 1 .. Len(t) /\ (i = Len(s) <=> i + 1 = Len(t))
      BY <1>1, <2>3
    <3>2. Waits(b, S, n, d, t[i + 1], i + 1 = Len(t))
      BY <2>1, <3>1 DEF Waits
    <3>3. QED
      BY <3>1, <3>2
  <2>4. QED
    BY <2>2, <2>3
<1>4. QED
  BY <1>3 DEF Covered

\* The outer frames do not look for anything in the graph of the first, so
\* documents C can go there.
LEMMA OuterWaits ==
  ASSUME NEW b, NEW S, NEW C, NEW n, NEW d,
         NEW s \in Seq(Frames), StackShape(s), s # << >>, NEW i \in 2 .. Len(s),
         \A x \in C : Home[x] = s[1].graph,
         NEW bottom, Waits(b, S, n, d, s[i], bottom)
  PROVE  Waits(b, S \ C, n, d, s[i], bottom)
<1>1. Len(s) \in Nat \ {0} /\ i \in 1 .. Len(s) /\ i # 1 /\ 1 \in 1 .. i - 1
  BY TopFrame
<1>2. PICK a \in Nodes : Visits(s[i], a) /\ \A j \in 1 .. i - 1 : Passed(s[i], a, s[j].graph)
  BY <1>1 DEF StackShape
<1>3. FrameAtHome(s[i]) /\ s[i] \in Frames /\ Passed(s[i], a, s[1].graph)
  BY <1>1, <1>2 DEF StackShape
<1>4. ASSUME NEW R, s[1].graph \notin R, Found(b, S, d, R) PROVE Found(b, S \ C, d, R)
  BY <1>4 DEF Found
<1>5. ASSUME NEW m \in s[i].docs PROVE s[1].graph \notin Below[m]
  <2>1. m \in Nodes /\ m # a /\ Home[m] = Home[a]
    BY <1>2, <1>3 DEF Frames, Visits, FrameAtHome
  <2>2. s[1].graph \in Below[a]
    BY <1>3 DEF Passed
  <2>3. QED
    BY <2>1, <2>2, TreeAssumption, DocumentsAssumption
<1>6. \A g \in s[i].colls : s[1].graph \notin From(g)
  BY <1>3 DEF Passed
<1>7. QED
  BY <1>4, <1>5, <1>6 DEF Waits

\* A chunk of the first frame goes.
LEMMA CoveredCut ==
  ASSUME NEW b, NEW S \in SUBSET Docs, NEW n, NEW D \in SUBSET Docs,
         NEW s \in Seq(Frames), s # << >>, StackShape(s), NEW t \in Seq(Frames),
         Len(t) = Len(s), \A i \in 2 .. Len(s) : t[i] = s[i],
         s[1].docs = {}, s[1].colls = {}, NEW C \in SUBSET s[1].ids,
         t[1].ids = s[1].ids \ C, t[1].graph = s[1].graph,
         Covered(b, S, n, D, s)
  PROVE  Covered(b, S \ C, n, D, t)
<1>1. Len(s) \in Nat \ {0} /\ 1 \in 1 .. Len(s)
  BY TopFrame
<1>2. \A x \in C : Home[x] = s[1].graph
  BY <1>1 DEF StackShape, FrameAtHome
<1>3. ASSUME NEW d \in D \cap (S \ C)
      PROVE  \E i \in 1 .. Len(t) : Waits(b, S \ C, n, d, t[i], i = Len(t))
  <2>1. PICK i \in 1 .. Len(s) : Waits(b, S, n, d, s[i], i = Len(s))
    BY <1>3 DEF Covered
  <2>2. CASE i = 1
    <3>1. Waits(b, S \ C, n, d, t[1], 1 = Len(t))
      BY <1>3, <2>1, <2>2 DEF Waits
    <3>2. QED
      BY <1>1, <3>1
  <2>3. CASE i # 1
    <3>1. t[i] = s[i] /\ i \in 2 .. Len(s)
      BY <1>1, <2>3
    <3>2. Waits(b, S \ C, n, d, s[i], i = Len(s))
      BY <1>2, <2>1, <3>1, OuterWaits
    <3>3. QED
      BY <3>1, <3>2
  <2>4. QED
    BY <2>2, <2>3
<1>4. QED
  BY <1>3 DEF Covered

\* The first frame is left: it is done, and documents C of its graph go with it.
LEMMA CoveredPopped ==
  ASSUME NEW b, NEW S \in SUBSET Docs, NEW n, NEW D \in SUBSET Docs,
         NEW s \in Seq(Frames), s # << >>, StackShape(s), Len(s) # 1,
         s[1].docs = {}, s[1].colls = {}, NEW C,
         \A x \in C : Home[x] = s[1].graph,
         b = "objects" => {x \in S : Home[x] = s[1].graph} \subseteq C,
         b # "objects" => s[1].ids = {},
         Covered(b, S, n, D, s)
  PROVE  Covered(b, S \ C, n, D, Tail(s))
<1> DEFINE t == Tail(s)
<1>1. /\ Len(s) \in Nat \ {0} /\ Len(t) = Len(s) - 1
      /\ \A i \in 1 .. Len(s) - 1 : t[i] = s[i + 1]
  BY TopFrame, Popped
<1>2. FrameAtHome(s[1])
  BY <1>1 DEF StackShape
<1>3. ASSUME NEW d \in D \cap (S \ C)
      PROVE  \E i \in 1 .. Len(t) : Waits(b, S \ C, n, d, t[i], i = Len(t))
  <2>1. PICK i \in 1 .. Len(s) : Waits(b, S, n, d, s[i], i = Len(s))
    BY <1>3 DEF Covered
  <2>2. i # 1
    <3>1. SUFFICES ASSUME i = 1 PROVE FALSE
      OBVIOUS
    <3>2. Waits(b, S, n, d, s[1], FALSE)
      BY <2>1, <3>1 DEF Waits
    <3>3. d \in s[1].ids \/ (b = "objects" /\ Home[d] = s[1].graph)
      BY <3>2 DEF Waits
    <3>4. b = "objects" /\ Home[d] = s[1].graph
      BY <1>2, <3>3 DEF FrameAtHome
    <3>5. QED
      BY <1>3, <3>4
  <2>3. i \in 2 .. Len(s) /\ i - 1 \in 1 .. Len(t) /\ t[i - 1] = s[i] /\ (i = Len(s) <=> i - 1 = Len(t))
    BY <1>1, <2>2
  <2>4. Waits(b, S \ C, n, d, s[i], i = Len(s))
    BY <2>1, <2>3, OuterWaits
  <2>5. Waits(b, S \ C, n, d, t[i - 1], i - 1 = Len(t))
    BY <2>3, <2>4 DEF Waits
  <2>6. QED
    BY <2>3, <2>5
<1>4. QED
  BY <1>3 DEF Covered

\* Only the bottom frame is left, and it is done.
LEMMA CoveredDone ==
  ASSUME NEW b, NEW S, NEW n, NEW D, NEW s \in Seq(Frames), Len(s) = 1,
         s[1].docs = {}, s[1].colls = {}, Covered(b, S, n, D, s)
  PROVE  \A d \in D \cap S :
           \/ b # "objects" /\ d \in s[1].ids
           \/ b = "objects" /\ d \in {n} \cup Touching[n]
<1>1. ASSUME NEW d \in D \cap S
      PROVE  (b # "objects" /\ d \in s[1].ids) \/ (b = "objects" /\ d \in {n} \cup Touching[n])
  <2>1. PICK i \in 1 .. Len(s) : Waits(b, S, n, d, s[i], i = Len(s))
    BY <1>1 DEF Covered
  <2>2. i = 1
    BY <2>1
  <2>3. QED
    BY <2>1, <2>2 DEF Waits
<1>2. QED
  BY <1>1

-----------------------------------------------------------------------------
(* What every reachable state shows of a cascade.                           *)

Sight(n) ==
  /\ Running(n) => /\ StackShape(cascade[n].stack)
                   /\ backend = "objects" => ~cascade[n].errors
  /\ Running(n) /\ ~cascade[n].errors =>
       Covered(backend, stored, n, due[n], cascade[n].stack)
  /\ cascade[n].pc = "clean" => due[n] \cap stored = {}

InSight == \A n \in Deleted : Sight(n)

LEMMA KindOfStore == Typed => backend \in {"firestore", "objects"}
BY OptionsAssumption DEF Typed, TypeOK

\* Cascade x rests while somebody else writes, reads, or deletes documents.
LEMMA SightKept ==
  ASSUME Typed, NEW x \in Deleted, Sight(x), cascade'[x] = cascade[x], backend' = backend,
         \A d \in due'[x] \cap stored' :
           /\ d \in due[x] \cap stored
           /\ \A m \in Nodes : Home[d] \in Below[m] /\ m \in stored => m \in stored'
  PROVE  Sight(x)'
<1>1. /\ Running(x)' = Running(x) /\ cascade'[x].errors = cascade[x].errors
      /\ cascade'[x].pc = cascade[x].pc /\ cascade'[x].stack = cascade[x].stack
  BY DEF Running
<1>2. ASSUME Running(x), ~cascade[x].errors
      PROVE  Covered(backend, stored', x, due'[x], cascade[x].stack)
  <2>1. Covered(backend, stored, x, due[x], cascade[x].stack)
    BY <1>2 DEF Sight
  <2>2. QED
    BY <2>1, CoveredLonger
<1>3. cascade[x].pc = "clean" => due'[x] \cap stored' = {}
  BY DEF Sight
<1>4. QED
  BY <1>1, <1>2, <1>3 DEF Sight

LEMMA SightBesideDelete ==
  ASSUME Typed, NEW N, NEW D, Delete(N, D), NEW x \in Deleted, x \notin N, Sight(x),
         cascade'[x] = cascade[x], backend' = backend
  PROVE  Sight(x)'
<1>1. stored' = stored \ D /\ due'[x] = due[x] \ Beneath(D \cap stored)
  BY DEF Delete
<1>2. due[x] \subseteq Docs
  BY DEF Typed, TypeOK
<1>3. ASSUME NEW d \in due'[x] \cap stored', NEW m \in Nodes, Home[d] \in Below[m], m \in stored
      PROVE  m \in stored'
  BY <1>1, <1>2, <1>3 DEF Beneath
<1>4. \A d \in due'[x] \cap stored' : d \in due[x] \cap stored
  BY <1>1
<1>5. QED
  BY <1>3, <1>4, SightKept

\* A step of cascade n: what it makes of itself, and of nobody else.
LEMMA OthersSee ==
  ASSUME Typed, InSight, NEW n \in Deleted, backend' = backend,
         \A x \in Deleted \ {n} : cascade'[x] = cascade[x],
         \/ \E D : Delete({n}, D)
         \/ stored' = stored /\ \A x \in Deleted \ {n} : due'[x] = due[x],
         Sight(n)'
  PROVE  InSight'
<1>1. ASSUME NEW x \in Deleted, x # n PROVE Sight(x)'
  <2>1. Sight(x) /\ cascade'[x] = cascade[x] /\ x \notin {n}
    BY <1>1 DEF InSight
  <2>2. CASE \E D : Delete({n}, D)
    BY <2>1, <2>2, SightBesideDelete
  <2>3. CASE stored' = stored /\ \A y \in Deleted \ {n} : due'[y] = due[y]
    BY <1>1, <2>1, <2>3, SightKept
  <2>4. QED
    BY <2>2, <2>3
<1>2. ASSUME NEW x \in Deleted PROVE Sight(x)'
  BY <1>1
<1>3. QED
  BY <1>2 DEF InSight

\* A cascade that begins: Reach is what its one frame leads to.
LEMMA BegunSight ==
  ASSUME Typed, NEW n \in Deleted, NEW deep \in BOOLEAN, Begin(n, deep),
         stored' = stored, backend' = backend
  PROVE  Sight(n)'
<1> DEFINE f == Frame(Home[n], OwnIds(n), Walk(n, deep))
           s == cascade'[n].stack
<1>1. /\ cascade'[n].pc = "running" /\ ~cascade'[n].errors /\ due'[n] = Reach(n, deep)
      /\ Len(s) = 1 /\ s[1] = f
  BY BeginStep
<1>2. /\ f.graph = Home[n] /\ f.ids = OwnIds(n) /\ f.docs = Walk(n, deep) /\ f.colls = {}
      /\ n \in Nodes
  BY OptionsAssumption DEF Frame
<1>3. \A e \in Touching[n] : Home[e] = Home[n]
  BY <1>2, DocumentsAssumption
<1>4. FrameAtHome(f)
  BY <1>2, <1>3 DEF FrameAtHome, OwnIds, Walk
<1>5. StackShape(s)
  BY <1>1, <1>2, <1>4 DEF StackShape
<1>6. ASSUME NEW d \in Reach(n, deep) PROVE Waits(backend, stored, n, d, f, TRUE)
  <2>1. CASE d = n \/ d \in Touching[n]
    <3>1. backend = "firestore" => d \in f.ids
      BY <1>2, <1>6, <2>1 DEF OwnIds, Reach
    <3>2. QED
      BY <2>1, <3>1, KindOfStore DEF Waits
  <2>2. CASE ~(d = n \/ d \in Touching[n])
    <3>1. deep /\ Findable(n, Home[d])
      BY <1>6, <2>2 DEF Reach
    <3>2. n \in f.docs
      BY <1>2, <3>1, KindOfStore DEF Findable, Walk
    <3>3. Found(backend, stored, d, Below[n])
      BY <3>1 DEF Findable, OnTheWay, Found
    <3>4. QED
      BY <3>2, <3>3 DEF Waits
  <2>3. QED
    BY <2>1, <2>2
<1>7. Covered(backend, stored, n, Reach(n, deep), s)
  <2>1. ASSUME NEW d \in Reach(n, deep)
        PROVE  \E i \in 1 .. Len(s) : Waits(backend, stored, n, d, s[i], i = Len(s))
    <3>1. Waits(backend, stored, n, d, s[1], 1 = Len(s))
      BY <1>1, <1>6, <2>1 DEF Waits
    <3>2. QED
      BY <1>1, <3>1
  <2>2. QED
    BY <2>1 DEF Covered
<1>8. QED
  BY <1>1, <1>5, <1>7 DEF Sight, Running

\* A running cascade that moves on.
LEMMA MovedSight ==
  ASSUME NEW n \in Deleted, NEW s, cascade'[n].stack = s, cascade'[n].pc = "running",
         StackShape(s), backend' = backend,
         backend = "objects" => ~cascade'[n].errors,
         ~cascade'[n].errors => Covered(backend, stored', n, due'[n], s)
  PROVE  Sight(n)'
BY DEF Sight, Running

\* ... or has come to an end that is not clean.
LEMMA EndedSight ==
  ASSUME NEW n \in Deleted, cascade'[n].pc \in {"errors", "rejected"}
  PROVE  Sight(n)'
BY DEF Sight, Running

LEMMA OwnDelete ==
  ASSUME NEW n \in Deleted, NEW D, Delete({n}, D)
  PROVE  stored' = stored \ D /\ due'[n] = due[n]
BY DEF Delete

LEMMA InSightStep == Typed /\ InSight /\ [Next]_vars => InSight'
<1> SUFFICES ASSUME Typed, InSight, [Next]_vars PROVE InSight'
  OBVIOUS
<1>1. /\ backend' = backend /\ backend \in {"firestore", "objects"}
      /\ stored \in SUBSET Docs /\ \A n \in Deleted : due[n] \in SUBSET Docs
  BY BackendStays, KindOfStore DEF Typed, TypeOK
<1>2. ASSUME NEW n \in Deleted, Running(n)
      PROVE  /\ cascade[n].stack \in Seq(Frames) /\ cascade[n].stack # << >>
             /\ Top(n) = cascade[n].stack[1] /\ Top(n) \in Frames
             /\ cascade[n].pc = "running"
             /\ StackShape(cascade[n].stack)
             /\ backend = "objects" => ~cascade[n].errors
             /\ ~cascade[n].errors =>
                  Covered(backend, stored, n, due[n], cascade[n].stack)
  BY <1>2, TopTyped DEF InSight, Sight, Running
<1>3. ASSUME NEW n \in Deleted, First(n) \/ Retry(n) PROVE InSight'
  <2>1. stored' = stored /\ \E deep \in BOOLEAN : Begin(n, deep)
    BY <1>3, OptionsAssumption DEF First, Retry, Typed, TypeOK, Cascades
  <2>2. PICK deep \in BOOLEAN : Begin(n, deep)
    BY <2>1
  <2>3. \A x \in Deleted \ {n} : cascade'[x] = cascade[x] /\ due'[x] = due[x]
    BY <2>2, BeginStep
  <2>4. Sight(n)'
    BY <1>1, <2>1, <2>2, BegunSight
  <2>5. QED
    BY <1>1, <2>1, <2>3, <2>4, OthersSee
<1>4. ASSUME NEW n \in Deleted, List(n) PROVE InSight'
  <2>1. PICK m \in Top(n).docs :
          Stack(n, WithTop(n, [Top(n) EXCEPT !.docs = @ \ {m}, !.colls = Subgraphs(m)]))
    BY <1>4 DEF List
  <2> DEFINE f == [Top(n) EXCEPT !.docs = @ \ {m}, !.colls = Subgraphs(m)]
             s == cascade[n].stack
             t == WithTop(n, f)
  <2>2. Running(n) /\ Top(n).colls = {} /\ UNCHANGED <<stored, due>>
    BY <1>4 DEF List
  <2>3. m \in Nodes /\ f \in Frames
    BY <2>1, <2>2, FramesTyped
  <2>4. /\ f.graph = Top(n).graph /\ f.ids = Top(n).ids
        /\ f.docs = Top(n).docs \ {m} /\ f.colls = Subgraphs(m)
    BY <1>2, <2>2 DEF Frames
  <2>5. /\ t \in Seq(Frames) /\ t # << >> /\ Len(t) = Len(s) /\ t[1] = f
        /\ \A i \in 2 .. Len(s) : t[i] = s[i]
    BY <2>2, <2>3, WithTopFrames
  <2>6. /\ cascade'[n].stack = t /\ cascade'[n].pc = "running"
        /\ cascade'[n].errors = cascade[n].errors
        /\ \A x \in Deleted \ {n} : cascade'[x] = cascade[x]
    BY <1>2, <2>1, <2>2, <2>5, StackStep
  <2>7. \A g \in t[1].colls : Owner[g] = m
    BY <2>4, <2>5 DEF Subgraphs
  <2>13. /\ s \in Seq(Frames) /\ s # << >> /\ s[1].colls = {}
         /\ m \in s[1].docs /\ t[1].graph = s[1].graph /\ t[1].ids = s[1].ids
         /\ t[1].docs = s[1].docs \ {m}
    BY <1>2, <2>1, <2>2, <2>4, <2>5
  <2>8. StackShape(t)
    <3> HIDE DEF t
    <3>1. StackShape(s)
      BY <1>2, <2>2
    <3>2. QED
      BY <2>3, <2>5, <2>7, <2>13, <3>1, ShapeListed
  <2>9. \A g \in Graphs :
          /\ Owner[g] = m
          /\ IF backend = "firestore" THEN \E x \in stored : Home[x] = g ELSE g \in Known
          => g \in t[1].colls
    BY <2>4, <2>5 DEF Subgraphs, In
  <2>10. ~cascade[n].errors => Covered(backend, stored, n, due[n], t)
    <3> HIDE DEF t
    <3>1. ~cascade[n].errors => Covered(backend, stored, n, due[n], s)
      BY <1>2, <2>2
    <3>2. QED
      BY <1>1, <2>3, <2>5, <2>9, <2>13, <3>1, CoveredListed
  <2>11. Sight(n)'
    BY <1>1, <1>2, <2>2, <2>6, <2>8, <2>10, MovedSight
  <2>12. QED
    BY <1>1, <2>2, <2>6, <2>11, OthersSee
<1>5. ASSUME NEW n \in Deleted, Descend(n) PROVE InSight'
  <2>1. PICK g \in Top(n).colls : Enter(n, g)
    BY <1>5 DEF Descend
  <2> DEFINE e == [Top(n) EXCEPT !.colls = @ \ {g}]
             f == Frame(g, Ids(g), Parents(g))
             s == cascade[n].stack
             w == WithTop(n, e)
             t == <<f>> \o w
  <2>2. Running(n) /\ UNCHANGED <<stored, due>>
    BY <1>5 DEF Descend
  <2>3. g \in Graphs /\ e \in Frames /\ f \in Frames
    BY <2>1, <2>2, FramesTyped
  <2>4. /\ e.graph = Top(n).graph /\ e.ids = Top(n).ids
        /\ e.docs = Top(n).docs /\ e.colls = Top(n).colls \ {g}
    BY <1>2, <2>2 DEF Frames
  <2>5. /\ w \in Seq(Frames) /\ Len(w) = Len(s) /\ w[1] = e
        /\ \A i \in 2 .. Len(s) : w[i] = s[i]
    BY <2>2, <2>3, WithTopFrames
  <2>6. /\ t \in Seq(Frames) /\ t # << >> /\ Len(t) = Len(w) + 1 /\ t[1] = f
        /\ \A i \in 2 .. Len(w) + 1 : t[i] = w[i - 1]
    BY <2>3, <2>5, Pushed
  <2>7. PICK k \in Nat \ {0} : k = Len(s)
    BY <1>2, <2>2, TopFrame
  <2>8. Len(t) = Len(s) + 1 /\ t[2] = e /\ \A i \in 2 .. Len(s) : t[i + 1] = s[i]
    <3>1. 2 \in 2 .. k + 1 /\ 2 - 1 = 1
      OBVIOUS
    <3>2. \A i \in 2 .. k : i + 1 \in 2 .. k + 1 /\ (i + 1) - 1 = i
      OBVIOUS
    <3>3. \A i \in 2 .. k + 1 : t[i] = w[i - 1]
      BY <2>5, <2>6, <2>7, Zenon
    <3>4. t[2] = e
      BY <2>5, <3>1, <3>3
    <3>5. ASSUME NEW i \in 2 .. k PROVE t[i + 1] = s[i]
      <4>1. t[i + 1] = w[(i + 1) - 1]
        BY <3>2, <3>3
      <4>2. t[i + 1] = w[i]
        BY <3>2, <4>1
      <4>3. QED
        BY <2>5, <2>7, <4>2, Zenon
    <3>6. QED
      BY <2>5, <2>6, <2>7, <3>4, <3>5, Zenon
  <2>9. /\ cascade'[n].stack = t /\ cascade'[n].pc = "running"
        /\ cascade'[n].errors = cascade[n].errors
        /\ \A x \in Deleted \ {n} : cascade'[x] = cascade[x]
    BY <1>2, <2>1, <2>2, <2>6, StackStep DEF Enter
  <2>10. /\ f.graph = g /\ f.colls = {} /\ f.ids = Ids(g)
         /\ f.docs = {x \in stored : Home[x] = g} \cap Nodes
         /\ backend = "firestore" => f.ids = {x \in stored : Home[x] = g}
    BY DEF Frame, Ids, Parents, In
  <2>11. FrameAtHome(f)
    <3>1. f.ids \subseteq {x \in stored : Home[x] = g}
      BY <2>10 DEF Ids, In
    <3>2. QED
      BY <2>10, <3>1 DEF FrameAtHome
  <2>16. /\ s \in Seq(Frames) /\ s # << >> /\ g \in s[1].colls
         /\ t[1].graph = g /\ t[1].colls = {} /\ FrameAtHome(t[1])
         /\ t[2].graph = s[1].graph /\ t[2].ids = s[1].ids /\ t[2].docs = s[1].docs
         /\ t[2].colls = s[1].colls \ {g}
    BY <1>2, <2>1, <2>2, <2>4, <2>6, <2>8, <2>10, <2>11
  <2>12. StackShape(t)
    <3>1. StackShape(s)
      BY <1>2, <2>2
    <3>2. t \in Seq(Frames)
      BY <2>6
    <3> HIDE DEF e, f, w, t
    <3>3. QED
      BY <2>3, <2>8, <2>16, <3>1, <3>2, ShapeEntered
  <2>13. ~cascade[n].errors => Covered(backend, stored, n, due[n], t)
    <3>1. ~cascade[n].errors => Covered(backend, stored, n, due[n], s)
      BY <1>2, <2>2
    <3>2. /\ backend = "firestore" => t[1].ids = {x \in stored : Home[x] = g}
          /\ t[1].docs = {x \in stored : Home[x] = g} \cap Nodes
      BY <2>6, <2>10
    <3>3. /\ t \in Seq(Frames) /\ due[n] \in SUBSET Docs
          /\ backend \in {"firestore", "objects"} /\ stored \in SUBSET Docs
      BY <1>1, <2>6
    <3>4. Len(t) = Len(s) + 1 /\ \A i \in 2 .. Len(s) : t[i + 1] = s[i]
      BY <2>8
    <3> HIDE DEF e, f, s, w, t
    <3>5. ASSUME Covered(backend, stored, n, due[n], s)
          PROVE  Covered(backend, stored, n, due[n], t)
      BY <2>3, <2>16, <3>2, <3>3, <3>4, <3>5, CoveredEntered
    <3>6. QED
      BY <3>1, <3>5
  <2>14. Sight(n)'
    BY <1>1, <1>2, <2>2, <2>9, <2>12, <2>13, MovedSight
  <2>15. QED
    BY <1>1, <2>2, <2>9, <2>14, OthersSee
\* What a chunk leaves.
<1>6. ASSUME NEW n \in Deleted, Running(n), NEW C
      PROVE  /\ CutChunk(n, C) \in Seq(Frames) /\ CutChunk(n, C) # << >>
             /\ Len(CutChunk(n, C)) = Len(cascade[n].stack)
             /\ \A i \in 2 .. Len(cascade[n].stack) : CutChunk(n, C)[i] = cascade[n].stack[i]
             /\ CutChunk(n, C)[1].graph = cascade[n].stack[1].graph
             /\ CutChunk(n, C)[1].ids = cascade[n].stack[1].ids \ C
             /\ CutChunk(n, C)[1].docs = cascade[n].stack[1].docs
             /\ CutChunk(n, C)[1].colls = cascade[n].stack[1].colls
             /\ StackShape(CutChunk(n, C))
  <2> DEFINE f == [Top(n) EXCEPT !.ids = @ \ C]
             s == cascade[n].stack
             t == CutChunk(n, C)
  <2>1. f \in Frames
    BY <1>6, FramesTyped
  <2>2. /\ f.graph = Top(n).graph /\ f.ids = Top(n).ids \ C
        /\ f.docs = Top(n).docs /\ f.colls = Top(n).colls
    BY <1>2, <1>6 DEF Frames
  <2>3. /\ t \in Seq(Frames) /\ t # << >> /\ Len(t) = Len(s) /\ t[1] = f
        /\ \A i \in 2 .. Len(s) : t[i] = s[i]
    BY <1>6, <2>1, WithTopFrames DEF CutChunk
  <2>4. StackShape(t)
    BY <1>2, <1>6, <2>2, <2>3, ShapeCut
  <2>5. QED
    BY <1>2, <1>6, <2>2, <2>3, <2>4
<1>7. ASSUME NEW n \in Deleted, Commit(n) PROVE InSight'
  <2>1. PICK C \in SUBSET Top(n).ids : Delete({n}, C) /\ Stack(n, CutChunk(n, C))
    BY <1>7 DEF Commit
  <2> DEFINE s == cascade[n].stack
             t == CutChunk(n, C)
  <2>2. Running(n) /\ Top(n).docs = {} /\ Top(n).colls = {}
    BY <1>7 DEF Commit, Visited
  <2>3. /\ cascade'[n].stack = t /\ cascade'[n].pc = "running"
        /\ cascade'[n].errors = cascade[n].errors
        /\ \A x \in Deleted \ {n} : cascade'[x] = cascade[x]
    <3>1. t \in Seq(Frames) /\ t # << >> /\ cascade[n].pc = "running"
      BY <1>2, <1>6, <2>2
    <3>2. QED
      BY <2>1, <3>1, StackStep
  <2>4. ~cascade[n].errors => Covered(backend, stored \ C, n, due[n], t)
    <3>1. /\ s \in Seq(Frames) /\ s # << >> /\ StackShape(s)
          /\ s[1].docs = {} /\ s[1].colls = {} /\ C \in SUBSET s[1].ids
          /\ ~cascade[n].errors => Covered(backend, stored, n, due[n], s)
      BY <1>2, <2>1, <2>2
    <3>2. /\ t \in Seq(Frames) /\ Len(t) = Len(s) /\ \A i \in 2 .. Len(s) : t[i] = s[i]
          /\ t[1].ids = s[1].ids \ C /\ t[1].graph = s[1].graph
      BY <1>6, <2>2
    <3> HIDE DEF t
    <3>3. QED
      BY <1>1, <3>1, <3>2, CoveredCut
  <2>5. stored' = stored \ C /\ due'[n] = due[n]
    BY <2>1, OwnDelete
  <2>6. Sight(n)'
    <3>1. StackShape(t) /\ (backend = "objects" => ~cascade[n].errors)
      BY <1>2, <1>6, <2>2
    <3> HIDE DEF t
    <3>2. QED
      BY <1>1, <2>3, <2>4, <2>5, <3>1, MovedSight
  <2>7. QED
    BY <1>1, <2>1, <2>3, <2>6, OthersSee
<1>8. ASSUME NEW n \in Deleted, ChunkFails(n) PROVE InSight'
  <2>1. PICK C \in SUBSET Top(n).ids :
          /\ Delete({n}, C) \/ UNCHANGED <<stored, due, promised>>
          /\ cascade' = [cascade EXCEPT ![n].stack = CutChunk(n, C), ![n].errors = TRUE,
                                        ![n].nodeKept = KeepsNode(n, C)]
    BY <1>8 DEF ChunkFails
  <2>2. Running(n) /\ backend = "firestore" /\ KeepsNode(n, C) \in BOOLEAN
    BY <1>8 DEF ChunkFails, Visited, KeepsNode, AtRoot
  <2>3. /\ cascade'[n].stack = CutChunk(n, C) /\ cascade'[n].pc = "running"
        /\ cascade'[n].errors
        /\ \A x \in Deleted \ {n} : cascade'[x] = cascade[x]
    BY <1>2, <2>1, <2>2, ChunkFailsStep
  <2>4. Sight(n)'
    BY <1>1, <1>6, <2>2, <2>3, MovedSight
  <2>5. QED
    BY <1>1, <2>1, <2>3, <2>4, OthersSee
<1>9. ASSUME NEW n \in Deleted, Ascend(n) \/ Destroy(n) PROVE InSight'
  <2> DEFINE s == cascade[n].stack
             C == IF backend = "objects" THEN In(Top(n).graph) ELSE {}
  <2>1. /\ Running(n) /\ ~AtRoot(n) /\ Top(n).docs = {} /\ Top(n).colls = {}
        /\ Stack(n, Outer(n))
    BY <1>9 DEF Ascend, Destroy, Visited
  <2>2. backend # "objects" => Top(n).ids = {} /\ UNCHANGED <<stored, due>>
    BY <1>9 DEF Ascend, Destroy
  <2>3. backend = "objects" => Delete({n}, C)
    BY <1>9 DEF Ascend, Destroy
  <2>4. stored' = stored \ C /\ due'[n] = due[n]
    BY <2>2, <2>3, OwnDelete
  <2>5. Outer(n) = Tail(s) /\ Outer(n) \in Seq(Frames) /\ Outer(n) # << >> /\ Len(s) # 1
    BY <1>2, <2>1, Popped DEF AtRoot, Outer
  <2>6. /\ cascade'[n].stack = Outer(n) /\ cascade'[n].pc = "running"
        /\ cascade'[n].errors = cascade[n].errors
        /\ \A x \in Deleted \ {n} : cascade'[x] = cascade[x]
    BY <1>2, <2>1, <2>5, StackStep
  <2>7. StackShape(Outer(n))
    BY <1>2, <2>1, <2>5, ShapePopped
  <2>8. /\ \A x \in C : Home[x] = s[1].graph
        /\ backend = "objects" => {x \in stored : Home[x] = s[1].graph} \subseteq C
    BY <1>2, <2>1 DEF In
  <2>9. ~cascade[n].errors => Covered(backend, stored \ C, n, due[n], Outer(n))
    <3>1. /\ s \in Seq(Frames) /\ s # << >> /\ StackShape(s) /\ Len(s) # 1
          /\ s[1].docs = {} /\ s[1].colls = {} /\ (backend # "objects" => s[1].ids = {})
          /\ ~cascade[n].errors => Covered(backend, stored, n, due[n], s)
      BY <1>2, <2>1, <2>2, <2>5
    <3>2. Outer(n) = Tail(s)
      BY DEF Outer
    <3> HIDE DEF C, s
    <3>3. ~cascade[n].errors => Covered(backend, stored \ C, n, due[n], Tail(s))
      BY <1>1, <2>8, <3>1, CoveredPopped
    <3>4. QED
      BY <3>2, <3>3
  <2>10. Sight(n)'
    <3> HIDE DEF C
    <3>1. QED
      BY <1>1, <1>2, <2>1, <2>4, <2>6, <2>7, <2>9, MovedSight
  <2>11. (\E D : Delete({n}, D)) \/ UNCHANGED <<stored, due>>
    BY <2>2, <2>3
  <2>12. QED
    BY <1>1, <2>6, <2>10, <2>11, OthersSee
<1>10. ASSUME NEW n \in Deleted, Resolve(n) PROVE InSight'
  <2>1. /\ backend = "firestore" /\ Running(n) /\ AtRoot(n) /\ Top(n).ids = {}
        /\ Top(n).docs = {} /\ Top(n).colls = {} /\ UNCHANGED <<stored, due>>
        /\ Verdict(n) \in {"clean", "errors"} /\ Goto(n, Verdict(n))
    BY <1>10 DEF Resolve, Visited, Verdict
  <2>2. /\ cascade'[n].pc = Verdict(n)
        /\ \A x \in Deleted \ {n} : cascade'[x] = cascade[x]
    BY <2>1, GotoStep
  <2>3. ~cascade[n].errors => due[n] \cap stored = {}
    BY <1>2, <2>1, CoveredDone DEF AtRoot
  <2>4. Verdict(n) = "clean" => due'[n] \cap stored' = {}
    BY <2>1, <2>3 DEF Verdict
  <2>5. Sight(n)'
    BY <2>1, <2>2, <2>4 DEF Sight, Running
  <2>6. QED
    BY <1>1, <2>1, <2>2, <2>5, OthersSee
<1>11. ASSUME NEW n \in Deleted, RemoveLocally(n) PROVE InSight'
  <2>1. /\ backend = "objects" /\ Running(n) /\ AtRoot(n)
        /\ Top(n).docs = {} /\ Top(n).colls = {}
        /\ Delete({n}, {n} \cup Touching[n]) /\ Goto(n, "clean")
    BY <1>11 DEF RemoveLocally, Visited
  <2>2. /\ cascade'[n].pc = "clean"
        /\ \A x \in Deleted \ {n} : cascade'[x] = cascade[x]
    BY <2>1, GotoStep
  <2>3. due[n] \cap stored \subseteq {n} \cup Touching[n]
    BY <1>2, <2>1, CoveredDone DEF AtRoot
  <2>4. due'[n] \cap stored' = {}
    BY <2>1, <2>3, OwnDelete
  <2>5. Sight(n)'
    BY <2>2, <2>4 DEF Sight, Running
  <2>6. QED
    BY <1>1, <2>1, <2>2, <2>5, OthersSee
<1>12. ASSUME NEW n \in Deleted, ReadFails(n) \/ CallFails(n) PROVE InSight'
  <2>1. Goto(n, "rejected")
    BY <1>12 DEF ReadFails, CallFails
  <2>2. /\ cascade'[n].pc = "rejected"
        /\ \A x \in Deleted \ {n} : cascade'[x] = cascade[x]
    BY <2>1, GotoStep
  <2>3. (\E D : Delete({n}, D)) \/ UNCHANGED <<stored, due>>
    BY <1>12 DEF ReadFails, CallFails
  <2>4. QED
    BY <1>1, <2>2, <2>3, EndedSight, OthersSee
<1>13. ASSUME NEW n \in Deleted, LocalError(n) PROVE InSight'
  <2>1. /\ cascade' = [cascade EXCEPT ![n].pc = "errors", ![n].stack = << >>,
                                      ![n].errors = TRUE, ![n].nodeKept = TRUE]
        /\ UNCHANGED <<stored, due>>
    BY <1>13 DEF LocalError
  <2>2. cascade \in [Deleted -> Cascades] /\ cascade[n] \in Cascades
    BY DEF Typed, TypeOK
  <2>3. cascade'[n] = [cascade[n] EXCEPT !.pc = "errors", !.stack = << >>,
                                         !.errors = TRUE, !.nodeKept = TRUE]
    BY <2>1, <2>2
  <2>4. cascade'[n].pc = "errors" /\ \A x \in Deleted \ {n} : cascade'[x] = cascade[x]
    BY <2>1, <2>2, <2>3 DEF Cascades
  <2>5. QED
    BY <1>1, <2>1, <2>4, EndedSight, OthersSee
<1>14. ASSUME NEW d \in Docs, Put(d) PROVE InSight'
  <2>1. /\ stored' = stored \cup {d} /\ cascade' = cascade
        /\ \A x \in Deleted : due'[x] = due[x] \ {d}
    BY <1>14 DEF Put
  <2>2. ASSUME NEW x \in Deleted PROVE Sight(x)'
    BY <1>1, <2>1, SightKept DEF InSight
  <2>3. QED
    BY <2>2 DEF InSight
<1>15. ASSUME NEW d \in Docs, Remove(d) PROVE InSight'
  <2>1. Delete({}, {d}) /\ cascade' = cascade
    BY <1>15 DEF Remove
  <2>2. ASSUME NEW x \in Deleted PROVE Sight(x)'
    BY <1>1, <2>1, SightBesideDelete DEF InSight
  <2>3. QED
    BY <2>2 DEF InSight
<1>16. CASE UNCHANGED vars
  <2>1. ASSUME NEW x \in Deleted PROVE Sight(x)'
    BY <1>1, <1>16, SightKept DEF InSight, vars
  <2>2. QED
    BY <2>1 DEF InSight
<1>17. QED
  BY <1>3, <1>4, <1>5, <1>7, <1>8, <1>9, <1>10, <1>11, <1>12, <1>13, <1>14, <1>15, <1>16
     DEF Next, Proceed

LEMMA InSightInit == Init => InSight
BY DEF Init, InSight, Sight, Running, Idle

\* For any tree of graphs, any chunk size, any failures, writers and other
\* cascades: a cascade that resolves without errors has removed the node, its
\* edges and every document below it that it could find when it began.
THEOREM CleanTheorem == Spec => []CleanRemovesAll
<1>1. Init => Typed /\ InSight
  BY TypedInit, InSightInit
<1>2. Typed /\ InSight /\ [Next]_vars => (Typed /\ InSight)'
  BY TypedStep, InSightStep
<1>3. InSight => CleanRemovesAll
  BY DEF InSight, Sight, CleanRemovesAll
<1>4. QED
  BY <1>1, <1>2, <1>3, PTL DEF Spec

-----------------------------------------------------------------------------
(* The contract of removeNodeCascade.                                       *)

LEMMA OwnIsMine ==
  ASSUME NEW n \in Deleted, NEW deep \in BOOLEAN
  PROVE  /\ Own(n, deep) = Contract!Mine(n, deep)
         /\ {n} \cup Touching[n] \subseteq Own(n, deep)
         /\ [x \in Deleted |-> {x} \cup Touching[x]][n] = {n} \cup Touching[n]
<1>1. n \in Nodes /\ n \in Docs /\ Touching[n] \subseteq Docs
  BY DocumentsAssumption, OptionsAssumption DEF Docs
<1>2. /\ [x \in Deleted |-> {x} \cup Touching[x]][n] = {n} \cup Touching[n]
      /\ [d \in Docs |-> Beneath({d})][n] = Beneath({n})
  BY <1>1
<1>3. Beneath({n}) = {d \in Docs : Home[d] \in Below[n]}
  BY <1>1 DEF Beneath
<1>4. Contract!Mine(n, deep) = ({n} \cup Touching[n]) \cup IF deep THEN Beneath({n}) ELSE {}
  BY <1>2 DEF Contract!Mine
<1>5. QED
  BY <1>1, <1>2, <1>3, <1>4 DEF Own

LEMMA BeneathEach ==
  ASSUME NEW S, S \subseteq Docs
  PROVE  Beneath(S) = UNION {[y \in Docs |-> Beneath({y})][d] : d \in S}
<1>1. ASSUME NEW x \in Beneath(S)
      PROVE  x \in UNION {[y \in Docs |-> Beneath({y})][d] : d \in S}
  <2>1. PICK m \in S \cap Nodes : x \in Docs /\ Home[x] \in Below[m]
    BY DEF Beneath
  <2>2. x \in Beneath({m}) /\ m \in Docs
    BY <2>1 DEF Beneath
  <2>3. QED
    BY <2>1, <2>2
<1>2. ASSUME NEW d \in S, NEW x \in [y \in Docs |-> Beneath({y})][d] PROVE x \in Beneath(S)
  <2>1. x \in Beneath({d})
    BY <1>2
  <2>2. QED
    BY <2>1 DEF Beneath
<1>3. QED
  BY <1>1, <1>2

LEMMA GoneStep ==
  ASSUME Typed, NEW N, NEW D, Delete(N, D)
  PROVE  Contract!Gone(D, N)
<1>1. D \cap stored \subseteq Docs
  BY DEF Typed, TypeOK
<1>2. Beneath(D \cap stored) = UNION {[y \in Docs |-> Beneath({y})][d] : d \in D \cap stored}
  BY <1>1, BeneathEach
<1>3. QED
  BY <1>2 DEF Delete, Contract!Gone

LEMMA GoneNothing ==
  ASSUME Typed, NEW N, UNCHANGED <<stored, due>>
  PROVE  Contract!Gone({}, N)
<1>1. UNION {[y \in Docs |-> Beneath({y})][d] : d \in {} \cap stored} = {}
  OBVIOUS
<1>2. due \in [Deleted -> SUBSET Docs]
  BY DEF Typed, TypeOK
<1>3. due' = [x \in Deleted |-> IF x \in N THEN due[x] ELSE due[x] \ {}]
  BY <1>2
<1>4. QED
  BY <1>1, <1>3 DEF Contract!Gone

LEMMA WorkStep ==
  ASSUME Typed, NEW n \in Deleted, Running(n),
         \A x \in Deleted \ {n} : cascade'[x] = cascade[x],
         cascade'[n].pc \in {"running", "clean", "errors", "rejected"},
         cascade'[n].deep = cascade[n].deep,
         NEW D \in SUBSET Own(n, cascade[n].deep), Contract!Gone(D, {n}),
         cascade'[n].pc = "clean" => due[n] \cap stored' = {}
  PROVE  Contract!Work(n)
<1> DEFINE status == [x \in Deleted |-> cascade[x].pc]
           deep == [x \in Deleted |-> cascade[x].deep]
<1>1. status[n] = "running" /\ deep[n] = cascade[n].deep
  BY DEF Running
<1>2. cascade[n].deep \in BOOLEAN
  BY DEF Typed, TypeOK, Cascades
<1>3. D \in SUBSET Contract!Mine(n, deep[n])
  BY <1>1, <1>2, OwnIsMine
<1>4. status' = [status EXCEPT ![n] = cascade'[n].pc]
  OBVIOUS
<1>5. deep' = deep
  OBVIOUS
<1>6. QED
  BY <1>1, <1>3, <1>4, <1>5 DEF Contract!Work

LEMMA CallStep ==
  ASSUME Typed, NEW n \in Deleted, NEW isDeep \in BOOLEAN, Begin(n, isDeep),
         stored' = stored, cascade[n].pc \in {"idle", "errors", "rejected"}
  PROVE  Contract!Call(n)
<1> DEFINE status == [x \in Deleted |-> cascade[x].pc]
           deep == [x \in Deleted |-> cascade[x].deep]
<1>1. /\ \A x \in Deleted \ {n} : cascade'[x] = cascade[x]
      /\ cascade'[n].pc = "running" /\ cascade'[n].deep = isDeep
  BY BeginStep
<1>2. Reach(n, isDeep) \in SUBSET stored /\ Reach(n, isDeep) \subseteq Own(n, isDeep)
  BY DEF Reach, Own, Findable, Typed, TypeOK
<1>3. Reach(n, isDeep) \subseteq Contract!Mine(n, isDeep)
  BY <1>2, OwnIsMine
<1>4. [x \in Deleted |-> {x} \cup Touching[x]][n] \cap stored \subseteq Reach(n, isDeep)
  BY OwnIsMine DEF Reach
<1>5. deep' = [deep EXCEPT ![n] = isDeep] /\ status' = [status EXCEPT ![n] = "running"]
  BY <1>1
<1>6. due' = [due EXCEPT ![n] = Reach(n, isDeep)]
  BY DEF Begin
<1>7. status[n] \in {"idle", "errors", "rejected"}
  OBVIOUS
<1>8. QED
  BY <1>2, <1>3, <1>4, <1>5, <1>6, <1>7 DEF Contract!Call

LEMMA ContractStep ==
  Typed /\ Within /\ InSight' /\ [Next]_vars => [Contract!Next]_(Contract!vars)
<1> SUFFICES ASSUME Typed, Within, InSight', [Next]_vars
             PROVE  [Contract!Next]_(Contract!vars)
  OBVIOUS
<1>1. \A n \in Deleted : cascade'[n].pc = "clean" => due'[n] \cap stored' = {}
  BY DEF InSight, Sight
<1>2. ASSUME NEW n \in Deleted, Running(n), Contract!Work(n) PROVE Contract!Next
  BY <1>2 DEF Contract!Next
<1>3. ASSUME NEW n \in Deleted, First(n) \/ Retry(n) PROVE Contract!Next
  <2>1. /\ stored' = stored /\ cascade[n].pc \in {"idle", "errors", "rejected"}
        /\ \E isDeep \in BOOLEAN : Begin(n, isDeep)
    BY <1>3, OptionsAssumption DEF First, Retry, Typed, TypeOK, Cascades
  <2>2. Contract!Call(n)
    BY <2>1, CallStep
  <2>3. QED
    BY <2>2 DEF Contract!Next
\* The walk deletes nothing.
<1>4. ASSUME NEW n \in Deleted, List(n) \/ Descend(n) \/ Ascend(n) PROVE Contract!Next
  <2>1. Running(n) /\ UNCHANGED <<stored, due>>
    BY <1>4 DEF List, Descend, Ascend, Visited
  <2>2. /\ \A x \in Deleted \ {n} : cascade'[x] = cascade[x]
        /\ cascade'[n].pc = cascade[n].pc /\ cascade'[n].deep = cascade[n].deep
    <3>1. cascade \in [Deleted -> Cascades] /\ cascade[n] \in Cascades
      BY DEF Typed, TypeOK
    <3>2. PICK s : Stack(n, s)
      BY <1>4 DEF List, Descend, Enter, Ascend
    <3>3. cascade' = [cascade EXCEPT ![n].stack = s]
      BY <3>2 DEF Stack
    <3>4. cascade'[n] = [cascade[n] EXCEPT !.stack = s]
      BY <3>1, <3>3
    <3>5. \A x \in Deleted \ {n} : cascade'[x] = cascade[x]
      BY <3>1, <3>3
    <3>6. cascade'[n].pc = cascade[n].pc /\ cascade'[n].deep = cascade[n].deep
      BY <3>1, <3>4 DEF Cascades
    <3>7. QED
      BY <3>5, <3>6
  <2>3. Contract!Gone({}, {n})
    BY <2>1, GoneNothing
  <2>4. Contract!Work(n)
    BY <2>1, <2>2, <2>3, WorkStep DEF Running
  <2>5. QED
    BY <1>2, <2>1, <2>4
<1>5. ASSUME NEW n \in Deleted, Commit(n) PROVE Contract!Next
  <2>1. PICK C \in SUBSET Top(n).ids : Delete({n}, C) /\ Stack(n, CutChunk(n, C))
    BY <1>5 DEF Commit
  <2>2. Running(n)
    BY <1>5 DEF Commit, Visited
  <2>3. /\ \A x \in Deleted \ {n} : cascade'[x] = cascade[x]
        /\ cascade'[n].pc = cascade[n].pc /\ cascade'[n].deep = cascade[n].deep
    BY <2>1, <2>2, CutTyped, StackStep
  <2>4. C \in SUBSET Own(n, cascade[n].deep)
    BY <2>1, <2>2, TopWithin DEF FrameWithin
  <2>5. Contract!Gone(C, {n})
    BY <2>1, GoneStep
  <2>6. Contract!Work(n)
    BY <2>2, <2>3, <2>4, <2>5, WorkStep DEF Running
  <2>7. QED
    BY <1>2, <2>2, <2>6
<1>6. ASSUME NEW n \in Deleted, ChunkFails(n) PROVE Contract!Next
  <2>1. PICK C \in SUBSET Top(n).ids :
          /\ Delete({n}, C) \/ UNCHANGED <<stored, due, promised>>
          /\ cascade' = [cascade EXCEPT ![n].stack = CutChunk(n, C), ![n].errors = TRUE,
                                        ![n].nodeKept = KeepsNode(n, C)]
    BY <1>6 DEF ChunkFails
  <2>2. Running(n) /\ KeepsNode(n, C) \in BOOLEAN
    BY <1>6 DEF ChunkFails, Visited, KeepsNode, AtRoot
  <2>3. /\ \A x \in Deleted \ {n} : cascade'[x] = cascade[x]
        /\ cascade'[n].pc = cascade[n].pc /\ cascade'[n].deep = cascade[n].deep
    BY <2>1, <2>2, ChunkFailsStep
  <2>4. C \in SUBSET Own(n, cascade[n].deep) /\ {} \in SUBSET Own(n, cascade[n].deep)
    BY <2>1, <2>2, TopWithin DEF FrameWithin
  <2>5. Contract!Gone(C, {n}) \/ Contract!Gone({}, {n})
    BY <2>1, GoneStep, GoneNothing
  <2>6. Contract!Work(n)
    BY <2>2, <2>3, <2>4, <2>5, WorkStep DEF Running
  <2>7. QED
    BY <1>2, <2>2, <2>6
\* What an object's call deletes.
<1>7. ASSUME NEW n \in Deleted, Running(n), ~AtRoot(n)
      PROVE  In(Top(n).graph) \in SUBSET Own(n, cascade[n].deep)
  <2>1. cascade[n].deep /\ Top(n).graph \in Below[n]
    BY <1>7, TopWithin
  <2>2. QED
    BY <2>1 DEF In, Own, Typed, TypeOK
<1>8. ASSUME NEW n \in Deleted PROVE {n} \cup Touching[n] \in SUBSET Own(n, cascade[n].deep)
  BY OwnIsMine DEF Typed, TypeOK, Cascades
<1>9. ASSUME NEW n \in Deleted, Destroy(n) PROVE Contract!Next
  <2>1. Running(n) /\ ~AtRoot(n) /\ Stack(n, Outer(n)) /\ Delete({n}, In(Top(n).graph))
    BY <1>9 DEF Destroy, Visited
  <2>2. Outer(n) \in Seq(Frames) /\ Outer(n) # << >>
    BY <2>1, TopTyped, Popped DEF AtRoot, Outer
  <2>3. /\ \A x \in Deleted \ {n} : cascade'[x] = cascade[x]
        /\ cascade'[n].pc = cascade[n].pc /\ cascade'[n].deep = cascade[n].deep
    BY <2>1, <2>2, StackStep
  <2>4. Contract!Gone(In(Top(n).graph), {n})
    BY <2>1, GoneStep
  <2>5. Contract!Work(n)
    BY <1>7, <2>1, <2>3, <2>4, WorkStep DEF Running
  <2>6. QED
    BY <1>2, <2>1, <2>5
<1>10. ASSUME NEW n \in Deleted, NEW pc \in {"clean", "errors", "rejected"}, Goto(n, pc),
              Running(n), NEW D \in SUBSET Own(n, cascade[n].deep), Contract!Gone(D, {n}),
              due'[n] = due[n]
       PROVE  Contract!Next
  <2>1. /\ \A x \in Deleted \ {n} : cascade'[x] = cascade[x]
        /\ cascade'[n].pc = pc /\ cascade'[n].deep = cascade[n].deep
    BY <1>10, GotoStep
  <2>2. cascade'[n].pc = "clean" => due[n] \cap stored' = {}
    BY <1>1, <1>10
  <2>3. Contract!Work(n)
    BY <1>10, <2>1, <2>2, WorkStep
  <2>4. QED
    BY <1>2, <1>10, <2>3
<1>11. ASSUME NEW n \in Deleted, Resolve(n) \/ ReadFails(n) PROVE Contract!Next
  <2>1. Running(n) /\ UNCHANGED <<stored, due>>
    BY <1>11 DEF Resolve, ReadFails, Visited
  <2>2. \E pc \in {"clean", "errors", "rejected"} : Goto(n, pc)
    BY <1>11 DEF Resolve, ReadFails, Verdict
  <2>3. Contract!Gone({}, {n}) /\ {} \in SUBSET Own(n, cascade[n].deep)
    BY <2>1, GoneNothing
  <2>4. QED
    BY <1>10, <2>1, <2>2, <2>3
<1>12. ASSUME NEW n \in Deleted, RemoveLocally(n) PROVE Contract!Next
  <2>1. Running(n) /\ Goto(n, "clean") /\ Delete({n}, {n} \cup Touching[n])
    BY <1>12 DEF RemoveLocally, Visited
  <2>2. Contract!Gone({n} \cup Touching[n], {n}) /\ due'[n] = due[n]
    BY <2>1, GoneStep, OwnDelete
  <2>3. QED
    BY <1>8, <1>10, <2>1, <2>2
<1>13. ASSUME NEW n \in Deleted, CallFails(n) PROVE Contract!Next
  <2> DEFINE D == IF AtRoot(n) THEN {n} \cup Touching[n] ELSE In(Top(n).graph)
  <2>1. /\ Running(n) /\ Goto(n, "rejected")
        /\ Delete({n}, D) \/ UNCHANGED <<stored, due, promised>>
    BY <1>13 DEF CallFails, Visited
  <2>2. D \in SUBSET Own(n, cascade[n].deep) /\ {} \in SUBSET Own(n, cascade[n].deep)
    BY <1>7, <1>8, <2>1
  <2>3. CASE Delete({n}, D)
    <3>1. Contract!Gone(D, {n}) /\ due'[n] = due[n]
      BY <2>3, GoneStep, OwnDelete
    <3>2. QED
      BY <1>10, <2>1, <2>2, <3>1
  <2>4. CASE UNCHANGED <<stored, due, promised>>
    <3>1. Contract!Gone({}, {n}) /\ due'[n] = due[n]
      BY <2>4, GoneNothing
    <3>2. QED
      BY <1>10, <2>1, <2>2, <3>1
  <2>5. QED
    BY <2>1, <2>3, <2>4
<1>14. ASSUME NEW n \in Deleted, LocalError(n) PROVE Contract!Next
  <2>1. /\ cascade' = [cascade EXCEPT ![n].pc = "errors", ![n].stack = << >>,
                                      ![n].errors = TRUE, ![n].nodeKept = TRUE]
        /\ UNCHANGED <<stored, due>> /\ Running(n)
    BY <1>14 DEF LocalError, Visited
  <2>2. cascade \in [Deleted -> Cascades] /\ cascade[n] \in Cascades
    BY DEF Typed, TypeOK
  <2>3. cascade'[n] = [cascade[n] EXCEPT !.pc = "errors", !.stack = << >>,
                                         !.errors = TRUE, !.nodeKept = TRUE]
    BY <2>1, <2>2
  <2>4. cascade'[n].pc = "errors" /\ cascade'[n].deep = cascade[n].deep
    BY <2>2, <2>3 DEF Cascades
  <2>5. \A x \in Deleted \ {n} : cascade'[x] = cascade[x]
    BY <2>1, <2>2
  <2>6. Contract!Gone({}, {n}) /\ {} \in SUBSET Own(n, cascade[n].deep)
    BY <2>1, GoneNothing
  <2>7. Contract!Work(n)
    BY <2>1, <2>4, <2>5, <2>6, WorkStep
  <2>8. QED
    BY <1>2, <2>1, <2>7
<1>15. ASSUME NEW d \in Docs, Put(d) PROVE Contract!Next
  <2>1. Contract!Write(d)
    BY <1>15 DEF Put, Contract!Write
  <2>2. QED
    BY <2>1 DEF Contract!Next
<1>16. ASSUME NEW d \in Docs, Remove(d) PROVE Contract!Next
  <2>1. Contract!Gone({d}, {})
    BY <1>16, GoneStep DEF Remove
  <2>2. Contract!Remove(d)
    BY <1>16, <2>1 DEF Remove, Contract!Remove
  <2>3. QED
    BY <2>2 DEF Contract!Next
<1>17. CASE UNCHANGED vars
  BY <1>17 DEF vars, Contract!vars
<1>18. QED
  BY <1>3, <1>4, <1>5, <1>6, <1>9, <1>11, <1>12, <1>13, <1>14, <1>15, <1>16, <1>17
     DEF Next, Proceed

LEMMA ContractInit == Init => Contract!Init
<1> SUFFICES ASSUME Init PROVE Contract!Init
  OBVIOUS
<1>1. \A n \in Deleted : cascade[n].pc = "idle" /\ cascade[n].deep = TRUE
  BY DEF Init, Idle
<1>2. stored \subseteq Docs
  BY OptionsAssumption DEF Init
<1>3. QED
  BY <1>1, <1>2 DEF Init, Contract!Init

\* Firestore's cascade in chunks and the one over Durable Objects keep the
\* contract of removeNodeCascade, for any tree of graphs, chunk size, failures,
\* writers and other cascades: every run of theirs is a run of CascadeContract.
THEOREM ContractTheorem == Spec => KeepsContract
<1>1. Init => Typed /\ Within /\ InSight
  BY TypedInit, WithinInit, InSightInit
<1>2. Typed /\ Within /\ InSight /\ [Next]_vars => (Typed /\ Within /\ InSight)'
  BY TypedStep, WithinStep, InSightStep
<1>3. QED
  BY <1>1, <1>2, ContractInit, ContractStep, PTL DEF Spec, KeepsContract, Contract!Spec

-----------------------------------------------------------------------------
(***************************************************************************)
(* Honest answers.  A cascade over objects promises what it could find when *)
(* it was asked.  It removes a graph only when nothing below it is left, so *)
(* it never cuts the way to a document it still owes, and a cascade that    *)
(* stops early can be tried again.                                          *)
(***************************************************************************)

\* When a graph has been visited, no document the cascade owes is below it.
LEMMA NothingWaitsBelow ==
  ASSUME NEW n \in Nodes, NEW S, NEW D, NEW s \in Seq(Frames), StackShape(s),
         s # << >>, Len(s) # 1, s[1].docs = {}, s[1].colls = {}, s[1].graph \in Below[n],
         Covered("objects", S, n, D, s),
         NEW d \in D \cap S, Home[d] # s[1].graph,
         NEW p \in Nodes, Home[p] = s[1].graph, Home[d] \in Below[p]
  PROVE  FALSE
<1>1. Len(s) \in Nat \ {0}
  BY TopFrame
<1>2. PICK i \in 1 .. Len(s) : Waits("objects", S, n, d, s[i], i = Len(s))
  BY DEF Covered
<1>3. i # 1
  <2>1. SUFFICES ASSUME i = 1 PROVE FALSE
    OBVIOUS
  <2>2. Waits("objects", S, n, d, s[1], FALSE)
    BY <1>2, <2>1 DEF Waits
  <2> QED
    BY <2>2 DEF Waits
<1>4. i \in 1 .. Len(s) /\ i # 1 /\ 1 \in 1 .. i - 1
  BY <1>1, <1>2, <1>3
<1>5. PICK a \in Nodes : Visits(s[i], a) /\ \A j \in 1 .. i - 1 : Passed(s[i], a, s[j].graph)
  BY <1>4 DEF StackShape
<1>6. /\ Passed(s[i], a, Home[p]) /\ FrameAtHome(s[i]) /\ s[i] \in Frames
  BY <1>4, <1>5 DEF StackShape
<1>7. /\ Home[p] \in Below[a] /\ Below[p] \subseteq Below[a] /\ Home[d] \in Below[a]
      /\ Home[a] \notin Below[a] /\ Home[a] \notin Below[p] /\ Below[p] \subseteq Graphs
  BY <1>6, TreeAssumption, DocumentsAssumption DEF Passed
<1>8. CASE \E m \in s[i].docs : Found("objects", S, d, Below[m])
  <2>1. PICK m \in s[i].docs : Home[d] \in Below[m]
    BY <1>8 DEF Found
  <2>2. m \in Nodes /\ m # a /\ Home[m] = Home[a]
    BY <1>5, <1>6 DEF Frames, Visits, FrameAtHome
  <2>3. Home[m] \in Below[a] \/ Home[a] \in Below[m]
    BY <1>7, <2>1, <2>2, TreeAssumption
  <2> QED
    BY <1>7, <2>2, <2>3, DocumentsAssumption
<1>9. CASE \E g \in s[i].colls : Found("objects", S, d, From(g))
  <2>1. PICK g \in s[i].colls : Home[d] \in From(g)
    BY <1>9 DEF Found
  <2>2. g \in Graphs /\ Owner[g] = a /\ Home[p] \notin From(g)
    BY <1>5, <1>6 DEF Frames, Visits, Passed
  <2>3. g \notin Below[p]
    <3>1. g \in Below[p] => a = p \/ Home[a] \in Below[p]
      BY <2>2, DocumentsAssumption
    <3> QED
      BY <1>7, <3>1
  <2>4. Home[d] # g
    BY <2>3
  <2>5. PICK q \in Nodes : Home[q] = g /\ Home[d] \in Below[q]
    BY <2>1, <2>4 DEF From
  <2>6. p # q
    BY <2>2, <2>5 DEF From
  <2>7. Home[p] \in Below[q] \/ Home[q] \in Below[p]
    BY <2>5, <2>6, TreeAssumption
  <2>8. Below[q] \subseteq From(g)
    BY <2>2, <2>5, FromNodes
  <2> QED
    BY <2>2, <2>3, <2>5, <2>7, <2>8
<1>10. CASE Home[d] = s[i].graph
  BY <1>5, <1>7, <1>10 DEF Visits
<1>11. CASE d \in {n} \cup Touching[n]
  <2>1. Home[d] = Home[n]
    BY <1>11, DocumentsAssumption
  <2>2. Below[p] \subseteq Below[n] /\ Home[n] \notin Below[n]
    BY TreeAssumption, DocumentsAssumption
  <2> QED
    BY <2>1, <2>2
<1> QED
  BY <1>2, <1>8, <1>9, <1>10, <1>11 DEF Waits

\* What a cascade over objects was asked for and has not yet removed: all of it is
\* still to come while it runs, none is left when it is clean, and otherwise a
\* cascade tried again would find it.
Left(n) ==
  backend = "objects" =>
    /\ Running(n) => promised[n] \cap stored \subseteq due[n]
    /\ promised[n] \cap stored \subseteq
         IF cascade[n].pc = "clean" THEN {} ELSE Reach(n, cascade[n].deep)

AllLeft == \A n \in Deleted : Left(n)

\* A step that neither forgets a promise nor cuts the way to it keeps what is left.
LEMMA LeftKept ==
  ASSUME Typed, NEW n \in Deleted, Left(n), backend' = backend,
         cascade'[n].deep = cascade[n].deep,
         cascade'[n].pc = "clean" <=> cascade[n].pc = "clean", Running(n)' => Running(n),
         \A d \in promised'[n] \cap stored' :
           /\ d \in promised[n] \cap stored
           /\ Running(n) /\ d \in due[n] => d \in due'[n]
           /\ \A m \in Nodes : Home[d] \in Below[m] /\ m \in stored => m \in stored'
  PROVE  Left(n)'
<1> SUFFICES ASSUME backend = "objects" PROVE Left(n)'
  BY DEF Left
<1>1. Running(n)' => promised'[n] \cap stored' \subseteq due'[n]
  BY DEF Left
<1>2. ASSUME NEW d \in promised'[n] \cap stored'
      PROVE  d \in IF cascade'[n].pc = "clean" THEN {} ELSE Reach(n, cascade[n].deep)'
  <2>1. d \in promised[n] \cap stored /\ cascade[n].pc # "clean" /\ d \in Reach(n, cascade[n].deep)
    BY <1>2 DEF Left
  <2>2. CASE d = n \/ d \in Touching[n]
    BY <1>2, <2>1, <2>2 DEF Reach
  <2>3. CASE ~(d = n \/ d \in Touching[n])
    <3>1. cascade[n].deep /\ Findable(n, Home[d])
      BY <2>1, <2>3 DEF Reach
    <3>2. \A m \in Nodes : Home[d] \in Below[m] /\ m \in stored => m \in stored'
      BY <1>2
    <3>3. n \in Nodes
      BY OptionsAssumption
    <3>4. Findable(n, Home[d])'
      BY <3>1, <3>2, <3>3 DEF Findable, OnTheWay
    <3> QED
      BY <1>2, <2>1, <3>1, <3>4 DEF Reach
  <2> QED
    BY <2>2, <2>3
<1> QED
  BY <1>1, <1>2 DEF Left

\* Deletes of others leave a cascade what it promised, or take the promise back.
LEMMA LeftBesideDelete ==
  ASSUME Typed, NEW N, NEW D, Delete(N, D), NEW x \in Deleted, x \notin N, Left(x),
         cascade'[x] = cascade[x], backend' = backend
  PROVE  Left(x)'
<1>1. /\ stored' = stored \ D /\ due'[x] = due[x] \ Beneath(D \cap stored)
      /\ promised'[x] = promised[x] \ Beneath(D \cap stored)
  BY DEF Delete
<1>2. promised[x] \subseteq Docs
  BY DEF Typed, TypeOK
<1>3. ASSUME NEW d \in promised'[x] \cap stored', NEW m \in Nodes, Home[d] \in Below[m], m \in stored
      PROVE  m \in stored'
  BY <1>1, <1>2, <1>3 DEF Beneath
<1>4. \A d \in promised'[x] \cap stored' : d \in promised[x] \cap stored /\ (d \in due[x] => d \in due'[x])
  BY <1>1
<1>5. Running(x)' <=> Running(x)
  BY DEF Running
<1> QED
  BY <1>3, <1>4, <1>5, LeftKept

\* A step of cascade n: what it makes of itself, and of nobody else.
LEMMA OthersLeft ==
  ASSUME Typed, AllLeft, NEW n \in Deleted, backend' = backend,
         \A x \in Deleted \ {n} : cascade'[x] = cascade[x],
         \/ \E D : Delete({n}, D)
         \/ stored' = stored /\ \A x \in Deleted \ {n} : due'[x] = due[x] /\ promised'[x] = promised[x],
         Left(n)'
  PROVE  AllLeft'
<1>1. ASSUME NEW x \in Deleted, x # n PROVE Left(x)'
  <2>1. Left(x) /\ cascade'[x] = cascade[x] /\ x \notin {n}
    BY <1>1 DEF AllLeft
  <2>2. CASE \E D : Delete({n}, D)
    BY <2>1, <2>2, LeftBesideDelete
  <2>3. CASE stored' = stored /\ \A y \in Deleted \ {n} : due'[y] = due[y] /\ promised'[y] = promised[y]
    <3>1. Running(x)' <=> Running(x)
      BY <2>1 DEF Running
    <3> QED
      BY <1>1, <2>1, <2>3, <3>1, LeftKept
  <2> QED
    BY <2>2, <2>3
<1>2. ASSUME NEW x \in Deleted PROVE Left(x)'
  BY <1>1
<1> QED
  BY <1>2 DEF AllLeft

\* A delete of its own is no excuse for a promise.
LEMMA OwnPromise ==
  ASSUME NEW n \in Deleted, NEW D, Delete({n}, D), Typed
  PROVE  stored' = stored \ D /\ due'[n] = due[n] /\ promised'[n] = promised[n]
BY DEF Delete, Typed, TypeOK

\* A graph is wiped when it has been visited, so the way to the others remains.
LEMMA WipeLeaves ==
  ASSUME Typed, Within, InSight, AllLeft, NEW n \in Deleted, backend = "objects", backend' = backend,
         Visited(n), ~AtRoot(n), Delete({n}, In(Top(n).graph)),
         cascade'[n].pc \in {"running", "rejected"}, cascade'[n].deep = cascade[n].deep
  PROVE  Left(n)'
<1> DEFINE s == cascade[n].stack
<1>1. /\ Running(n) /\ s \in Seq(Frames) /\ s # << >> /\ Top(n) = s[1] /\ Len(s) # 1
      /\ s[1].docs = {} /\ s[1].colls = {} /\ cascade[n].pc = "running" /\ n \in Nodes
  BY TopTyped, OptionsAssumption DEF Visited, AtRoot, Running
<1>2. /\ StackShape(s) /\ Covered("objects", stored, n, due[n], s)
      /\ promised[n] \cap stored \subseteq due[n] /\ Left(n)
  BY <1>1 DEF InSight, Sight, AllLeft, Left
<1>3. s[1].graph \in Below[n]
  BY <1>1, TopWithin
<1>4. /\ stored' = stored \ In(Top(n).graph) /\ due'[n] = due[n] /\ promised'[n] = promised[n]
  BY OwnPromise
<1>5. ASSUME NEW d \in promised'[n] \cap stored', NEW m \in Nodes, Home[d] \in Below[m], m \in stored
      PROVE  m \in stored'
  <2>1. d \in due[n] \cap stored /\ Home[d] # s[1].graph
    BY <1>1, <1>2, <1>4, <1>5 DEF In
  <2>2. Home[m] # s[1].graph
    BY <1>1, <1>2, <1>3, <1>5, <2>1, NothingWaitsBelow
  <2> QED
    BY <1>1, <1>4, <1>5, <2>2 DEF In
<1>6. Running(n)' => Running(n)
  BY <1>1
<1>7. \A d \in promised'[n] \cap stored' : d \in promised[n] \cap stored /\ (d \in due[n] => d \in due'[n])
  BY <1>4
<1> QED
  BY <1>1, <1>2, <1>5, <1>6, <1>7, LeftKept

\* Every step keeps it.
LEMMA LeftStep == Typed /\ Within /\ InSight /\ AllLeft /\ [Next]_vars => AllLeft'
<1> SUFFICES ASSUME Typed, Within, InSight, AllLeft, [Next]_vars PROVE AllLeft'
  OBVIOUS
<1>1. backend' = backend /\ backend \in {"firestore", "objects"}
  BY BackendStays, KindOfStore
<1>2. ASSUME NEW n \in Deleted, Running(n)
      PROVE  cascade[n].stack \in Seq(Frames) /\ cascade[n].stack # << >> /\ Left(n)
             /\ cascade[n].pc = "running"
  BY <1>2, TopTyped DEF AllLeft, Running
\* A step that touches no document: the cascade goes on, or it stops early.
<1>3. ASSUME NEW n \in Deleted, Running(n), cascade'[n].pc \in {"running", "errors", "rejected"},
             cascade'[n].deep = cascade[n].deep,
             \A x \in Deleted \ {n} : cascade'[x] = cascade[x], UNCHANGED <<stored, due, promised>>
      PROVE  AllLeft'
  <2>1. Left(n)'
    BY <1>1, <1>2, <1>3, LeftKept
  <2> QED
    BY <1>1, <1>3, <2>1, OthersLeft
<1>4. ASSUME NEW n \in Deleted, First(n) \/ Retry(n) PROVE AllLeft'
  <2>1. PICK deep \in BOOLEAN : /\ Begin(n, deep) /\ stored' = stored
                                /\ First(n) => promised' = [promised EXCEPT ![n] = Reach(n, deep)]
                                /\ Retry(n) => promised' = promised /\ deep = cascade[n].deep
    BY <1>4, OptionsAssumption DEF First, Retry, Typed, TypeOK, Cascades
  <2>2. /\ \A x \in Deleted \ {n} : cascade'[x] = cascade[x] /\ due'[x] = due[x]
        /\ due'[n] = Reach(n, deep) /\ cascade'[n].pc = "running" /\ cascade'[n].deep = deep
    BY <2>1, BeginStep
  <2>3. \A x \in Deleted \ {n} : promised'[x] = promised[x]
    BY <1>4, <2>1 DEF Typed, TypeOK
  <2>4. Reach(n, deep)' = Reach(n, deep)
    BY <1>1, <2>1 DEF Reach, Findable, OnTheWay
  <2>5. ASSUME backend = "objects"
        PROVE  promised'[n] \cap stored' \subseteq Reach(n, deep)
    <3>1. CASE First(n)
      BY <2>1, <3>1 DEF Typed, TypeOK
    <3>2. CASE Retry(n)
      <4>1. cascade[n].pc # "clean"
        BY <3>2 DEF Retry
      <4> QED
        BY <2>1, <2>5, <3>2, <4>1 DEF AllLeft, Left
    <3> QED
      BY <1>4, <3>1, <3>2
  <2>6. Left(n)'
    BY <1>1, <2>2, <2>4, <2>5 DEF Left
  <2> QED
    BY <1>1, <2>1, <2>2, <2>3, <2>6, OthersLeft
<1>5. ASSUME NEW n \in Deleted, List(n) PROVE AllLeft'
  <2>1. Running(n) /\ UNCHANGED <<stored, due, promised>>
    BY <1>5 DEF List
  <2>2. PICK m \in Top(n).docs :
          Stack(n, WithTop(n, [Top(n) EXCEPT !.docs = @ \ {m}, !.colls = Subgraphs(m)]))
    BY <1>5 DEF List
  <2>3. [Top(n) EXCEPT !.docs = @ \ {m}, !.colls = Subgraphs(m)] \in Frames
    BY <2>1, <2>2, FramesTyped
  <2>4. /\ cascade'[n].pc = "running" /\ cascade'[n].deep = cascade[n].deep
        /\ \A x \in Deleted \ {n} : cascade'[x] = cascade[x]
    BY <1>2, <2>1, <2>2, <2>3, WithTopFrames, StackStep
  <2> QED
    BY <1>3, <2>1, <2>4
<1>6. ASSUME NEW n \in Deleted, Descend(n) PROVE AllLeft'
  <2>1. Running(n) /\ UNCHANGED <<stored, due, promised>>
    BY <1>6 DEF Descend
  <2>2. PICK g \in Top(n).colls : Enter(n, g)
    BY <1>6 DEF Descend
  <2> DEFINE w == WithTop(n, [Top(n) EXCEPT !.colls = @ \ {g}])
             f == Frame(g, Ids(g), Parents(g))
  <2>3. f \in Frames /\ w \in Seq(Frames)
    BY <2>1, <2>2, FramesTyped, WithTopFrames
  <2>4. <<f>> \o w \in Seq(Frames) /\ <<f>> \o w # << >>
    BY <2>3, Pushed
  <2>5. Stack(n, <<f>> \o w)
    BY <2>2 DEF Enter
  <2>6. /\ cascade'[n].pc = "running" /\ cascade'[n].deep = cascade[n].deep
        /\ \A x \in Deleted \ {n} : cascade'[x] = cascade[x]
    BY <1>2, <2>1, <2>4, <2>5, StackStep
  <2> QED
    BY <1>3, <2>1, <2>6
<1>7. ASSUME backend = "firestore" PROVE AllLeft'
  BY <1>1, <1>7 DEF AllLeft, Left
<1>8. ASSUME NEW n \in Deleted, Destroy(n) PROVE AllLeft'
  <2>1. /\ Running(n) /\ Visited(n) /\ ~AtRoot(n) /\ Delete({n}, In(Top(n).graph))
        /\ Stack(n, Outer(n)) /\ backend = "objects"
    BY <1>8 DEF Destroy, Visited
  <2>2. Outer(n) \in Seq(Frames) /\ Outer(n) # << >>
    BY <1>2, <2>1, Popped DEF AtRoot, Outer
  <2>3. /\ cascade'[n].pc = "running" /\ cascade'[n].deep = cascade[n].deep
        /\ \A x \in Deleted \ {n} : cascade'[x] = cascade[x]
    BY <1>2, <2>1, <2>2, StackStep
  <2>4. Left(n)'
    BY <1>1, <2>1, <2>3, WipeLeaves
  <2> QED
    BY <1>1, <2>1, <2>3, <2>4, OthersLeft
\* The last delete, of the node itself: it answers, or its answer is lost.
<1>9. ASSUME NEW n \in Deleted, backend = "objects", Visited(n), AtRoot(n),
             Delete({n}, {n} \cup Touching[n]), cascade'[n].pc \in {"clean", "rejected"},
             \A x \in Deleted \ {n} : cascade'[x] = cascade[x]
      PROVE  AllLeft'
  <2>1. Running(n) /\ Top(n) = cascade[n].stack[1] /\ Top(n).docs = {} /\ Top(n).colls = {}
    BY <1>9, TopTyped DEF Visited
  <2>2. /\ Covered(backend, stored, n, due[n], cascade[n].stack)
        /\ promised[n] \cap stored \subseteq due[n]
    BY <1>9, <2>1 DEF InSight, Sight, AllLeft, Left
  <2>3. due[n] \cap stored \subseteq {n} \cup Touching[n]
    BY <1>2, <1>9, <2>1, <2>2, CoveredDone DEF AtRoot
  <2>4. promised'[n] \cap stored' = {}
    BY <1>9, <2>2, <2>3, OwnPromise
  <2>5. Left(n)'
    BY <1>9, <2>4 DEF Left, Running
  <2> QED
    BY <1>1, <1>9, <2>5, OthersLeft
<1>10. ASSUME NEW n \in Deleted, RemoveLocally(n) PROVE AllLeft'
  BY <1>9, <1>10, GotoStep DEF RemoveLocally
<1>11. ASSUME NEW n \in Deleted, CallFails(n) PROVE AllLeft'
  <2>1. Visited(n) /\ Running(n) /\ Goto(n, "rejected") /\ backend = "objects"
    BY <1>11 DEF CallFails, Visited
  <2>2. /\ cascade'[n].pc = "rejected" /\ cascade'[n].deep = cascade[n].deep
        /\ \A x \in Deleted \ {n} : cascade'[x] = cascade[x]
    BY <2>1, GotoStep
  <2>3. CASE UNCHANGED <<stored, due, promised>>
    BY <1>3, <2>1, <2>2, <2>3
  <2>4. CASE AtRoot(n) /\ Delete({n}, {n} \cup Touching[n])
    BY <1>9, <2>1, <2>2, <2>4
  <2>5. CASE ~AtRoot(n) /\ Delete({n}, In(Top(n).graph))
    <3>1. Left(n)'
      BY <1>1, <2>1, <2>2, <2>5, WipeLeaves
    <3> QED
      BY <1>1, <2>2, <2>5, <3>1, OthersLeft
  <2> QED
    BY <1>11, <2>3, <2>4, <2>5 DEF CallFails
<1>12. ASSUME NEW n \in Deleted, ReadFails(n) PROVE AllLeft'
  BY <1>3, <1>12, GotoStep DEF ReadFails
<1>13. ASSUME NEW n \in Deleted, LocalError(n) PROVE AllLeft'
  <2>1. /\ cascade' = [cascade EXCEPT ![n].pc = "errors", ![n].stack = << >>,
                                      ![n].errors = TRUE, ![n].nodeKept = TRUE]
        /\ UNCHANGED <<stored, due, promised>> /\ Running(n)
    BY <1>13 DEF LocalError, Visited
  <2>2. cascade \in [Deleted -> Cascades] /\ cascade[n] \in Cascades
    BY DEF Typed, TypeOK
  <2>3. cascade'[n] = [cascade[n] EXCEPT !.pc = "errors", !.stack = << >>,
                                         !.errors = TRUE, !.nodeKept = TRUE]
    BY <2>1, <2>2
  <2>4. /\ cascade'[n].pc = "errors" /\ cascade'[n].deep = cascade[n].deep
        /\ \A x \in Deleted \ {n} : cascade'[x] = cascade[x]
    BY <2>1, <2>2, <2>3 DEF Cascades
  <2> QED
    BY <1>3, <2>1, <2>4
<1>14. ASSUME NEW d \in Docs, Put(d) PROVE AllLeft'
  <2>1. /\ stored' = stored \cup {d} /\ cascade' = cascade
        /\ \A x \in Deleted : due'[x] = due[x] \ {d} /\ promised'[x] = promised[x] \ {d}
    BY <1>14 DEF Put
  <2>2. ASSUME NEW x \in Deleted PROVE Left(x)'
    <3>1. Running(x)' <=> Running(x)
      BY <2>1 DEF Running
    <3> QED
      BY <1>1, <2>1, <3>1, LeftKept DEF AllLeft
  <2> QED
    BY <2>2 DEF AllLeft
<1>15. ASSUME NEW d \in Docs, Remove(d) PROVE AllLeft'
  <2>1. Delete({}, {d}) /\ cascade' = cascade
    BY <1>15 DEF Remove
  <2>2. ASSUME NEW x \in Deleted PROVE Left(x)'
    BY <1>1, <2>1, LeftBesideDelete DEF AllLeft
  <2> QED
    BY <2>2 DEF AllLeft
<1>16. CASE UNCHANGED vars
  BY <1>16 DEF vars, AllLeft, Left, Running, Reach, Findable, OnTheWay
<1> QED
  BY <1>1, <1>4, <1>5, <1>6, <1>7, <1>8, <1>10, <1>11, <1>12, <1>13, <1>14, <1>15, <1>16
     DEF Next, Proceed, Commit, Ascend, Resolve, ChunkFails

\* It holds before the first cascade.
LEMMA LeftInit == Init => AllLeft
BY DEF Init, AllLeft, Left, Running, Idle

\* A deep cascade is honest (deleteSubcollectionsRecursive, bulk.ts, and
\* destroyRecursively, cloudflare/backend.ts): one that answers without errors has
\* removed all it could find and nobody wrote again, and one over objects that failed
\* on the way left everything within reach of the next call, for any tree of graphs,
\* documents, failures and other writers.
THEOREM HonestTheorem == Spec => []CascadesAreHonest
<1>1. Init => Typed /\ Within /\ InSight /\ AllLeft
  BY TypedInit, WithinInit, InSightInit, LeftInit
<1>2. Typed /\ Within /\ InSight /\ AllLeft /\ [Next]_vars => (Typed /\ Within /\ InSight /\ AllLeft)'
  BY TypedStep, WithinStep, InSightStep, LeftStep
<1>3. Typed /\ InSight /\ AllLeft => CascadesAreHonest
  BY DEF Typed, InSight, Sight, AllLeft, Left, CleanRemovesAll, InterruptedStaysReachable,
         CascadesAreHonest
<1> QED
  BY <1>1, <1>2, <1>3, PTL DEF Spec

=============================================================================
