------------------------ MODULE SandboxWorker_proofs ------------------------
(***************************************************************************)
(* Proofs about what MCSandboxWorker composes.                              *)
(* The migration sandbox, for any number of calls, crashes and              *)
(* terminations: answers go to the calls that asked for them, and a pending *)
(* request always has a worker that will answer or exit. DynamicRegistry.   *)
(* The editor's server (EditorChat, EditorSession), for any tabs, slots,    *)
(* turns, words and reloads: the server counts exactly the processes it may *)
(* signal, what a tab shows is what its process said from where the tab     *)
(* came in, a session remembers the answers it gave, and the types served   *)
(* are never older than when their reload began.                            *)
(***************************************************************************)
EXTENDS MCSandboxWorker, Integers, Sequences, SequenceTheorems, FiniteSetTheorems, TLAPS

\* Type correctness of every reachable state of the host and its workers.
THEOREM TypeCorrect ==
    ASSUME MarksAssumption, BoundsAssumption
    PROVE  Spec => []TypeOK
<1>1. Init => TypeOK
  <2> SUFFICES ASSUME Init PROVE TypeOK
    OBVIOUS
  <2> USE DEF Init
  <2>1. pending \subseteq Request /\ crashes \in 0..MaxCrashes /\ destroys \in 0..MaxDestroys
    BY DEF BoundsAssumption
  <2>2. inbox \in [Calls -> SUBSET Request] /\ outbox \in [Calls -> SUBSET Request]
    OBVIOUS
  <2> QED
    BY <2>1, <2>2 DEF TypeOK
<1>2. TypeOK /\ [Next]_vars => TypeOK'
  <2> SUFFICES ASSUME TypeOK, [Next]_vars PROVE TypeOK'
    OBVIOUS
  <2> USE DEF TypeOK, Request
  <2>1. CASE UNCHANGED vars
    BY <2>1 DEF vars
  <2>2. CASE Destroy
    BY <2>2 DEF BoundsAssumption, Destroy, Reject
  <2>3. ASSUME NEW c \in Calls, Call(c) PROVE TypeOK'
    BY <2>3 DEF Call
  <2>4. ASSUME NEW c \in Calls, Import(c) PROVE TypeOK'
    BY <2>4 DEF Import
  <2>5. ASSUME NEW c \in Calls, ImportFails(c) PROVE TypeOK'
    BY <2>5 DEF ImportFails
  <2>6. ASSUME NEW c \in Calls, Spawn(c) PROVE TypeOK'
    BY <2>6 DEF Spawn
  <2>7. ASSUME NEW c \in Calls, Post(c) PROVE TypeOK'
    <3>1. [id |-> NextId, call |-> c] \in Request
      BY <2>7 DEF NextId
    <3> QED
      BY <2>7, <3>1 DEF Post, NextId
  <2>8. ASSUME NEW w \in Calls, Process(w) PROVE TypeOK'
    BY <2>8 DEF Process
  <2>9. ASSUME NEW w \in Calls, Crash(w) PROVE TypeOK'
    BY <2>9 DEF BoundsAssumption, Crash
  <2>10. ASSUME NEW w \in Calls, Deliver(w) PROVE TypeOK'
    BY <2>10 DEF Deliver
  <2>11. ASSUME NEW w \in Calls, ErrorEvent(w) PROVE TypeOK'
    BY <2>11 DEF ErrorEvent, Reject, Rejects, WorkerAfter
  <2>12. ASSUME NEW w \in Calls, ExitEvent(w) PROVE TypeOK'
    BY <2>12 DEF ExitEvent, Reject, Rejects, WorkerAfter
  <2> QED
    BY <2>1, <2>2, <2>3, <2>4, <2>5, <2>6, <2>7, <2>8, <2>9, <2>10, <2>11, <2>12 DEF Next
<1> QED
  BY <1>1, <1>2, PTL DEF Spec

-----------------------------------------------------------------------------
(***************************************************************************)
(* Answers.  Every request anywhere has an identifier already drawn, and   *)
(* no two calls share one.                                                 *)
(***************************************************************************)

\* The requests that are pending, with a worker or on their way back.
Known(m) == m \in pending \/ \E w \in Calls : m \in inbox[w] \cup outbox[w]

IdsDrawn == \A m \in Request : Known(m) => m.id <= requestId

IdsTellCalls == \A m, k \in Request : Known(m) /\ Known(k) /\ m.id = k.id => m = k

Answers == IdsDrawn /\ IdsTellCalls /\ AnswersMatch

\* A step that sends nothing new keeps what is known of requests.
LEMMA NothingNew ==
    ASSUME Answers, requestId' = requestId,
           \A m \in Request : Known(m)' => Known(m)
    PROVE  IdsDrawn' /\ IdsTellCalls'
BY DEF Answers, IdsDrawn, IdsTellCalls

\* A call resolves with the result of its own migration: identifiers are never
\* drawn twice, whatever workers are replaced, destroyed or late.
THEOREM AnswersTheorem ==
    ASSUME MarksAssumption, BoundsAssumption
    PROVE  Spec => []AnswersMatch
<1>1. Init => Answers
  BY DEF Init, Answers, IdsDrawn, IdsTellCalls, Known, AnswersMatch
<1>2. TypeOK /\ Answers /\ [Next]_vars => Answers'
  <2> SUFFICES ASSUME TypeOK, Answers, [Next]_vars PROVE Answers'
    OBVIOUS
  <2> USE DEF Answers
  <2>1. CASE UNCHANGED vars
    <3>1. IdsDrawn' /\ IdsTellCalls'
      BY <2>1, NothingNew DEF vars, Known
    <3> QED
      BY <2>1, <3>1 DEF vars, AnswersMatch
  <2>2. CASE Destroy
    <3>1. IdsDrawn' /\ IdsTellCalls'
      BY <2>2, NothingNew DEF Destroy, Reject, Known
    <3> QED
      BY <2>2, <3>1 DEF Destroy, Reject, AnswersMatch
  <2>3. ASSUME NEW c \in Calls, Call(c) \/ Import(c) \/ Spawn(c) PROVE Answers'
    <3>1. IdsDrawn' /\ IdsTellCalls'
      BY <2>3, NothingNew DEF Call, Import, Spawn, Known
    <3> QED
      BY <2>3, <3>1 DEF Call, Import, Spawn, AnswersMatch
  <2>4. ASSUME NEW c \in Calls, ImportFails(c) PROVE Answers'
    <3>1. IdsDrawn' /\ IdsTellCalls'
      BY <2>4, NothingNew DEF ImportFails, Known
    <3> QED
      BY <2>4, <3>1 DEF ImportFails, AnswersMatch, TypeOK
  <2>5. ASSUME NEW c \in Calls, Post(c) PROVE Answers'
    <3> DEFINE new == [id |-> requestId + 1, call |-> c]
    <3>1. requestId \in Nat /\ requestId' = requestId + 1 /\ new.id = requestId + 1
      BY <2>5 DEF Post, NextId, TypeOK
    <3>2. \A m \in Request : Known(m)' => Known(m) \/ m = new
      <4> SUFFICES ASSUME NEW m \in Request, Known(m)' PROVE Known(m) \/ m = new
        OBVIOUS
      <4>1. CASE m \in pending'
        BY <2>5, <4>1 DEF Post, NextId, Known
      <4>2. CASE \E w \in Calls : m \in inbox'[w] \cup outbox'[w]
        <5>1. PICK w \in Calls : m \in inbox'[w] \cup outbox'[w]
          BY <4>2
        <5>2. m \in inbox[w] \cup outbox[w] \cup {new}
          BY <2>5, <5>1 DEF Post, NextId, TypeOK
        <5> QED
          BY <5>2 DEF Known
      <4> QED
        BY <4>1, <4>2 DEF Known
    <3>3. IdsDrawn'
      BY <3>1, <3>2 DEF IdsDrawn, Request
    <3>4. IdsTellCalls'
      <4> SUFFICES ASSUME NEW m \in Request, NEW k \in Request,
                          Known(m)', Known(k)', m.id = k.id
                   PROVE  m = k
        BY DEF IdsTellCalls
      <4>1. m.id \in Nat /\ k.id \in Nat
        BY DEF Request
      <4>2. CASE m = new
        BY <3>1, <3>2, <4>1, <4>2 DEF IdsDrawn
      <4>3. CASE k = new
        BY <3>1, <3>2, <4>1, <4>3 DEF IdsDrawn
      <4>4. CASE m # new /\ k # new
        BY <3>2, <4>4 DEF IdsTellCalls
      <4> QED
        BY <4>2, <4>3, <4>4
    <3>5. AnswersMatch'
      BY <2>5 DEF Post, AnswersMatch
    <3> QED
      BY <3>3, <3>4, <3>5
  <2>6. ASSUME NEW w \in Calls, Process(w) PROVE Answers'
    <3>1. \A m \in Request : Known(m)' => Known(m)
      <4> SUFFICES ASSUME NEW m \in Request, Known(m)' PROVE Known(m)
        OBVIOUS
      <4>1. CASE m \in pending'
        BY <2>6, <4>1 DEF Process, Known
      <4>2. CASE \E x \in Calls : m \in inbox'[x] \cup outbox'[x]
        <5>1. PICK x \in Calls : m \in inbox'[x] \cup outbox'[x]
          BY <4>2
        <5>2. m \in inbox[x] \cup outbox[x]
          BY <2>6, <5>1 DEF Process, TypeOK
        <5> QED
          BY <5>2 DEF Known
      <4> QED
        BY <4>1, <4>2 DEF Known
    <3>2. IdsDrawn' /\ IdsTellCalls'
      BY <2>6, <3>1, NothingNew DEF Process
    <3> QED
      BY <2>6, <3>2 DEF Process, AnswersMatch
  <2>7. ASSUME NEW w \in Calls, Crash(w) PROVE Answers'
    <3>1. IdsDrawn' /\ IdsTellCalls'
      BY <2>7, NothingNew DEF Crash, Known
    <3> QED
      BY <2>7, <3>1 DEF Crash, AnswersMatch
  <2>8. ASSUME NEW w \in Calls, Deliver(w) PROVE Answers'
    <3>1. \A m \in Request : Known(m)' => Known(m)
      <4> SUFFICES ASSUME NEW m \in Request, Known(m)' PROVE Known(m)
        OBVIOUS
      <4>1. CASE m \in pending'
        BY <2>8, <4>1 DEF Deliver, Known
      <4>2. CASE \E x \in Calls : m \in inbox'[x] \cup outbox'[x]
        <5>1. PICK x \in Calls : m \in inbox'[x] \cup outbox'[x]
          BY <4>2
        <5>2. m \in inbox[x] \cup outbox[x]
          BY <2>8, <5>1 DEF Deliver, TypeOK
        <5> QED
          BY <5>2 DEF Known
      <4> QED
        BY <4>1, <4>2 DEF Known
    <3>2. IdsDrawn' /\ IdsTellCalls'
      BY <2>8, <3>1, NothingNew DEF Deliver
    <3>3. AnswersMatch'
      <4>1. PICK m \in outbox[w] :
              outcome' = [c \in Calls |-> IF [id |-> m.id, call |-> c] \in pending
                                          THEN m.call ELSE outcome[c]]
        BY <2>8 DEF Deliver
      <4>2. m \in Request /\ Known(m)
        BY <4>1 DEF TypeOK, Known
      <4> SUFFICES ASSUME NEW c \in Calls PROVE outcome'[c] \in {None, Failed, c}
        BY DEF AnswersMatch
      <4>3. CASE [id |-> m.id, call |-> c] \in pending
        <5> DEFINE mine == [id |-> m.id, call |-> c]
        <5>1. mine \in Request /\ Known(mine) /\ mine.id = m.id
          BY <4>2, <4>3 DEF Request, Known
        <5>2. mine = m
          BY <4>2, <5>1 DEF IdsTellCalls
        <5>3. m.call = c
          BY <5>2
        <5> QED
          BY <4>1, <4>3, <5>3
      <4>4. CASE [id |-> m.id, call |-> c] \notin pending
        BY <4>1, <4>4 DEF AnswersMatch
      <4> QED
        BY <4>3, <4>4
    <3> QED
      BY <3>2, <3>3
  <2>9. ASSUME NEW w \in Calls, ErrorEvent(w) PROVE Answers'
    <3>1. IdsDrawn' /\ IdsTellCalls'
      BY <2>9, NothingNew DEF ErrorEvent, Reject, Known
    <3> QED
      BY <2>9, <3>1 DEF ErrorEvent, Reject, AnswersMatch
  <2>10. ASSUME NEW w \in Calls, ExitEvent(w) PROVE Answers'
    <3>1. \A m \in Request : Known(m)' => Known(m)
      BY <2>10 DEF ExitEvent, Reject, Known, TypeOK
    <3>2. IdsDrawn' /\ IdsTellCalls'
      BY <2>10, <3>1, NothingNew DEF ExitEvent
    <3> QED
      BY <2>10, <3>2 DEF ExitEvent, Reject, AnswersMatch
  <2> QED
    BY <2>1, <2>2, <2>3, <2>4, <2>5, <2>6, <2>7, <2>8, <2>9, <2>10 DEF Next
<1>3. Answers => AnswersMatch
  BY DEF Answers
<1> QED
  BY <1>1, <1>2, <1>3, TypeCorrect, PTL DEF Spec

-----------------------------------------------------------------------------
(***************************************************************************)
(* Waiting.  A caller posts to a worker whose end the host has not seen    *)
(* yet, since no event runs between the two; what is pending is therefore  *)
(* with a worker that answers it, or whose error or exit will reject it.   *)
(***************************************************************************)

Unspawned == \A c \in Calls : pc[c] \in {"idle", "importing", "spawning"} => thread[c] = "unborn"

CurrentLives == current # None => thread[current] \in {"up", "crashed"}

PostsToLive ==
    \A c \in Calls : pc[c] = "posting" =>
      at[c] \in Calls /\ thread[at[c]] \in {"up", "crashed", "stopping"}

Held(p) ==
    /\ pc[p.call] = "sent"
    /\ at[p.call] \in Calls
    /\ \/ thread[at[p.call]] \in {"crashed", "stopping", "exiting"}
       \/ thread[at[p.call]] = "up" /\ p \in inbox[at[p.call]] \cup outbox[at[p.call]]

Waiting == Unspawned /\ CurrentLives /\ PostsToLive /\ \A p \in pending : Held(p)

\* No worker leaves the host while one of its requests hangs: what is pending
\* is with a worker that can answer it or that has an end still to report.
THEOREM WaitingTheorem ==
    ASSUME MarksAssumption, BoundsAssumption
    PROVE  Spec => []NobodyWaitsInVain
<1>1. Init => Waiting
  BY DEF Init, Waiting, Unspawned, CurrentLives, PostsToLive
<1>2. TypeOK /\ Waiting /\ [Next]_vars => Waiting'
  <2> SUFFICES ASSUME TypeOK, Waiting, [Next]_vars PROVE Waiting'
    OBVIOUS
  <2> USE DEF Waiting
  <2>1. CASE UNCHANGED vars
    BY <2>1 DEF vars, Unspawned, CurrentLives, PostsToLive, Held
  <2>2. CASE Destroy
    <3>1. /\ thread' = [thread EXCEPT ![current] = IF @ = "up" THEN "stopping" ELSE @]
          /\ current \in Calls /\ current' = None /\ pc' = pc /\ at' = at
      BY <2>2 DEF Destroy, TypeOK
    <3>2. pending' = {}
      BY <2>2 DEF Destroy, Reject
    <3>3. Unspawned' /\ CurrentLives'
      BY <3>1 DEF Unspawned, CurrentLives, TypeOK
    <3>4. PostsToLive'
      BY <3>1 DEF PostsToLive, TypeOK
    <3> QED
      BY <3>2, <3>3, <3>4
  <2>3. ASSUME NEW c \in Calls, Call(c) PROVE Waiting'
    <3>1. Unspawned' /\ CurrentLives'
      BY <2>3 DEF Call, Unspawned, CurrentLives, TypeOK
    <3>2. PostsToLive'
      BY <2>3 DEF MarksAssumption, Call, PostsToLive, CurrentLives, TypeOK
    <3>3. ASSUME NEW p \in pending' PROVE Held(p)'
      <4>1. p \in Request /\ Held(p) /\ p.call # c
        BY <2>3, <3>3 DEF Call, Held, TypeOK
      <4> QED
        BY <2>3, <4>1 DEF Call, Held, TypeOK, Request
    <3> QED
      BY <3>1, <3>2, <3>3
  <2>4. ASSUME NEW c \in Calls, Import(c) \/ ImportFails(c) PROVE Waiting'
    <3>1. Unspawned' /\ CurrentLives' /\ PostsToLive'
      BY <2>4 DEF Import, ImportFails, Unspawned, CurrentLives, PostsToLive, TypeOK
    <3>2. ASSUME NEW p \in pending' PROVE Held(p)'
      <4>1. p \in Request /\ Held(p) /\ p.call # c
        BY <2>4, <3>2 DEF Import, ImportFails, Held, TypeOK
      <4> QED
        BY <2>4, <4>1 DEF Import, ImportFails, Held, TypeOK, Request
    <3> QED
      BY <3>1, <3>2
  <2>5. ASSUME NEW c \in Calls, Spawn(c) PROVE Waiting'
    <3>1. Unspawned' /\ CurrentLives'
      BY <2>5 DEF Spawn, Unspawned, CurrentLives, TypeOK
    <3>2. PostsToLive'
      BY <2>5 DEF Spawn, PostsToLive, TypeOK
    <3>3. ASSUME NEW p \in pending' PROVE Held(p)'
      <4>1. p \in Request /\ Held(p) /\ p.call # c
        BY <2>5, <3>3 DEF Spawn, Held, TypeOK
      <4>2. at[p.call] # c
        BY <2>5, <4>1 DEF Spawn, Held, Unspawned
      <4> QED
        BY <2>5, <4>1, <4>2 DEF Spawn, Held, TypeOK, Request
    <3> QED
      BY <3>1, <3>2, <3>3
  <2>6. ASSUME NEW c \in Calls, Post(c) PROVE Waiting'
    <3> DEFINE new == [id |-> NextId, call |-> c]
    <3>1. Unspawned' /\ CurrentLives' /\ PostsToLive'
      BY <2>6 DEF Post, Unspawned, CurrentLives, PostsToLive, TypeOK
    <3>2. ASSUME NEW p \in pending' PROVE Held(p)'
      <4>1. CASE p = new
        <5>1. at[c] \in Calls /\ thread[at[c]] \in {"up", "crashed", "stopping"}
          BY <2>6 DEF Post, PostsToLive
        <5>2. new \in inbox'[at[c]] \/ thread[at[c]] = "crashed"
          BY <2>6, <5>1 DEF Post, TypeOK
        <5> QED
          BY <2>6, <4>1, <5>1, <5>2 DEF Post, Held, TypeOK
      <4>2. CASE p # new
        <5>1. p \in Request /\ Held(p) /\ p.call # c
          BY <2>6, <3>2, <4>2 DEF Post, Held, TypeOK
        <5>2. p \in inbox[at[p.call]] => p \in inbox'[at[p.call]]
          BY <2>6, <5>1 DEF Post, Held, TypeOK
        <5> QED
          BY <2>6, <5>1, <5>2 DEF Post, Held, TypeOK, Request
      <4> QED
        BY <4>1, <4>2
    <3> QED
      BY <3>1, <3>2
  <2>7. ASSUME NEW w \in Calls, Process(w) PROVE Waiting'
    <3>1. Unspawned' /\ CurrentLives' /\ PostsToLive'
      BY <2>7 DEF Process, Unspawned, CurrentLives, PostsToLive
    <3>2. ASSUME NEW p \in pending' PROVE Held(p)'
      <4>1. Held(p)
        BY <2>7, <3>2 DEF Process
      <4>2. ASSUME NEW x \in Calls, p \in inbox[x] \cup outbox[x]
            PROVE  p \in inbox'[x] \cup outbox'[x]
        BY <2>7, <4>2 DEF Process, TypeOK
      <4> QED
        BY <2>7, <4>1, <4>2 DEF Process, Held
    <3> QED
      BY <3>1, <3>2
  <2>8. ASSUME NEW w \in Calls, Crash(w) PROVE Waiting'
    BY <2>8 DEF Crash, Unspawned, CurrentLives, PostsToLive, Held, TypeOK
  <2>9. ASSUME NEW w \in Calls, Deliver(w) PROVE Waiting'
    <3>1. Unspawned' /\ CurrentLives' /\ PostsToLive'
      BY <2>9 DEF Deliver, Unspawned, CurrentLives, PostsToLive
    <3>2. PICK m \in outbox[w] : /\ outbox' = [outbox EXCEPT ![w] = @ \ {m}]
                                 /\ pending' = {p \in pending : p.id # m.id}
      BY <2>9 DEF Deliver
    <3>3. ASSUME NEW p \in pending' PROVE Held(p)'
      <4>1. Held(p) /\ p # m
        BY <3>2, <3>3
      <4>2. ASSUME NEW x \in Calls, p \in inbox[x] \cup outbox[x]
            PROVE  p \in inbox'[x] \cup outbox'[x]
        BY <2>9, <3>2, <4>1, <4>2 DEF Deliver, TypeOK
      <4> QED
        BY <2>9, <4>1, <4>2 DEF Deliver, Held
    <3> QED
      BY <3>1, <3>3
  <2>10. ASSUME NEW w \in Calls, ErrorEvent(w) \/ ExitEvent(w) PROVE Waiting'
    <3>1. pending' = {} /\ current' = None /\ pc' = pc /\ \A c \in Calls : pc[c] # "posting"
      BY <2>10 DEF ErrorEvent, ExitEvent, Reject, Rejects, WorkerAfter, EventLoop
    <3>2. Unspawned'
      BY <2>10, <3>1 DEF ErrorEvent, ExitEvent, Unspawned, TypeOK
    <3> QED
      BY <3>1, <3>2 DEF CurrentLives, PostsToLive
  <2> QED
    BY <2>1, <2>2, <2>3, <2>4, <2>5, <2>6, <2>7, <2>8, <2>9, <2>10 DEF Next
<1>3. TypeOK /\ Waiting => NobodyWaitsInVain
  BY DEF Waiting, Held, NobodyWaitsInVain, TypeOK
<1> QED
  BY <1>1, <1>2, <1>3, TypeCorrect, PTL DEF Spec

-----------------------------------------------------------------------------
(***************************************************************************)
(* DynamicRegistry.  A reload under way is up to date in what it has read   *)
(* already: this is what two unordered queries and other reloads leave      *)
(* alone, and what the registry has once the reload finishes.               *)
(***************************************************************************)

\* A stored chain, and what may be stored under a name.
Chains == {"none", "valid", "invalid"}
Stored == Types!Definition \cup {Types!Undefined}
            \cup { [Types!Undefined EXCEPT !.chain = c] : c \in Chains }

\* A set of definitions, as a query or a reload returns one.
Definitions == UNION { [S -> Stored] : S \in SUBSET Types!Types }

Busy == [active : {TRUE}, todo : SUBSET {"nodes", "edges"}, read : Definitions,
         since : [Types!Types -> Nat]]

\* Reload call c has had the answer that holds n.
Asked(c, n) == \/ n \in NodeTypes /\ "nodes" \notin c.todo
               \/ n \in EdgeTypes /\ "edges" \notin c.todo

\* What c read of n is no older than what was acknowledged when it began.
UpToDate(c, n) ==
  /\ c.since[n] <= meta[n].seq
  /\ c.since[n] > 0 /\ Asked(c, n) /\ Types!Few =>
       n \in DOMAIN c.read /\ c.read[n].seq >= c.since[n]

RegistryInv ==
  /\ meta \in [Types!Types -> Stored] /\ \A n \in Types!Types : meta[n].seq <= defines
  /\ registry \in Definitions /\ Types!Compiles(registry)
  /\ defines \in 0..MaxDefines /\ faults \in 0..MaxFaults
  /\ reload \in [Reloads -> Busy \cup {Types!Idle}]
  /\ \A r \in Reloads : reload[r].active => \A n \in Types!Types : UpToDate(reload[r], n)

\* What is stored under a name.
LEMMA StoredIs ==
  ASSUME NEW x \in Stored
  PROVE  /\ x = [seq |-> x.seq, asked |-> x.asked, props |-> x.props, chain |-> x.chain]
         /\ x.seq \in Nat /\ x.asked \in SUBSET Properties /\ x.props \in SUBSET Properties
         /\ x # Types!Undefined => x.chain \in Chains
<1>1. CASE x \in Types!Definition
  BY <1>1 DEF Types!Definition, Chains
<1>2. CASE x = Types!Undefined
  BY <1>2 DEF Types!Undefined
<1>3. CASE x \in { [Types!Undefined EXCEPT !.chain = c] : c \in Chains }
  BY <1>3 DEF Types!Undefined
<1> QED
  BY <1>1, <1>2, <1>3 DEF Stored

\* What was read, by name.
LEMMA DefinitionsAre ==
  ASSUME NEW h \in Definitions
  PROVE  /\ DOMAIN h \subseteq Types!Types
         /\ \A n \in DOMAIN h : h[n] \in Stored
  BY DEF Definitions

\* Before the first reload no definition is served.
LEMMA NotLoadedIs == /\ Types!NotLoaded \in Definitions
                     /\ DOMAIN Types!NotLoaded = {} /\ Types!Compiles(Types!NotLoaded)
<1>1. Types!NotLoaded \in [{} -> Stored] /\ DOMAIN Types!NotLoaded = {}
  BY DEF Types!NotLoaded
<1>2. Types!NotLoaded \in Definitions
  BY <1>1 DEF Definitions
<1> QED
  BY <1>1, <1>2 DEF Types!Compiles

\* The instance has its own copy of the module FiniteSets.
LEMMA SameFinite ==
  \A S : /\ Types!Cardinality(S) = Cardinality(S)
         /\ Types!IsFiniteSet(S) <=> IsFiniteSet(S)
  BY DEF Types!Cardinality, Cardinality, Types!IsFiniteSet, IsFiniteSet

\* How many there are depends on what is stored only.
LEMMA FewSame == ASSUME meta' = meta PROVE Types!Few' <=> Types!Few
<1>1. /\ Types!Defined(NodeTypes)' = Types!Defined(NodeTypes)
      /\ Types!Defined(EdgeTypes)' = Types!Defined(EdgeTypes)
  BY DEF Types!Defined, Types!Seen
<1> QED
  BY <1>1 DEF Types!Few

\* Definitions only appear, so too many stay too many.
LEMMA FewStays ==
  ASSUME Types!RegistryAssumption, \A n \in Types!Types : Types!Seen(n) => Types!Seen(n)', Types!Few'
  PROVE  Types!Few
<1>1. /\ Types!Defined(NodeTypes) \subseteq Types!Defined(NodeTypes)'
      /\ Types!Defined(EdgeTypes) \subseteq Types!Defined(EdgeTypes)'
  BY DEF Types!Types, Types!Defined
<1>2. Types!Defined(NodeTypes)' \subseteq NodeTypes /\ Types!Defined(EdgeTypes)' \subseteq EdgeTypes
  BY DEF Types!Defined
<1>3. IsFiniteSet(Types!Defined(NodeTypes)') /\ IsFiniteSet(Types!Defined(EdgeTypes)')
  <2>1. IsFiniteSet(NodeTypes) /\ IsFiniteSet(EdgeTypes)
    BY SameFinite DEF Types!RegistryAssumption
  <2>2. IsFiniteSet(Types!Defined(NodeTypes)')
    BY <1>2, <2>1, FS_Subset
  <2>3. IsFiniteSet(Types!Defined(EdgeTypes)')
    BY <1>2, <2>1, FS_Subset
  <2> QED
    BY <2>2, <2>3
<1>4. /\ IsFiniteSet(Types!Defined(NodeTypes))
      /\ Cardinality(Types!Defined(NodeTypes)) <= Cardinality(Types!Defined(NodeTypes)')
  BY <1>1, <1>3, FS_Subset
<1>5. /\ IsFiniteSet(Types!Defined(EdgeTypes))
      /\ Cardinality(Types!Defined(EdgeTypes)) <= Cardinality(Types!Defined(EdgeTypes)')
  BY <1>1, <1>3, FS_Subset
<1>6. /\ Cardinality(Types!Defined(NodeTypes)) \in Nat /\ Cardinality(Types!Defined(NodeTypes)') \in Nat
      /\ Cardinality(Types!Defined(EdgeTypes)) \in Nat /\ Cardinality(Types!Defined(EdgeTypes)') \in Nat
      /\ Limit \in Nat
  BY <1>3, <1>4, <1>5, FS_CardinalityType DEF Types!RegistryAssumption
<1> QED
  BY <1>4, <1>5, <1>6, SameFinite DEF Types!Few

\* What one query adds to a call.
LEMMA ReadKeeps ==
  ASSUME Types!RegistryAssumption, RegistryInv, NEW r \in Reloads, NEW kind \in {"nodes", "edges"},
         Types!Read(r, kind)
  PROVE  RegistryInv'
<1> DEFINE c == reload[r]
<1>1. /\ c \in Busy /\ UNCHANGED <<meta, registry, defines, faults>>
      /\ c.active /\ kind \in c.todo
  BY DEF Types!Read, RegistryInv, Types!Idle
<1>2. PICK S \in Types!Answers(kind) :
        reload' = [reload EXCEPT
          ![r].todo = @ \ {kind},
          ![r].read = [n \in DOMAIN @ \cup S |-> IF n \in S THEN meta[n] ELSE @[n]]]
  BY DEF Types!Read
<1> DEFINE names == IF kind = "nodes" THEN NodeTypes ELSE EdgeTypes
           there == Types!Defined(names)
           more == [n \in DOMAIN c.read \cup S |-> IF n \in S THEN meta[n] ELSE c.read[n]]
           new == [c EXCEPT !.todo = @ \ {kind}, !.read = more]
<1>3. /\ S \subseteq there /\ there \subseteq Types!Types
      /\ Cardinality(there) <= Limit => S = there
  <2>1. names \subseteq Types!Types
    BY DEF Types!Types
  <2>2. /\ S \in SUBSET there
        /\ IF Cardinality(there) <= Limit THEN S = there ELSE Cardinality(S) = Limit
    BY <1>2, SameFinite DEF Types!Answers
  <2> HIDE DEF names
  <2> QED
    BY <2>1, <2>2 DEF Types!Defined
<1>4. /\ c.read \in Definitions /\ c.since \in [Types!Types -> Nat]
      /\ c.todo \in SUBSET {"nodes", "edges"}
      /\ c = [active |-> TRUE, todo |-> c.todo, read |-> c.read, since |-> c.since]
  BY <1>1 DEF Busy
<1>5. reload' = [reload EXCEPT ![r] = new]
  BY <1>2
<1>6. more \in Definitions
  <2>1. DOMAIN c.read \cup S \in SUBSET Types!Types
    BY <1>3, <1>4, DefinitionsAre
  <2>2. \A n \in DOMAIN c.read \cup S : (IF n \in S THEN meta[n] ELSE c.read[n]) \in Stored
    BY <1>3, <1>4, DefinitionsAre DEF RegistryInv
  <2>3. more \in [DOMAIN c.read \cup S -> Stored]
    BY <2>2
  <2> HIDE DEF more
  <2> QED
    BY <2>1, <2>3 DEF Definitions
<1>7. new \in Busy /\ new.since = c.since /\ new.read = more /\ new.todo = c.todo \ {kind}
  <2>1. c.todo \ {kind} \in SUBSET {"nodes", "edges"}
    BY <1>4
  <2> HIDE DEF more, c
  <2> QED
    BY <1>1, <1>6, <2>1 DEF Busy
<1>8. Types!Few => S = there
  <2>2. Types!Few => Cardinality(there) <= Limit
    BY SameFinite DEF Types!Few
  <2> QED
    BY <1>3, <2>2
<1>9. ASSUME NEW n \in Types!Types, new.since[n] > 0, Asked(new, n), Types!Few
      PROVE  n \in DOMAIN more /\ more[n].seq >= new.since[n]
  <2>1. c.since[n] \in Nat /\ c.since[n] <= meta[n].seq /\ meta[n].seq \in Nat /\ c.since[n] > 0
    BY <1>1, <1>4, <1>7, <1>9, StoredIs DEF RegistryInv, UpToDate
  <2>2. CASE n \in S
    BY <1>7, <2>1, <2>2
  <2>3. CASE n \notin S
    <3>1. Types!Seen(n)
      BY <2>1 DEF Types!Seen, Types!Undefined
    <3>2. ~(n \in IF kind = "nodes" THEN NodeTypes ELSE EdgeTypes)
      BY <1>8, <1>9, <2>3, <3>1 DEF Types!Defined
    <3>3. Asked(c, n)
      BY <1>7, <1>9, <3>2 DEF Asked
    <3>4. n \in DOMAIN c.read /\ c.read[n].seq >= c.since[n]
      BY <1>1, <1>9, <2>1, <3>3 DEF RegistryInv, UpToDate
    <3> QED
      BY <1>7, <2>3, <3>4
  <2> QED
    BY <2>2, <2>3
<1> HIDE DEF more, new, c
<1>10. /\ reload' \in [Reloads -> Busy \cup {Types!Idle}]
       /\ \A q \in Reloads : reload'[q] = IF q = r THEN new ELSE reload[q]
  BY <1>5, <1>7 DEF RegistryInv
<1>11. meta' = meta /\ (Types!Few' <=> Types!Few)
  BY <1>1, FewSame
<1>12. ASSUME NEW n \in Types!Types
       PROVE  UpToDate(reload[r], n)'
  <2>1. UpToDate(c, n) /\ reload'[r] = new
    BY <1>1, <1>10 DEF RegistryInv, c
  <2>2. /\ new.since[n] <= meta'[n].seq
        /\ new.since[n] > 0 /\ Asked(new, n) /\ Types!Few' =>
             n \in DOMAIN new.read /\ new.read[n].seq >= new.since[n]
    BY <1>7, <1>9, <1>11, <2>1 DEF UpToDate
  <2> QED
    BY <2>1, <2>2 DEF UpToDate, Asked
<1>13. ASSUME NEW q \in Reloads, q # r, reload'[q].active, NEW n \in Types!Types
       PROVE  UpToDate(reload[q], n)'
  <2>1. UpToDate(reload[q], n) /\ reload'[q] = reload[q]
    BY <1>10, <1>13 DEF RegistryInv
  <2> QED
    BY <1>11, <2>1 DEF UpToDate, Asked
<1>14. \A q \in Reloads : reload'[q].active => \A n \in Types!Types : UpToDate(reload[q], n)'
  BY <1>12, <1>13
<1> QED
  BY <1>1, <1>10, <1>14 DEF RegistryInv, Types!Compiles

\* A definition is newer than everything a call has asked for.
LEMMA DefineKeeps ==
  ASSUME Types!RegistryAssumption, RegistryInv, NEW n \in Types!Types, NEW props \in SUBSET Properties,
         NEW chain \in Chains, Types!Define(n, props, chain)
  PROVE  RegistryInv'
<1> DEFINE new == Types!Merged(meta[n], defines + 1, props, chain)
<1>1. /\ defines < MaxDefines /\ defines' = defines + 1 /\ meta' = [meta EXCEPT ![n] = new]
      /\ UNCHANGED <<registry, reload, faults>>
  BY DEF Types!Define
<1>2. meta[n] \in Stored
  BY DEF RegistryInv
<1>3. defines \in Nat /\ MaxDefines \in Nat /\ defines + 1 \in 0..MaxDefines
  BY <1>1 DEF Types!RegistryAssumption, RegistryInv
<1>4. new \in Types!Definition /\ new.seq = defines + 1
  BY <1>2, <1>3, StoredIs DEF Types!Merged, Types!Definition, Chains
<1> HIDE DEF new
<1>5. /\ meta' \in [Types!Types -> Stored]
      /\ meta'[n] = new
      /\ \A m \in Types!Types \ {n} : meta'[m] = meta[m]
  BY <1>1, <1>4 DEF RegistryInv, Stored
<1>6. \A m \in Types!Types : meta'[m].seq <= defines' /\ meta[m].seq <= meta'[m].seq
                           /\ meta[m].seq \in Nat /\ meta'[m].seq \in Nat
  <2> TAKE m \in Types!Types
  <2>1. meta[m] \in Stored /\ meta[m].seq <= defines
    BY DEF RegistryInv
  <2>2. meta[m].seq \in Nat
    BY <2>1, StoredIs
  <2> QED
    BY <1>1, <1>3, <1>4, <1>5, <2>1, <2>2
<1>7. \A m \in Types!Types : Types!Seen(m) => Types!Seen(m)'
  BY <1>3, <1>4, <1>5 DEF Types!Seen, Types!Undefined
<1>8. Types!Few' => Types!Few
  BY <1>7, FewStays
<1>9. ASSUME NEW r \in Reloads, reload'[r].active, NEW m \in Types!Types
      PROVE  UpToDate(reload[r], m)'
  <2>1. UpToDate(reload[r], m) /\ reload' = reload /\ reload[r] \in Busy
    BY <1>1, <1>9 DEF RegistryInv, Types!Idle
  <2>2. reload[r].since[m] \in Nat
    BY <2>1 DEF Busy
  <2> QED
    BY <1>6, <1>8, <2>1, <2>2 DEF UpToDate, Asked
<1> QED
  BY <1>1, <1>3, <1>5, <1>6, <1>9 DEF RegistryInv, Types!Compiles

\* Every step keeps the invariant.
LEMMA RegistryStep ==
  ASSUME Types!RegistryAssumption, RegistryInv, [Types!Next]_(Types!vars)
  PROVE  RegistryInv'
<1>1. CASE UNCHANGED Types!vars
  <2>1. UNCHANGED <<meta, registry, reload, defines, faults>>
    BY <1>1 DEF Types!vars
  <2>2. Types!Few' <=> Types!Few
    BY <2>1, FewSame
  <2> QED
    BY <2>1, <2>2 DEF RegistryInv, UpToDate, Asked, Types!Compiles
<1> DEFINE Others(r) ==
      \A q \in Reloads \ {r} : reload[q].active => \A n \in Types!Types : UpToDate(reload[q], n)
<1>2. ASSUME UNCHANGED meta, \A q \in Reloads : reload'[q] \in {reload[q], Types!Idle}
      PROVE  \A r \in Reloads : reload'[r].active => \A n \in Types!Types : UpToDate(reload[r], n)'
  <2> SUFFICES ASSUME NEW r \in Reloads, reload'[r].active, NEW n \in Types!Types
               PROVE  UpToDate(reload[r], n)'
    OBVIOUS
  <2>1. reload'[r] = reload[r]
    BY <1>2 DEF Types!Idle
  <2>2. UpToDate(reload[r], n)
    BY <2>1 DEF RegistryInv
  <2>3. Types!Few' <=> Types!Few
    BY <1>2, FewSame
  <2> QED
    BY <1>2, <2>1, <2>2, <2>3 DEF UpToDate, Asked
<1>3. ASSUME NEW n \in Types!Types, NEW props \in SUBSET Properties,
             NEW chain \in {"none", "valid", "invalid"}, Types!Define(n, props, chain)
      PROVE  RegistryInv'
  BY <1>3, DefineKeeps DEF Chains
<1>4. ASSUME NEW r \in Reloads, Types!Start(r)
      PROVE  RegistryInv'
  <2> DEFINE new == [active |-> TRUE, todo |-> {"nodes", "edges"}, read |-> Types!NotLoaded,
                     since |-> [n \in Types!Types |-> meta[n].seq]]
  <2>1. reload' = [reload EXCEPT ![r] = new] /\ UNCHANGED <<meta, registry, defines, faults>>
    BY <1>4 DEF Types!Start
  <2>2. \A n \in Types!Types : meta[n].seq \in Nat
    BY StoredIs DEF RegistryInv
  <2>3. new \in Busy
    BY <2>2, NotLoadedIs DEF Busy
  <2>4. \A n \in Types!Types : /\ new.since[n] = meta'[n].seq /\ meta'[n].seq \in Nat
                              /\ ~Asked(new, n)
    BY <2>1, <2>2 DEF Asked
  <2> HIDE DEF new
  <2>5. /\ reload' \in [Reloads -> Busy \cup {Types!Idle}]
        /\ \A q \in Reloads : reload'[q] = IF q = r THEN new ELSE reload[q]
    BY <2>1, <2>3 DEF RegistryInv
  <2>6. meta' = meta /\ (Types!Few' <=> Types!Few)
    BY <2>1, FewSame
  <2>7. ASSUME NEW q \in Reloads, reload'[q].active, NEW n \in Types!Types
        PROVE  UpToDate(reload[q], n)'
    <3>1. CASE q = r
      BY <2>4, <2>5, <3>1 DEF UpToDate, Asked
    <3>2. CASE q # r
      <4>1. reload'[q] = reload[q] /\ UpToDate(reload[q], n)
        BY <2>5, <2>7, <3>2 DEF RegistryInv
      <4> QED
        BY <2>6, <4>1 DEF UpToDate, Asked
    <3> QED
      BY <3>1, <3>2
  <2> QED
    BY <2>1, <2>5, <2>7 DEF RegistryInv, Types!Compiles
<1>5. ASSUME NEW r \in Reloads, NEW kind \in {"nodes", "edges"}, Types!Read(r, kind)
      PROVE  RegistryInv'
  BY <1>5, ReadKeeps
<1>6. ASSUME NEW r \in Reloads, Types!Finish(r)
      PROVE  RegistryInv'
  <2>1. /\ reload' = [reload EXCEPT ![r] = Types!Idle] /\ UNCHANGED <<meta, defines, faults>>
        /\ registry' = Types!Installed(reload[r].read) /\ reload[r] \in Busy
    BY <1>6 DEF Types!Finish, RegistryInv, Types!Idle
  <2>2. /\ reload' \in [Reloads -> Busy \cup {Types!Idle}]
        /\ \A q \in Reloads : reload'[q] \in {reload[q], Types!Idle}
    BY <2>1 DEF RegistryInv
  <2>3. reload[r].read \in Definitions
    BY <2>1 DEF Busy
  <2>4. registry' \in Definitions /\ Types!Compiles(registry)'
    BY <2>1, <2>3 DEF Types!Installed, RegistryInv, Types!Compiles
  <2> QED
    BY <1>2, <2>1, <2>2, <2>4 DEF RegistryInv
<1>7. ASSUME NEW r \in Reloads, Types!Fail(r)
      PROVE  RegistryInv'
  <2>1. /\ reload' = [reload EXCEPT ![r] = Types!Idle] /\ UNCHANGED <<meta, defines, registry>>
        /\ faults' \in 0..MaxFaults
    BY <1>7 DEF Types!Fail, RegistryInv, Types!RegistryAssumption
  <2>2. /\ reload' \in [Reloads -> Busy \cup {Types!Idle}]
        /\ \A q \in Reloads : reload'[q] \in {reload[q], Types!Idle}
    BY <2>1 DEF RegistryInv
  <2> QED
    BY <1>2, <2>1, <2>2 DEF RegistryInv, Types!Compiles
<1>8. CASE Types!Restart
  <2>1. /\ reload' = [q \in Reloads |-> Types!Idle] /\ UNCHANGED <<meta, defines>>
        /\ faults' \in 0..MaxFaults /\ registry' = Types!NotLoaded
    BY <1>8 DEF Types!Restart, RegistryInv, Types!RegistryAssumption
  <2>2. /\ reload' \in [Reloads -> Busy \cup {Types!Idle}]
        /\ \A q \in Reloads : reload'[q] \in {reload[q], Types!Idle}
    BY <2>1
  <2>3. registry' \in Definitions /\ Types!Compiles(registry)'
    BY <2>1, NotLoadedIs DEF Types!Compiles
  <2> QED
    BY <1>2, <2>1, <2>2, <2>3 DEF RegistryInv
<1> QED
  BY <1>1, <1>3, <1>4, <1>5, <1>6, <1>7, <1>8 DEF Types!Next, Types!Steps

\* It holds of what an earlier deployment left.
LEMMA RegistryInit ==
  ASSUME Types!RegistryAssumption, Types!Init
  PROVE  RegistryInv
<1>1. PICK left \in UNION { [S -> Chains] : S \in SUBSET Leftover } :
        meta = [n \in Types!Types |-> IF n \in DOMAIN left
                  THEN [Types!Undefined EXCEPT !.chain = left[n]] ELSE Types!Undefined]
  BY DEF Types!Init, Chains
<1>2. \A n \in Types!Types : meta[n] \in Stored /\ meta[n].seq = 0
  <2> TAKE n \in Types!Types
  <2>1. CASE n \in DOMAIN left
    <3>1. left[n] \in Chains
      BY <1>1, <2>1
    <3> QED
      BY <1>1, <2>1, <3>1 DEF Stored, Types!Undefined
  <2>2. CASE n \notin DOMAIN left
    BY <1>1, <2>2 DEF Stored, Types!Undefined
  <2> QED
    BY <2>1, <2>2
<1>3. meta \in [Types!Types -> Stored]
  BY <1>1, <1>2
<1>4. /\ registry = Types!NotLoaded /\ reload = [r \in Reloads |-> Types!Idle]
      /\ defines = 0 /\ faults = 0
  BY DEF Types!Init
<1>5. \A r \in Reloads : reload[r] = Types!Idle /\ ~reload[r].active
  BY <1>4 DEF Types!Idle
<1> QED
  BY <1>2, <1>3, <1>4, <1>5, NotLoadedIs DEF RegistryInv, Types!RegistryAssumption

\* What a write is judged by has a valid chain, and a static entry stays.
LEMMA RegistrySound == RegistryInv => Types!ServedTypesAreSound
<1> SUFFICES ASSUME RegistryInv PROVE Types!ServedTypesAreSound
  OBVIOUS
<1>1. \A r \in Reloads : reload[r].active =>
        DOMAIN reload[r].read \subseteq Types!Types /\ reload[r].todo \subseteq {"nodes", "edges"}
  <2> SUFFICES ASSUME NEW r \in Reloads, reload[r].active
               PROVE  /\ DOMAIN reload[r].read \subseteq Types!Types
                      /\ reload[r].todo \subseteq {"nodes", "edges"}
    OBVIOUS
  <2>1. reload[r] \in Busy
    BY DEF RegistryInv, Types!Idle
  <2> QED
    BY <2>1, DefinitionsAre DEF Busy
<1>2. Types!TypeOK
  BY <1>1, DefinitionsAre DEF RegistryInv, Types!TypeOK, Stored, Chains
<1>3. Types!ServedChainsAreValid
  BY DEF Types!ServedChainsAreValid, RegistryInv, Types!Judge, Types!StaticEntry, Types!Undefined,
         Types!Compiles
<1>4. Types!StaticNeverOverridden
  BY DEF Types!StaticNeverOverridden, Types!Judge
<1> QED
  BY <1>2, <1>3, <1>4 DEF Types!ServedTypesAreSound

\* No write is ever judged by a type whose migrations form no chain, and no stored
\* definition overrides a static type (getRegistryForType over createRegistry and
\* createMergedRegistry), for any names, reloads that overlap, restarts, failing
\* queries and definitions an earlier deployment left.
THEOREM RegistryServes ==
  ASSUME Types!RegistryAssumption
  PROVE  Types!Spec => []Types!ServedTypesAreSound
<1>1. Types!Init => RegistryInv
  BY RegistryInit
<1>2. RegistryInv /\ [Types!Next]_(Types!vars) => RegistryInv'
  BY RegistryStep
<1> QED
  BY <1>1, <1>2, RegistrySound, PTL DEF Types!Spec

\* A call that installs what it read installs what was acknowledged before it.
LEMMA ReloadIsFresh ==
  ASSUME Types!RegistryAssumption, RegistryInv, [Types!Next]_(Types!vars), NEW r \in Reloads,
         reload[r].active, ~reload'[r].active,
         registry' # registry, registry' # Types!NotLoaded, Types!Few,
         NEW n \in Types!Types, reload[r].since[n] > 0
  PROVE  n \in DOMAIN registry' /\ registry'[n].seq >= reload[r].since[n]
<1>1. PICK q \in Reloads : Types!Finish(q)
  BY DEF Types!Next, Types!vars, Types!Define, Types!Start, Types!Steps, Types!Read, Types!Fail, Types!Restart
<1>2. q = r
  BY <1>1 DEF Types!Finish, RegistryInv
<1>3. registry' = reload[r].read /\ reload[r].todo = {}
  BY <1>1, <1>2 DEF Types!Finish, Types!Installed
<1>4. Asked(reload[r], n)
  BY <1>3 DEF Asked, Types!Types
<1> QED
  BY <1>3, <1>4 DEF RegistryInv, UpToDate

\* A reload that installs a registry installs nothing older than what was
\* acknowledged before it was called (reloadRegistry), whatever the order of its two
\* queries and however many others overlap it, as long as one query returns all.
THEOREM RegistryReloads ==
  ASSUME Types!RegistryAssumption
  PROVE  Types!Spec => Types!ReloadSeesAcknowledged
<1>1. Types!Init => RegistryInv
  BY RegistryInit
<1>2. RegistryInv /\ [Types!Next]_(Types!vars) => RegistryInv'
  BY RegistryStep
<1>3. RegistryInv /\ [Types!Next]_(Types!vars) =>
        [\A r \in Reloads :
           /\ reload[r].active /\ ~reload'[r].active
           /\ registry' # registry /\ registry' # Types!NotLoaded
           /\ Types!Few
           => \A n \in Types!Types : reload[r].since[n] > 0 =>
                n \in DOMAIN registry' /\ registry'[n].seq >= reload[r].since[n]]_(Types!vars)
  BY ReloadIsFresh
<1> QED
  BY <1>1, <1>2, <1>3, PTL DEF Types!Spec, Types!ReloadSeesAcknowledged

-----------------------------------------------------------------------------
(* The parts side by side: each moves as its own specification says.        *)

LEMMA PartsAreSpecs == MCSpec => Spec /\ Types!Spec
<1>1. MCInit => Init /\ Types!Init
  BY DEF MCInit
<1>2. [MCNext]_<<part, vars, typeVars, chatVars, sessionVars>> =>
        [Next]_vars /\ [Types!Next]_(Types!vars)
  BY DEF MCNext, typeVars, Types!vars
<1> QED
  BY <1>1, <1>2, PTL DEF MCSpec, Spec, Types!Spec

\* What the registry judges by is sound, whatever the sandbox and the editor do.
THEOREM ServedTheorem ==
  ASSUME Types!RegistryAssumption
  PROVE  MCSpec => []ServedTypesAreSound
<1>1. Types!ServedTypesAreSound => ServedTypesAreSound
  BY DEF ServedTypesAreSound
<1> QED
  BY <1>1, PartsAreSpecs, RegistryServes, PTL

\* A reload installs nothing older than what was acknowledged before it began,
\* whatever the sandbox and the editor do.
THEOREM AcknowledgedTheorem ==
  ASSUME Types!RegistryAssumption
  PROVE  MCSpec => ReloadSeesAcknowledged
<1>1. Types!Spec => Types!ReloadSeesAcknowledged
  BY RegistryReloads
<1> QED
  BY <1>1, PartsAreSpecs, PTL DEF ReloadSeesAcknowledged

-----------------------------------------------------------------------------
(* The editor's chat (EditorChat).                                          *)

Queues == Seq(Chat!Events)
Texts == Seq(Nat)

ChatTurn ==
  [tab : Tabs, resumes : 0..MaxTurns, phase : Chat!Phases, process : Chat!Processes,
   signalled : BOOLEAN, named : BOOLEAN, said : 0..MaxChunks, stream : Chat!Streams,
   from : 0..MaxChunks, queue : Queues, text : Texts, learned : BOOLEAN]

ChatTypes ==
  /\ tab \in [Tabs -> [turn : 0..MaxTurns, session : 0..MaxTurns, history : SUBSET (1..MaxTurns)]]
  /\ turn \in Seq(ChatTurn) /\ Len(turn) <= MaxTurns
  /\ active \subseteq Chat!Turns /\ count \in Int /\ mishaps \in 0..MaxMishaps

Pending == {"posted", "opening", "reading"}

\* The slots, as SlotsAreKept says; a process not born has had no signal.
Slots ==
  /\ active = {r \in Chat!Turns : turn[r].process = "running" /\ ~turn[r].signalled}
  /\ IsFiniteSet(active) /\ count = Cardinality(active) /\ count <= MaxConcurrency
  /\ \A r \in Chat!Turns : turn[r].process = "unborn" => ~turn[r].signalled

\* A tab waits for one turn, the one that is pending for it.
Waits ==
  /\ \A r \in Chat!Turns : turn[r].phase \in Pending => tab[turn[r].tab].turn = r
  /\ \A t \in Tabs : LET r == tab[t].turn IN
       r # 0 => r \in Chat!Turns /\ turn[r].tab = t /\ turn[r].phase \in Pending

\* What is on its way to a tab that has read up to chunk m, of a process that
\* has said s: the rest of its words, after the session's name and before e marks.
Carries(q, m, s, e) == \E o \in {0, 1} :
  /\ m <= s /\ Len(q) = o + (s - m) + e
  /\ o = 1 => q[1] = Chat!Mark("session")
  /\ \A i \in 1..(s - m) : q[o + i] = Chat!Chunk(m + i)
  /\ \A i \in (o + (s - m) + 1)..Len(q) : q[i] \in {Chat!Mark("error"), Chat!Mark("done")}

Heard(r) == turn[r].from + Len(turn[r].text)

Flows(r) ==
  /\ turn[r].phase \in {"posted", "opening"} => turn[r].stream = "unopened" /\ turn[r].text = << >>
                                                   /\ turn[r].from = 0 /\ ~turn[r].learned
  /\ turn[r].phase # "reading" => turn[r].queue = << >> /\ turn[r].stream \notin {"open", "ended"}
  /\ turn[r].phase = "reading" =>
       /\ turn[r].stream \in {"open", "ended"}
       /\ \E e \in Nat : Carries(turn[r].queue, Heard(r), turn[r].said, e) /\ (r \in active => e = 0)
       /\ \A i \in DOMAIN turn[r].queue :
            turn[r].queue[i] = Chat!Mark("done") => turn[r].process = "closed"
  /\ ~turn[r].named => turn[r].said = 0 /\ \A i \in DOMAIN turn[r].queue : turn[r].queue[i] # Chat!Mark("session")
  /\ turn[r].stream = "ended" => turn[r].process = "closed"
  /\ \A i \in DOMAIN turn[r].text : turn[r].text[i] = turn[r].from + i
  /\ turn[r].phase = "answered" => turn[r].process = "closed" /\ Heard(r) = turn[r].said

Streamed == \A r \in Chat!Turns : Flows(r)

\* A turn resumes an earlier one, and a tab's history is its own.
Follows ==
  /\ \A r \in Chat!Turns : turn[r].resumes < r
  /\ \A t \in Tabs : /\ tab[t].session <= Len(turn)
                     /\ \A r \in tab[t].history : r \in Chat!Turns /\ turn[r].tab = t

Remembered == \A t \in Tabs :
  tab[t].turn # 0 => tab[t].history = {} \/ tab[t].session = turn[tab[t].turn].resumes

Recalls(f, s) ==
  [r \in 0..MaxTurns |-> IF r = 0 \/ r > Len(s) THEN {} ELSE {r} \cup f[s[r].resumes]]

\* The recursion has one solution.
OneMemory == \A f : f = Recalls(f, turn) <=> f = Chat!RemembersOf

ChatInv == ChatTypes /\ Slots /\ Waits /\ Streamed /\ Follows /\ Remembered /\ OneMemory
           /\ Chat!AnswersAreRemembered

\* A turn that changes, and the rest that do not.
Moves(r, x) ==
  /\ x \in ChatTurn /\ turn' \in Seq(ChatTurn) /\ Len(turn') = Len(turn) /\ turn'[r] = x
  /\ \A q \in Chat!Turns : q # r => turn'[q] = turn[q]

LEMMA MoveIs ==
  ASSUME ChatTypes, NEW r \in Chat!Turns, NEW x \in ChatTurn, turn' = [turn EXCEPT ![r] = x]
  PROVE  Moves(r, x)
<1>1. turn \in Seq(ChatTurn) /\ Len(turn) \in Nat /\ DOMAIN turn = 1..Len(turn) /\ r \in 1..Len(turn)
  BY DEF ChatTypes, Chat!Turns
<1>2. turn' \in [1..Len(turn) -> ChatTurn]
  BY <1>1
<1>3. turn' \in Seq(ChatTurn) /\ Len(turn') = Len(turn)
  BY <1>1, <1>2
<1> QED
  BY <1>1, <1>3 DEF Moves, Chat!Turns

LEMMA QueuesAre ==
  /\ << >> \in Queues /\ << >> \in Texts
  /\ \A q \in Queues : \A v \in Chat!Events : Append(q, v) \in Queues
  /\ \A q \in Texts : \A n \in Nat : Append(q, n) \in Texts
  /\ \A q \in Queues : q # << >> => Tail(q) \in Queues /\ Head(q) \in Chat!Events
BY DEF Queues, Texts

LEMMA TurnIs ==
  ASSUME ChatTypes, NEW r \in Chat!Turns
  PROVE  /\ turn[r] \in ChatTurn /\ r \in Nat \ {0} /\ r \in DOMAIN turn /\ r <= MaxTurns
         /\ turn[r].tab \in Tabs /\ tab[turn[r].tab] \in [turn : 0..MaxTurns, session : 0..MaxTurns, history : SUBSET (1..MaxTurns)]
         /\ turn[r].queue \in Queues /\ turn[r].text \in Texts
<1>1. turn \in Seq(ChatTurn) /\ Len(turn) \in Nat /\ DOMAIN turn = 1..Len(turn) /\ r \in 1..Len(turn)
  BY DEF ChatTypes, Chat!Turns
<1>2. turn[r] \in ChatTurn /\ r \in Nat \ {0} /\ r \in DOMAIN turn /\ r <= MaxTurns
  BY <1>1, ServerAssumption DEF Chat!ChatAssumption, ChatTypes
<1> QED
  BY <1>2 DEF ChatTypes, ChatTurn

LEMMA EventsAre ==
  /\ \A n \in 1..MaxChunks : Chat!Chunk(n) \in Chat!Events
  /\ \A name \in {"session", "error", "done"} : Chat!Mark(name) \in Chat!Events
  /\ \A v \in Chat!Events :
       /\ v.event \in {"chunk", "session", "error", "done"} /\ v.n \in Nat
       /\ v.event = "chunk" => v = Chat!Chunk(v.n) /\ v.n > 0
       /\ v.event # "chunk" => v = Chat!Mark(v.event)
  /\ \A n : \A name \in {"session", "error", "done"} : Chat!Chunk(n) # Chat!Mark(name)
  /\ \A name : Chat!Mark(name).event = name
  /\ \A n : Chat!Chunk(n).event = "chunk" /\ Chat!Chunk(n).n = n
<1>1. /\ \A name : Chat!Mark(name).event = name /\ Chat!Mark(name).n = 0
      /\ \A n : Chat!Chunk(n).event = "chunk" /\ Chat!Chunk(n).n = n
  BY DEF Chat!Chunk, Chat!Mark
<1>2. /\ \A n \in 1..MaxChunks : Chat!Chunk(n) \in Chat!Events
      /\ \A name \in {"session", "error", "done"} : Chat!Mark(name) \in Chat!Events
  BY DEF Chat!Events
<1>3. ASSUME NEW v \in Chat!Events
      PROVE  /\ v.event \in {"chunk", "session", "error", "done"} /\ v.n \in Nat
             /\ v.event = "chunk" => v = Chat!Chunk(v.n) /\ v.n > 0
             /\ v.event # "chunk" => v = Chat!Mark(v.event)
  <2>1. CASE \E n \in 1..MaxChunks : v = Chat!Chunk(n)
    BY <1>1, <2>1, ServerAssumption DEF Chat!ChatAssumption
  <2>2. CASE \E name \in {"session", "error", "done"} : v = Chat!Mark(name)
    BY <1>1, <2>2
  <2> QED
    BY <2>1, <2>2 DEF Chat!Events
<1> QED
  BY <1>1, <1>2, <1>3

LEMMA RefuseMoves ==
  ASSUME ChatTypes, NEW r \in Chat!Turns, Chat!Refuse(r)
  PROVE  Moves(r, [turn[r] EXCEPT !.phase = "failed"])
BY TurnIs, MoveIs DEF Chat!Refuse, ChatTurn, Chat!Phases

LEMMA SpawnMoves ==
  ASSUME ChatTypes, NEW r \in Chat!Turns, Chat!SpawnChat(r)
  PROVE  Moves(r, [turn[r] EXCEPT !.process = "running",
                     !.phase = IF turn[r].phase = "posted" THEN "opening" ELSE turn[r].phase])
<1> DEFINE x == [turn[r] EXCEPT !.process = "running",
                     !.phase = IF turn[r].phase = "posted" THEN "opening" ELSE turn[r].phase]
<1>1. x \in ChatTurn
  BY TurnIs DEF ChatTurn, Chat!Phases, Chat!Processes
<1>2. turn' = [turn EXCEPT ![r] = x]
  BY TurnIs DEF Chat!SpawnChat, ChatTurn
<1> QED
  BY <1>1, <1>2, MoveIs

LEMMA FailMoves ==
  ASSUME ChatTypes, NEW r \in Chat!Turns, Chat!FailToStart(r)
  PROVE  Moves(r, [turn[r] EXCEPT !.process = "closed"])
BY TurnIs, MoveIs DEF Chat!FailToStart, ChatTurn, Chat!Processes

LEMMA BroadcastIs ==
  ASSUME ChatTypes, NEW r \in Chat!Turns, NEW v \in Chat!Events
  PROVE  Chat!Broadcast(r, v) \in Queues
BY TurnIs, QueuesAre DEF Chat!Broadcast

LEMMA NameMoves ==
  ASSUME ChatTypes, NEW r \in Chat!Turns, Chat!Name(r)
  PROVE  Moves(r, [turn[r] EXCEPT !.named = TRUE,
                     !.queue = Chat!Broadcast(r, Chat!Mark("session"))])
<1> DEFINE x == [turn[r] EXCEPT !.named = TRUE, !.queue = Chat!Broadcast(r, Chat!Mark("session"))]
<1>0. Chat!Broadcast(r, Chat!Mark("session")) \in Queues
  BY EventsAre, BroadcastIs
<1>1. x \in ChatTurn
  BY <1>0, TurnIs DEF ChatTurn
<1>2. turn' = [turn EXCEPT ![r] = x]
  BY TurnIs DEF Chat!Name, ChatTurn
<1> QED
  BY <1>1, <1>2, MoveIs

LEMMA SpeakMoves ==
  ASSUME ChatTypes, NEW r \in Chat!Turns, Chat!Speak(r)
  PROVE  Moves(r, [turn[r] EXCEPT !.said = turn[r].said + 1,
                     !.queue = Chat!Broadcast(r, Chat!Chunk(turn[r].said + 1))])
<1> DEFINE x == [turn[r] EXCEPT !.said = turn[r].said + 1,
                     !.queue = Chat!Broadcast(r, Chat!Chunk(turn[r].said + 1))]
<1>1. turn[r].said + 1 \in 1..MaxChunks /\ turn[r].said + 1 \in 0..MaxChunks
  BY TurnIs, ServerAssumption DEF Chat!Speak, ChatTurn, Chat!ChatAssumption
<1>0. Chat!Broadcast(r, Chat!Chunk(turn[r].said + 1)) \in Queues
  BY <1>1, EventsAre, BroadcastIs
<1>2. x \in ChatTurn
  BY <1>0, <1>1, TurnIs DEF ChatTurn
<1>3. turn' = [turn EXCEPT ![r] = x]
  BY TurnIs DEF Chat!Speak, ChatTurn
<1> QED
  BY <1>2, <1>3, MoveIs

LEMMA CloseMoves ==
  ASSUME ChatTypes, NEW r \in Chat!Turns, NEW failed \in BOOLEAN, Chat!CloseProcess(r, failed)
  PROVE  Moves(r, [turn[r] EXCEPT !.process = "closed", !.queue = Chat!LastWords(r, failed),
                     !.stream = IF turn[r].stream = "open" THEN "ended" ELSE turn[r].stream])
<1> DEFINE x == [turn[r] EXCEPT !.process = "closed", !.queue = Chat!LastWords(r, failed),
                     !.stream = IF turn[r].stream = "open" THEN "ended" ELSE turn[r].stream]
<1>1. Chat!LastWords(r, failed) \in Queues
  BY TurnIs, EventsAre DEF Chat!LastWords, Queues
<1>2. x \in ChatTurn
  BY <1>1, TurnIs DEF ChatTurn, Chat!Processes, Chat!Streams
<1>3. turn' = [turn EXCEPT ![r] = x]
  BY TurnIs DEF Chat!CloseProcess, ChatTurn
<1> QED
  BY <1>2, <1>3, MoveIs

LEMMA TimeOutMoves ==
  ASSUME ChatTypes, NEW r \in Chat!Turns, Chat!TimeOut(r)
  PROVE  Moves(r, [turn[r] EXCEPT !.signalled = TRUE,
                     !.queue = Chat!Broadcast(r, Chat!Mark("error"))])
<1> DEFINE x == [turn[r] EXCEPT !.signalled = TRUE, !.queue = Chat!Broadcast(r, Chat!Mark("error"))]
<1>0. Chat!Broadcast(r, Chat!Mark("error")) \in Queues
  BY EventsAre, BroadcastIs
<1>1. x \in ChatTurn
  BY <1>0, TurnIs DEF ChatTurn
<1>2. turn' = [turn EXCEPT ![r] = x]
  BY TurnIs DEF Chat!TimeOut, ChatTurn
<1> QED
  BY <1>1, <1>2, MoveIs

LEMMA OpenMoves ==
  ASSUME ChatTypes, NEW r \in Chat!Turns, Chat!OpenStream(r)
  PROVE  Moves(r, [turn[r] EXCEPT !.phase = "reading", !.stream = "open", !.from = turn[r].said])
<1> DEFINE x == [turn[r] EXCEPT !.phase = "reading", !.stream = "open", !.from = turn[r].said]
<1>1. x \in ChatTurn
  BY TurnIs DEF ChatTurn, Chat!Phases, Chat!Streams
<1>2. turn' = [turn EXCEPT ![r] = x]
  BY TurnIs DEF Chat!OpenStream, ChatTurn
<1> QED
  BY <1>1, <1>2, MoveIs

LEMMA NotFoundMoves ==
  ASSUME ChatTypes, NEW r \in Chat!Turns, Chat!StreamNotFound(r)
  PROVE  Moves(r, [turn[r] EXCEPT !.phase = "failed"])
BY TurnIs, MoveIs DEF Chat!StreamNotFound, ChatTurn, Chat!Phases

LEMMA NoticeMoves ==
  ASSUME ChatTypes, NEW r \in Chat!Turns, Chat!NoticeDisconnect(r)
  PROVE  Moves(r, [turn[r] EXCEPT !.stream = "closed",
                     !.signalled = turn[r].signalled \/ turn[r].process = "running"])
<1> DEFINE x == [turn[r] EXCEPT !.stream = "closed",
                     !.signalled = turn[r].signalled \/ turn[r].process = "running"]
<1>1. x \in ChatTurn
  BY TurnIs DEF ChatTurn, Chat!Streams
<1>2. turn' = [turn EXCEPT ![r] = x]
  BY TurnIs DEF Chat!NoticeDisconnect, ChatTurn
<1> QED
  BY <1>1, <1>2, MoveIs

LEMMA ReadErrorMoves ==
  ASSUME ChatTypes, NEW r \in Chat!Turns, Chat!ReadError(r)
  PROVE  Moves(r, [turn[r] EXCEPT !.phase = "failed", !.text = << >>, !.from = 0, !.learned = FALSE,
                                    !.queue = << >>, !.stream = "dropped"])
<1> DEFINE x == [turn[r] EXCEPT !.phase = "failed", !.text = << >>, !.from = 0, !.learned = FALSE,
                                    !.queue = << >>, !.stream = "dropped"]
<1>0. 0 \in 0..MaxChunks
  BY ServerAssumption DEF Chat!ChatAssumption
<1>1. x \in ChatTurn
  BY <1>0, TurnIs, QueuesAre DEF ChatTurn, Chat!Phases, Chat!Streams
<1>2. turn' = [turn EXCEPT ![r] = x]
  BY TurnIs DEF Chat!ReadError, ChatTurn
<1> QED
  BY <1>1, <1>2, MoveIs

LEMMA ReadDoneMoves ==
  ASSUME ChatTypes, NEW r \in Chat!Turns, Chat!ReadDone(r)
  PROVE  Moves(r, [turn[r] EXCEPT !.phase = "answered", !.queue = << >>, !.stream = "dropped"])
<1> DEFINE x == [turn[r] EXCEPT !.phase = "answered", !.queue = << >>, !.stream = "dropped"]
<1>1. x \in ChatTurn
  BY TurnIs, QueuesAre DEF ChatTurn, Chat!Phases, Chat!Streams
<1>2. turn' = [turn EXCEPT ![r] = x]
  BY TurnIs DEF Chat!ReadDone, ChatTurn
<1> QED
  BY <1>1, <1>2, MoveIs

LEMMA ReadChunkMoves ==
  ASSUME ChatTypes, NEW r \in Chat!Turns, Chat!ReadChunk(r)
  PROVE  LET v == Head(turn[r].queue) IN
         Moves(r, [turn[r] EXCEPT !.queue = Tail(turn[r].queue),
                     !.text = IF v.event = "chunk" THEN Append(turn[r].text, v.n) ELSE turn[r].text,
                     !.learned = turn[r].learned \/ v.event = "session"])
<1> DEFINE v == Head(turn[r].queue)
           x == [turn[r] EXCEPT !.queue = Tail(turn[r].queue),
                     !.text = IF v.event = "chunk" THEN Append(turn[r].text, v.n) ELSE turn[r].text,
                     !.learned = turn[r].learned \/ v.event = "session"]
<1>1. v \in Chat!Events /\ Tail(turn[r].queue) \in Queues /\ v.n \in Nat
  BY TurnIs, EventsAre, QueuesAre DEF Chat!ReadChunk
<1>2. x \in ChatTurn
  BY <1>1, TurnIs, QueuesAre DEF ChatTurn
<1>3. turn' = [turn EXCEPT ![r] = x]
  BY TurnIs DEF Chat!ReadChunk, ChatTurn
<1> QED
  BY <1>2, <1>3, MoveIs

LEMMA ReloadMoves ==
  ASSUME ChatTypes, NEW t \in Tabs, Chat!ReloadPage(t), NEW r \in Chat!Turns, r = tab[t].turn
  PROVE  Moves(r, [turn[r] EXCEPT !.phase = "abandoned", !.queue = << >>, !.text = << >>,
                     !.from = 0, !.learned = FALSE,
                     !.stream = IF turn[r].stream \in {"open", "ended"} THEN "dropped" ELSE turn[r].stream])
<1> DEFINE stream == IF turn[r].stream \in {"open", "ended"} THEN "dropped" ELSE turn[r].stream
           x == [turn[r] EXCEPT !.phase = "abandoned", !.queue = << >>, !.text = << >>,
                     !.from = 0, !.learned = FALSE, !.stream = stream]
<1>0. 0 \in 0..MaxChunks
  BY ServerAssumption DEF Chat!ChatAssumption
<1>1. stream \in Chat!Streams
  BY TurnIs DEF ChatTurn, Chat!Streams
<1>2. turn' = [turn EXCEPT ![r] = x]
  BY TurnIs DEF Chat!ReloadPage, ChatTurn
<1> HIDE DEF stream
<1>3. "abandoned" \in Chat!Phases /\ turn[r] \in ChatTurn /\ << >> \in Queues /\ << >> \in Texts
  BY TurnIs, QueuesAre DEF Chat!Phases
<1> DEFINE y == [turn[r] EXCEPT !.phase = "abandoned", !.queue = << >>, !.text = << >>]
<1>4. y \in ChatTurn
  BY <1>3 DEF ChatTurn
<1>5. x = [y EXCEPT !.from = 0, !.learned = FALSE, !.stream = stream]
  BY <1>3 DEF ChatTurn
<1> HIDE DEF y
<1>6. [y EXCEPT !.from = 0, !.learned = FALSE, !.stream = stream] \in ChatTurn
  BY <1>0, <1>1, <1>4 DEF ChatTurn
<1>7. x \in ChatTurn
  BY <1>5, <1>6
<1> QED
  BY <1>2, <1>7, MoveIs DEF stream

LEMMA SendIs ==
  ASSUME ChatTypes, Follows, NEW t \in Tabs, Chat!SendMessage(t)
  PROVE  LET n == Len(turn) + 1 IN
         /\ turn' \in Seq(ChatTurn) /\ Len(turn') = n /\ n <= MaxTurns /\ n \in 1..MaxTurns
         /\ Chat!Turns' = Chat!Turns \cup {n} /\ n \notin Chat!Turns
         /\ turn'[n] = Chat!NewTurn(t) /\ \A q \in Chat!Turns : turn'[q] = turn[q]
<1> DEFINE n == Len(turn) + 1
<1>1. turn \in Seq(ChatTurn) /\ Len(turn) \in Nat /\ MaxTurns \in Nat /\ Len(turn) < MaxTurns
  BY ServerAssumption DEF ChatTypes, Chat!ChatAssumption, Chat!SendMessage
<1>2. tab[t].session \in 0..MaxTurns
  BY DEF ChatTypes
<1>3. 0 \in 0..MaxChunks
  BY ServerAssumption DEF Chat!ChatAssumption
<1>4. Chat!NewTurn(t) \in ChatTurn
  BY <1>2, <1>3, QueuesAre DEF Chat!NewTurn, ChatTurn, Chat!Phases, Chat!Processes, Chat!Streams
<1>5. turn' = Append(turn, Chat!NewTurn(t))
  BY DEF Chat!SendMessage
<1>6. /\ turn' \in Seq(ChatTurn) /\ Len(turn') = n /\ turn'[n] = Chat!NewTurn(t)
      /\ \A q \in 1..Len(turn) : turn'[q] = turn[q]
  BY <1>1, <1>4, <1>5
<1>7. n \in 1..MaxTurns /\ 1..n = (1..Len(turn)) \cup {n} /\ n \notin 1..Len(turn)
  BY <1>1
<1> QED
  BY <1>6, <1>7 DEF Chat!Turns

\* The turn of a step of one turn.
LEMMA SameTurns ==
  ASSUME NEW r \in Chat!Turns, NEW x, Moves(r, x)
  PROVE  Chat!Turns' = Chat!Turns
BY DEF Moves, Chat!Turns

\* What the steps of one turn do to it.
ChatStep(r) ==
  \/ Chat!Refuse(r) \/ Chat!SpawnChat(r) \/ Chat!FailToStart(r) \/ Chat!Name(r) \/ Chat!Speak(r)
  \/ Chat!TimeOut(r) \/ (\E failed \in BOOLEAN : Chat!CloseProcess(r, failed))
  \/ Chat!OpenStream(r) \/ Chat!StreamNotFound(r) \/ Chat!NoticeDisconnect(r)
  \/ Chat!ReadChunk(r) \/ Chat!ReadError(r) \/ Chat!ReadDone(r)

LEMMA StepMoves ==
  ASSUME ChatTypes, NEW r \in Chat!Turns, ChatStep(r)
  PROVE  \E x \in ChatTurn : Moves(r, x)
<1>1. ASSUME NEW x, Moves(r, x) PROVE \E y \in ChatTurn : Moves(r, y)
  BY <1>1 DEF Moves
<1>2. CASE \E failed \in BOOLEAN : Chat!CloseProcess(r, failed)
  BY <1>1, <1>2, CloseMoves
<1>3. CASE Chat!ReadChunk(r)
  BY <1>1, <1>3, ReadChunkMoves
<1>4. CASE Chat!ReadError(r) \/ Chat!ReadDone(r) \/ Chat!NoticeDisconnect(r) \/ Chat!OpenStream(r)
  BY <1>1, <1>4, ReadErrorMoves, ReadDoneMoves, NoticeMoves, OpenMoves
<1>5. CASE Chat!Refuse(r) \/ Chat!StreamNotFound(r) \/ Chat!SpawnChat(r) \/ Chat!FailToStart(r)
  BY <1>1, <1>5, RefuseMoves, NotFoundMoves, SpawnMoves, FailMoves
<1>6. CASE Chat!Name(r) \/ Chat!Speak(r) \/ Chat!TimeOut(r)
  BY <1>1, <1>6, NameMoves, SpeakMoves, TimeOutMoves
<1> QED
  BY <1>2, <1>3, <1>4, <1>5, <1>6 DEF ChatStep

\* A step of one turn and the tab it belongs to.
LEMMA StepTabs ==
  ASSUME ChatTypes, NEW r \in Chat!Turns, ChatStep(r)
  PROVE  /\ mishaps' = mishaps
         /\ \/ tab' = tab
            \/ /\ tab' = [tab EXCEPT ![turn[r].tab] = [tab[turn[r].tab] EXCEPT !.turn = 0]]
               /\ Chat!Refuse(r) \/ Chat!StreamNotFound(r) \/ Chat!ReadError(r)
            \/ /\ tab' = [tab EXCEPT ![turn[r].tab] = [tab[turn[r].tab] EXCEPT !.turn = 0, !.session = Chat!NextSession(r)]]
               /\ Chat!ReadDone(r)
<1>1. CASE tab' = tab /\ mishaps' = mishaps
  BY <1>1
<1>2. CASE (Chat!Refuse(r) \/ Chat!StreamNotFound(r) \/ Chat!ReadError(r)) /\ Chat!Settle(r)
  BY <1>2, TurnIs DEF Chat!Settle, Chat!Refuse, Chat!StreamNotFound, Chat!ReadError
<1>3. CASE Chat!ReadDone(r)
  <2>1. tab \in [Tabs -> [turn : 0..MaxTurns, session : 0..MaxTurns, history : SUBSET (1..MaxTurns)]]
    BY DEF ChatTypes
  <2> QED
    BY <1>3, <2>1, TurnIs DEF Chat!ReadDone
<1>4. CASE \E failed \in BOOLEAN : Chat!CloseProcess(r, failed)
  BY <1>1, <1>4 DEF Chat!CloseProcess
<1>5. CASE Chat!SpawnChat(r) \/ Chat!FailToStart(r) \/ Chat!Name(r) \/ Chat!Speak(r)
           \/ Chat!TimeOut(r) \/ Chat!OpenStream(r) \/ Chat!NoticeDisconnect(r) \/ Chat!ReadChunk(r)
  BY <1>1, <1>5 DEF Chat!SpawnChat, Chat!FailToStart, Chat!Name, Chat!Speak, Chat!TimeOut,
       Chat!OpenStream, Chat!NoticeDisconnect, Chat!ReadChunk
<1> QED
  BY <1>2, <1>3, <1>4, <1>5 DEF ChatStep, Chat!Refuse, Chat!StreamNotFound, Chat!ReadError

\* A step of one turn and the processes the server counts.
LEMMA StepSlots ==
  ASSUME ChatTypes, NEW r \in Chat!Turns, ChatStep(r)
  PROVE  \/ active' = active /\ count' = count
         \/ Chat!Cleanup(r)
         \/ active' = active \cup {r} /\ count' = count + 1 /\ Chat!SpawnChat(r)
<1>1. CASE \E failed \in BOOLEAN : Chat!CloseProcess(r, failed)
  BY <1>1 DEF Chat!CloseProcess
<1>2. CASE Chat!FailToStart(r) \/ Chat!TimeOut(r) \/ Chat!NoticeDisconnect(r)
  BY <1>2 DEF Chat!FailToStart, Chat!TimeOut, Chat!NoticeDisconnect
<1>3. CASE Chat!SpawnChat(r)
  BY <1>3 DEF Chat!SpawnChat
<1>4. CASE Chat!Refuse(r) \/ Chat!Name(r) \/ Chat!Speak(r) \/ Chat!OpenStream(r) \/ Chat!StreamNotFound(r)
           \/ Chat!ReadChunk(r) \/ Chat!ReadError(r) \/ Chat!ReadDone(r)
  BY <1>4 DEF Chat!Refuse, Chat!Name, Chat!Speak, Chat!OpenStream, Chat!StreamNotFound,
       Chat!ReadChunk, Chat!ReadError, Chat!ReadDone
<1> QED
  BY <1>1, <1>2, <1>3, <1>4 DEF ChatStep

\* Type correctness.
LEMMA ChatTypesStep ==
  ASSUME ChatTypes, Waits, Follows, [Chat!Next]_(Chat!chatVars)
  PROVE  ChatTypes'
<1> DEFINE T == [turn : 0..MaxTurns, session : 0..MaxTurns, history : SUBSET (1..MaxTurns)]
<1>0. MaxTurns \in Nat /\ MaxMishaps \in Nat /\ 0 \in 0..MaxTurns /\ tab \in [Tabs -> T] /\ Len(turn) <= MaxTurns
      /\ active \subseteq Chat!Turns /\ count \in Int /\ mishaps \in 0..MaxMishaps
  BY ServerAssumption DEF Chat!ChatAssumption, ChatTypes
<1>1. CASE UNCHANGED Chat!chatVars
  BY <1>1 DEF Chat!chatVars, ChatTypes, Chat!Turns
<1>2. ASSUME NEW r \in Chat!Turns, ChatStep(r) PROVE ChatTypes'
  <2>1. PICK x \in ChatTurn : Moves(r, x)
    BY <1>2, StepMoves
  <2>2. /\ turn' \in Seq(ChatTurn) /\ Len(turn') = Len(turn) /\ Chat!Turns' = Chat!Turns
    BY <2>1, SameTurns DEF Moves
  <2>3. r \in 0..MaxTurns /\ turn[r].tab \in Tabs /\ tab[turn[r].tab] \in T
    BY <1>0, TurnIs
  <2>4. Chat!NextSession(r) \in 0..MaxTurns
    BY <2>3 DEF Chat!NextSession
  <2> DEFINE y == [tab[turn[r].tab] EXCEPT !.turn = 0]
             z == [tab[turn[r].tab] EXCEPT !.turn = 0, !.session = Chat!NextSession(r)]
  <2>7. y \in T /\ z \in T
    BY <1>0, <2>3, <2>4
  <2>8. mishaps' = mishaps /\ (tab' = tab \/ tab' = [tab EXCEPT ![turn[r].tab] = y] \/ tab' = [tab EXCEPT ![turn[r].tab] = z])
    BY <1>2, StepTabs
  <2> HIDE DEF y, z
  <2>5. mishaps' = mishaps /\ tab' \in [Tabs -> T]
    BY <1>0, <2>3, <2>7, <2>8
  <2>6. active' \subseteq Chat!Turns /\ count' \in Int
    BY <1>0, <1>2, StepSlots DEF Chat!Cleanup
  <2> QED
    BY <1>0, <2>2, <2>5, <2>6 DEF ChatTypes
<1>3. ASSUME NEW t \in Tabs, Chat!SendMessage(t) PROVE ChatTypes'
  <2> DEFINE n == Len(turn) + 1
  <2>1. turn' \in Seq(ChatTurn) /\ Len(turn') = n /\ n <= MaxTurns /\ n \in 1..MaxTurns /\ Chat!Turns' = Chat!Turns \cup {n}
    BY <1>3, SendIs
  <2>2. tab' = [tab EXCEPT ![t] = [tab[t] EXCEPT !.turn = n, !.history = tab[t].history \cup {n}]]
    BY <1>0, <1>3 DEF Chat!SendMessage
  <2> DEFINE y == [tab[t] EXCEPT !.turn = n, !.history = tab[t].history \cup {n}]
  <2>4. y \in T
    <3>1. tab[t] \in T /\ n \in 1..MaxTurns /\ n \in 0..MaxTurns
      BY <1>0, <2>1
    <3> HIDE DEF n
    <3>2. tab[t].history \cup {n} \in SUBSET (1..MaxTurns)
      BY <3>1
    <3> QED
      BY <3>1, <3>2
  <2> HIDE DEF y
  <2>3. tab' \in [Tabs -> T]
    BY <1>0, <2>2, <2>4 DEF y
  <2> QED
    BY <1>0, <1>3, <2>1, <2>3 DEF ChatTypes, Chat!SendMessage
<1>4. ASSUME NEW t \in Tabs, Chat!ClearHistory(t) PROVE ChatTypes'
  <2>1. tab' = [tab EXCEPT ![t] = [tab[t] EXCEPT !.history = {}, !.session = 0]]
    BY <1>0, <1>4 DEF Chat!ClearHistory
  <2>2. tab' \in [Tabs -> T]
    BY <1>0, <2>1
  <2>3. mishaps' \in 0..MaxMishaps
    BY <1>0, <1>4 DEF Chat!ClearHistory
  <2> QED
    BY <1>4, <2>2, <2>3 DEF ChatTypes, Chat!ClearHistory, Chat!Turns
<1>5. ASSUME NEW t \in Tabs, Chat!ReloadPage(t) PROVE ChatTypes'
  <2>1. tab[t].turn \in Chat!Turns
    BY <1>5 DEF Waits, Chat!ReloadPage
  <2>2. PICK x : Moves(tab[t].turn, x)
    BY <1>5, <2>1, ReloadMoves
  <2>3. /\ turn' \in Seq(ChatTurn) /\ Len(turn') = Len(turn) /\ Chat!Turns' = Chat!Turns
    BY <2>1, <2>2, SameTurns DEF Moves
  <2>4. tab' = [tab EXCEPT ![t] = [tab[t] EXCEPT !.turn = 0]]
    BY <1>0, <1>5 DEF Chat!ReloadPage
  <2>5. tab' \in [Tabs -> T]
    BY <1>0, <2>4
  <2>6. mishaps' \in 0..MaxMishaps /\ active' = active /\ count' = count
    BY <1>0, <1>5 DEF Chat!ReloadPage
  <2> QED
    BY <1>0, <2>3, <2>5, <2>6 DEF ChatTypes
<1> QED
  BY <1>1, <1>2, <1>3, <1>4, <1>5 DEF Chat!Next, ChatStep

\* What a step leaves of a turn: where it began, its process, its words, its stream.
SameOrigin(r) == turn'[r].tab = turn[r].tab /\ turn'[r].resumes = turn[r].resumes
SameProcess(r) == turn'[r].process = turn[r].process /\ turn'[r].signalled = turn[r].signalled
SameSpeech(r) == turn'[r].named = turn[r].named /\ turn'[r].said = turn[r].said
SameStream(r) ==
  /\ turn'[r].stream = turn[r].stream /\ turn'[r].from = turn[r].from /\ turn'[r].queue = turn[r].queue
  /\ turn'[r].text = turn[r].text /\ turn'[r].learned = turn[r].learned

LEMMA RefuseDoes ==
  ASSUME ChatTypes, NEW r \in Chat!Turns, Chat!Refuse(r)
  PROVE  /\ SameOrigin(r) /\ SameProcess(r) /\ SameSpeech(r) /\ SameStream(r)
         /\ turn'[r].phase = "failed"
<1> DEFINE x == [turn[r] EXCEPT !.phase = "failed"]
<1>1. turn'[r] = x
  BY RefuseMoves DEF Moves
<1>2. turn[r] \in ChatTurn
  BY TurnIs
<1> QED
  BY <1>1, <1>2 DEF ChatTurn, SameOrigin, SameProcess, SameSpeech, SameStream

LEMMA SpawnDoes ==
  ASSUME ChatTypes, NEW r \in Chat!Turns, Chat!SpawnChat(r)
  PROVE  /\ SameOrigin(r) /\ SameSpeech(r) /\ SameStream(r) /\ turn'[r].signalled = turn[r].signalled
         /\ turn'[r].process = "running"
         /\ turn'[r].phase = (IF turn[r].phase = "posted" THEN "opening" ELSE turn[r].phase)
<1> DEFINE x == [turn[r] EXCEPT !.process = "running", !.phase = IF turn[r].phase = "posted" THEN "opening" ELSE turn[r].phase]
<1>1. turn'[r] = x
  BY SpawnMoves DEF Moves
<1>2. turn[r] \in ChatTurn
  BY TurnIs
<1> QED
  BY <1>1, <1>2 DEF ChatTurn, SameOrigin, SameProcess, SameSpeech, SameStream

LEMMA FailDoes ==
  ASSUME ChatTypes, NEW r \in Chat!Turns, Chat!FailToStart(r)
  PROVE  /\ SameOrigin(r) /\ SameSpeech(r) /\ SameStream(r) /\ turn'[r].signalled = turn[r].signalled /\ turn'[r].phase = turn[r].phase
         /\ turn'[r].process = "closed"
<1> DEFINE x == [turn[r] EXCEPT !.process = "closed"]
<1>1. turn'[r] = x
  BY FailMoves DEF Moves
<1>2. turn[r] \in ChatTurn
  BY TurnIs
<1> QED
  BY <1>1, <1>2 DEF ChatTurn, SameOrigin, SameProcess, SameSpeech, SameStream

LEMMA NameDoes ==
  ASSUME ChatTypes, NEW r \in Chat!Turns, Chat!Name(r)
  PROVE  /\ SameOrigin(r) /\ SameProcess(r) /\ turn'[r].said = turn[r].said /\ turn'[r].stream = turn[r].stream /\ turn'[r].from = turn[r].from /\ turn'[r].text = turn[r].text /\ turn'[r].learned = turn[r].learned /\ turn'[r].phase = turn[r].phase
         /\ turn'[r].named = TRUE
         /\ turn'[r].queue = Chat!Broadcast(r, Chat!Mark("session"))
<1> DEFINE x == [turn[r] EXCEPT !.named = TRUE, !.queue = Chat!Broadcast(r, Chat!Mark("session"))]
<1>1. turn'[r] = x
  BY NameMoves DEF Moves
<1>2. turn[r] \in ChatTurn
  BY TurnIs
<1> QED
  BY <1>1, <1>2 DEF ChatTurn, SameOrigin, SameProcess, SameSpeech, SameStream

LEMMA SpeakDoes ==
  ASSUME ChatTypes, NEW r \in Chat!Turns, Chat!Speak(r)
  PROVE  /\ SameOrigin(r) /\ SameProcess(r) /\ turn'[r].named = turn[r].named /\ turn'[r].stream = turn[r].stream /\ turn'[r].from = turn[r].from /\ turn'[r].text = turn[r].text /\ turn'[r].learned = turn[r].learned /\ turn'[r].phase = turn[r].phase
         /\ turn'[r].said = turn[r].said + 1
         /\ turn'[r].queue = Chat!Broadcast(r, Chat!Chunk(turn[r].said + 1))
<1> DEFINE x == [turn[r] EXCEPT !.said = turn[r].said + 1, !.queue = Chat!Broadcast(r, Chat!Chunk(turn[r].said + 1))]
<1>1. turn'[r] = x
  BY SpeakMoves DEF Moves
<1>2. turn[r] \in ChatTurn
  BY TurnIs
<1> QED
  BY <1>1, <1>2 DEF ChatTurn, SameOrigin, SameProcess, SameSpeech, SameStream

LEMMA CloseDoes ==
  ASSUME ChatTypes, NEW r \in Chat!Turns, NEW failed \in BOOLEAN, Chat!CloseProcess(r, failed)
  PROVE  /\ SameOrigin(r) /\ SameSpeech(r) /\ turn'[r].signalled = turn[r].signalled /\ turn'[r].from = turn[r].from /\ turn'[r].text = turn[r].text /\ turn'[r].learned = turn[r].learned /\ turn'[r].phase = turn[r].phase
         /\ turn'[r].process = "closed"
         /\ turn'[r].queue = Chat!LastWords(r, failed)
         /\ turn'[r].stream = (IF turn[r].stream = "open" THEN "ended" ELSE turn[r].stream)
<1> DEFINE x == [turn[r] EXCEPT !.process = "closed", !.queue = Chat!LastWords(r, failed), !.stream = IF turn[r].stream = "open" THEN "ended" ELSE turn[r].stream]
<1>1. turn'[r] = x
  BY CloseMoves DEF Moves
<1>2. turn[r] \in ChatTurn
  BY TurnIs
<1> QED
  BY <1>1, <1>2 DEF ChatTurn, SameOrigin, SameProcess, SameSpeech, SameStream

LEMMA TimeOutDoes ==
  ASSUME ChatTypes, NEW r \in Chat!Turns, Chat!TimeOut(r)
  PROVE  /\ SameOrigin(r) /\ SameSpeech(r) /\ turn'[r].process = turn[r].process /\ turn'[r].stream = turn[r].stream /\ turn'[r].from = turn[r].from /\ turn'[r].text = turn[r].text /\ turn'[r].learned = turn[r].learned /\ turn'[r].phase = turn[r].phase
         /\ turn'[r].signalled = TRUE
         /\ turn'[r].queue = Chat!Broadcast(r, Chat!Mark("error"))
<1> DEFINE x == [turn[r] EXCEPT !.signalled = TRUE, !.queue = Chat!Broadcast(r, Chat!Mark("error"))]
<1>1. turn'[r] = x
  BY TimeOutMoves DEF Moves
<1>2. turn[r] \in ChatTurn
  BY TurnIs
<1> QED
  BY <1>1, <1>2 DEF ChatTurn, SameOrigin, SameProcess, SameSpeech, SameStream

LEMMA OpenDoes ==
  ASSUME ChatTypes, NEW r \in Chat!Turns, Chat!OpenStream(r)
  PROVE  /\ SameOrigin(r) /\ SameProcess(r) /\ SameSpeech(r) /\ turn'[r].queue = turn[r].queue /\ turn'[r].text = turn[r].text /\ turn'[r].learned = turn[r].learned
         /\ turn'[r].phase = "reading"
         /\ turn'[r].stream = "open"
         /\ turn'[r].from = turn[r].said
<1> DEFINE x == [turn[r] EXCEPT !.phase = "reading", !.stream = "open", !.from = turn[r].said]
<1>1. turn'[r] = x
  BY OpenMoves DEF Moves
<1>2. turn[r] \in ChatTurn
  BY TurnIs
<1> QED
  BY <1>1, <1>2 DEF ChatTurn, SameOrigin, SameProcess, SameSpeech, SameStream

LEMMA NotFoundDoes ==
  ASSUME ChatTypes, NEW r \in Chat!Turns, Chat!StreamNotFound(r)
  PROVE  /\ SameOrigin(r) /\ SameProcess(r) /\ SameSpeech(r) /\ SameStream(r)
         /\ turn'[r].phase = "failed"
<1> DEFINE x == [turn[r] EXCEPT !.phase = "failed"]
<1>1. turn'[r] = x
  BY NotFoundMoves DEF Moves
<1>2. turn[r] \in ChatTurn
  BY TurnIs
<1> QED
  BY <1>1, <1>2 DEF ChatTurn, SameOrigin, SameProcess, SameSpeech, SameStream

LEMMA NoticeDoes ==
  ASSUME ChatTypes, NEW r \in Chat!Turns, Chat!NoticeDisconnect(r)
  PROVE  /\ SameOrigin(r) /\ SameSpeech(r) /\ turn'[r].process = turn[r].process /\ turn'[r].from = turn[r].from /\ turn'[r].queue = turn[r].queue /\ turn'[r].text = turn[r].text /\ turn'[r].learned = turn[r].learned /\ turn'[r].phase = turn[r].phase
         /\ turn'[r].stream = "closed"
         /\ turn'[r].signalled = (turn[r].signalled \/ turn[r].process = "running")
<1> DEFINE x == [turn[r] EXCEPT !.stream = "closed", !.signalled = turn[r].signalled \/ turn[r].process = "running"]
<1>1. turn'[r] = x
  BY NoticeMoves DEF Moves
<1>2. turn[r] \in ChatTurn
  BY TurnIs
<1> QED
  BY <1>1, <1>2 DEF ChatTurn, SameOrigin, SameProcess, SameSpeech, SameStream

LEMMA ReadErrorDoes ==
  ASSUME ChatTypes, NEW r \in Chat!Turns, Chat!ReadError(r)
  PROVE  /\ SameOrigin(r) /\ SameProcess(r) /\ SameSpeech(r)
         /\ turn'[r].phase = "failed"
         /\ turn'[r].text = << >>
         /\ turn'[r].from = 0
         /\ turn'[r].learned = FALSE
         /\ turn'[r].queue = << >>
         /\ turn'[r].stream = "dropped"
<1> DEFINE x == [turn[r] EXCEPT !.phase = "failed", !.text = << >>, !.from = 0, !.learned = FALSE, !.queue = << >>, !.stream = "dropped"]
<1>1. turn'[r] = x
  BY ReadErrorMoves DEF Moves
<1>2. turn[r] \in ChatTurn
  BY TurnIs
<1> QED
  BY <1>1, <1>2 DEF ChatTurn, SameOrigin, SameProcess, SameSpeech, SameStream

LEMMA ReadDoneDoes ==
  ASSUME ChatTypes, NEW r \in Chat!Turns, Chat!ReadDone(r)
  PROVE  /\ SameOrigin(r) /\ SameProcess(r) /\ SameSpeech(r) /\ turn'[r].from = turn[r].from /\ turn'[r].text = turn[r].text /\ turn'[r].learned = turn[r].learned
         /\ turn'[r].phase = "answered"
         /\ turn'[r].queue = << >>
         /\ turn'[r].stream = "dropped"
<1> DEFINE x == [turn[r] EXCEPT !.phase = "answered", !.queue = << >>, !.stream = "dropped"]
<1>1. turn'[r] = x
  BY ReadDoneMoves DEF Moves
<1>2. turn[r] \in ChatTurn
  BY TurnIs
<1> QED
  BY <1>1, <1>2 DEF ChatTurn, SameOrigin, SameProcess, SameSpeech, SameStream

LEMMA ReadChunkDoes ==
  ASSUME ChatTypes, NEW r \in Chat!Turns, Chat!ReadChunk(r)
  PROVE  /\ SameOrigin(r) /\ SameProcess(r) /\ SameSpeech(r) /\ turn'[r].stream = turn[r].stream /\ turn'[r].from = turn[r].from /\ turn'[r].phase = turn[r].phase
         /\ turn'[r].queue = Tail(turn[r].queue)
         /\ turn'[r].text = (IF Head(turn[r].queue).event = "chunk" THEN Append(turn[r].text, Head(turn[r].queue).n) ELSE turn[r].text)
         /\ turn'[r].learned = (turn[r].learned \/ Head(turn[r].queue).event = "session")
<1> DEFINE x == [turn[r] EXCEPT !.queue = Tail(turn[r].queue), !.text = IF Head(turn[r].queue).event = "chunk" THEN Append(turn[r].text, Head(turn[r].queue).n) ELSE turn[r].text, !.learned = turn[r].learned \/ Head(turn[r].queue).event = "session"]
<1>1. turn'[r] = x
  BY ReadChunkMoves DEF Moves
<1>2. turn[r] \in ChatTurn
  BY TurnIs
<1> QED
  BY <1>1, <1>2 DEF ChatTurn, SameOrigin, SameProcess, SameSpeech, SameStream

LEMMA ReloadDoes ==
  ASSUME ChatTypes, NEW t \in Tabs, Chat!ReloadPage(t), NEW r \in Chat!Turns, r = tab[t].turn
  PROVE  /\ SameOrigin(r) /\ SameProcess(r) /\ SameSpeech(r)
         /\ turn'[r].phase = "abandoned"
         /\ turn'[r].queue = << >>
         /\ turn'[r].text = << >>
         /\ turn'[r].from = 0
         /\ turn'[r].learned = FALSE
         /\ turn'[r].stream = (IF turn[r].stream \in {"open", "ended"} THEN "dropped" ELSE turn[r].stream)
<1> DEFINE x == [turn[r] EXCEPT !.phase = "abandoned", !.queue = << >>, !.text = << >>, !.from = 0, !.learned = FALSE, !.stream = IF turn[r].stream \in {"open", "ended"} THEN "dropped" ELSE turn[r].stream]
<1>1. turn'[r] = x
  BY ReloadMoves DEF Moves
<1>2. turn[r] \in ChatTurn
  BY TurnIs
<1> QED
  BY <1>1, <1>2 DEF ChatTurn, SameOrigin, SameProcess, SameSpeech, SameStream


\* The slots, as SlotsAreKept says.
LEMMA SlotsStep ==
  ASSUME ChatTypes, Waits, Slots, Follows, [Chat!Next]_(Chat!chatVars)
  PROVE  Slots'
<1> DEFINE Runs(q) == turn[q].process = "running" /\ ~turn[q].signalled
           Same(q) == turn'[q].process = turn[q].process /\ turn'[q].signalled = turn[q].signalled
<1>0. MaxConcurrency \in Nat /\ count \in Nat /\ IsFiniteSet(active) /\ count = Cardinality(active)
  BY ServerAssumption, FS_CardinalityType DEF Chat!ChatAssumption, Slots
<1>a. ASSUME Chat!Turns' = Chat!Turns, \A q \in Chat!Turns : Same(q), active' = active, count' = count
      PROVE  Slots'
  BY <1>a DEF Slots
<1>1. CASE UNCHANGED Chat!chatVars
  BY <1>1 DEF Chat!chatVars, Slots, Chat!Turns
<1>2. ASSUME NEW r \in Chat!Turns, ChatStep(r) PROVE Slots'
  <2>1. PICK x \in ChatTurn : Moves(r, x)
    BY <1>2, StepMoves
  <2>2. Chat!Turns' = Chat!Turns /\ \A q \in Chat!Turns : q # r => Same(q)
    BY <2>1, SameTurns DEF Moves
  <2>b. ASSUME Chat!Cleanup(r), ~(turn'[r].process = "running" /\ ~turn'[r].signalled),
               turn'[r].process # "unborn" \/ Same(r)
        PROVE  Slots'
    <3>1. active' = {q \in Chat!Turns : turn'[q].process = "running" /\ ~turn'[q].signalled}
      BY <2>2, <2>b DEF Chat!Cleanup, Slots
    <3>2. IsFiniteSet(active') /\ count' = Cardinality(active') /\ count' <= MaxConcurrency
      <4>1. CASE r \in active
        <5>1. IsFiniteSet(active \ {r}) /\ Cardinality(active \ {r}) = Cardinality(active) - 1
          BY <1>0, <4>1, FS_RemoveElement
        <5> QED
          BY <1>0, <2>b, <4>1, <5>1 DEF Chat!Cleanup, Slots
      <4>2. CASE r \notin active
        <5>1. active' = active /\ count' = count
          BY <2>b, <4>2 DEF Chat!Cleanup
        <5> QED
          BY <5>1 DEF Slots
      <4> QED
        BY <4>1, <4>2
    <3>3. \A q \in Chat!Turns : turn'[q].process = "unborn" => ~turn'[q].signalled
      BY <2>2, <2>b DEF Slots
    <3> QED
      BY <2>2, <3>1, <3>2, <3>3 DEF Slots
  <2>3. CASE Chat!SpawnChat(r)
    <3>1. turn'[r].process = "running" /\ turn'[r].signalled = turn[r].signalled /\ ~turn[r].signalled
      BY <2>3, SpawnDoes DEF Slots, Chat!SpawnChat
    <3>2. r \notin active /\ active' = active \cup {r} /\ count' = count + 1 /\ count < MaxConcurrency
      BY <2>3 DEF Chat!SpawnChat, Slots, Chat!HasSlot
    <3>3. active' = {q \in Chat!Turns : turn'[q].process = "running" /\ ~turn'[q].signalled}
      BY <2>2, <3>1, <3>2 DEF Slots
    <3>4. IsFiniteSet(active \cup {r}) /\ Cardinality(active \cup {r}) = Cardinality(active) + 1
      BY <1>0, <3>2, FS_AddElement
    <3>5. IsFiniteSet(active') /\ count' = Cardinality(active') /\ count' <= MaxConcurrency
      BY <1>0, <3>2, <3>4
    <3>6. \A q \in Chat!Turns : turn'[q].process = "unborn" => ~turn'[q].signalled
      BY <2>2, <3>1 DEF Slots
    <3> QED
      BY <2>2, <3>3, <3>5, <3>6 DEF Slots
  <2>4. CASE Chat!FailToStart(r) \/ \E failed \in BOOLEAN : Chat!CloseProcess(r, failed)
    <3>1. turn'[r].process = "closed"
      BY <2>4, FailDoes, CloseDoes
    <3>2. Chat!Cleanup(r)
      BY <2>4 DEF Chat!FailToStart, Chat!CloseProcess
    <3> QED
      BY <2>b, <3>1, <3>2
  <2>5. CASE Chat!TimeOut(r)
    <3>1. turn'[r].signalled /\ turn'[r].process = turn[r].process
      BY <2>5, TimeOutDoes
    <3>2. Chat!Cleanup(r) /\ turn[r].process = "running"
      BY <2>5 DEF Chat!TimeOut, Slots
    <3> QED
      BY <2>b, <3>1, <3>2
  <2>6. CASE Chat!NoticeDisconnect(r)
    <3>1. turn'[r].signalled = (turn[r].signalled \/ turn[r].process = "running") /\ turn'[r].process = turn[r].process
      BY <2>6, NoticeDoes
    <3>2. CASE turn[r].signalled
      <4>1. active' = active /\ count' = count
        BY <2>6, <3>2 DEF Chat!NoticeDisconnect
      <4> QED
        BY <1>a, <2>2, <3>1, <3>2, <4>1, TurnIs DEF ChatTurn
    <3>3. CASE ~turn[r].signalled
      <4>1. Chat!Cleanup(r)
        BY <2>6, <3>3 DEF Chat!NoticeDisconnect
      <4> QED
        BY <2>b, <3>1, <3>3, <4>1, TurnIs DEF ChatTurn
    <3> QED
      BY <3>2, <3>3
  <2>7. CASE Chat!Refuse(r) \/ Chat!Name(r) \/ Chat!Speak(r) \/ Chat!OpenStream(r) \/ Chat!StreamNotFound(r)
           \/ Chat!ReadChunk(r) \/ Chat!ReadError(r) \/ Chat!ReadDone(r)
    <3>1. active' = active /\ count' = count
      BY <2>7 DEF Chat!Refuse, Chat!Name, Chat!Speak, Chat!OpenStream, Chat!StreamNotFound,
           Chat!ReadChunk, Chat!ReadError, Chat!ReadDone
    <3>2. Same(r)
      <4>1. CASE Chat!Refuse(r) \/ Chat!StreamNotFound(r) \/ Chat!OpenStream(r)
        BY <4>1, RefuseDoes, NotFoundDoes, OpenDoes DEF SameProcess
      <4>2. CASE Chat!Name(r) \/ Chat!Speak(r)
        BY <4>2, NameDoes, SpeakDoes DEF SameProcess
      <4>3. CASE Chat!ReadChunk(r)
        BY <4>3, ReadChunkDoes DEF SameProcess
      <4>4. CASE Chat!ReadError(r) \/ Chat!ReadDone(r)
        BY <4>4, ReadErrorDoes, ReadDoneDoes DEF SameProcess
      <4> QED
        BY <2>7, <4>1, <4>2, <4>3, <4>4
    <3> QED
      BY <1>a, <2>2, <3>1, <3>2
  <2> QED
    BY <1>2, <2>3, <2>4, <2>5, <2>6, <2>7 DEF ChatStep
<1>3. ASSUME NEW t \in Tabs, Chat!SendMessage(t) PROVE Slots'
  <2> DEFINE n == Len(turn) + 1
  <2>1. /\ Chat!Turns' = Chat!Turns \cup {n} /\ n \notin Chat!Turns
        /\ turn'[n] = Chat!NewTurn(t) /\ \A q \in Chat!Turns : turn'[q] = turn[q]
    BY <1>3, SendIs
  <2>2. turn'[n].process = "unborn" /\ ~turn'[n].signalled
    BY <2>1 DEF Chat!NewTurn
  <2>3. active' = active /\ count' = count
    BY <1>3 DEF Chat!SendMessage
  <2> HIDE DEF n
  <2> QED
    BY <2>1, <2>2, <2>3 DEF Slots
<1>4. ASSUME NEW t \in Tabs, Chat!ClearHistory(t) PROVE Slots'
  BY SMTT(30), <1>4 DEF Chat!ClearHistory, Slots, Chat!Turns
<1>5. ASSUME NEW t \in Tabs, Chat!ReloadPage(t) PROVE Slots'
  <2> DEFINE r == tab[t].turn
  <2>1. r \in Chat!Turns
    BY <1>5 DEF Waits, Chat!ReloadPage
  <2>2. PICK x : Moves(r, x)
    BY <1>5, <2>1, ReloadMoves
  <2>4. Same(r)
    BY <1>5, <2>1, ReloadDoes DEF SameProcess
  <2>3. Chat!Turns' = Chat!Turns /\ \A q \in Chat!Turns : Same(q)
    BY <2>1, <2>2, <2>4, SameTurns DEF Moves
  <2> QED
    BY <1>5, <1>a, <2>3 DEF Chat!ReloadPage
<1> QED
  BY <1>1, <1>2, <1>3, <1>4, <1>5 DEF Chat!Next, ChatStep

\* The same, field by field.
LEMMA StepTabFields ==
  ASSUME ChatTypes, NEW r \in Chat!Turns, ChatStep(r)
  PROVE  /\ \A t \in Tabs : tab'[t].history = tab[t].history
         /\ \A t \in Tabs : tab'[t].session = IF t = turn[r].tab /\ Chat!ReadDone(r)
                                              THEN Chat!NextSession(r) ELSE tab[t].session
         /\ \A t \in Tabs : tab'[t].turn = IF t = turn[r].tab /\ (Chat!Refuse(r) \/ Chat!StreamNotFound(r)
                                                                  \/ Chat!ReadError(r) \/ Chat!ReadDone(r))
                                           THEN 0 ELSE tab[t].turn
<1>0. tab \in [Tabs -> [turn : 0..MaxTurns, session : 0..MaxTurns, history : SUBSET (1..MaxTurns)]] /\ turn[r].tab \in Tabs
  BY TurnIs DEF ChatTypes
<1>1. CASE Chat!Refuse(r) \/ Chat!StreamNotFound(r) \/ Chat!ReadError(r)
  <2>1. tab' = [tab EXCEPT ![turn[r].tab].turn = 0]
    BY <1>1 DEF Chat!Refuse, Chat!StreamNotFound, Chat!ReadError, Chat!Settle
  <2>2. ~Chat!ReadDone(r)
    <3>1. turn'[r].phase = "failed"
      BY <1>1, RefuseDoes, NotFoundDoes, ReadErrorDoes
    <3> QED
      BY <3>1, ReadDoneDoes
  <2> QED
    BY <1>0, <1>1, <2>1, <2>2
<1>2. CASE Chat!ReadDone(r)
  <2>1. tab' = [tab EXCEPT ![turn[r].tab].turn = 0, ![turn[r].tab].session = Chat!NextSession(r)]
    BY <1>2 DEF Chat!ReadDone
  <2> QED
    BY <1>0, <1>2, <2>1
<1>3. CASE ~(Chat!Refuse(r) \/ Chat!StreamNotFound(r) \/ Chat!ReadError(r) \/ Chat!ReadDone(r))
  BY <1>3, StepTabs
<1> QED
  BY <1>1, <1>2, <1>3

\* A step of one turn keeps what a turn began with, and leaves the others alone.
LEMMA StepOrigin ==
  ASSUME ChatTypes, NEW r \in Chat!Turns, ChatStep(r)
  PROVE  /\ Chat!Turns' = Chat!Turns /\ Len(turn') = Len(turn)
         /\ \A q \in Chat!Turns : SameOrigin(q) /\ (q # r => turn'[q] = turn[q])
<1>1. PICK x \in ChatTurn : Moves(r, x)
  BY StepMoves
<1>2. /\ Chat!Turns' = Chat!Turns /\ Len(turn') = Len(turn)
      /\ \A q \in Chat!Turns : q # r => turn'[q] = turn[q]
  BY <1>1, SameTurns DEF Moves
<1>3. SameOrigin(r)
  <2>1. CASE \E failed \in BOOLEAN : Chat!CloseProcess(r, failed)
    BY <2>1, CloseDoes
  <2>2. CASE Chat!Refuse(r) \/ Chat!SpawnChat(r) \/ Chat!FailToStart(r) \/ Chat!Name(r) \/ Chat!Speak(r)
    BY <2>2, RefuseDoes, SpawnDoes, FailDoes, NameDoes, SpeakDoes
  <2>3. CASE Chat!TimeOut(r) \/ Chat!OpenStream(r) \/ Chat!StreamNotFound(r) \/ Chat!NoticeDisconnect(r)
    BY <2>3, TimeOutDoes, OpenDoes, NotFoundDoes, NoticeDoes
  <2>4. CASE Chat!ReadChunk(r) \/ Chat!ReadError(r) \/ Chat!ReadDone(r)
    BY <2>4, ReadChunkDoes, ReadErrorDoes, ReadDoneDoes
  <2> QED
    BY <2>1, <2>2, <2>3, <2>4 DEF ChatStep
<1> QED
  BY <1>2, <1>3 DEF SameOrigin

LEMMA SendTabs ==
  ASSUME ChatTypes, NEW t \in Tabs, Chat!SendMessage(t)
  PROVE  /\ tab'[t].turn = Len(turn) + 1 /\ tab'[t].history = tab[t].history \cup {Len(turn) + 1}
         /\ tab'[t].session = tab[t].session /\ \A u \in Tabs : u # t => tab'[u] = tab[u]
BY DEF ChatTypes, Chat!SendMessage

LEMMA ClearTabs ==
  ASSUME ChatTypes, NEW t \in Tabs, Chat!ClearHistory(t)
  PROVE  /\ turn' = turn /\ tab'[t].turn = tab[t].turn /\ tab'[t].history = {}
         /\ tab'[t].session = 0 /\ \A u \in Tabs : u # t => tab'[u] = tab[u]
BY DEF ChatTypes, Chat!ClearHistory

LEMMA ReloadTabs ==
  ASSUME ChatTypes, NEW t \in Tabs, Chat!ReloadPage(t)
  PROVE  /\ tab'[t].turn = 0 /\ tab'[t].history = tab[t].history
         /\ tab'[t].session = tab[t].session /\ \A u \in Tabs : u # t => tab'[u] = tab[u]
BY DEF ChatTypes, Chat!ReloadPage

LEMMA ReloadTurns ==
  ASSUME ChatTypes, Waits, NEW t \in Tabs, Chat!ReloadPage(t)
  PROVE  /\ Chat!Turns' = Chat!Turns /\ Len(turn') = Len(turn)
         /\ tab[t].turn \in Chat!Turns /\ SameOrigin(tab[t].turn)
         /\ \A q \in Chat!Turns : q # tab[t].turn => turn'[q] = turn[q]
<1>1. tab[t].turn \in Chat!Turns
  BY DEF Waits, Chat!ReloadPage
<1>2. PICK x : Moves(tab[t].turn, x)
  BY <1>1, ReloadMoves
<1>3. SameOrigin(tab[t].turn)
  BY <1>1, ReloadDoes
<1> QED
  BY <1>1, <1>2, <1>3, SameTurns DEF Moves

\* A tab waits for one turn.
LEMMA WaitsStep ==
  ASSUME ChatTypes, Waits, Follows, [Chat!Next]_(Chat!chatVars)
  PROVE  Waits'
<1>1. CASE UNCHANGED Chat!chatVars
  BY <1>1 DEF Chat!chatVars, Waits, Chat!Turns
<1>2. ASSUME NEW r \in Chat!Turns, ChatStep(r) PROVE Waits'
  <2>0. /\ Chat!Turns' = Chat!Turns
        /\ \A q \in Chat!Turns : turn'[q].tab = turn[q].tab /\ turn[q].tab \in Tabs /\ (q # r => turn'[q] = turn[q])
        /\ r # 0
    BY <1>2, StepOrigin, TurnIs DEF SameOrigin
  <2>1. CASE Chat!Refuse(r) \/ Chat!StreamNotFound(r) \/ Chat!ReadError(r) \/ Chat!ReadDone(r)
    <3>1. turn[r].phase \in Pending
      BY <2>1 DEF Chat!Refuse, Chat!StreamNotFound, Chat!ReadError, Chat!ReadDone, Pending
    <3>2. turn'[r].phase \notin Pending
      BY <2>1, RefuseDoes, NotFoundDoes, ReadErrorDoes, ReadDoneDoes DEF Pending
    <3>3. \A t \in Tabs : tab'[t].turn = IF t = turn[r].tab THEN 0 ELSE tab[t].turn
      BY <1>2, <2>1, StepTabFields
    <3> QED
      BY <2>0, <3>1, <3>2, <3>3 DEF Waits
  <2>2. CASE ~(Chat!Refuse(r) \/ Chat!StreamNotFound(r) \/ Chat!ReadError(r) \/ Chat!ReadDone(r))
    <3>1. \A t \in Tabs : tab'[t].turn = tab[t].turn
      BY <1>2, <2>2, StepTabFields
    <3>2. turn'[r].phase \in Pending <=> turn[r].phase \in Pending
      <4>1. CASE \E failed \in BOOLEAN : Chat!CloseProcess(r, failed)
        BY <4>1, CloseDoes
      <4>2. CASE Chat!FailToStart(r) \/ Chat!Name(r) \/ Chat!Speak(r) \/ Chat!TimeOut(r)
        BY <4>2, FailDoes, NameDoes, SpeakDoes, TimeOutDoes
      <4>3. CASE Chat!NoticeDisconnect(r) \/ Chat!ReadChunk(r)
        BY <4>3, NoticeDoes, ReadChunkDoes
      <4>4. CASE Chat!SpawnChat(r)
        BY <4>4, SpawnDoes DEF Pending, Chat!SpawnChat
      <4>5. CASE Chat!OpenStream(r)
        BY <4>5, OpenDoes DEF Pending, Chat!OpenStream
      <4> QED
        BY <1>2, <2>2, <4>1, <4>2, <4>3, <4>4, <4>5 DEF ChatStep
    <3> QED
      BY <2>0, <3>1, <3>2 DEF Waits
  <2> QED
    BY <2>1, <2>2
<1>3. ASSUME NEW t \in Tabs, Chat!SendMessage(t) PROVE Waits'
  <2> DEFINE n == Len(turn) + 1
  <2>1. /\ Chat!Turns' = Chat!Turns \cup {n} /\ n \notin Chat!Turns /\ n # 0
        /\ turn'[n] = Chat!NewTurn(t) /\ \A q \in Chat!Turns : turn'[q] = turn[q] /\ turn[q].tab \in Tabs
    BY <1>3, SendIs, TurnIs
  <2>2. turn'[n].tab = t /\ turn'[n].phase \in Pending
    BY <2>1 DEF Chat!NewTurn, Pending
  <2>3. tab[t].turn = 0 /\ tab'[t].turn = n /\ \A u \in Tabs : u # t => tab'[u] = tab[u]
    BY <1>3, SendTabs DEF Chat!SendMessage
  <2>4. \A q \in Chat!Turns : q # 0
    BY TurnIs
  <2> HIDE DEF n
  <2> QED
    BY <2>1, <2>2, <2>3, <2>4 DEF Waits
<1>4. ASSUME NEW t \in Tabs, Chat!ClearHistory(t) PROVE Waits'
  <2>1. \A u \in Tabs : tab'[u].turn = tab[u].turn
    BY <1>4, ClearTabs
  <2>2. turn' = turn /\ \A q \in Chat!Turns : turn[q].tab \in Tabs
    BY <1>4, ClearTabs, TurnIs
  <2> QED
    BY <2>1, <2>2 DEF Waits, Chat!Turns
<1>5. ASSUME NEW t \in Tabs, Chat!ReloadPage(t) PROVE Waits'
  <2> DEFINE r == tab[t].turn
  <2>1. /\ Chat!Turns' = Chat!Turns /\ r \in Chat!Turns /\ turn'[r].tab = turn[r].tab
        /\ \A q \in Chat!Turns : (q # r => turn'[q] = turn[q]) /\ turn[q].tab \in Tabs
    BY <1>5, ReloadTurns, TurnIs DEF SameOrigin
  <2>2. /\ turn[r].tab = t /\ turn[r].phase \in Pending
        /\ turn'[r].phase = "abandoned"
    <3>1. turn[r].tab = t /\ turn[r].phase \in Pending
      BY <1>5 DEF Waits, Chat!ReloadPage
    <3>2. turn'[r].phase = "abandoned"
      BY <1>5, <2>1, ReloadDoes
    <3> QED
      BY <3>1, <3>2
  <2>3. tab'[t].turn = 0 /\ \A u \in Tabs : u # t => tab'[u] = tab[u]
    BY <1>5, ReloadTabs
  <2> QED
    BY SMTT(30), <2>1, <2>2, <2>3 DEF Waits, Pending
<1> QED
  BY <1>1, <1>2, <1>3, <1>4, <1>5 DEF Chat!Next, ChatStep

\* A turn resumes an earlier one, and a tab's history is its own.
LEMMA FollowsStep ==
  ASSUME ChatTypes, Waits, Follows, [Chat!Next]_(Chat!chatVars)
  PROVE  Follows'
<1>0. Len(turn) \in Nat /\ \A t \in Tabs : tab[t].session \in Nat
  BY ServerAssumption DEF ChatTypes, Chat!ChatAssumption
<1>1. CASE UNCHANGED Chat!chatVars
  BY <1>1 DEF Chat!chatVars, Follows, Chat!Turns
<1>2. ASSUME NEW r \in Chat!Turns, ChatStep(r) PROVE Follows'
  <2>1. /\ Chat!Turns' = Chat!Turns /\ Len(turn') = Len(turn)
        /\ \A q \in Chat!Turns : turn'[q].tab = turn[q].tab /\ turn'[q].resumes = turn[q].resumes
    BY <1>2, StepOrigin DEF SameOrigin
  <2>2. \A t \in Tabs : tab'[t].history = tab[t].history
    BY <1>2, StepTabFields
  <2>3. \A t \in Tabs : tab'[t].session = tab[t].session \/ (tab'[t].session = Chat!NextSession(r) /\ t = turn[r].tab)
    <3>1. \A t \in Tabs : tab'[t].session = IF t = turn[r].tab /\ Chat!ReadDone(r)
                                              THEN Chat!NextSession(r) ELSE tab[t].session
      BY <1>2, StepTabFields
    <3> SUFFICES ASSUME NEW t \in Tabs
                 PROVE  tab'[t].session = tab[t].session \/ (tab'[t].session = Chat!NextSession(r) /\ t = turn[r].tab)
      OBVIOUS
    <3>2. CASE t = turn[r].tab /\ Chat!ReadDone(r)
      BY <3>1, <3>2
    <3>3. CASE ~(t = turn[r].tab /\ Chat!ReadDone(r))
      BY <3>1, <3>3
    <3> QED
      BY <3>2, <3>3
  <2>4. r <= Len(turn)
    BY DEF Chat!Turns
  <2>5. \A t \in Tabs : tab'[t].session <= Len(turn)
    BY <2>3, <2>4 DEF Chat!NextSession, Follows
  <2> QED
    BY <2>1, <2>2, <2>5 DEF Follows
<1>3. ASSUME NEW t \in Tabs, Chat!SendMessage(t) PROVE Follows'
  <2> DEFINE n == Len(turn) + 1
  <2>1. /\ Chat!Turns' = Chat!Turns \cup {n} /\ Len(turn') = n
        /\ turn'[n] = Chat!NewTurn(t) /\ \A q \in Chat!Turns : turn'[q] = turn[q]
    BY <1>3, SendIs
  <2>2. turn'[n].tab = t /\ turn'[n].resumes = tab[t].session
    BY <2>1 DEF Chat!NewTurn
  <2>3. /\ tab'[t].history = tab[t].history \cup {n} /\ tab'[t].session = tab[t].session
        /\ \A u \in Tabs : u # t => tab'[u] = tab[u]
    BY <1>3, SendTabs
  <2>4. \A u \in Tabs : tab'[u].session <= Len(turn)
    BY <2>3 DEF Follows
  <2>5. \A u \in Tabs : tab'[u].session <= Len(turn')
    BY <1>0, <2>1, <2>3, <2>4
  <2>6. tab[t].session < n
    BY <1>0 DEF Follows
  <2> HIDE DEF n
  <2>7. \A q \in Chat!Turns' : turn'[q].resumes < q
    BY <2>1, <2>2, <2>6 DEF Follows
  <2>8. \A u \in Tabs : \A q \in tab'[u].history : q \in Chat!Turns' /\ turn'[q].tab = u
    BY <2>1, <2>2, <2>3 DEF Follows
  <2> QED
    BY <2>5, <2>7, <2>8 DEF Follows
<1>4. ASSUME NEW t \in Tabs, Chat!ClearHistory(t) PROVE Follows'
  BY <1>0, <1>4, ClearTabs DEF Follows, Chat!Turns
<1>5. ASSUME NEW t \in Tabs, Chat!ReloadPage(t) PROVE Follows'
  <2>1. /\ Chat!Turns' = Chat!Turns /\ Len(turn') = Len(turn)
        /\ \A q \in Chat!Turns : turn'[q].tab = turn[q].tab /\ turn'[q].resumes = turn[q].resumes
    BY <1>5, ReloadTurns DEF SameOrigin
  <2>2. \A u \in Tabs : tab'[u].history = tab[u].history /\ tab'[u].session = tab[u].session
    BY <1>5, ReloadTabs
  <2> QED
    BY <2>1, <2>2 DEF Follows
<1> QED
  BY <1>1, <1>2, <1>3, <1>4, <1>5 DEF Chat!Next, ChatStep

-----------------------------------------------------------------------------
(* What is on its way to a tab.                                             *)

LEMMA QueueIs ==
  ASSUME NEW q \in Queues
  PROVE  Len(q) \in Nat /\ DOMAIN q = 1..Len(q) /\ \A i \in 1..Len(q) : q[i] \in Chat!Events
BY DEF Queues

LEMMA AppendIs ==
  ASSUME NEW q \in Queues, NEW v \in Chat!Events
  PROVE  /\ Len(Append(q, v)) = Len(q) + 1 /\ DOMAIN Append(q, v) = 1..(Len(q) + 1)
         /\ \A i \in 1..Len(q) : Append(q, v)[i] = q[i]
         /\ Append(q, v)[Len(q) + 1] = v
BY DEF Queues

LEMMA TailIs ==
  ASSUME NEW q \in Queues, q # << >>
  PROVE  /\ Len(q) > 0 /\ Len(Tail(q)) = Len(q) - 1 /\ DOMAIN Tail(q) = 1..(Len(q) - 1) /\ Head(q) = q[1]
         /\ \A i \in 1..(Len(q) - 1) : Tail(q)[i] = q[i + 1]
BY DEF Queues

LEMMA CarriesNothing ==
  ASSUME NEW m \in Nat
  PROVE  Carries(<< >>, m, m, 0)
BY DEF Carries

LEMMA CarriesWord ==
  ASSUME NEW q \in Queues, NEW m \in Nat, NEW s \in Nat, s + 1 <= MaxChunks, Carries(q, m, s, 0)
  PROVE  Carries(Append(q, Chat!Chunk(s + 1)), m, s + 1, 0)
<1> DEFINE p == Append(q, Chat!Chunk(s + 1))
<1>1. PICK o \in {0, 1} :
        /\ m <= s /\ Len(q) = o + (s - m) + 0
        /\ o = 1 => q[1] = Chat!Mark("session")
        /\ \A i \in 1..(s - m) : q[o + i] = Chat!Chunk(m + i)
  BY DEF Carries
<1>2. Chat!Chunk(s + 1) \in Chat!Events
  <2>1. s + 1 \in 1..MaxChunks
    BY ServerAssumption DEF Chat!ChatAssumption
  <2> QED
    BY <2>1, EventsAre
<1>3. /\ Len(p) = Len(q) + 1 /\ \A i \in 1..Len(q) : p[i] = q[i]
      /\ p[Len(q) + 1] = Chat!Chunk(s + 1)
  BY <1>2, AppendIs
<1> HIDE DEF p
<1>4. ASSUME NEW i \in 1..(s + 1 - m) PROVE p[o + i] = Chat!Chunk(m + i)
  <2>1. CASE i = s + 1 - m
    BY <1>1, <1>3, <2>1
  <2>2. CASE i # s + 1 - m
    <3>1. i \in 1..(s - m) /\ o + i \in 1..Len(q)
      BY <1>1, <2>2
    <3> QED
      BY <1>1, <1>3, <3>1
  <2> QED
    BY <2>1, <2>2
<1>5. m <= s + 1 /\ Len(p) = o + (s + 1 - m) + 0 /\ (o = 1 => p[1] = Chat!Mark("session"))
  BY <1>1, <1>3
<1>6. \A i \in (o + (s + 1 - m) + 1)..Len(p) : p[i] \in {Chat!Mark("error"), Chat!Mark("done")}
  BY <1>1, <1>5
<1>7. Carries(p, m, s + 1, 0)
  <2> DEFINE u == s + 1
  <2>1. /\ m <= u /\ Len(p) = o + (u - m) + 0 /\ (o = 1 => p[1] = Chat!Mark("session"))
        /\ \A i \in 1..(u - m) : p[o + i] = Chat!Chunk(m + i)
        /\ \A i \in (o + (u - m) + 1)..Len(p) : p[i] \in {Chat!Mark("error"), Chat!Mark("done")}
    BY <1>4, <1>5, <1>6
  <2> HIDE DEF u
  <2>2. Carries(p, m, u, 0)
    BY <2>1 DEF Carries
  <2> QED
    BY <2>2 DEF u
<1> QED
  BY <1>7 DEF p

LEMMA CarriesName ==
  ASSUME NEW q \in Queues, NEW m \in Nat, Carries(q, m, 0, 0), \A i \in DOMAIN q : q[i] # Chat!Mark("session")
  PROVE  Carries(Append(q, Chat!Mark("session")), m, 0, 0)
<1>1. PICK o \in {0, 1} : m <= 0 /\ Len(q) = o + (0 - m) + 0 /\ (o = 1 => q[1] = Chat!Mark("session"))
  BY DEF Carries
<1>2. m = 0 /\ Len(q) = 0
  BY <1>1, QueueIs
<1>3. /\ Len(Append(q, Chat!Mark("session"))) = 1
      /\ Append(q, Chat!Mark("session"))[1] = Chat!Mark("session")
  BY <1>2, AppendIs, EventsAre
<1> QED
  BY <1>2, <1>3 DEF Carries

LEMMA CarriesMark ==
  ASSUME NEW q \in Queues, NEW m \in Nat, NEW s \in Nat, NEW e \in Nat, Carries(q, m, s, e),
         NEW v \in {Chat!Mark("error"), Chat!Mark("done")}
  PROVE  Carries(Append(q, v), m, s, e + 1)
<1> DEFINE p == Append(q, v)
<1>1. PICK o \in {0, 1} :
        /\ m <= s /\ Len(q) = o + (s - m) + e
        /\ o = 1 => q[1] = Chat!Mark("session")
        /\ \A i \in 1..(s - m) : q[o + i] = Chat!Chunk(m + i)
        /\ \A i \in (o + (s - m) + 1)..Len(q) : q[i] \in {Chat!Mark("error"), Chat!Mark("done")}
  BY DEF Carries
<1>2. v \in Chat!Events
  BY EventsAre
<1>3. Len(p) = Len(q) + 1 /\ (\A i \in 1..Len(q) : p[i] = q[i]) /\ p[Len(q) + 1] = v
  BY <1>2, AppendIs
<1> HIDE DEF p
<1>4. \A i \in 1..(s - m) : p[o + i] = Chat!Chunk(m + i)
  <2> SUFFICES ASSUME NEW i \in 1..(s - m) PROVE p[o + i] = Chat!Chunk(m + i)
    OBVIOUS
  <2>1. o + i \in 1..Len(q)
    BY <1>1
  <2> QED
    BY <1>1, <1>3, <2>1
<1>5. ASSUME NEW i \in (o + (s - m) + 1)..Len(p) PROVE p[i] \in {Chat!Mark("error"), Chat!Mark("done")}
  <2>1. CASE i = Len(q) + 1
    BY <1>3, <2>1
  <2>2. CASE i # Len(q) + 1
    <3>1. i \in (o + (s - m) + 1)..Len(q) /\ i \in 1..Len(q)
      BY <1>1, <1>3, <2>2, QueueIs
    <3> QED
      BY <1>1, <1>3, <3>1
  <2> QED
    BY <2>1, <2>2
<1>6. Len(p) = o + (s - m) + (e + 1) /\ (o = 1 => p[1] = Chat!Mark("session"))
  BY <1>1, <1>3
<1> QED
  BY <1>1, <1>4, <1>5, <1>6 DEF Carries, p

LEMMA CarriesOn ==
  ASSUME NEW q \in Queues, q # << >>, NEW m \in Nat, NEW s \in Nat, NEW e \in Nat, Carries(q, m, s, e)
  PROVE  /\ Head(q).event = "session" => Carries(Tail(q), m, s, e)
         /\ Head(q).event = "chunk" => Head(q).n = m + 1 /\ Carries(Tail(q), m + 1, s, e)
         /\ Head(q).event = "done" => m = s
<1> DEFINE p == Tail(q)
<1>1. PICK o \in {0, 1} :
        /\ m <= s /\ Len(q) = o + (s - m) + e
        /\ o = 1 => q[1] = Chat!Mark("session")
        /\ \A i \in 1..(s - m) : q[o + i] = Chat!Chunk(m + i)
        /\ \A i \in (o + (s - m) + 1)..Len(q) : q[i] \in {Chat!Mark("error"), Chat!Mark("done")}
  BY DEF Carries
<1>2. /\ Len(q) > 0 /\ Len(p) = Len(q) - 1 /\ Head(q) = q[1] /\ q[1] \in Chat!Events /\ Len(q) \in Nat
      /\ \A i \in 1..(Len(q) - 1) : p[i] = q[i + 1]
  BY TailIs, QueueIs
<1> HIDE DEF p
<1>3. CASE o = 1
  <2>1. Head(q).event = "session"
    BY <1>1, <1>2, <1>3, EventsAre
  <2>2. \A i \in 1..(s - m) : p[0 + i] = Chat!Chunk(m + i)
    <3> SUFFICES ASSUME NEW i \in 1..(s - m) PROVE p[i] = Chat!Chunk(m + i)
      OBVIOUS
    <3>1. i \in 1..(Len(q) - 1) /\ o + i = i + 1
      BY <1>1, <1>2, <1>3
    <3> QED
      BY <1>1, <1>2, <3>1
  <2>3. \A i \in (0 + (s - m) + 1)..Len(p) : p[i] \in {Chat!Mark("error"), Chat!Mark("done")}
    <3> SUFFICES ASSUME NEW i \in (0 + (s - m) + 1)..Len(p) PROVE p[i] \in {Chat!Mark("error"), Chat!Mark("done")}
      OBVIOUS
    <3>1. i \in 1..(Len(q) - 1) /\ i + 1 \in (o + (s - m) + 1)..Len(q)
      BY <1>1, <1>2, <1>3
    <3> QED
      BY <1>1, <1>2, <3>1
  <2>4. m <= s /\ Len(p) = 0 + (s - m) + e
    BY <1>1, <1>2, <1>3
  <2>5. Carries(p, m, s, e)
    BY <2>2, <2>3, <2>4 DEF Carries
  <2> QED
    BY <2>1, <2>5 DEF p
<1>4. CASE o = 0 /\ m < s
  <2>1. q[1] = Chat!Chunk(m + 1)
    <3>1. 1 \in 1..(s - m) /\ o + 1 = 1
      BY <1>4
    <3> QED
      BY <1>1, <3>1
  <2>2. \A i \in 1..(s - (m + 1)) : p[0 + i] = Chat!Chunk(m + 1 + i)
    <3> SUFFICES ASSUME NEW i \in 1..(s - (m + 1)) PROVE p[i] = Chat!Chunk(m + 1 + i)
      OBVIOUS
    <3>1. i \in 1..(Len(q) - 1) /\ i + 1 \in 1..(s - m) /\ o + (i + 1) = i + 1 /\ m + (i + 1) = m + 1 + i
      BY <1>1, <1>2, <1>4
    <3> QED
      BY <1>1, <1>2, <3>1
  <2>3. \A i \in (0 + (s - (m + 1)) + 1)..Len(p) : p[i] \in {Chat!Mark("error"), Chat!Mark("done")}
    <3> SUFFICES ASSUME NEW i \in (0 + (s - (m + 1)) + 1)..Len(p) PROVE p[i] \in {Chat!Mark("error"), Chat!Mark("done")}
      OBVIOUS
    <3>1. i \in 1..(Len(q) - 1) /\ i + 1 \in (o + (s - m) + 1)..Len(q)
      BY <1>1, <1>2, <1>4
    <3> QED
      BY <1>1, <1>2, <3>1
  <2>4. m + 1 <= s /\ Len(p) = 0 + (s - (m + 1)) + e
    BY <1>1, <1>2, <1>4
  <2>5. Carries(p, m + 1, s, e)
    BY <2>2, <2>3, <2>4 DEF Carries
  <2> QED
    BY <1>2, <2>1, <2>5, EventsAre DEF p
<1>5. CASE o = 0 /\ m = s
  <2>1. 1 \in (o + (s - m) + 1)..Len(q)
    BY <1>2, <1>5
  <2>2. q[1] \in {Chat!Mark("error"), Chat!Mark("done")}
    BY <1>1, <2>1
  <2> QED
    BY <1>2, <1>5, <2>2, EventsAre
<1> QED
  BY <1>1, <1>3, <1>4, <1>5

LEMMA CarriesOut ==
  ASSUME NEW m \in Nat, NEW s \in Nat, NEW e \in Nat, Carries(<< >>, m, s, e)
  PROVE  m = s
BY DEF Carries

\* A turn that is left alone flows as it did.
LEMMA FlowStays ==
  ASSUME NEW q, turn'[q] = turn[q], q \in active' => q \in active, Flows(q)
  PROVE  Flows(q)'
BY DEF Flows, Heard

LEMMA FlowTypes ==
  ASSUME ChatTypes, NEW r \in Chat!Turns
  PROVE  /\ turn[r].queue \in Queues /\ turn[r].text \in Texts /\ Len(turn[r].text) \in Nat
         /\ turn[r].from \in Nat /\ turn[r].said \in Nat /\ Heard(r) \in Nat /\ turn[r].said <= MaxChunks
         /\ turn[r].named \in BOOLEAN /\ turn[r].signalled \in BOOLEAN /\ turn[r].learned \in BOOLEAN
         /\ DOMAIN turn[r].text = 1..Len(turn[r].text)
<1>1. turn[r] \in ChatTurn
  BY TurnIs
<1>2. /\ turn[r].queue \in Queues /\ turn[r].text \in Texts /\ turn[r].from \in Nat /\ turn[r].said \in Nat
      /\ turn[r].named \in BOOLEAN /\ turn[r].signalled \in BOOLEAN /\ turn[r].learned \in BOOLEAN
      /\ turn[r].said <= MaxChunks
  BY <1>1, ServerAssumption DEF ChatTurn, Chat!ChatAssumption
<1>3. Len(turn[r].text) \in Nat /\ DOMAIN turn[r].text = 1..Len(turn[r].text)
  BY <1>2 DEF Texts
<1> QED
  BY <1>2, <1>3 DEF Heard

\* What a running process adds to the stream.
LEMMA ActiveReads ==
  ASSUME ChatTypes, Slots, NEW r \in active, Flows(r)
  PROVE  /\ turn[r].process = "running" /\ turn[r].phase # "answered"
         /\ turn[r].phase = "reading" <=> turn[r].stream = "open"
         /\ turn[r].phase = "reading" => Carries(turn[r].queue, Heard(r), turn[r].said, 0)
         /\ turn[r].phase = "reading" => \A i \in DOMAIN turn[r].queue : turn[r].queue[i] # Chat!Mark("done")
<1>1. turn[r].process = "running" /\ r \in Chat!Turns
  BY DEF Slots
<1> QED
  BY <1>1 DEF Flows

LEMMA NameFlows ==
  ASSUME ChatTypes, Slots, NEW r \in Chat!Turns, Flows(r), Chat!Name(r)
  PROVE  Flows(r)'
<1>1. r \in active /\ ~turn[r].named /\ active' = active
  BY DEF Chat!Name
<1>2. /\ SameProcess(r) /\ turn'[r].said = turn[r].said /\ turn'[r].phase = turn[r].phase /\ turn'[r].named
      /\ turn'[r].stream = turn[r].stream /\ turn'[r].from = turn[r].from /\ turn'[r].text = turn[r].text
      /\ turn'[r].learned = turn[r].learned
      /\ turn'[r].queue = Chat!Broadcast(r, Chat!Mark("session"))
  BY NameDoes
<1>3. CASE turn[r].phase # "reading"
  <2>1. turn'[r].queue = turn[r].queue
    BY <1>1, <1>2, <1>3, ActiveReads DEF Chat!Broadcast
  <2> QED
    BY <1>1, <1>2, <1>3, <2>1 DEF Flows, Heard, SameProcess
<1>4. CASE turn[r].phase = "reading"
  <2> DEFINE q == turn[r].queue
  <2>1. turn[r].stream = "open" /\ turn[r].said = 0 /\ Carries(q, Heard(r), 0, 0)
        /\ \A i \in DOMAIN q : q[i] # Chat!Mark("session") /\ q[i] # Chat!Mark("done")
    BY <1>1, <1>4, ActiveReads DEF Flows
  <2>2. turn'[r].queue = Append(q, Chat!Mark("session"))
    BY <1>1, <1>2, <2>1 DEF Chat!Broadcast
  <2>3. q \in Queues /\ Heard(r) \in Nat
    BY FlowTypes
  <2>4. Carries(turn'[r].queue, Heard(r), 0, 0)
    BY <2>1, <2>2, <2>3, CarriesName
  <2>5. \A i \in DOMAIN turn'[r].queue : turn'[r].queue[i] # Chat!Mark("done")
    BY <2>1, <2>2, <2>3, AppendIs, QueueIs, EventsAre
  <2>6. Heard(r)' = Heard(r)
    BY <1>2 DEF Heard
  <2> HIDE DEF q
  <2> QED
    BY <1>1, <1>2, <1>4, <2>1, <2>4, <2>5, <2>6 DEF Flows, SameProcess
<1> QED
  BY <1>3, <1>4

LEMMA SpeakFlows ==
  ASSUME ChatTypes, Slots, NEW r \in Chat!Turns, Flows(r), Chat!Speak(r)
  PROVE  Flows(r)'
<1>1. r \in active /\ turn[r].named /\ turn[r].said < MaxChunks /\ active' = active
  BY DEF Chat!Speak
<1>2. /\ SameProcess(r) /\ turn'[r].said = turn[r].said + 1 /\ turn'[r].phase = turn[r].phase
      /\ turn'[r].named = turn[r].named
      /\ turn'[r].stream = turn[r].stream /\ turn'[r].from = turn[r].from /\ turn'[r].text = turn[r].text
      /\ turn'[r].learned = turn[r].learned
      /\ turn'[r].queue = Chat!Broadcast(r, Chat!Chunk(turn[r].said + 1))
  BY SpeakDoes
<1>3. CASE turn[r].phase # "reading"
  <2>1. turn'[r].queue = turn[r].queue /\ turn[r].phase # "answered"
    BY <1>1, <1>2, <1>3, ActiveReads DEF Chat!Broadcast
  <2> QED
    BY <1>1, <1>2, <1>3, <2>1 DEF Flows, Heard, SameProcess
<1>4. CASE turn[r].phase = "reading"
  <2> DEFINE q == turn[r].queue
             s == turn[r].said
  <2>1. turn[r].stream = "open" /\ Carries(q, Heard(r), s, 0)
        /\ \A i \in DOMAIN q : q[i] # Chat!Mark("done")
    BY <1>1, <1>4, ActiveReads
  <2>2. turn'[r].queue = Append(q, Chat!Chunk(s + 1))
    BY <1>1, <1>2, <2>1 DEF Chat!Broadcast
  <2>3. q \in Queues /\ Heard(r) \in Nat /\ s \in Nat /\ MaxChunks \in Nat /\ s + 1 <= MaxChunks /\ s + 1 \in 1..MaxChunks
    BY <1>1, FlowTypes, ServerAssumption DEF Chat!ChatAssumption
  <2>4. Carries(turn'[r].queue, Heard(r), s + 1, 0)
    BY <2>1, <2>2, <2>3, CarriesWord
  <2>5. \A i \in DOMAIN turn'[r].queue : turn'[r].queue[i] # Chat!Mark("done")
    <3>1. Chat!Chunk(s + 1) \in Chat!Events /\ Chat!Chunk(s + 1) # Chat!Mark("done")
      BY <2>3, EventsAre
    <3> QED
      BY <2>1, <2>2, <2>3, <3>1, AppendIs, QueueIs
  <2>6. Heard(r)' = Heard(r)
    BY <1>2 DEF Heard
  <2> HIDE DEF q
  <2> QED
    BY <1>1, <1>2, <1>4, <2>1, <2>4, <2>5, <2>6 DEF Flows, SameProcess
<1> QED
  BY <1>3, <1>4

LEMMA TimeOutFlows ==
  ASSUME ChatTypes, Slots, NEW r \in Chat!Turns, Flows(r), Chat!TimeOut(r)
  PROVE  Flows(r)'
<1>1. r \in active /\ r \notin active'
  BY DEF Chat!TimeOut, Chat!Cleanup
<1>2. /\ SameSpeech(r) /\ turn'[r].process = turn[r].process /\ turn'[r].phase = turn[r].phase
      /\ turn'[r].stream = turn[r].stream /\ turn'[r].from = turn[r].from /\ turn'[r].text = turn[r].text
      /\ turn'[r].learned = turn[r].learned
      /\ turn'[r].queue = Chat!Broadcast(r, Chat!Mark("error"))
  BY TimeOutDoes
<1>3. CASE turn[r].phase # "reading"
  <2>1. turn'[r].queue = turn[r].queue /\ turn[r].phase # "answered"
    BY <1>1, <1>2, <1>3, ActiveReads DEF Chat!Broadcast
  <2> QED
    BY <1>1, <1>2, <1>3, <2>1 DEF Flows, Heard, SameSpeech
<1>4. CASE turn[r].phase = "reading"
  <2> DEFINE q == turn[r].queue
             s == turn[r].said
  <2>1. turn[r].stream = "open" /\ Carries(q, Heard(r), s, 0)
        /\ \A i \in DOMAIN q : q[i] # Chat!Mark("done")
    BY <1>1, <1>4, ActiveReads
  <2>2. turn'[r].queue = Append(q, Chat!Mark("error"))
    BY <1>1, <1>2, <2>1 DEF Chat!Broadcast
  <2>3. q \in Queues /\ Heard(r) \in Nat /\ s \in Nat
    BY FlowTypes
  <2>4. Carries(turn'[r].queue, Heard(r), s, 0 + 1)
    BY <2>1, <2>2, <2>3, CarriesMark
  <2>5. Chat!Mark("error") \in Chat!Events /\ Chat!Mark("error") # Chat!Mark("done") /\ Chat!Mark("error") # Chat!Mark("session")
    BY EventsAre
  <2>6. \A i \in DOMAIN turn'[r].queue : turn'[r].queue[i] # Chat!Mark("done")
    BY <2>1, <2>2, <2>3, <2>5, AppendIs, QueueIs
  <2>7. ~turn[r].named => s = 0 /\ \A i \in DOMAIN turn'[r].queue : turn'[r].queue[i] # Chat!Mark("session")
    <3>1. ~turn[r].named => s = 0 /\ \A i \in DOMAIN q : q[i] # Chat!Mark("session")
      BY DEF Flows
    <3> QED
      BY <2>2, <2>3, <2>5, <3>1, AppendIs, QueueIs
  <2>8. Heard(r)' = Heard(r)
    BY <1>2 DEF Heard
  <2>9. \E e \in Nat : Carries(turn'[r].queue, Heard(r), s, e)
    BY <2>4
  <2> HIDE DEF q
  <2> QED
    BY <1>1, <1>2, <1>4, <2>1, <2>6, <2>7, <2>8, <2>9 DEF Flows, SameSpeech
<1> QED
  BY <1>3, <1>4

LEMMA CloseFlows ==
  ASSUME ChatTypes, Slots, NEW r \in Chat!Turns, Flows(r), NEW failed \in BOOLEAN, Chat!CloseProcess(r, failed)
  PROVE  Flows(r)'
<1>1. r \notin active' /\ turn[r].process = "running"
  BY DEF Chat!CloseProcess, Chat!Cleanup
<1>2. /\ SameSpeech(r) /\ turn'[r].process = "closed" /\ turn'[r].phase = turn[r].phase
      /\ turn'[r].stream = (IF turn[r].stream = "open" THEN "ended" ELSE turn[r].stream)
      /\ turn'[r].from = turn[r].from /\ turn'[r].text = turn[r].text
      /\ turn'[r].learned = turn[r].learned
      /\ turn'[r].queue = Chat!LastWords(r, failed)
  BY CloseDoes
<1>3. CASE turn[r].phase # "reading"
  <2>1. turn'[r].queue = turn[r].queue /\ turn'[r].stream = turn[r].stream
    BY <1>2, <1>3 DEF Flows, Chat!LastWords
  <2> QED
    BY <1>1, <1>2, <1>3, <2>1 DEF Flows, Heard, SameSpeech
<1>4. CASE turn[r].phase = "reading"
  <2> DEFINE q == turn[r].queue
             s == turn[r].said
             p == turn'[r].queue
             Quiet(w) == ~turn[r].named => s = 0 /\ \A i \in DOMAIN w : w[i] # Chat!Mark("session")
  <2>1. q \in Queues /\ Heard(r) \in Nat /\ s \in Nat
    BY FlowTypes
  <2>2. Quiet(q) /\ (\E e \in Nat : Carries(q, Heard(r), s, e)) /\ turn'[r].stream = "ended"
    BY <1>2, <1>4 DEF Flows
  <2>3. ASSUME NEW w \in Queues, Quiet(w), \E e \in Nat : Carries(w, Heard(r), s, e),
               NEW v \in {Chat!Mark("error"), Chat!Mark("done")}
        PROVE  /\ Append(w, v) \in Queues /\ Quiet(Append(w, v))
               /\ \E e \in Nat : Carries(Append(w, v), Heard(r), s, e)
    <3>1. v \in Chat!Events /\ v # Chat!Mark("session")
      BY EventsAre
    <3>2. Append(w, v) \in Queues
      BY <3>1, QueuesAre
    <3>3. Quiet(Append(w, v))
      BY <2>3, <3>1, AppendIs, QueueIs
    <3>4. PICK e \in Nat : Carries(w, Heard(r), s, e)
      BY <2>3
    <3>5. Carries(Append(w, v), Heard(r), s, e + 1) /\ e + 1 \in Nat
      BY <2>1, <3>4, CarriesMark
    <3> QED
      BY <3>2, <3>3, <3>5
  <2>4. Quiet(p) /\ \E e \in Nat : Carries(p, Heard(r), s, e)
    <3>1. CASE p = q
      BY <2>2, <3>1
    <3>2. CASE p = Append(q, Chat!Mark("done"))
      BY <2>1, <2>2, <2>3, <3>2
    <3>3. CASE p = Append(Append(q, Chat!Mark("error")), Chat!Mark("done"))
      <4> DEFINE w == Append(q, Chat!Mark("error"))
      <4>1. w \in Queues /\ Quiet(w) /\ \E e \in Nat : Carries(w, Heard(r), s, e)
        BY <2>1, <2>2, <2>3
      <4> HIDE DEF w, Quiet
      <4>2. p = Append(w, Chat!Mark("done"))
        BY <3>3 DEF w
      <4> QED
        BY <2>3, <4>1, <4>2
    <3>4. p = q \/ p = Append(q, Chat!Mark("done")) \/ p = Append(Append(q, Chat!Mark("error")), Chat!Mark("done"))
      <4>1. q \in Seq(Chat!Events) /\ Chat!Mark("done") \in Chat!Events /\ Chat!Mark("error") \in Chat!Events
        BY <2>1, EventsAre DEF Queues
      <4>2. p = q \/ p = q \o << >> \o <<Chat!Mark("done")>> \/ p = q \o <<Chat!Mark("error")>> \o <<Chat!Mark("done")>>
        BY <1>2 DEF Chat!LastWords
      <4>3. q \o << >> = q
        BY <4>1
      <4>4. \A w \in Seq(Chat!Events) : \A v \in Chat!Events : w \o <<v>> = Append(w, v) /\ Append(w, v) \in Seq(Chat!Events)
        OBVIOUS
      <4> HIDE DEF p, q
      <4> QED
        BY <4>1, <4>2, <4>3, <4>4
    <3> QED
      BY <3>1, <3>2, <3>3, <3>4
  <2>5. Heard(r)' = Heard(r)
    BY <1>2 DEF Heard
  <2> HIDE DEF q
  <2> QED
    BY <1>1, <1>2, <1>4, <2>2, <2>4, <2>5 DEF Flows, SameSpeech
<1> QED
  BY <1>3, <1>4

LEMMA ReadChunkFlows ==
  ASSUME ChatTypes, Slots, NEW r \in Chat!Turns, Flows(r), Chat!ReadChunk(r)
  PROVE  Flows(r)'
<1> DEFINE q == turn[r].queue
           s == turn[r].said
           v == Head(q)
           m == Heard(r)
<1>1. /\ turn[r].phase = "reading" /\ q # << >> /\ v.event \in {"chunk", "session"} /\ active' = active
  BY DEF Chat!ReadChunk
<1>2. /\ SameProcess(r) /\ SameSpeech(r) /\ turn'[r].phase = turn[r].phase
      /\ turn'[r].stream = turn[r].stream /\ turn'[r].from = turn[r].from
      /\ turn'[r].queue = Tail(q)
      /\ turn'[r].text = IF v.event = "chunk" THEN Append(turn[r].text, v.n) ELSE turn[r].text
  BY ReadChunkDoes
<1>3. /\ q \in Queues /\ m \in Nat /\ s \in Nat /\ turn[r].text \in Texts /\ turn[r].from \in Nat
      /\ Len(turn[r].text) \in Nat /\ DOMAIN turn[r].text = 1..Len(turn[r].text)
      /\ m = turn[r].from + Len(turn[r].text)
  BY FlowTypes DEF Heard
<1>4. PICK e \in Nat : Carries(q, m, s, e) /\ (r \in active => e = 0)
  BY <1>1 DEF Flows
<1>5. \A i \in DOMAIN Tail(q) : \E j \in DOMAIN q : Tail(q)[i] = q[j]
  <2> SUFFICES ASSUME NEW i \in 1..(Len(q) - 1) PROVE \E j \in DOMAIN q : Tail(q)[i] = q[j]
    BY <1>1, <1>3, TailIs
  <2>1. i + 1 \in DOMAIN q
    BY <1>3, QueueIs
  <2> QED
    BY <1>1, <1>3, <2>1, TailIs
<1>6. Carries(Tail(q), Heard(r)', s, e) /\ \A i \in DOMAIN turn'[r].text : turn'[r].text[i] = turn[r].from + i
  <2>1. \A i \in DOMAIN turn[r].text : turn[r].text[i] = turn[r].from + i
    BY DEF Flows
  <2>2. CASE v.event = "session"
    <3>1. turn'[r].text = turn[r].text
      BY <1>2, <2>2
    <3>2. Heard(r)' = m
      BY <1>2, <3>1 DEF Heard
    <3> QED
      BY <1>1, <1>3, <1>4, <2>1, <2>2, <3>1, <3>2, CarriesOn
  <2>3. CASE v.event = "chunk"
    <3>1. turn'[r].text = Append(turn[r].text, v.n)
      BY <1>2, <2>3
    <3>2. v.n = m + 1 /\ Carries(Tail(q), m + 1, s, e)
      BY <1>1, <1>3, <1>4, <2>3, CarriesOn
    <3>3. /\ Len(turn'[r].text) = Len(turn[r].text) + 1 /\ DOMAIN turn'[r].text = 1..(Len(turn[r].text) + 1)
          /\ \A i \in 1..Len(turn[r].text) : turn'[r].text[i] = turn[r].text[i]
          /\ turn'[r].text[Len(turn[r].text) + 1] = m + 1
      BY <1>3, <3>1, <3>2 DEF Texts
    <3>4. Heard(r)' = m + 1
      <4>1. Heard(r)' = turn[r].from + (Len(turn[r].text) + 1)
        BY <1>2, <3>3 DEF Heard
      <4> QED
        BY <1>3, <4>1
    <3> HIDE DEF m
    <3>5. ASSUME NEW i \in 1..(Len(turn[r].text) + 1) PROVE turn'[r].text[i] = turn[r].from + i
      <4>1. CASE i = Len(turn[r].text) + 1
        BY <1>3, <3>3, <4>1
      <4>2. CASE i # Len(turn[r].text) + 1
        <5>1. i \in 1..Len(turn[r].text)
          BY <1>3, <4>2
        <5> QED
          BY <1>3, <2>1, <3>3, <5>1
      <4> QED
        BY <4>1, <4>2
    <3> QED
      BY <3>2, <3>3, <3>4, <3>5
  <2> QED
    BY <1>1, <2>2, <2>3
<1> HIDE DEF q, s, v, m
<1>7. \A i \in DOMAIN turn'[r].queue : turn'[r].queue[i] = Chat!Mark("done") => turn[r].process = "closed"
  BY <1>1, <1>2, <1>5 DEF Flows, q
<1>8. ~turn[r].named => turn[r].said = 0 /\ \A i \in DOMAIN turn'[r].queue : turn'[r].queue[i] # Chat!Mark("session")
  BY <1>2, <1>5 DEF Flows, q
<1> QED
  BY <1>1, <1>2, <1>4, <1>6, <1>7, <1>8 DEF Flows, SameProcess, SameSpeech, s

LEMMA ReadDoneFlows ==
  ASSUME ChatTypes, Slots, NEW r \in Chat!Turns, Flows(r), Chat!ReadDone(r)
  PROVE  Flows(r)'
<1> DEFINE q == turn[r].queue
           s == turn[r].said
           m == Heard(r)
<1>1. /\ turn[r].phase = "reading" /\ active' = active
      /\ \/ q # << >> /\ Head(q).event = "done"
         \/ q = << >> /\ turn[r].stream = "ended"
  BY DEF Chat!ReadDone, Chat!Answered
<1>2. /\ SameProcess(r) /\ SameSpeech(r) /\ turn'[r].phase = "answered"
      /\ turn'[r].stream = "dropped" /\ turn'[r].from = turn[r].from /\ turn'[r].text = turn[r].text
      /\ turn'[r].queue = << >>
  BY ReadDoneDoes
<1>3. q \in Queues /\ m \in Nat /\ s \in Nat
  BY FlowTypes
<1>4. PICK e \in Nat : Carries(q, m, s, e)
  BY <1>1 DEF Flows
<1>5. m = s /\ turn[r].process = "closed"
  <2>1. CASE q # << >> /\ Head(q).event = "done"
    <3>1. m = s
      BY <1>3, <1>4, <2>1, CarriesOn
    <3>2. 1 \in DOMAIN q /\ q[1] = Chat!Mark("done")
      BY <1>3, <2>1, TailIs, QueueIs, EventsAre
    <3> QED
      BY <1>1, <3>1, <3>2 DEF Flows
  <2>2. CASE q = << >> /\ turn[r].stream = "ended"
    BY <1>3, <1>4, <2>2, CarriesOut DEF Flows
  <2> QED
    BY <1>1, <2>1, <2>2
<1>6. Heard(r)' = m
  BY <1>2 DEF Heard
<1>7. ~turn[r].named => turn[r].said = 0
  BY DEF Flows
<1>8. \A i \in DOMAIN turn[r].text : turn[r].text[i] = turn[r].from + i
  BY DEF Flows
<1> QED
  BY <1>2, <1>5, <1>6, <1>7, <1>8 DEF Flows, SameProcess, SameSpeech

LEMMA OtherFlows ==
  ASSUME ChatTypes, Slots, NEW r \in Chat!Turns, Flows(r),
         \/ Chat!Refuse(r) \/ Chat!SpawnChat(r) \/ Chat!FailToStart(r) \/ Chat!OpenStream(r)
         \/ Chat!StreamNotFound(r) \/ Chat!NoticeDisconnect(r) \/ Chat!ReadError(r)
  PROVE  Flows(r)'
<1>0. turn[r].said \in Nat
  BY FlowTypes
<1>1. CASE Chat!Refuse(r) \/ Chat!StreamNotFound(r)
  <2>1. /\ SameProcess(r) /\ SameSpeech(r) /\ SameStream(r) /\ turn'[r].phase = "failed"
    BY <1>1, RefuseDoes, NotFoundDoes
  <2>2. turn[r].phase \in {"posted", "opening"}
    BY <1>1 DEF Chat!Refuse, Chat!StreamNotFound
  <2> QED
    BY <2>1, <2>2 DEF Flows, SameProcess, SameSpeech, SameStream
<1>2. CASE Chat!SpawnChat(r)
  <2>1. /\ SameSpeech(r) /\ SameStream(r) /\ turn[r].phase \in {"posted", "abandoned"}
        /\ turn'[r].phase = (IF turn[r].phase = "posted" THEN "opening" ELSE turn[r].phase)
    BY <1>2, SpawnDoes DEF Chat!SpawnChat
  <2> QED
    BY <2>1 DEF Flows, SameSpeech, SameStream
<1>3. CASE Chat!FailToStart(r)
  <2>1. /\ SameSpeech(r) /\ SameStream(r) /\ turn'[r].phase = turn[r].phase /\ turn'[r].process = "closed"
        /\ turn[r].stream = "unopened"
    BY <1>3, FailDoes DEF Chat!FailToStart
  <2> QED
    BY <2>1 DEF Flows, Heard, SameSpeech, SameStream
<1>4. CASE Chat!OpenStream(r)
  <2>1. /\ SameProcess(r) /\ SameSpeech(r) /\ turn'[r].phase = "reading" /\ turn'[r].stream = "open"
        /\ turn'[r].from = turn[r].said /\ turn'[r].queue = turn[r].queue /\ turn'[r].text = turn[r].text
        /\ turn[r].phase = "opening"
    BY <1>4, OpenDoes DEF Chat!OpenStream
  <2>2. turn[r].queue = << >> /\ turn[r].text = << >>
    BY <2>1 DEF Flows
  <2>3. Heard(r)' = turn[r].said
    BY <1>0, <2>1, <2>2 DEF Heard
  <2>4. Carries(turn'[r].queue, Heard(r)', turn'[r].said, 0)
    BY <1>0, <2>1, <2>2, <2>3, CarriesNothing DEF SameSpeech
  <2> QED
    BY <2>1, <2>2, <2>4 DEF Flows, SameProcess, SameSpeech
<1>5. CASE Chat!NoticeDisconnect(r)
  <2>1. /\ SameSpeech(r) /\ turn'[r].process = turn[r].process /\ turn'[r].phase = turn[r].phase
        /\ turn'[r].from = turn[r].from /\ turn'[r].queue = turn[r].queue /\ turn'[r].text = turn[r].text
        /\ turn'[r].stream = "closed" /\ turn[r].stream = "dropped"
    BY <1>5, NoticeDoes DEF Chat!NoticeDisconnect
  <2>2. turn[r].phase \notin {"posted", "opening", "reading"}
    BY <2>1 DEF Flows
  <2> QED
    BY <2>1, <2>2 DEF Flows, Heard, SameSpeech
<1>6. CASE Chat!ReadError(r)
  <2>1. /\ SameProcess(r) /\ SameSpeech(r) /\ turn'[r].phase = "failed" /\ turn'[r].stream = "dropped"
        /\ turn'[r].queue = << >> /\ turn'[r].text = << >>
    BY <1>6, ReadErrorDoes
  <2> QED
    BY <2>1 DEF Flows, SameProcess, SameSpeech
<1> QED
  BY <1>1, <1>2, <1>3, <1>4, <1>5, <1>6

LEMMA ReloadFlows ==
  ASSUME ChatTypes, NEW t \in Tabs, Chat!ReloadPage(t), NEW r \in Chat!Turns, r = tab[t].turn, Flows(r)
  PROVE  Flows(r)'
<1>1. /\ SameProcess(r) /\ SameSpeech(r) /\ turn'[r].phase = "abandoned" /\ turn'[r].queue = << >> /\ turn'[r].text = << >>
      /\ turn'[r].stream = (IF turn[r].stream \in {"open", "ended"} THEN "dropped" ELSE turn[r].stream)
  BY ReloadDoes
<1> QED
  BY <1>1 DEF Flows, SameProcess, SameSpeech

\* What a tab reads is what its process said.
LEMMA StreamedStep ==
  ASSUME ChatTypes, Waits, Slots, Follows, Streamed, [Chat!Next]_(Chat!chatVars)
  PROVE  Streamed'
<1>1. CASE UNCHANGED Chat!chatVars
  BY <1>1 DEF Chat!chatVars, Streamed, Chat!Turns, Flows, Heard
<1>2. ASSUME NEW r \in Chat!Turns, ChatStep(r) PROVE Streamed'
  <2>1. /\ Chat!Turns' = Chat!Turns
        /\ \A q \in Chat!Turns : q # r => turn'[q] = turn[q]
    BY <1>2, StepOrigin
  <2>2. \A q \in Chat!Turns : q # r => (q \in active' => q \in active)
    BY <1>2, StepSlots DEF Chat!Cleanup
  <2>3. Flows(r)'
    <3>1. Flows(r)
      BY DEF Streamed
    <3> QED
      BY <1>2, <3>1, NameFlows, SpeakFlows, TimeOutFlows, CloseFlows, ReadChunkFlows, ReadDoneFlows, OtherFlows DEF ChatStep
  <2>4. \A q \in Chat!Turns : Flows(q)'
    BY <2>1, <2>2, <2>3, FlowStays DEF Streamed
  <2> QED
    BY <2>1, <2>4 DEF Streamed
<1>3. ASSUME NEW t \in Tabs, Chat!SendMessage(t) PROVE Streamed'
  <2>0. PICK n : n = Len(turn) + 1
    OBVIOUS
  <2>1. /\ Chat!Turns' = Chat!Turns \cup {n} /\ turn'[n] = Chat!NewTurn(t)
        /\ \A q \in Chat!Turns : turn'[q] = turn[q]
    BY <1>3, <2>0, SendIs
  <2>2. active' = active
    BY <1>3 DEF Chat!SendMessage
  <2>3. Flows(n)'
    BY <2>1 DEF Flows, Chat!NewTurn
  <2>4. \A q \in Chat!Turns : Flows(q)'
    BY <2>1, <2>2, FlowStays DEF Streamed
  <2> QED
    BY <2>1, <2>3, <2>4 DEF Streamed
<1>4. ASSUME NEW t \in Tabs, Chat!ClearHistory(t) PROVE Streamed'
  <2>1. turn' = turn /\ active' = active
    BY <1>4 DEF Chat!ClearHistory
  <2> QED
    BY <2>1 DEF Streamed, Chat!Turns, Flows, Heard
<1>5. ASSUME NEW t \in Tabs, Chat!ReloadPage(t) PROVE Streamed'
  <2>0. PICK r : r = tab[t].turn
    OBVIOUS
  <2>1. /\ Chat!Turns' = Chat!Turns /\ r \in Chat!Turns
        /\ \A q \in Chat!Turns : q # r => turn'[q] = turn[q]
    BY <1>5, <2>0, ReloadTurns
  <2>2. active' = active
    BY <1>5 DEF Chat!ReloadPage
  <2>3. Flows(r)'
    BY <1>5, <2>0, <2>1, ReloadFlows DEF Streamed
  <2>4. \A q \in Chat!Turns : Flows(q)'
    BY <2>1, <2>2, <2>3, FlowStays DEF Streamed
  <2> QED
    BY <2>1, <2>4 DEF Streamed
<1> QED
  BY <1>1, <1>2, <1>3, <1>4, <1>5 DEF Chat!Next, ChatStep

-----------------------------------------------------------------------------
(* What a session remembers.                                                *)

LEMMA RemembersIs ==
  /\ (\E f : f = Recalls(f, turn)) => Chat!RemembersOf = Recalls(Chat!RemembersOf, turn)
  /\ (\E f : f = Recalls(f, turn'))
        => Chat!RemembersOf' = Recalls(Chat!RemembersOf', turn')
BY DEF Recalls, Chat!RemembersOf

LEMMA MemoryIs ==
  ASSUME ChatTypes, Follows, OneMemory
  PROVE  /\ Chat!RemembersOf[0] = {}
         /\ \A r \in Chat!Turns : Chat!RemembersOf[r] = {r} \cup Chat!RemembersOf[turn[r].resumes]
<1>1. Chat!RemembersOf = Recalls(Chat!RemembersOf, turn)
  BY DEF OneMemory
<1>2. MaxTurns \in Nat /\ \A r \in Chat!Turns : r \in 0..MaxTurns /\ r # 0 /\ ~(r > Len(turn))
  BY ServerAssumption, TurnIs DEF Chat!ChatAssumption, Chat!Turns
<1> DEFINE R == Chat!RemembersOf
<1> HIDE DEF R
<1>3. R = [r \in 0..MaxTurns |-> IF r = 0 \/ r > Len(turn) THEN {} ELSE {r} \cup R[turn[r].resumes]]
  BY <1>1 DEF Recalls, R
<1>4. R[0] = {}
  BY <1>2, <1>3
<1>5. ASSUME NEW r \in Chat!Turns PROVE R[r] = {r} \cup R[turn[r].resumes]
  <2>1. r \in 0..MaxTurns /\ ~(r = 0 \/ r > Len(turn))
    BY <1>2
  <2> QED
    BY <1>3, <2>1
<1> QED
  BY <1>4, <1>5 DEF R

LEMMA MemoryStays ==
  ASSUME ChatTypes, OneMemory, Len(turn') = Len(turn),
         \A r \in Chat!Turns : turn'[r].resumes = turn[r].resumes
  PROVE  OneMemory' /\ Chat!RemembersOf' = Chat!RemembersOf
<1>0. Len(turn) \in Nat
  BY DEF ChatTypes
<1>1. ASSUME NEW f PROVE Recalls(f, turn') = Recalls(f, turn)
  <2>1. \A r \in 0..MaxTurns : r = 0 \/ r > Len(turn) \/ turn'[r].resumes = turn[r].resumes
    BY <1>0 DEF Chat!Turns
  <2> QED
    BY <2>1 DEF Recalls
<1>2. \A f : f = Recalls(f, turn') <=> f = Chat!RemembersOf
  BY <1>1 DEF OneMemory
<1>3. Chat!RemembersOf' = Chat!RemembersOf
  BY <1>2, RemembersIs
<1> QED
  BY <1>2, <1>3 DEF OneMemory

LEMMA MemoryGrows ==
  ASSUME ChatTypes, Follows, OneMemory, NEW t \in Tabs, Chat!SendMessage(t)
  PROVE  OneMemory' /\ \A r \in 0..Len(turn) : Chat!RemembersOf'[r] = Chat!RemembersOf[r]
<1>0. PICK n : n = Len(turn) + 1
  OBVIOUS
<1> DEFINE R == Chat!RemembersOf
           k == tab[t].session
           f == [r \in 0..MaxTurns |-> IF r = n THEN {n} \cup R[k] ELSE R[r]]
<1>1. /\ Len(turn) \in Nat /\ n \in 0..MaxTurns /\ n # 0 /\ n > Len(turn) /\ Len(turn') = n /\ MaxTurns \in Nat
      /\ \A r \in 0..MaxTurns : r = 0 \/ r > Len(turn) \/ r \in Chat!Turns
      /\ \A r \in 0..MaxTurns : r = 0 \/ r > n \/ r = n \/ r \in Chat!Turns
      /\ \A r \in Chat!Turns : r \in 0..MaxTurns /\ r # 0 /\ ~(r > Len(turn)) /\ ~(r > n) /\ r # n
  <2>1. Len(turn) \in Nat /\ n \in 1..MaxTurns /\ Len(turn') = n /\ MaxTurns \in Nat
    BY <1>0, SendIs, ServerAssumption DEF ChatTypes, Chat!ChatAssumption
  <2> QED
    BY <1>0, <2>1 DEF Chat!Turns
<1>2. /\ \A r \in Chat!Turns : turn'[r].resumes = turn[r].resumes
      /\ turn'[n].resumes = k /\ k \in 0..MaxTurns /\ k # n
      /\ \A r \in Chat!Turns : turn[r].resumes \in 0..MaxTurns /\ turn[r].resumes # n
  <2>1. /\ \A r \in Chat!Turns : turn'[r] = turn[r]
        /\ turn'[n] = Chat!NewTurn(t)
    BY <1>0, SendIs
  <2>2. k \in 0..MaxTurns /\ k <= Len(turn)
    BY DEF ChatTypes, Follows
  <2>3. ASSUME NEW r \in Chat!Turns PROVE turn[r].resumes \in 0..MaxTurns /\ turn[r].resumes # n
    <3>1. turn[r] \in ChatTurn /\ turn[r].resumes < r
      BY TurnIs DEF Follows
    <3>2. turn[r].resumes \in 0..MaxTurns
      BY <3>1 DEF ChatTurn
    <3> QED
      BY <1>0, <1>1, <3>1, <3>2 DEF Chat!Turns
  <2> QED
    BY <1>0, <1>1, <2>1, <2>2, <2>3 DEF Chat!NewTurn
<1>3. R = [r \in 0..MaxTurns |-> IF r = 0 \/ r > Len(turn) THEN {} ELSE {r} \cup R[turn[r].resumes]]
  <2>1. R = Recalls(R, turn)
    BY DEF OneMemory
  <2> HIDE DEF R
  <2> QED
    BY <2>1 DEF Recalls
<1>4. \A g : g = [r \in 0..MaxTurns |-> IF r = 0 \/ r > Len(turn) THEN {} ELSE {r} \cup g[turn[r].resumes]] => g = R
  BY DEF OneMemory, Recalls
<1> HIDE DEF R, k
<1>5. f = Recalls(f, turn')
  <2>1. ASSUME NEW r \in 0..MaxTurns
        PROVE  f[r] = IF r = 0 \/ r > n THEN {} ELSE {r} \cup f[turn'[r].resumes]
    <3>1. CASE r = n
      BY <1>1, <1>2, <3>1
    <3>2. CASE r \in Chat!Turns
      <4>1. f[r] = {r} \cup R[turn[r].resumes]
        BY <1>1, <1>3, <3>2
      <4>2. f[turn[r].resumes] = R[turn[r].resumes]
        BY <1>2, <3>2
      <4> QED
        BY <1>1, <1>2, <3>2, <4>1, <4>2
    <3>3. CASE r = 0 \/ r > n
      BY <1>1, <1>3, <3>3
    <3> QED
      BY <1>1, <3>1, <3>2, <3>3
  <2>2. f = [r \in 0..MaxTurns |-> IF r = 0 \/ r > n THEN {} ELSE {r} \cup f[turn'[r].resumes]]
    <3>1. f = [r \in 0..MaxTurns |-> f[r]]
      OBVIOUS
    <3> HIDE DEF f
    <3> QED
      BY <2>1, <3>1
  <2> HIDE DEF f
  <2> QED
    BY <1>1, <2>2 DEF Recalls
<1>6. ASSUME NEW g, g = Recalls(g, turn') PROVE g = f
  <2>1. g = [r \in 0..MaxTurns |-> IF r = 0 \/ r > n THEN {} ELSE {r} \cup g[turn'[r].resumes]]
    BY <1>1, <1>6 DEF Recalls
  <2> DEFINE h == [r \in 0..MaxTurns |-> IF r = n THEN {} ELSE g[r]]
  <2>2. ASSUME NEW r \in 0..MaxTurns
        PROVE  h[r] = IF r = 0 \/ r > Len(turn) THEN {} ELSE {r} \cup h[turn[r].resumes]
    <3>1. CASE r = n
      BY <1>1, <3>1
    <3>2. CASE r \in Chat!Turns
      <4>1. g[r] = {r} \cup g[turn[r].resumes]
        BY <1>1, <1>2, <2>1, <3>2
      <4>2. h[turn[r].resumes] = g[turn[r].resumes] /\ h[r] = g[r]
        BY <1>1, <1>2, <3>2
      <4> QED
        BY <1>1, <3>2, <4>1, <4>2
    <3>3. CASE r = 0 \/ r > n
      <4>1. g[r] = {} /\ r # n
        BY <1>1, <2>1, <3>3
      <4> QED
        BY <1>0, <1>1, <3>3, <4>1
    <3> QED
      BY <1>1, <3>1, <3>2, <3>3
  <2>3. h = [r \in 0..MaxTurns |-> IF r = 0 \/ r > Len(turn) THEN {} ELSE {r} \cup h[turn[r].resumes]]
    <3>1. h = [r \in 0..MaxTurns |-> h[r]]
      OBVIOUS
    <3> HIDE DEF h
    <3> QED
      BY <2>2, <3>1
  <2>4. h = R
    <3> HIDE DEF h
    <3> QED
      BY <1>4, <2>3
  <2>5. ASSUME NEW r \in 0..MaxTurns PROVE g[r] = f[r]
    <3>1. CASE r # n
      <4>1. h[r] = g[r]
        BY <3>1
      <4> HIDE DEF h
      <4> QED
        BY <2>4, <3>1, <4>1
    <3>2. CASE r = n
      <4>1. g[n] = {n} \cup g[k]
        BY <1>1, <1>2, <2>1
      <4>2. h[k] = g[k]
        BY <1>2
      <4> HIDE DEF h
      <4> QED
        BY <1>1, <2>4, <3>2, <4>1, <4>2
    <3> QED
      BY <3>1, <3>2
  <2>6. g = [r \in 0..MaxTurns |-> g[r]] /\ f = [r \in 0..MaxTurns |-> f[r]]
    BY <2>1
  <2> HIDE DEF f
  <2> QED
    BY <2>5, <2>6
<1> HIDE DEF f
<1>7. Chat!RemembersOf' = f
  BY <1>5, <1>6, RemembersIs
<1>8. OneMemory'
  BY <1>5, <1>6, <1>7 DEF OneMemory
<1>9. \A r \in 0..Len(turn) : f[r] = R[r]
  BY <1>0, <1>1 DEF f
<1> QED
  BY <1>7, <1>8, <1>9 DEF R

\* What a step leaves as it was for those that remember.
LEMMA StepAnswers ==
  ASSUME ChatTypes, NEW r \in Chat!Turns, ChatStep(r), ~Chat!ReadDone(r),
         turn'[r].phase = "answered", turn'[r].learned
  PROVE  turn[r].phase = "answered" /\ turn[r].learned
<1>1. CASE \E failed \in BOOLEAN : Chat!CloseProcess(r, failed)
  BY <1>1, CloseDoes
<1>2. CASE Chat!Refuse(r) \/ Chat!StreamNotFound(r) \/ Chat!OpenStream(r) \/ Chat!ReadError(r)
  BY <1>2, RefuseDoes, NotFoundDoes, OpenDoes, ReadErrorDoes
<1>3. CASE Chat!SpawnChat(r)
  BY <1>3, SpawnDoes DEF SameStream
<1>4. CASE Chat!FailToStart(r) \/ Chat!Name(r) \/ Chat!Speak(r) \/ Chat!TimeOut(r) \/ Chat!NoticeDisconnect(r)
  BY <1>4, FailDoes, NameDoes, SpeakDoes, TimeOutDoes, NoticeDoes DEF SameStream
<1>5. CASE Chat!ReadChunk(r)
  BY <1>5, ReadChunkDoes DEF Chat!ReadChunk
<1> QED
  BY <1>1, <1>2, <1>3, <1>4, <1>5 DEF ChatStep

\* A session a tab resumes is the one its pending turn began with.
LEMMA RememberedStep ==
  ASSUME ChatTypes, Waits, Follows, Remembered, [Chat!Next]_(Chat!chatVars)
  PROVE  Remembered'
<1>1. CASE UNCHANGED Chat!chatVars
  BY <1>1 DEF Chat!chatVars, Remembered
<1>2. ASSUME NEW r \in Chat!Turns, ChatStep(r) PROVE Remembered'
  <2>1. \A q \in Chat!Turns : turn'[q].resumes = turn[q].resumes
    BY <1>2, StepOrigin DEF SameOrigin
  <2> SUFFICES ASSUME NEW t \in Tabs, tab'[t].turn # 0
               PROVE  tab'[t].history = {} \/ tab'[t].session = turn'[tab'[t].turn].resumes
    BY DEF Remembered
  <2>2. tab'[t].turn = IF t = turn[r].tab /\ (Chat!Refuse(r) \/ Chat!StreamNotFound(r)
                                              \/ Chat!ReadError(r) \/ Chat!ReadDone(r))
                       THEN 0 ELSE tab[t].turn
    BY <1>2, StepTabFields
  <2>3. tab'[t].session = IF t = turn[r].tab /\ Chat!ReadDone(r) THEN Chat!NextSession(r) ELSE tab[t].session
    BY <1>2, StepTabFields
  <2>4. tab'[t].history = tab[t].history
    BY <1>2, StepTabFields
  <2>5. tab'[t].turn = tab[t].turn /\ tab'[t].session = tab[t].session
    BY <2>2, <2>3
  <2>6. tab[t].turn \in Chat!Turns
    BY <2>5 DEF Waits
  <2> QED
    BY <2>1, <2>4, <2>5, <2>6 DEF Remembered
<1>3. ASSUME NEW t \in Tabs, Chat!SendMessage(t) PROVE Remembered'
  <2>0. PICK n : n = Len(turn) + 1
    OBVIOUS
  <2>1. turn'[n].resumes = tab[t].session /\ \A q \in Chat!Turns : turn'[q] = turn[q]
    <3>1. turn'[n] = Chat!NewTurn(t) /\ \A q \in Chat!Turns : turn'[q] = turn[q]
      BY <1>3, <2>0, SendIs
    <3> QED
      BY <3>1 DEF Chat!NewTurn
  <2>2. /\ tab'[t].turn = n /\ tab'[t].session = tab[t].session
        /\ \A u \in Tabs : u # t => tab'[u] = tab[u]
    BY <1>3, <2>0, SendTabs
  <2>3. \A u \in Tabs : tab[u].turn # 0 => tab[u].turn \in Chat!Turns
    BY DEF Waits
  <2> QED
    BY <2>1, <2>2, <2>3 DEF Remembered
<1>4. ASSUME NEW t \in Tabs, Chat!ClearHistory(t) PROVE Remembered'
  BY <1>4, ClearTabs DEF Remembered
<1>5. ASSUME NEW t \in Tabs, Chat!ReloadPage(t) PROVE Remembered'
  <2>1. \A q \in Chat!Turns : turn'[q].resumes = turn[q].resumes
    BY <1>5, ReloadTurns DEF SameOrigin
  <2>2. tab'[t].turn = 0 /\ \A u \in Tabs : u # t => tab'[u] = tab[u]
    BY <1>5, ReloadTabs
  <2>3. \A u \in Tabs : tab[u].turn # 0 => tab[u].turn \in Chat!Turns
    BY DEF Waits
  <2> QED
    BY <2>1, <2>2, <2>3 DEF Remembered
<1> QED
  BY <1>1, <1>2, <1>3, <1>4, <1>5 DEF Chat!Next, ChatStep

\* What a tab will resume remembers what it shows.
LEMMA MemoryStep ==
  ASSUME ChatTypes, Waits, Follows, Remembered, OneMemory, Chat!AnswersAreRemembered,
         [Chat!Next]_(Chat!chatVars)
  PROVE  OneMemory' /\ Chat!AnswersAreRemembered'
<1> DEFINE Shown(q) == turn[q].phase = "answered" /\ turn[q].learned
           Showed(q) == turn'[q].phase = "answered" /\ turn'[q].learned
<1>1. CASE UNCHANGED Chat!chatVars
  <2>1. turn' = turn /\ tab' = tab
    BY <1>1 DEF Chat!chatVars
  <2>2. OneMemory' /\ Chat!RemembersOf' = Chat!RemembersOf
    BY <2>1, MemoryStays
  <2> QED
    BY <2>1, <2>2 DEF Chat!AnswersAreRemembered
<1>2. ASSUME NEW r \in Chat!Turns, ChatStep(r) PROVE OneMemory' /\ Chat!AnswersAreRemembered'
  <2>1. Len(turn') = Len(turn) /\ \A q \in Chat!Turns : turn'[q].resumes = turn[q].resumes /\ (q # r => turn'[q] = turn[q])
    BY <1>2, StepOrigin DEF SameOrigin
  <2>2. OneMemory' /\ Chat!RemembersOf' = Chat!RemembersOf
    BY <2>1, MemoryStays
  <2> DEFINE R == Chat!RemembersOf
  <2> SUFFICES ASSUME NEW t \in Tabs, NEW q \in tab'[t].history, Showed(q)
               PROVE  q \in R[tab'[t].session]
    BY <2>2 DEF Chat!AnswersAreRemembered
  <2>3. tab'[t].session = IF t = turn[r].tab /\ Chat!ReadDone(r) THEN Chat!NextSession(r) ELSE tab[t].session
    BY <1>2, StepTabFields
  <2>4. q \in tab[t].history /\ q \in Chat!Turns /\ turn[q].tab = t
    BY <1>2, StepTabFields DEF Follows
  <2>5. Shown(q) => q \in R[tab[t].session]
    BY <2>4 DEF Chat!AnswersAreRemembered
  <2>6. /\ R[r] = {r} \cup R[turn[r].resumes]
    BY MemoryIs
  <2>7. q # r => Shown(q)
    BY <2>1, <2>4
  <2> HIDE DEF R
  <2>8. CASE Chat!ReadDone(r) /\ t = turn[r].tab
    <3>1. turn[r].phase = "reading" /\ turn'[r].learned = turn[r].learned
      BY <2>8, ReadDoneDoes DEF Chat!ReadDone
    <3>2. tab[t].turn = r /\ r # 0
      BY <2>8, <3>1, TurnIs DEF Waits, Pending
    <3>3. tab[t].session = turn[r].resumes
      BY <2>4, <3>2 DEF Remembered
    <3>4. tab'[t].session = IF turn[r].learned THEN r ELSE tab[t].session
      BY <2>3, <2>8 DEF Chat!NextSession
    <3>5. CASE q = r
      BY <2>6, <3>1, <3>4, <3>5
    <3>6. CASE q # r
      BY <2>5, <2>6, <2>7, <3>3, <3>4, <3>6
    <3> QED
      BY <3>5, <3>6
  <2>9. CASE ~(Chat!ReadDone(r) /\ t = turn[r].tab)
    <3>1. tab'[t].session = tab[t].session
      BY <2>3, <2>9
    <3>2. Shown(q)
      <4>1. CASE q # r
        BY <2>7, <4>1
      <4>2. CASE q = r
        <5>1. ~Chat!ReadDone(r)
          BY <2>4, <2>9, <4>2
        <5> QED
          BY <1>2, <4>2, <5>1, StepAnswers
      <4> QED
        BY <4>1, <4>2
    <3> QED
      BY <2>5, <3>1, <3>2
  <2> QED
    BY <2>8, <2>9
<1>3. ASSUME NEW t \in Tabs, Chat!SendMessage(t) PROVE OneMemory' /\ Chat!AnswersAreRemembered'
  <2>0. PICK n : n = Len(turn) + 1
    OBVIOUS
  <2>1. OneMemory' /\ \A r \in 0..Len(turn) : Chat!RemembersOf'[r] = Chat!RemembersOf[r]
    BY <1>3, MemoryGrows
  <2>2. turn'[n].phase = "posted" /\ \A q \in Chat!Turns : turn'[q] = turn[q]
    <3>1. turn'[n] = Chat!NewTurn(t) /\ \A q \in Chat!Turns : turn'[q] = turn[q]
      BY <1>3, <2>0, SendIs
    <3> QED
      BY <3>1 DEF Chat!NewTurn
  <2>3. /\ tab'[t].session = tab[t].session /\ tab'[t].history = tab[t].history \cup {n}
        /\ \A u \in Tabs : u # t => tab'[u] = tab[u]
    BY <1>3, <2>0, SendTabs
  <2>4. \A u \in Tabs : tab[u].session \in 0..Len(turn)
    <3>1. Len(turn) \in Nat /\ \A u \in Tabs : tab[u].session \in 0..MaxTurns
      BY DEF ChatTypes
    <3> QED
      BY <3>1, ServerAssumption DEF Follows, Chat!ChatAssumption
  <2> SUFFICES ASSUME NEW u \in Tabs, NEW q \in tab'[u].history, Showed(q)
               PROVE  q \in Chat!RemembersOf'[tab'[u].session]
    BY <2>1 DEF Chat!AnswersAreRemembered
  <2>5. q \in tab[u].history /\ tab'[u].session = tab[u].session
    BY <2>2, <2>3
  <2>6. q \in Chat!RemembersOf[tab[u].session]
    BY <2>2, <2>5 DEF Follows, Chat!AnswersAreRemembered
  <2> QED
    BY <2>1, <2>4, <2>5, <2>6
<1>4. ASSUME NEW t \in Tabs, Chat!ClearHistory(t) PROVE OneMemory' /\ Chat!AnswersAreRemembered'
  <2>1. /\ turn' = turn /\ tab'[t].history = {} /\ \A u \in Tabs : u # t => tab'[u] = tab[u]
    BY <1>4, ClearTabs
  <2>2. OneMemory' /\ Chat!RemembersOf' = Chat!RemembersOf
    BY <2>1, MemoryStays
  <2> QED
    BY <2>1, <2>2 DEF Chat!AnswersAreRemembered
<1>5. ASSUME NEW t \in Tabs, Chat!ReloadPage(t) PROVE OneMemory' /\ Chat!AnswersAreRemembered'
  <2>0. PICK r : r = tab[t].turn
    OBVIOUS
  <2>1. /\ Len(turn') = Len(turn) /\ r \in Chat!Turns
        /\ \A q \in Chat!Turns : turn'[q].resumes = turn[q].resumes /\ (q # r => turn'[q] = turn[q])
    BY <1>5, <2>0, ReloadTurns DEF SameOrigin
  <2>2. OneMemory' /\ Chat!RemembersOf' = Chat!RemembersOf
    BY <2>1, MemoryStays
  <2>3. \A u \in Tabs : tab'[u].history = tab[u].history /\ tab'[u].session = tab[u].session
    BY <1>5, ReloadTabs
  <2>4. turn'[r].phase = "abandoned"
    BY <1>5, <2>0, <2>1, ReloadDoes
  <2> QED
    BY <2>1, <2>2, <2>3, <2>4 DEF Chat!AnswersAreRemembered, Follows
<1> QED
  BY <1>1, <1>2, <1>3, <1>4, <1>5 DEF Chat!Next, ChatStep

LEMMA ChatStarts == Chat!Init => ChatInv
<1> SUFFICES ASSUME Chat!Init PROVE ChatInv
  OBVIOUS
<1>1. turn = << >> /\ Len(turn) = 0 /\ Chat!Turns = {} /\ active = {} /\ count = 0 /\ mishaps = 0
      /\ tab = [t \in Tabs |-> [turn |-> 0, session |-> 0, history |-> {}]]
  BY DEF Chat!Init, Chat!Turns
<1>2. MaxTurns \in Nat /\ MaxMishaps \in Nat /\ MaxConcurrency \in Nat
  BY ServerAssumption DEF Chat!ChatAssumption
<1>3. ChatTypes
  <2>1. turn \in Seq(ChatTurn)
    BY <1>1
  <2>2. tab \in [Tabs -> [turn : 0..MaxTurns, session : 0..MaxTurns, history : SUBSET (1..MaxTurns)]]
    BY <1>1, <1>2
  <2> QED
    BY <1>1, <1>2, <2>1, <2>2 DEF ChatTypes
<1>4. Slots
  BY <1>1, <1>2, FS_EmptySet DEF Slots
<1>5. Waits /\ Streamed /\ Follows /\ Remembered /\ Chat!AnswersAreRemembered
  BY <1>1 DEF Waits, Streamed, Follows, Remembered, Chat!AnswersAreRemembered
<1>6. OneMemory
  <2> DEFINE g == [r \in 0..MaxTurns |-> {}]
  <2>1. ASSUME NEW f PROVE Recalls(f, turn) = g
    <3>1. \A r \in 0..MaxTurns : r = 0 \/ r > Len(turn)
      BY <1>1
    <3> QED
      BY <3>1 DEF Recalls
  <2> HIDE DEF g
  <2>2. Chat!RemembersOf = g
    BY <2>1, RemembersIs
  <2> QED
    BY <2>1, <2>2 DEF OneMemory
<1> QED
  BY <1>3, <1>4, <1>5, <1>6 DEF ChatInv

LEMMA ChatStays == ChatInv /\ [Chat!Next]_(Chat!chatVars) => ChatInv'
<1> SUFFICES ASSUME ChatInv, [Chat!Next]_(Chat!chatVars) PROVE ChatInv'
  OBVIOUS
<1>1. ChatTypes /\ Slots /\ Waits /\ Streamed /\ Follows /\ Remembered /\ OneMemory /\ Chat!AnswersAreRemembered
  BY DEF ChatInv
<1>2. ChatTypes' /\ Slots' /\ Waits'
  BY <1>1, ChatTypesStep, SlotsStep, WaitsStep
<1>3. Streamed' /\ Follows' /\ Remembered'
  BY <1>1, StreamedStep, FollowsStep, RememberedStep
<1>4. OneMemory' /\ Chat!AnswersAreRemembered'
  BY <1>1, MemoryStep
<1> QED
  BY <1>2, <1>3, <1>4 DEF ChatInv

LEMMA ChatHolds ==
  ChatInv => Chat!TypeOK /\ Chat!SlotsAreKept /\ Chat!AnswersAreWhole /\ Chat!AnswersAreRemembered
<1> SUFFICES ASSUME ChatInv
             PROVE  Chat!TypeOK /\ Chat!SlotsAreKept /\ Chat!AnswersAreWhole /\ Chat!AnswersAreRemembered
  OBVIOUS
<1>1. ChatTypes /\ Slots /\ Streamed /\ Chat!AnswersAreRemembered
  BY DEF ChatInv
<1>2. Chat!TypeOK
  <2>1. ASSUME NEW r \in Chat!Turns
        PROVE  /\ turn[r].tab \in Tabs
               /\ turn[r].resumes \in 0 .. MaxTurns
               /\ turn[r].phase \in Chat!Phases
               /\ turn[r].process \in Chat!Processes
               /\ turn[r].stream \in Chat!Streams
               /\ turn[r].said \in 0 .. MaxChunks
               /\ \A i \in DOMAIN turn[r].queue : turn[r].queue[i] \in Chat!Events
    <3>1. turn[r] \in ChatTurn /\ turn[r].queue \in Queues
      BY <1>1, TurnIs
    <3>2. \A i \in DOMAIN turn[r].queue : turn[r].queue[i] \in Chat!Events
      BY <3>1, QueueIs
    <3> QED
      BY <3>1, <3>2 DEF ChatTurn
  <2> QED
    BY <1>1, <2>1 DEF Chat!TypeOK, ChatTypes
<1>3. Chat!SlotsAreKept
  <2>1. Chat!Cardinality(active) = Cardinality(active)
    BY DEF Chat!Cardinality, Cardinality
  <2> QED
    BY <1>1, <2>1 DEF Slots, Chat!SlotsAreKept
<1>4. Chat!AnswersAreWhole
  BY <1>1 DEF Streamed, Flows, Heard, Chat!AnswersAreWhole
<1> QED
  BY <1>1, <1>2, <1>3, <1>4

-----------------------------------------------------------------------------
(* The schema the editor's server answers with (EditorSession).             *)

Found == [Session!Names -> 0..MaxStored]

\* What a reload read is not older than what was stored when it began.
SessionInv ==
  /\ stored \in Found /\ served \in Found /\ views \in [FileNames -> 0..MaxViews]
  /\ call \in [Refreshes -> [step : {"begun", "idle", "over"}, nodes : Found, edges : Found,
                             since : Found, read : SUBSET {"nodes", "edges"}]]
  /\ \A r \in Refreshes : call[r].step = "idle" => call[r].read = {}
  /\ \A r \in Refreshes : call[r].step = "begun" => \A n \in Session!Names :
       /\ call[r].since[n] <= stored[n]
       /\ "nodes" \in call[r].read => call[r].since[n] <= call[r].nodes[n]
       /\ "edges" \in call[r].read => call[r].since[n] <= call[r].edges[n]

LEMMA SessionStarts == Session!Init => SessionInv
<1> SUFFICES ASSUME Session!Init PROVE SessionInv
  OBVIOUS
<1>1. 0 \in 0..MaxStored /\ 0 \in 0..MaxViews
  BY ServerAssumption DEF Session!SessionAssumption
<1>2. Session!Nothing \in Found
  BY <1>1 DEF Session!Nothing, Found
<1> QED
  BY <1>1, <1>2 DEF Session!Init, SessionInv

\* What is installed is what was read.
LEMMA LoadedIs ==
  ASSUME SessionInv, NEW r \in Refreshes
  PROVE  /\ Session!Loaded(r) \in Found
         /\ \A n \in Session!Names : \/ n \in NodeNames /\ Session!Loaded(r)[n] = call[r].nodes[n]
                                     \/ n \in EdgeNames /\ Session!Loaded(r)[n] = call[r].edges[n]
<1>1. call[r].nodes \in Found /\ call[r].edges \in Found
  BY DEF SessionInv
<1> QED
  BY <1>1 DEF Session!Loaded, Found, Session!Names

LEMMA SessionStays == SessionInv /\ [Session!Next]_(Session!sessionVars) => SessionInv'
<1> SUFFICES ASSUME SessionInv, [Session!Next]_(Session!sessionVars) PROVE SessionInv'
  OBVIOUS
<1> USE DEF SessionInv
<1>0. MaxStored \in Nat /\ MaxViews \in Nat
  BY ServerAssumption DEF Session!SessionAssumption
<1> DEFINE C == [step : {"begun", "idle", "over"}, nodes : Found, edges : Found,
                 since : Found, read : SUBSET {"nodes", "edges"}]
<1>a. \A f \in Found : \A n \in Session!Names : f[n] \in 0..MaxStored
  BY DEF Found
<1>b. \A r \in Refreshes : call[r] \in C
  OBVIOUS
<1>1. CASE UNCHANGED Session!sessionVars
  BY <1>1 DEF Session!sessionVars
<1>2. CASE Session!GetViews
  BY <1>0, <1>2 DEF Session!GetViews
<1>3. ASSUME NEW n \in Session!Names, Session!Define(n) PROVE SessionInv'
  <2>1. stored[n] \in 0..MaxStored /\ stored[n] < MaxStored /\ stored' = [stored EXCEPT ![n] = stored[n] + 1]
    BY <1>3, <1>a DEF Session!Define
  <2>2. stored' \in Found /\ \A k \in Session!Names : stored[k] <= stored'[k]
    BY <1>0, <1>a, <2>1 DEF Found
  <2>3. call' = call /\ served' = served /\ views' = views
    BY <1>3 DEF Session!Define
  <2>4. ASSUME NEW r \in Refreshes, call[r].step = "begun", NEW k \in Session!Names
        PROVE  call[r].since[k] <= stored'[k]
    <3>1. call[r].since[k] \in 0..MaxStored /\ stored[k] \in 0..MaxStored /\ stored'[k] \in 0..MaxStored
      BY <1>a, <1>b, <2>2
    <3>2. call[r].since[k] <= stored[k] /\ stored[k] <= stored'[k]
      BY <2>2, <2>4
    <3> QED
      BY <1>0, <3>1, <3>2
  <2> QED
    BY <2>2, <2>3, <2>4
<1>4. ASSUME NEW r \in Refreshes, Session!Begin(r) PROVE SessionInv'
  <2> DEFINE x == [call[r] EXCEPT !.step = "begun", !.since = stored]
  <2>1. call[r].step = "idle" /\ call' = [call EXCEPT ![r] = x] /\ stored' = stored /\ served' = served /\ views' = views
    BY <1>4 DEF Session!Begin
  <2>2. x \in C /\ x.step = "begun" /\ x.since = stored /\ x.read = {}
    BY <1>b, <2>1
  <2>3. \A n \in Session!Names : stored[n] <= stored[n]
    BY <1>0, <1>a
  <2> HIDE DEF x
  <2>4. call' \in [Refreshes -> C] /\ call'[r] = x /\ \A q \in Refreshes : q # r => call'[q] = call[q]
    BY <2>1, <2>2
  <2> QED
    BY <2>1, <2>2, <2>3, <2>4
<1>5. ASSUME NEW r \in Refreshes, Session!ReadNodeTypes(r) PROVE SessionInv'
  BY <1>5 DEF Session!ReadNodeTypes
<1>6. ASSUME NEW r \in Refreshes, Session!ReadEdgeTypes(r) PROVE SessionInv'
  BY <1>6 DEF Session!ReadEdgeTypes
<1>7. ASSUME NEW r \in Refreshes, Session!Install(r) PROVE SessionInv'
  <2>1. served' \in Found
    BY <1>7, LoadedIs DEF Session!Install
  <2> HIDE DEF Found
  <2> QED
    BY <1>7, <2>1 DEF Session!Install
<1> QED
  BY <1>1, <1>2, <1>3, <1>4, <1>5, <1>6, <1>7 DEF Session!Next

\* A reload that ends serves what was stored before it began.
LEMMA InstallsFresh ==
  ASSUME SessionInv, [Session!Next]_(Session!sessionVars), NEW r \in Refreshes,
         call[r].step = "begun", call'[r].step = "over", NEW n \in Session!Names
  PROVE  served'[n] >= call[r].since[n]
<1>1. Session!Install(r)
  <2>1. call' # call
    OBVIOUS
  <2>2. PICK q \in Refreshes : Session!Begin(q) \/ Session!ReadNodeTypes(q) \/ Session!ReadEdgeTypes(q) \/ Session!Install(q)
    BY <2>1 DEF Session!Next, Session!sessionVars, Session!GetViews, Session!Define
  <2>3. \A p \in Refreshes : p # q => call'[p] = call[p]
    BY <2>2 DEF SessionInv, Session!Begin, Session!ReadNodeTypes, Session!ReadEdgeTypes, Session!Install
  <2>4. q = r
    BY <2>3
  <2> QED
    BY <2>2, <2>4 DEF SessionInv, Session!Begin, Session!ReadNodeTypes, Session!ReadEdgeTypes
<1>2. /\ call[r].since[n] <= call[r].nodes[n] /\ call[r].since[n] <= call[r].edges[n]
  BY <1>1 DEF SessionInv, Session!Install
<1>3. /\ call[r].since[n] \in 0..MaxStored /\ call[r].nodes[n] \in 0..MaxStored /\ call[r].edges[n] \in 0..MaxStored
  BY DEF SessionInv, Found
<1>4. served'[n] = call[r].nodes[n] \/ served'[n] = call[r].edges[n]
  BY <1>1, LoadedIs DEF Session!Install
<1> QED
  BY <1>2, <1>3, <1>4, ServerAssumption DEF Session!SessionAssumption

LEMMA SessionHolds == SessionInv => Session!TypeOK /\ Session!FilesWin
BY DEF SessionInv, Found, Session!TypeOK, Session!FilesWin, Session!Filtered

\* The editor's server: every prompt under its slot and every answer whole; types
\* of the files before those stored, and no reload that goes back behind its start.
THEOREM EditorServerTheorem == MCSpec => EditorServerHolds
<1> DEFINE Chats == part = "chat" => /\ Chat!TypeOK /\ Chat!SlotsAreKept
                                     /\ Chat!AnswersAreWhole /\ Chat!AnswersAreRemembered
           Serves == part = "session" => Session!TypeOK /\ Session!FilesWin
           Fresh == \A r \in Refreshes :
                      call[r].step = "begun" /\ call'[r].step = "over" =>
                        \A n \in Session!Names : served'[n] >= call[r].since[n]
<1>1. MCInit => ChatInv /\ SessionInv
  BY ChatStarts, SessionStarts DEF MCInit
<1>2. [MCNext]_<<part, vars, typeVars, chatVars, sessionVars>> =>
        [Chat!Next]_(Chat!chatVars) /\ [Session!Next]_(Session!sessionVars)
  BY DEF MCNext, chatVars, sessionVars, Chat!chatVars, Session!sessionVars
<1>3. ChatInv => Chats
  BY ChatHolds
<1>4. SessionInv => Serves
  BY SessionHolds
<1>5. SessionInv /\ [Session!Next]_(Session!sessionVars) => [Fresh]_(Session!sessionVars)
  BY InstallsFresh
<1> QED
  BY <1>1, <1>2, <1>3, <1>4, <1>5, ChatStays, SessionStays, PTL
     DEF MCSpec, EditorServerHolds, Session!ReloadIsFresh, Chats, Serves

=============================================================================
