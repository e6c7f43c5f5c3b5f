--------------------------- MODULE SandboxWorker ---------------------------
(***************************************************************************)
(* The migration sandbox (src/sandbox.ts): module-level state that every   *)
(* caller of the process shares -- the current worker, the request counter *)
(* and the pending requests -- and the worker threads behind it.           *)
(*                                                                         *)
(* The host runs one task at a time.  A caller that found a worker, or     *)
(* that has the Worker class and is about to spawn one, goes on in the     *)
(* same task: other callers may run in between, events of workers may not. *)
(* A caller that waits for import('node:worker_threads') lets events in.   *)
(*                                                                         *)
(* A call is one sendToWorker.  A worker is named after the call that      *)
(* spawned it: a call spawns at most one.  A migration that never ends is  *)
(* left out: nothing in the code would ever settle its call.               *)
(***************************************************************************)
EXTENDS Naturals, FiniteSets

CONSTANTS
    Calls,       \* calls of sendToWorker, each made at most once
    MaxCrashes,  \* bound: workers that fail
    MaxDestroys, \* bound: calls of destroySandboxWorker
    None,        \* null, no answer yet
    Failed       \* a rejection

MarksAssumption == None \notin Calls /\ Failed \notin Calls /\ None # Failed
BoundsAssumption == MaxCrashes \in Nat /\ MaxDestroys \in Nat

VARIABLES
    pc,        \* where each call is
    at,        \* the worker each call was given
    outcome,   \* None, Failed, or the call whose answer it was given
    ctor,      \* _WorkerCtor is loaded
    current,   \* _worker
    requestId, \* _requestId
    pending,   \* _pending, the entries of the map
    thread,    \* the state of each worker
    inbox,     \* requests posted to each worker
    outbox,    \* answers it posted back
    crashes,
    destroys

vars == <<pc, at, outcome, ctor, current, requestId, pending, thread, inbox, outbox,
          crashes, destroys>>

Request == [id : Nat \ {0}, call : Calls]

Init ==
    /\ pc = [c \in Calls |-> "idle"]
    /\ at = [c \in Calls |-> None]
    /\ outcome = [c \in Calls |-> None]
    /\ ctor = FALSE
    /\ current = None
    /\ requestId = 0
    /\ pending = {}
    /\ thread = [w \in Calls |-> "unborn"]
    /\ inbox = [w \in Calls |-> {}]
    /\ outbox = [w \in Calls |-> {}]
    /\ crashes = 0
    /\ destroys = 0

\* No caller is in the middle of a task: the event loop may run an event.
EventLoop == \A c \in Calls : pc[c] \notin {"spawning", "posting"}

(***************************************************************************)
(* Callers.                                                                *)
(***************************************************************************)

\* ensureWorker up to its first await.
Call(c) ==
    /\ pc[c] = "idle"
    /\ at' = [at EXCEPT ![c] = current]
    /\ pc' = [pc EXCEPT ![c] = IF current # None THEN "posting"
                               ELSE IF ctor THEN "spawning" ELSE "importing"]
    /\ UNCHANGED <<outcome, ctor, current, requestId, pending, thread, inbox, outbox, crashes, destroys>>

\* loadWorkerCtor resumes after its import.
Import(c) ==
    /\ pc[c] = "importing"
    /\ EventLoop
    /\ ctor' = TRUE
    /\ pc' = [pc EXCEPT ![c] = "spawning"]
    /\ UNCHANGED <<at, outcome, current, requestId, pending, thread, inbox, outbox, crashes, destroys>>

\* The runtime has no worker threads: the call is rejected.
ImportFails(c) ==
    /\ pc[c] = "importing"
    /\ EventLoop
    /\ pc' = [pc EXCEPT ![c] = "sent"]
    /\ outcome' = [outcome EXCEPT ![c] = Failed]
    /\ UNCHANGED <<at, ctor, current, requestId, pending, thread, inbox, outbox, crashes, destroys>>

\* The rest of ensureWorker: it does not look at _worker again.
Spawn(c) ==
    /\ pc[c] = "spawning"
    /\ current' = c
    /\ at' = [at EXCEPT ![c] = c]
    /\ thread' = [thread EXCEPT ![c] = "up"]
    /\ pc' = [pc EXCEPT ![c] = "posting"]
    /\ UNCHANGED <<outcome, ctor, requestId, pending, inbox, outbox, crashes, destroys>>

\* const id = ++_requestId.
IdOfMapSize == Cardinality(pending) + 1
IdNotIncremented == requestId
NextId == requestId + 1

\* The rest of sendToWorker.  A message to a worker that is gone is dropped.
Post(c) ==
    LET id == NextId IN
    /\ pc[c] = "posting"
    /\ pc' = [pc EXCEPT ![c] = "sent"]
    /\ requestId' = id
    /\ pending' = {p \in pending : p.id # id} \cup {[id |-> id, call |-> c]}
    /\ inbox' = IF thread[at[c]] \in {"up", "stopping"}
                THEN [inbox EXCEPT ![at[c]] = @ \cup {[id |-> id, call |-> c]}]
                ELSE inbox
    /\ UNCHANGED <<at, outcome, ctor, current, thread, outbox, crashes, destroys>>

(***************************************************************************)
(* Workers.  Async migrations may answer in another order than they came.  *)
(***************************************************************************)

\* A worker told to terminate may still finish what it was running.
Process(w) ==
    /\ thread[w] \in {"up", "stopping"}
    /\ \E m \in inbox[w] :
         /\ inbox' = [inbox EXCEPT ![w] = @ \ {m}]
         /\ outbox' = [outbox EXCEPT ![w] = @ \cup {m}]
    /\ UNCHANGED <<pc, at, outcome, ctor, current, requestId, pending, thread, crashes, destroys>>

\* An uncaught error: SES does not load, lockdown fails, out of memory.
Crash(w) ==
    /\ thread[w] = "up"
    /\ crashes < MaxCrashes
    /\ thread' = [thread EXCEPT ![w] = "crashed"]
    /\ crashes' = crashes + 1
    /\ UNCHANGED <<pc, at, outcome, ctor, current, requestId, pending, inbox, outbox, destroys>>

(***************************************************************************)
(* Events of workers, and destroySandboxWorker.                            *)
(***************************************************************************)

\* Promises are rejected and their entries cleared.
Reject(requests) ==
    /\ outcome' = [c \in Calls |-> IF \E p \in requests : p.call = c THEN Failed ELSE outcome[c]]
    /\ pending' = pending \ requests

\* 'message': an answer nobody waits for is ignored.
Deliver(w) ==
    /\ EventLoop
    /\ \E m \in outbox[w] :
         /\ outbox' = [outbox EXCEPT ![w] = @ \ {m}]
         /\ outcome' = [c \in Calls |-> IF [id |-> m.id, call |-> c] \in pending
                                        THEN m.call ELSE outcome[c]]
         /\ pending' = {p \in pending : p.id # m.id}
    /\ UNCHANGED <<pc, at, ctor, current, requestId, thread, inbox, crashes, destroys>>

\* What the end of a worker rejects: whatever is pending, its own or not.
RejectsIfCurrent(w) == IF current = w THEN pending ELSE {}
Rejects(w) == pending

\* _worker after the end of a worker, the current one or not.
StillCurrent(w) == current
WorkerAfter(w) == None

\* 'error'
ErrorEvent(w) ==
    /\ EventLoop
    /\ thread[w] = "crashed"
    /\ thread' = [thread EXCEPT ![w] = "exiting"]
    /\ Reject(Rejects(w))
    /\ current' = WorkerAfter(w)
    /\ UNCHANGED <<pc, at, ctor, requestId, inbox, outbox, crashes, destroys>>

\* 'exit', with any code
ExitEvent(w) ==
    /\ EventLoop
    /\ thread[w] \in {"exiting", "stopping"}
    /\ outbox[w] = {}                    \* the port is drained before 'exit'
    /\ thread' = [thread EXCEPT ![w] = "gone"]
    /\ inbox' = [inbox EXCEPT ![w] = {}]
    /\ Reject(Rejects(w))
    /\ current' = WorkerAfter(w)
    /\ UNCHANGED <<pc, at, ctor, requestId, outbox, crashes, destroys>>

\* destroySandboxWorker
Destroy ==
    /\ current # None
    /\ destroys < MaxDestroys
    /\ destroys' = destroys + 1
    /\ current' = None
    /\ Reject(pending)
    /\ thread' = [thread EXCEPT ![current] = IF @ = "up" THEN "stopping" ELSE @]
    /\ UNCHANGED <<pc, at, ctor, requestId, inbox, outbox, crashes>>

Next ==
    \/ Destroy
    \/ \E c \in Calls :
         \/ Call(c) \/ Import(c) \/ ImportFails(c) \/ Spawn(c) \/ Post(c)
         \/ Process(c) \/ Crash(c)
         \/ Deliver(c) \/ ErrorEvent(c) \/ ExitEvent(c)

Spec == Init /\ [][Next]_vars

\* Tasks run to their end, an import settles, workers answer what they were
\* sent and their events reach the host.  Nobody has to call or to destroy.
Fairness ==
    \A c \in Calls :
      /\ WF_vars(Import(c) \/ ImportFails(c))
      /\ WF_vars(Spawn(c))
      /\ WF_vars(Post(c))
      /\ WF_vars(Process(c))
      /\ WF_vars(Deliver(c))
      /\ WF_vars(ErrorEvent(c))
      /\ WF_vars(ExitEvent(c))

FairSpec == Spec /\ Fairness

(***************************************************************************)
(* Properties.                                                             *)
(***************************************************************************)

TypeOK ==
    /\ pc \in [Calls -> {"idle", "importing", "spawning", "posting", "sent"}]
    /\ at \in [Calls -> Calls \cup {None}]
    /\ outcome \in [Calls -> Calls \cup {None, Failed}]
    /\ ctor \in BOOLEAN
    /\ current \in Calls \cup {None}
    /\ requestId \in Nat
    /\ pending \subseteq Request
    /\ thread \in [Calls -> {"unborn", "up", "crashed", "stopping", "exiting", "gone"}]
    /\ inbox \in [Calls -> SUBSET Request]
    /\ outbox \in [Calls -> SUBSET Request]
    /\ crashes \in 0..MaxCrashes
    /\ destroys \in 0..MaxDestroys

\* A call resolves with the result of its own migration, although all workers
\* share one map of pending requests and a worker that was destroyed, or that
\* another first caller replaced, goes on answering.
AnswersMatch == \A c \in Calls : outcome[c] \in {None, Failed, c}

\* A request waits only on a worker that can still answer or whose exit is
\* still to come: no worker leaves the host while one of its requests hangs.
NobodyWaitsInVain ==
    \A p \in pending :
      \E w \in Calls :
        \/ p \in inbox[w] \cup outbox[w]
        \/ w = at[p.call] /\ thread[w] \in {"crashed", "stopping", "exiting"}

\* Every call that was made is answered or rejected, whatever worker it used
\* and however many first callers spawned workers of their own.
CallsSettle == \A c \in Calls : pc[c] # "idle" ~> outcome[c] # None

=============================================================================
