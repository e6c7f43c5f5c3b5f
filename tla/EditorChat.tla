------------------------------ MODULE EditorChat ------------------------------
(***************************************************************************)
(* The editor's chat: browser tabs that send prompts (ChatProvider and      *)
(* ChatClient), a server that runs one assistant process per prompt under a *)
(* limit, and the event stream between them.                                *)
(*                                                                          *)
(* A prompt is a POST, answered with a request id once the process has been *)
(* spawned, and then a GET that opens the stream.  The process speaks       *)
(* meanwhile: an event goes to the connections open at that moment and      *)
(* nowhere else.  A turn is one prompt with all that belongs to it.         *)
(***************************************************************************)
EXTENDS Integers, FiniteSets, Sequences

CONSTANTS
    Tabs,           \* browser tabs; each has its own history and session
    MaxConcurrency, \* assistant processes the server admits at a time
    MaxTurns,       \* bound: prompts sent in a behaviour
    MaxChunks,      \* bound: chunks of text one process prints
    MaxFaults       \* bound: page reloads and cleared histories

ChatAssumption ==
    MaxConcurrency \in Nat /\ MaxTurns \in Nat /\ MaxChunks \in Nat /\ MaxFaults \in Nat

VARIABLES
    tab,     \* Tabs -> [turn, session, history]
    turn,    \* the turns so far, a sequence of records
    active,  \* activeProcesses: the turns in the server's map
    count,   \* activeCount
    faults   \* page reloads and cleared histories so far

chatVars == <<tab, turn, active, count, faults>>

Turns == 1 .. Len(turn)

(* The states of a turn as its tab sees them, and those of its process.     *)
Phases == {"posted", "opening", "reading", "answered", "failed", "abandoned"}
Processes == {"unborn", "running", "closed"}
Streams == {"unopened", "open", "ended", "dropped", "closed"}

(* What the stream carries: text by the number of its chunk, and the marks. *)
Chunk(n) == [event |-> "chunk", n |-> n]
Mark(name) == [event |-> name, n |-> 0]
Events == {Chunk(n) : n \in 1 .. MaxChunks}
            \cup {Mark(name) : name \in {"session", "error", "done"}}

NewTurn(t) ==
    [tab |-> t, resumes |-> tab[t].session, phase |-> "posted",
     process |-> "unborn", signalled |-> FALSE, named |-> FALSE, said |-> 0,
     stream |-> "unopened", from |-> 0, queue |-> <<>>,
     text |-> <<>>, learned |-> FALSE]

TypeOK ==
    /\ tab \in [Tabs -> [turn : 0 .. MaxTurns, session : 0 .. MaxTurns,
                         history : SUBSET (1 .. MaxTurns)]]
    /\ Len(turn) <= MaxTurns
    /\ \A r \in Turns :
          /\ turn[r].tab \in Tabs
          /\ turn[r].resumes \in 0 .. MaxTurns
          /\ turn[r].phase \in Phases
          /\ turn[r].process \in Processes
          /\ turn[r].stream \in Streams
          /\ turn[r].said \in 0 .. MaxChunks
          /\ \A i \in DOMAIN turn[r].queue : turn[r].queue[i] \in Events
    /\ active \subseteq Turns
    /\ count \in Int
    /\ faults \in 0 .. MaxFaults

Init ==
    /\ tab = [t \in Tabs |-> [turn |-> 0, session |-> 0, history |-> {}]]
    /\ turn = <<>>
    /\ active = {}
    /\ count = 0
    /\ faults = 0

----------------------------------------------------------------------------
(* The server's map of processes.                                           *)

(* broadcastSse: only a request still in the map has connections to reach,  *)
(* and a response already ended takes nothing.                              *)
Broadcast(r, event) ==
    IF r \in active /\ turn[r].stream = "open"
    THEN Append(turn[r].queue, event)
    ELSE turn[r].queue

(* Mutant: the slot is given back by each of those that clean up.           *)
CleanupEveryTime(r) ==
    /\ active' = active \ {r}
    /\ count' = count - 1

(* cleanup: whichever of close, error, timeout and disconnect comes first   *)
(* takes the request out of the map and gives its slot back.                *)
Cleanup(r) ==
    /\ active' = active \ {r}
    /\ count' = IF r \in active THEN count - 1 ELSE count

(* sendMessage's finally: isStreaming is over in the tab.                   *)
Settle(r) == tab' = [tab EXCEPT ![turn[r].tab].turn = 0]

(* POST /api/chat beyond the limit: 429, and the tab shows the error.       *)
Refuse(r) ==
    /\ turn[r].phase = "posted"
    /\ count >= MaxConcurrency
    /\ turn' = [turn EXCEPT ![r].phase = "failed"]
    /\ Settle(r)
    /\ UNCHANGED <<active, count, faults>>

(* Mutant: the comparison of the POST handler, off by one.                  *)
HasOneMore == count <= MaxConcurrency

(* POST /api/chat: the process is spawned before the reply leaves.  A tab   *)
(* that was reloaded meanwhile never learns the request's id.               *)
HasSlot == count < MaxConcurrency

SpawnChat(r) ==
    /\ turn[r].phase \in {"posted", "abandoned"}
    /\ turn[r].process = "unborn"
    /\ HasSlot
    /\ turn' = [turn EXCEPT ![r].process = "running",
                            ![r].phase = IF @ = "posted" THEN "opening" ELSE @]
    /\ active' = active \cup {r}
    /\ count' = count + 1
    /\ UNCHANGED <<tab, faults>>

(* proc.on('error'): the program could not be started.  It says so before   *)
(* any connection can be open; 'close' follows and finds nothing to do.     *)
FailToStart(r) ==
    /\ turn[r].process = "running"
    /\ turn[r].said = 0 /\ ~turn[r].named
    /\ turn[r].stream = "unopened"
    /\ turn' = [turn EXCEPT ![r].process = "closed"]
    /\ Cleanup(r)
    /\ UNCHANGED <<tab, faults>>

(* proc.stdout.on('data'): first the session, then the text.  What a process *)
(* out of the map still says reaches nobody and is left out.                *)
Name(r) ==
    /\ r \in active /\ ~turn[r].named
    /\ turn' = [turn EXCEPT ![r].named = TRUE,
                            ![r].queue = Broadcast(r, Mark("session"))]
    /\ UNCHANGED <<tab, active, count, faults>>

Speak(r) ==
    /\ r \in active /\ turn[r].named
    /\ turn[r].said < MaxChunks
    /\ turn' = [turn EXCEPT ![r].said = @ + 1,
                            ![r].queue = Broadcast(r, Chunk(turn[r].said + 1))]
    /\ UNCHANGED <<tab, active, count, faults>>

(* proc.on('close'): an exit code with words on stderr is an error; then    *)
(* the stream is over, for the connections of this process in any case.     *)
LastWords(r, failed) ==
    IF r \in active /\ turn[r].stream = "open"
    THEN turn[r].queue \o (IF failed THEN <<Mark("error")>> ELSE <<>>)
                       \o <<Mark("done")>>
    ELSE turn[r].queue

CloseProcess(r, failed) ==
    /\ turn[r].process = "running"
    /\ turn' = [turn EXCEPT ![r].process = "closed",
                            ![r].queue = LastWords(r, failed),
                            ![r].stream = IF @ = "open" THEN "ended" ELSE @]
    /\ Cleanup(r)
    /\ UNCHANGED <<tab, faults>>

(* Mutant: the time is up and nobody is told.                               *)
TimeOutSilently(r) ==
    /\ r \in active
    /\ turn' = [turn EXCEPT ![r].signalled = TRUE]
    /\ Cleanup(r)
    /\ UNCHANGED <<tab, faults>>

(* The timer of spawnChat: 120 seconds after the start.                     *)
TimeOut(r) ==
    /\ r \in active
    /\ turn' = [turn EXCEPT ![r].signalled = TRUE,
                            ![r].queue = Broadcast(r, Mark("error"))]
    /\ Cleanup(r)
    /\ UNCHANGED <<tab, faults>>

----------------------------------------------------------------------------
(* The stream.                                                              *)

(* GET /api/chat/stream: a request that is over by now is not found.        *)
OpenStream(r) ==
    /\ turn[r].phase = "opening"
    /\ r \in active
    /\ turn' = [turn EXCEPT ![r].phase = "reading", ![r].stream = "open",
                            ![r].from = turn[r].said]
    /\ UNCHANGED <<tab, active, count, faults>>

StreamNotFound(r) ==
    /\ turn[r].phase = "opening"
    /\ r \notin active
    /\ turn' = [turn EXCEPT ![r].phase = "failed"]
    /\ Settle(r)
    /\ UNCHANGED <<active, count, faults>>

(* req.on('close'): the last listener has left; a process that has not been *)
(* signalled yet is, and its slot is free at once.                          *)
NoticeDisconnect(r) ==
    /\ turn[r].stream = "dropped"
    /\ turn' = [turn EXCEPT ![r].stream = "closed",
                            ![r].signalled = @ \/ turn[r].process = "running"]
    /\ IF turn[r].signalled THEN UNCHANGED <<active, count>> ELSE Cleanup(r)
    /\ UNCHANGED <<tab, faults>>

(* ChatRequestHandle.stream: one event is read and put in its own message.  *)
ReadChunk(r) ==
    /\ turn[r].phase = "reading" /\ turn[r].queue # <<>>
    /\ LET event == Head(turn[r].queue) IN
       /\ event.event \in {"chunk", "session"}
       /\ turn' = [turn EXCEPT
             ![r].queue = Tail(@),
             ![r].text = IF event.event = "chunk" THEN Append(@, event.n) ELSE @,
             ![r].learned = @ \/ event.event = "session"]
    /\ UNCHANGED <<tab, active, count, faults>>

(* 'error' throws: the message becomes the error, the session is lost.      *)
ReadError(r) ==
    /\ turn[r].phase = "reading" /\ turn[r].queue # <<>>
    /\ Head(turn[r].queue).event = "error"
    /\ turn' = [turn EXCEPT ![r].phase = "failed", ![r].text = <<>>,
                            ![r].from = 0, ![r].learned = FALSE, ![r].queue = <<>>, ![r].stream = "dropped"]
    /\ Settle(r)
    /\ UNCHANGED <<active, count, faults>>

(* Mutants: the session is lost when a turn did not name it; the end of the  *)
(* stream is taken for the end of the answer with events still unread.      *)
ForgottenSession(r) == IF turn[r].learned THEN r ELSE 0
AnsweredEarly(r) ==
    \/ turn[r].queue # <<>> /\ Head(turn[r].queue).event = "done"
    \/ turn[r].stream = "ended"

(* 'done', or the end of the stream: the session the process named, if its  *)
(* name was heard, is the one the tab resumes next.                         *)
Answered(r) ==
    \/ turn[r].queue # <<>> /\ Head(turn[r].queue).event = "done"
    \/ turn[r].queue = <<>> /\ turn[r].stream = "ended"

NextSession(r) == IF turn[r].learned THEN r ELSE tab[turn[r].tab].session

ReadDone(r) ==
    /\ turn[r].phase = "reading"
    /\ Answered(r)
    /\ turn' = [turn EXCEPT ![r].phase = "answered", ![r].queue = <<>>,
                            ![r].stream = "dropped"]
    /\ tab' = [tab EXCEPT ![turn[r].tab].turn = 0,
                          ![turn[r].tab].session = NextSession(r)]
    /\ UNCHANGED <<active, count, faults>>

----------------------------------------------------------------------------
(* What a user does.                                                        *)

(* sendMessage: one at a time per tab (isStreaming), resuming its session.  *)
SendMessage(t) ==
    /\ tab[t].turn = 0
    /\ Len(turn) < MaxTurns
    /\ turn' = Append(turn, NewTurn(t))
    /\ tab' = [tab EXCEPT ![t].turn = Len(turn) + 1,
                          ![t].history = @ \cup {Len(turn) + 1}]
    /\ UNCHANGED <<active, count, faults>>

(* clearHistory, which nothing stops while an answer streams in.            *)
ClearHistory(t) ==
    /\ faults < MaxFaults
    /\ tab[t].history # {}
    /\ tab' = [tab EXCEPT ![t].history = {}, ![t].session = 0]
    /\ faults' = faults + 1
    /\ UNCHANGED <<turn, active, count>>

(* The page is reloaded: history and session come back from sessionStorage, *)
(* the fetch in flight is dropped.                                          *)
ReloadPage(t) ==
    /\ faults < MaxFaults
    /\ tab[t].turn # 0
    /\ turn' = [turn EXCEPT ![tab[t].turn].phase = "abandoned",
                            ![tab[t].turn].queue = <<>>, ![tab[t].turn].text = <<>>,
                            ![tab[t].turn].from = 0, ![tab[t].turn].learned = FALSE,
                            ![tab[t].turn].stream =
                                IF @ \in {"open", "ended"} THEN "dropped" ELSE @]
    /\ tab' = [tab EXCEPT ![t].turn = 0]
    /\ faults' = faults + 1
    /\ UNCHANGED <<active, count>>

----------------------------------------------------------------------------
Next ==
    \/ \E t \in Tabs : SendMessage(t) \/ ClearHistory(t) \/ ReloadPage(t)
    \/ \E r \in Turns :
          \/ Refuse(r) \/ SpawnChat(r) \/ FailToStart(r)
          \/ Name(r) \/ Speak(r) \/ TimeOut(r)
          \/ \E failed \in BOOLEAN : CloseProcess(r, failed)
          \/ OpenStream(r) \/ StreamNotFound(r) \/ NoticeDisconnect(r)
          \/ ReadChunk(r) \/ ReadError(r) \/ ReadDone(r)

(* The server answers, the timer fires, a tab reads on.  Nothing is asked   *)
(* of the process: it may hang for ever, and it need not heed the signal.   *)
Serve(r) == Refuse(r) \/ SpawnChat(r) \/ OpenStream(r) \/ StreamNotFound(r)
Read(r) == ReadChunk(r) \/ ReadError(r) \/ ReadDone(r)

Spec ==
    /\ Init /\ [][Next]_chatVars
    /\ \A r \in 1 .. MaxTurns :
          /\ WF_chatVars(r \in Turns /\ Serve(r))
          /\ WF_chatVars(r \in Turns /\ Read(r))
          /\ WF_chatVars(r \in Turns /\ TimeOut(r))

----------------------------------------------------------------------------
(* The processes the server counts are those that run and have not been     *)
(* told to stop, and never more than the limit, although close, error,      *)
(* timeout and disconnect all clean up after the same one.                  *)
SlotsAreKept ==
    /\ active = {r \in Turns : turn[r].process = "running" /\ ~turn[r].signalled}
    /\ count = Cardinality(active)
    /\ count <= MaxConcurrency

(* An answer is what its own process said from the moment the stream was    *)
(* open: nothing twice, nothing out of order, nothing of another turn; and  *)
(* an answer shown as complete ends where the process ended.                *)
AnswersAreWhole ==
    \A r \in Turns :
        /\ \A i \in DOMAIN turn[r].text : turn[r].text[i] = turn[r].from + i
        /\ turn[r].phase = "answered" =>
              turn[r].process = "closed" /\ turn[r].from + Len(turn[r].text) = turn[r].said

(* The turns a session has in its memory.                                   *)
RemembersOf[r \in 0 .. MaxTurns] ==
    IF r = 0 \/ r > Len(turn) THEN {}
    ELSE {r} \cup RemembersOf[turn[r].resumes]

(* What the tab will resume remembers every answer it shows, but those      *)
(* whose session was named before the stream was open.                      *)
AnswersAreRemembered ==
    \A t \in Tabs : \A r \in tab[t].history :
        turn[r].phase = "answered" /\ turn[r].learned =>
            r \in RemembersOf[tab[t].session]

(* No tab shows a prompt as pending for ever, whatever its process does.    *)
PromptsSettle == \A t \in Tabs : []<>(tab[t].turn = 0)

(* Nor does a slot stay taken, even by a prompt whose tab is gone.          *)
SlotsComeBack == \A r \in 1 .. MaxTurns : []<>(r \notin active)

----------------------------------------------------------------------------
(* What does not hold.                                                      *)

(* A cleared conversation is gone: an answer that was streaming in puts its *)
(* session back, and with it all the session remembers.                     *)
ClearedIsForgotten ==
    \A t \in Tabs :
        tab[t].turn = 0 => RemembersOf[tab[t].session] \subseteq tab[t].history

(* Every answer shown is complete from its first word.                      *)
AnswersAreComplete ==
    \A r \in Turns : turn[r].phase = "answered" => turn[r].from = 0

(* No more processes run than the limit: one that was told to stop still    *)
(* runs until it does.                                                      *)
ProcessesAreLimited ==
    Cardinality({r \in Turns : turn[r].process = "running"}) <= MaxConcurrency
=============================================================================
