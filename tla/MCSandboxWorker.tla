--------------------------- MODULE MCSandboxWorker ---------------------------
(***************************************************************************)
(* What outlives a call in the process that serves it: the migration       *)
(* worker (SandboxWorker), the registry of types defined at run time       *)
(* (DynamicRegistry) and, in the editor's server, the assistant processes  *)
(* of the chat (EditorChat) and the schema it answers with                 *)
(* (EditorSession).  Three calls let two first callers spawn a worker each *)
(* while a third posts to the one that replaced the other.  Each behaviour *)
(* is of one part; the others rest as they started.                        *)
(***************************************************************************)
EXTENDS SandboxWorker

CONSTANTS   \* DynamicRegistry
  NodeTypes, EdgeTypes, Static, Properties, Reloads, Limit, Leftover, MaxDefines, MaxFaults,
  LeftChains,  \* what is left of a definition's chain
  Tabs, MaxConcurrency, MaxTurns, MaxChunks, MaxMishaps,              \* EditorChat
  NodeNames, EdgeNames, FileNames, Tag, Refreshes, MaxStored, MaxViews \* EditorSession

VARIABLES
  part,
  meta, registry, reload, defines, faults,   \* DynamicRegistry
  tab, turn, active, count, mishaps,         \* EditorChat
  stored, call, served, views                \* EditorSession

Types == INSTANCE DynamicRegistry

\* Two names may be sanitised to one tag.
MCTag == [n \in {"a-b", "a_b", "e"} |-> IF n = "e" THEN "e" ELSE "ab"]

typeVars == <<meta, registry, reload, defines, faults>>

Chat == INSTANCE EditorChat WITH MaxFaults <- MaxMishaps, faults <- mishaps

chatVars == <<tab, turn, active, count, mishaps>>

Session == INSTANCE EditorSession WITH Reloads <- Refreshes, MaxDefines <- MaxStored

ASSUME ServerAssumption == Chat!ChatAssumption /\ Session!SessionAssumption

sessionVars == <<stored, call, served, views>>

MCInit ==
  /\ part \in {"sandbox", "types", "chat", "session"}
  /\ Init /\ Types!Init /\ Chat!Init /\ Session!Init
  /\ \A n \in Types!Types :
       Types!Seen(n) => part = "types" /\ meta[n].chain \in LeftChains

MCNext ==
  /\ UNCHANGED part
  /\ \/ part = "sandbox" /\ Next /\ UNCHANGED <<typeVars, chatVars, sessionVars>>
     \/ part = "types" /\ Types!Next /\ UNCHANGED <<vars, chatVars, sessionVars>>
     \/ part = "chat" /\ Chat!Next /\ UNCHANGED <<vars, typeVars, sessionVars>>
     \/ part = "session" /\ Session!Next /\ UNCHANGED <<vars, typeVars, chatVars>>

\* The fairness of each module, asked where its part moves.
MCFairness ==
  /\ \A c \in Calls :
       /\ WF_vars(part = "sandbox" /\ (Import(c) \/ ImportFails(c)))
       /\ WF_vars(part = "sandbox" /\ Spawn(c))
       /\ WF_vars(part = "sandbox" /\ Post(c))
       /\ WF_vars(part = "sandbox" /\ Process(c))
       /\ WF_vars(part = "sandbox" /\ Deliver(c))
       /\ WF_vars(part = "sandbox" /\ ErrorEvent(c))
       /\ WF_vars(part = "sandbox" /\ ExitEvent(c))
  /\ \A r \in Reloads :
       /\ WF_typeVars(part = "types" /\ Types!Start(r))
       /\ WF_typeVars(part = "types" /\ Types!Steps(r))
  /\ \A r \in 1 .. MaxTurns :
       /\ WF_chatVars(part = "chat" /\ r \in Chat!Turns /\ Chat!Serve(r))
       /\ WF_chatVars(part = "chat" /\ r \in Chat!Turns /\ Chat!Read(r))
       /\ WF_chatVars(part = "chat" /\ r \in Chat!Turns /\ Chat!TimeOut(r))

MCSpec ==
  MCInit /\ [][MCNext]_<<part, vars, typeVars, chatVars, sessionVars>> /\ MCFairness

\* A registry serves valid chains only, and static types are judged by the
\* static registry, whatever was stored and reloaded (DynamicRegistry).
ServedTypesAreSound == part = "types" => Types!ServedTypesAreSound

\* A reload installs nothing older than what was acknowledged before it
\* (DynamicRegistry).
ReloadSeesAcknowledged == Types!ReloadSeesAcknowledged

\* Calls settle, and a host that keeps reloading ends with the newest types;
\* the editor's server gives every prompt an end and every slot back
\* (SandboxWorker, DynamicRegistry, EditorChat).
CallsSettleAndTypesConverge ==
  /\ part = "sandbox" => CallsSettle
  /\ part = "types" => Types!Converges
  /\ part = "chat" => Chat!PromptsSettle /\ Chat!SlotsComeBack

\* The editor's server counts the processes it runs, shows whole answers and
\* resumes what they remember; types of the files win, and a reload serves
\* what was stored before it (EditorChat, EditorSession).
EditorServerHolds ==
  /\ [](part = "chat" => /\ Chat!TypeOK /\ Chat!SlotsAreKept
                         /\ Chat!AnswersAreWhole /\ Chat!AnswersAreRemembered)
  /\ [](part = "session" => Session!TypeOK /\ Session!FilesWin)
  /\ Session!ReloadIsFresh
=============================================================================
