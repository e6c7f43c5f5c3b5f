---------------------------- MODULE MCClientRaces ----------------------------
(***************************************************************************)
(* The three ways a client writes, in one run: single calls with their      *)
(* migration write-backs (GraphClient), interactive transactions            *)
(* (Transactions) and batches (Batches).  They share no state here, so each *)
(* behaviour is of one of them: `machine` says which, the others rest in an *)
(* initial state.                                                           *)
(***************************************************************************)
EXTENDS GraphClient

CONSTANTS
  doc1, rolling, newest, body, tag,   \* model values
  Records,   \* the documents of transactions and batches
  Txs, TxWritesBack, MaxRevisions, MaxAttempts,   \* Transactions
  Kinds, MaxOps, MaxCommits   \* Batches

\* Two deployments at once, one of them still with the registry at version 1;
\* or one, where everybody runs the newest registry.
MCRolling == [c \in Clients |-> IF c = rolling THEN 1 ELSE 2]
MCUniform == [c \in Clients |-> MaxVersion]

\* Every chain completes.
MCAllChains == [c \in Clients |-> 0..MaxVersion]

VARIABLES
  machine,
  txStore, tx, updates,
  kind, batchStore, buffer, flights, commits, added, applied, refused, late, doubled

Tr == INSTANCE Transactions WITH
  Docs <- Records, WritesBack <- TxWritesBack, MaxWrites <- MaxRevisions, store <- txStore

Ba == INSTANCE Batches WITH Docs <- Records, store <- batchStore

trVars == <<txStore, tx, updates>>
baVars ==
  <<kind, batchStore, buffer, flights, commits, added, applied, refused, late, doubled>>

MCInit ==
  /\ machine \in {"client", "transactions", "batches"}
  /\ Init
  /\ Tr!Init
  /\ Ba!Init
  /\ machine # "transactions" => \A d \in Records : ~txStore[d].behind
  /\ machine # "batches" => kind = (CHOOSE k \in Kinds : TRUE) /\ batchStore = [d \in Records |-> 0]
  /\ machine # "client" => DOMAIN graph = {}

MCNext ==
  /\ UNCHANGED machine
  /\ \/ machine = "client" /\ Next /\ UNCHANGED <<trVars, baVars>>
     \/ machine = "transactions" /\ Tr!Next /\ UNCHANGED <<vars, baVars>>
     \/ machine = "batches" /\ Ba!Next /\ UNCHANGED <<vars, trVars>>

MCSpec == MCInit /\ [][MCNext]_<<machine, vars, trVars, baVars>>

\* No read-modify-write of a transaction is lost, though attempts are retried
\* and migrated reads are written back in it (Transactions).
NoUpdateLost == TypeOK /\ Tr!NoUpdateLost

\* Every operation added to a batch is stored or was sent by a rejected commit,
\* but for those added while SQLite's statements were on their way; none is
\* written twice in silence, but for those two commits had on their way (Batches).
BatchesAccount == Ba!BatchesAccount
=============================================================================
