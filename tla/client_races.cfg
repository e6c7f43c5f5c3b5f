\* Clients race write-backs, two transactions contend, a batch is committed twice.
SPECIFICATION MCSpec
CONSTANTS
  doc1 = doc1
  rolling = rolling
  newest = newest
  body = body
  tag = tag
  Records = {"d", "e"}
  Txs = {"t", "u"}
  TxWritesBack = TRUE
  MaxRevisions = 2
  MaxAttempts = 2
  Kinds = {"firestore", "sqlite", "object"}
  MaxOps = 3
  MaxCommits = 2
  Docs = {doc1}
  Clients = {rolling, newest}
  Fields = {body}
  Required = {body}
  Version <- MCRolling
  WritesBack = {rolling, newest}
  Migratable <- MCAllChains
  MaxVersion = 2
  MaxWrites = 3
INVARIANT NoUpdateLost
PROPERTIES
  OnlyWritesDecideExistence
  WriteBackKeepsContent
  WriteBackKeepsReads
  BatchesAccount
CHECK_DEADLOCK FALSE
