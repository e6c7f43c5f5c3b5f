\* One deployment merges puts into records an earlier one left.
SPECIFICATION MCSpec
CONSTANTS
  doc1 = doc1
  rolling = rolling
  newest = newest
  body = body
  tag = tag
  Records = {"d", "e"}
  Txs = {"t", "u"}
  TxWritesBack = TRUE
  MaxRevisions = 2
  MaxAttempts = 2
  Kinds = {"firestore", "sqlite", "object"}
  MaxOps = 3
  MaxCommits = 2
  Docs = {doc1}
  Clients = {rolling}
  Fields = {body, tag}
  Required = {body}
  Version <- MCUniform
  WritesBack = {rolling}
  Migratable <- MCAllChains
  MaxVersion = 2
  MaxWrites = 1
INVARIANT ReadsAreCurrent
CHECK_DEADLOCK FALSE
