\* Two transactions, a write and a batch on one connection; the indexes of a table.
SPECIFICATION MCSpec
CONSTANTS
  Txs = {t1, t2}
  Singles = {s1}
  Batches = {b1}
  Drivers = {"better-sqlite3", "node:sqlite"}
  MaxWrites = 2
  MaxCrashes = 1
  Docs = {"d", "e"}
  None = None
  Vectors = {"v", "w"}
  Malformed = "bad"
  Handles = {"h", "i"}
  MaxChanges = 3
  MaxDrops = 1
  Types = {"t", "o"}
  Values = {"v", "w"}
  Configs <- MCConfigs
  MaxRestarts = 2
  MaxCascades = 1
  Users = {"e", "f"}
  Uids = {"n", "m"}
  Names = {"n", "m", "t:n"}
  Strip <- MCStrip
  NodeTypes = {"t", "u"}
  MaxRequests = 3
INVARIANTS
  ConnectionReleased
  TransactionsAreAtomic
  BatchesStayWhole
  IndexesFollowRows
PROPERTIES
  SearchesRecover
  EditorWritesHold
CHECK_DEADLOCK FALSE
