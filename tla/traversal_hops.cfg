\* Four hops with budgets and concurrencies that run out, and a failing read.
SPECIFICATION MCSpec
CONSTANTS
  Absent = Absent
  Uids <- MCUids
  Readers <- MCReaders
  Root = "root"
  Start = "a"
  Sub <- MCSub
  CanSubgraph = TRUE
  Backends <- MCBackends
  Hops <- MCHops
  Budgets = {0, 1, 2, 4, 5, 6, 7, 8, 9}
  Slots = {1, 2, 4}
  MaxFailures = 1
  Nodes = {"a", "b", "c"}
  Relations = {"r"}
  TypeOf <- MCTypeOf
  Rank <- MCRank
  ChunkSize = 2
  MaxDepth = 3
  MaxReads = {1, 2, 4}
  Limits = {1, 2}
  AnyType = "any"
  Sources <- MCSources
  Walks <- MCWalks
  MaxRows = 3
  Schemas <- MCSchemas
  First = "a"
  Routes <- MCRoutes
  Allowances = {0, 1, 2, 3}
  BatchSizes = {1, 2}
  MaxEdges = 4
  Paths <- MCPaths
  MaxIds = 3
  MaxFrames = 3
  Values = {1, 2}
  PageLimit = 1
  Tables <- MCTables
  MaxClicks = 4
  MaxWrites = 1
  Frameworks = {"react", "svelte"}
  Contents = {"one", "two"}
  MaxElements = 2
  MaxChanges = 5
  MaxFaults = 1
INVARIANTS
  BudgetKept
  TraversalSound
  ExpandsAgree
  WalksAgree
PROPERTIES
  RunsFinish
  EditorViewsHold
CHECK_DEADLOCK FALSE
